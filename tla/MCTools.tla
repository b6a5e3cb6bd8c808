------------------------------- MODULE MCTools -------------------------------
(* The two tools that act on the machine they run on.  bound: the command   *)
(* and two more processes, a tree with room for two, every exit, fork and   *)
(* signal at every moment.  The deletion guard: every path and flag, twice, *)
(* in a temp root, in and above a temp root in a temp root, above the home, *)
(* in a repository with links and a .git file below out/, and where someone *)
(* makes a file or a .git in the meantime.                                  *)
(* They share no state, so one of them moves in a behaviour.                *)
EXTENDS Bound, SafeDel, TLC

VARIABLE focus

toolvars == <<boundvars, fsvars, focus>>

\* Plain directories of one file system, but for what is said of a site.
Plain(w) ==
    [tree |-> w, kind |-> [n \in DOMAIN w |-> "dir"],
     name |-> [n \in DOMAIN w |-> CASE n \in {"trash", "trash2"} -> "trash" [] n = "out" -> "out"
                                       [] n \in {"git", "git2"} -> "git" [] OTHER -> "other"],
     dev |-> [n \in DOMAIN w |-> 1], dest |-> [n \in DOMAIN w |-> None],
     home |-> "home", cwd |-> "home", tmps |-> {"tmp"}, bins |-> {"trash"},
     stamps |-> {"s1", "s2"}, news |-> {}, paths |-> {}, lists |-> {}, trashes |-> {},
     caps |-> {3}, hours |-> 1, calls |-> 2]

Common == "/" :> None @@ "home" :> "/" @@ "tmp" :> "/" @@ "trash" :> None @@ "trash2" :> None
          @@ "s1" :> None @@ "s2" :> None

Temp ==
    [Plain(Common @@ "d" :> "tmp" @@ "e" :> "d" @@ "f" :> "e" @@ "g" :> "tmp") EXCEPT
        !.kind["f"] = "file", !.kind["g"] = "file",
        !.paths = {"tmp", "d", "e", "g", "trash"}, !.lists = {<<"d", "e">>, <<"g", "trash">>},
        !.trashes = {"tmp", "d"}, !.caps = {2, 3}]
\* Two entries of a trash that are one too many together.
TwoExpired == [Temp EXCEPT !.paths = {}, !.lists = {<<"e", "g">>}, !.trashes = {"tmp"}, !.caps = {3}]

TempInTemp == [Temp EXCEPT !.tmps = {"tmp", "d"}, !.bins = {"trash", "trash2"}, !.caps = {3}]
TempBelow == [TempInTemp EXCEPT !.tmps = {"tmp", "e"}]
HomeInTemp == [TempInTemp EXCEPT !.home = "e"]

Repository ==
    [Plain(Common @@ "repo" :> "home" @@ "git" :> "repo" @@ "f" :> "repo" @@ "out" :> "repo"
           @@ "d" :> "out" @@ "g" :> "d" @@ "e" :> "d" @@ "git2" :> "e" @@ "x" :> "out"
           @@ "link" :> "out") EXCEPT
        !.kind["f"] = "file", !.kind["g"] = "file", !.kind["git2"] = "file", !.kind["link"] = "link",
        !.dest["link"] = "repo", !.dev["x"] = 2, !.cwd = "repo",
        !.paths = {"/", "home", "tmp", "trash", "repo", "git", "f", "out", "d", "g", "e", "git2", "x", "link"},
        !.trashes = {"repo", "out"}]

Busy ==
    [Plain(Common @@ "d" :> "tmp" @@ "e" :> "d" @@ "f" :> "d" @@ "new" :> None) EXCEPT
        !.kind["f"] = "file", !.stamps = {"s1"}, !.news = {"new"}, !.paths = {"d", "e"},
        !.lists = {<<"e", "e">>}, !.trashes = {"tmp"}]
BusyGit == [Busy EXCEPT !.name["new"] = "git"]

MCSites == <<Temp, TwoExpired, TempInTemp, TempBelow, HomeInTemp, Repository, Busy, BusyGit>>

\* A file of a temp root, and the trash of it.
MCTrashSites == <<[Temp EXCEPT !.lists = {<<"g", "trash">>}]>>

MCInit ==
    /\ focus \in {"bound", "guard"}
    /\ BoundInit /\ SafeDelInit
    /\ focus = "bound" => site = 1

MCNext ==
    /\ UNCHANGED focus
    /\ \/ focus = "bound" /\ BoundNext /\ UNCHANGED fsvars
       \/ focus = "guard" /\ SafeDelNext /\ UNCHANGED boundvars

\* The fairness of BoundSpec.
MCSpec ==
    /\ MCInit /\ [][MCNext]_toolvars
    /\ WF_boundvars(focus = "bound" /\ BoundStep) /\ WF_boundvars(focus = "bound" /\ Tick)

\* BoundEnds of the behaviours in which bound runs: "A deadline cannot be
\* missed because nothing blocks without a timeout".
CommandBounded == focus = "bound" => BoundEnds
=============================================================================
