------------------------------ MODULE SafeDel -------------------------------
(* The deletion guard (include/unisa_safedel.h), and the two commands of     *)
(* tools/safedel.cx that use it, over a tree of files, directories and      *)
(* symbolic links in which someone else makes files in the meantime.  A     *)
(* path is the nodes from a node up to the root; what is refused for its    *)
(* spelling (an empty path, one that ends in a dot) does not get here.  The *)
(* checks of a call are one step, its removals are one step each.           *)
EXTENDS Integers, Sequences, FiniteSets, Functions

CONSTANTS Root, None,
          SafedelDepth,  \* SAFEDEL_DEPTH
          Sites          \* trees, and what is asked of the guard in them; see Site

\* A way up leads through directories and ends, at the root for what is there.
IsTree(w, kind) ==
    /\ w \in [DOMAIN w -> DOMAIN w \union {None}] /\ w[Root] = None
    /\ \A n \in DOMAIN w : w[n] # None => kind[w[n]] = "dir" /\ (w[n] = Root \/ w[w[n]] # None)
    /\ \A s \in SUBSET DOMAIN w : s # {} => \E n \in s : w[n] \notin s

ASSUME SafeDelAssumption ==
    /\ SafedelDepth \in Nat
    /\ \A i \in DOMAIN Sites :
           LET s == Sites[i]
               nodes == DOMAIN s.tree
           IN
           /\ IsFiniteSet(nodes) /\ Root \in nodes /\ None \notin nodes
           /\ IsTree(s.tree, s.kind)
           /\ s.stamps \intersect s.bins = {} /\ s.news \intersect (s.stamps \union s.bins) = {}
           /\ \A n \in s.stamps \union s.bins \union s.news : n \in nodes \ {Root} /\ s.tree[n] = None
           /\ \A n \in s.stamps : s.kind[n] = "dir"
           /\ \A n \in s.bins : s.name[n] = "trash"
           /\ s.home \in nodes /\ s.cwd \in nodes /\ s.tmps \subseteq nodes
           /\ s.paths \subseteq nodes /\ s.lists \subseteq Seq(nodes) /\ s.trashes \subseteq nodes
           /\ s.caps \subseteq Nat

VARIABLES where,    \* where[n]: the directory that holds n, or None
          born,     \* born[n]: the hour in the name of a trash entry, or its mtime
          clock,
          queue,    \* the runs of the guard to be made; the first is under way unless idle
          doing,    \* "idle", "purge" or "trash"
          home,     \* of the run: where its trash is
          frames,   \* the directories a purge is in, and which of the names read are left
          asked,    \* the command: the tree it began with, its ceiling (history)
          before,   \* the tree the run began with (history)
          answer,   \* of the last run: its target and "ok", "refused" or "failed"
          touched,  \* someone made a file while the command was under way (history)
          calls,
          made,     \* the files someone made (each once, a bound of the model)
          site      \* a behaviour works in one site

\* The tree at first with the nodes that may come (in None), their kind, name
\* and device, what a link leads to, the home and the cwd, the configured temp
\* roots, nodes (bins) for a .trash that is made, for trash entries and for
\* what others make; then the paths given to the commands, the ceilings, the
\* HOURS and the number of calls.
Site == Sites[site]

runvars == <<queue, doing, home, frames, asked, before, answer>>
fsvars == <<where, born, clock, runvars, touched, calls, made, site>>

SafeDelInit ==
    /\ site \in DOMAIN Sites
    /\ where = Site.tree
    /\ born = [n \in DOMAIN Site.tree |-> 0]
    /\ clock = 0
    /\ queue = <<>> /\ doing = "idle" /\ home = None /\ frames = <<>>
    /\ asked = [start |-> Site.tree, budget |-> 0, expired |-> FALSE]
    /\ before = Site.tree
    /\ answer = [rc |-> "ok", node |-> None, path |-> <<>>]
    /\ touched = FALSE
    /\ calls = 0 /\ made = {}

-----------------------------------------------------------------------------
(* Paths.                                                                   *)

Path(w, n) ==
    LET up[m \in DOMAIN w \union {None}] == IF m = None THEN <<>> ELSE <<m>> \o up[w[m]]
    IN up[n]

\* n and the directories it is in.
Above(w, n) == LET p == Path(w, n) IN {p[i] : i \in DOMAIN p}
Tree(w, n) == {m \in DOMAIN w : n \in Above(w, m)}
In(w, d) == {n \in DOMAIN w : w[n] = d}
IsDir(n) == Site.kind[n] = "dir"

\* lstat of n/.git, through n if it is a link.
HasGit(w, n) ==
    LET d == IF Site.kind[n] = "link" THEN Site.dest[n] ELSE n
    IN \E c \in In(w, d) : Site.name[c] = "git"

\* Of directories one in another.
Deepest(w, r) == CHOOSE d \in r : r \subseteq Above(w, d)

\* The nearest of n and the directories it is in with a .git entry.
Repo(w, n) ==
    LET r == {d \in Above(w, n) : HasGit(w, d)}
    IN IF r = {} THEN None ELSE Deepest(w, r)

-----------------------------------------------------------------------------
(* The checks.                                                              *)

TempRoots(w) == {t \in Site.tmps : t # Root /\ t \notin Above(w, Site.home)}

\* An ancestor of the repository of the cwd is one of the cwd.
OnRefusalList(w, n) ==
    \/ n = Root
    \/ n \in Above(w, Site.home) \union Above(w, Site.cwd)
    \/ \E a \in Above(w, n) : Site.name[a] = "git"

\* Mutant: a temp root in the other, or a directory above it, may go.
WhitelistedOnce(w, n, dest) ==
    LET r == Repo(w, n) IN
    IF r # None
       THEN \E a \in Above(w, n) \ {n} : w[a] = r /\ Site.name[a] \in {"out", "trash"}
       ELSE dest \/ TempRoots(w) \intersect (Above(w, n) \ {n}) # {}

Whitelisted(w, n, dest) ==
    LET r == Repo(w, n) IN
    IF r # None
       THEN \E a \in Above(w, n) \ {n} : w[a] = r /\ Site.name[a] \in {"out", "trash"}
       ELSE \/ dest
            \/ /\ \A t \in TempRoots(w) : n \notin Above(w, t)
               /\ TempRoots(w) \intersect Above(w, n) # {}

policy(w, n, dest) == ~OnRefusalList(w, n) /\ Whitelisted(w, n, dest)

\* Where the trash for n is: its repository, or the deeper temp root.
TrashHome(w, n) ==
    IF Repo(w, n) # None THEN Repo(w, n) ELSE Deepest(w, TempRoots(w) \intersect Above(w, n))

\* HOME/.trash, or what it can be made as.
trashdir(w, h) ==
    LET there == {t \in In(w, h) : Site.name[t] = "trash"}
    IN IF there # {} THEN there ELSE {t \in Site.bins : w[t] = None}

check(w, n) ==
    /\ policy(w, n, FALSE)
    /\ Site.kind[n] = "link" => policy(w, Site.dest[n], TRUE)

Depth(w, n, m) == Len(Path(w, m)) - Len(Path(w, n))

\* Mutant: the walk does not look at names.
WalkThroughGit(w, n, cap) ==
    /\ Cardinality(Tree(w, n)) <= cap
    /\ \A m \in Tree(w, n) \ {n} : Site.dev[m] = Site.dev[n]
    /\ \A m \in Tree(w, n) : IsDir(m) => Depth(w, n, m) < SafedelDepth

walk(w, n, cap) ==
    /\ Cardinality(Tree(w, n)) <= cap
    /\ \A m \in Tree(w, n) \ {n} : Site.name[m] # "git" /\ Site.dev[m] = Site.dev[n]
    /\ \A m \in Tree(w, n) : IsDir(m) => Depth(w, n, m) < SafedelDepth

\* All that a dry run looks at.
Allowed(w, r) ==
    /\ check(w, r.node)
    /\ Site.dev[w[r.node]] = Site.dev[r.node]
    /\ walk(w, r.node, r.max)
    /\ r.recursive \/ Tree(w, r.node) = {r.node}

-----------------------------------------------------------------------------
(* One run of the guard.                                                    *)

Run(n, purge, recursive, max) ==
    [node |-> n, path |-> Path(where, n), purge |-> purge, recursive |-> recursive, max |-> max]
Present(r) == Path(where, r.node) = r.path
Now == Head(queue)

\* A run that is not a success ends the command.
Return(rc) ==
    /\ answer' = [rc |-> rc, node |-> Now.node, path |-> Now.path]
    /\ queue' = IF rc = "ok" THEN Tail(queue) ELSE <<>>
    /\ doing' = "idle"
    /\ home' = None
    /\ frames' = <<>>
    /\ UNCHANGED <<clock, asked, touched, calls, made, site>>

\* The tree in which nothing but r's node is added, at r's path.
WithPath(r) ==
    [m \in DOMAIN where |-> IF m = r.node THEN r.path[2] ELSE IF where[m] = r.node THEN None ELSE where[m]]

\* Of a path that is gone: where its directory still is, the policy has a say.
AbsentRefused(r) ==
    Path(where, r.path[2]) = Tail(r.path) /\ ~policy(WithPath(r), r.node, FALSE)

\* A path that is gone is fine where the policy has nothing against it.  The
\* system may refuse to tell of a name or to read a directory.
Begin ==
    /\ queue # <<>> /\ doing = "idle"
    /\ before' = where
    /\ \/ ~Present(Now) /\ Return(IF AbsentRefused(Now) THEN "refused" ELSE "ok")
       \/ Present(Now) /\ ~Allowed(where, Now) /\ Return("refused")
       \/ Return("failed")
       \/ /\ Present(Now) /\ Allowed(where, Now)
          /\ doing' = IF Now.purge THEN "purge" ELSE "trash"
          /\ home' = TrashHome(where, Now.node)
          /\ frames' = IF Now.purge THEN <<[dir |-> None, left |-> {Now.node}]>> ELSE <<>>
          /\ UNCHANGED <<clock, queue, asked, answer, touched, calls, made, site>>
    /\ UNCHANGED <<where, born>>

\* Into HOME/.trash/<stamp>, both made if need be.  A rename to another file
\* system fails, and any may.
Trash ==
    \E tr \in trashdir(where, home) :
    LET n == Now.node
        with == [where EXCEPT ![tr] = home]
    IN
    /\ doing = "trash"
    /\ \/ ~IsDir(tr) /\ Return("refused") /\ UNCHANGED <<where, born>>
       \/ /\ IsDir(tr) /\ tr \in Tree(with, n)
          /\ Return("refused") /\ where' = with /\ UNCHANGED born
       \/ /\ IsDir(tr) /\ tr \notin Tree(with, n)
          /\ Return("failed") /\ where' \in {where, with} /\ UNCHANGED born
       \/ \E s \in Site.stamps :
             /\ IsDir(tr) /\ tr \notin Tree(with, n)
             /\ Site.dev[n] = Site.dev[tr]
             /\ where[s] = None
             /\ where' = [with EXCEPT ![s] = tr, ![n] = s]
             /\ born' = [born EXCEPT ![s] = clock]
             /\ Return("ok")
    /\ UNCHANGED before

Top == frames[Len(frames)]
Under == SubSeq(frames, 1, Len(frames) - 1)

\* Mutant: directories are counted from one.
TooDeepEarly == Len(frames) >= SafedelDepth

\* The depth of the next name.
TooDeep == Len(frames) - 1 >= SafedelDepth

Keeping(f) == frames' = f /\ UNCHANGED <<doing, home, clock, queue, asked, answer, touched, calls, made, site>>

\* The next name of the directory: a file or a link goes, a directory is read.
Enter ==
    \E c \in Top.left :
        LET rest == Under \o <<[Top EXCEPT !.left = @ \ {c}]>>
            here == Top.dir = None \/ where[c] = Top.dir
            refused == \/ Top.dir # None /\ Site.name[c] = "git"
                       \/ here /\ Site.dev[c] # Site.dev[Now.node]
                       \/ here /\ IsDir(c) /\ TooDeep
        IN
        \/ refused /\ Return("refused") /\ UNCHANGED where
        \/ Return("failed") /\ UNCHANGED where
        \/ ~refused /\ ~here /\ Keeping(rest) /\ UNCHANGED where
        \/ ~refused /\ here /\ ~IsDir(c) /\ Keeping(rest) /\ where' = [where EXCEPT ![c] = None]
        \/ ~refused /\ here /\ IsDir(c) /\ UNCHANGED where
           /\ Keeping(rest \o <<[dir |-> c, left |-> In(where, c)]>>)

\* The directory goes if nothing is in it.
Leave ==
    /\ Top.left = {}
    /\ \/ Top.dir = None /\ Return("ok") /\ UNCHANGED where
       \/ Top.dir # None /\ Return("failed") /\ UNCHANGED where
       \/ /\ Top.dir # None /\ In(where, Top.dir) = {}
          /\ where' = [where EXCEPT ![Top.dir] = None]
          /\ Keeping(Under)

Purge == doing = "purge" /\ (Enter \/ Leave) /\ UNCHANGED <<born, before>>

-----------------------------------------------------------------------------
(* The commands.                                                            *)

\* MaxCalls and Site.paths are bounds of the model.
Ask(rs, budget, expired) ==
    /\ queue = <<>> /\ calls < Site.calls
    /\ calls' = calls + 1
    /\ queue' = rs
    /\ asked' = [start |-> where, budget |-> budget, expired |-> expired]
    /\ before' = where
    /\ touched' = FALSE
    /\ UNCHANGED <<where, born, clock, doing, home, frames, made, site>>

Answered(rc) == answer' = [rc |-> rc, node |-> None, path |-> <<>>]

\* unisa_safedel.
Call ==
    \E n \in Site.paths, purge, recursive \in BOOLEAN, max \in Site.caps :
        /\ Root \in Above(where, n)
        /\ Ask(<<Run(n, purge, recursive, max)>>, max, FALSE)
        /\ UNCHANGED answer

\* safedel PATH...: every path is checked before any is touched, and a check may
\* fail.
Paths ==
    \E ps \in Site.lists, purge \in BOOLEAN, max \in Site.caps :
        LET rs == [i \in DOMAIN ps |-> Run(ps[i], purge, TRUE, max)] IN
        /\ \A i \in DOMAIN ps : Root \in Above(where, ps[i])
        /\ \/ /\ \A i \in DOMAIN ps : Allowed(where, rs[i])
              /\ Ask(rs, Len(ps) * max, FALSE) /\ UNCHANGED answer
           \/ /\ \E i \in DOMAIN ps : ~Allowed(where, rs[i])
              /\ Ask(<<>>, 0, FALSE) /\ Answered("refused")
           \/ Ask(<<>>, 0, FALSE) /\ Answered("failed")

Expired(n) == clock - born[n] >= Site.hours

\* Mutant: the ceiling is for each entry.
OverCeilingEach(rs, max) == \E i \in DOMAIN rs : Cardinality(Tree(where, rs[i].node)) > max

\* The ceiling is over all of them.
OverCeiling(rs, max) ==
    SumFunction([i \in DOMAIN rs |-> Cardinality(Tree(where, rs[i].node))]) > max

\* unisa_safedel_purge_trash: the entries in the order the directory gives them.
PurgeTrash ==
    \E h \in Site.trashes, max \in Site.caps :
        LET bin == {t \in In(where, h) : Site.name[t] = "trash"}
            old == {n \in DOMAIN where : where[n] \in bin /\ Expired(n)}
        IN
        \E ns \in [1 .. Cardinality(old) -> old] :
            LET rs == [i \in DOMAIN ns |-> Run(ns[i], TRUE, TRUE, max)]
                total == SumFunction([i \in DOMAIN ns |-> Cardinality(Tree(where, ns[i]))])
                refused == \/ h \notin TempRoots(where) /\ ~HasGit(where, h)
                           \/ \E t \in bin : ~IsDir(t)
                           \/ \E i \in DOMAIN rs : ~Allowed(where, rs[i])
                           \/ OverCeiling(rs, max)
            IN
            /\ \A i, j \in DOMAIN ns : ns[i] = ns[j] => i = j
            /\ \/ refused /\ Ask(<<>>, 0, TRUE) /\ Answered("refused")
               \/ Ask(<<>>, 0, TRUE) /\ Answered("failed")
               \/ /\ ~refused
                  /\ Ask([i \in DOMAIN rs |-> [rs[i] EXCEPT !.max = total]], max, TRUE)
                  /\ Answered("ok")

-----------------------------------------------------------------------------
(* The rest of the world.                                                   *)

\* Someone makes a file or a directory that was not there before.
Make ==
    \E n \in Site.news \ made, d \in DOMAIN where :
        /\ IsDir(d) /\ Root \in Above(where, d)
        /\ Site.dev[n] = Site.dev[d]
        /\ where' = [where EXCEPT ![n] = d]
        /\ born' = [born EXCEPT ![n] = clock]
        /\ touched' = TRUE
        /\ made' = made \union {n}
        /\ UNCHANGED <<clock, runvars, calls, site>>

Hour ==
    /\ queue = <<>> /\ clock < Site.hours
    /\ clock' = clock + 1
    /\ UNCHANGED <<where, born, runvars, touched, calls, made, site>>

SafeDelNext == Call \/ Paths \/ PurgeTrash \/ Begin \/ Trash \/ Purge \/ Make \/ Hour

SafeDelSpec == SafeDelInit /\ [][SafeDelNext]_fsvars

-----------------------------------------------------------------------------
(* Properties.                                                              *)

\* What no deletion may take: the home, the cwd and what holds them, anything
\* in a repository but what is in its out/ and .trash/, a mount point, and
\* elsewhere anything that is not in a temp root, and the temp roots and what
\* holds them, also where one is in the other.
Protected(w, n) ==
    \/ n \in Above(w, Site.home) \union Above(w, Site.cwd)
    \/ \E a \in Above(w, n) : Site.name[a] = "git"
    \/ n # Root /\ Site.dev[n] # Site.dev[w[n]]
    \/ IF Repo(w, w[n]) # None
          THEN \A a \in Above(w, n) \ {n} : ~(w[a] = Repo(w, w[n]) /\ Site.name[a] \in {"out", "trash"})
          ELSE \/ TempRoots(w) \intersect (Above(w, n) \ {n}) = {}
               \/ \E t \in TempRoots(w) : n \in Above(w, t)

\* The checks look at the path that was given, and what goes is all that is
\* below it: nothing protected is moved or removed, by any sequence of calls.
\* When others make files during the call, a .git directory that they put
\* into a directory being purged stays.  Purging the trash takes nothing that
\* was put there less than HOURS ago.
ProtectedStay ==
    [][\A n \in DOMAIN where : where[n] # None /\ where'[n] # where[n] =>
           /\ ~touched => \A m \in Tree(where, n) : ~Protected(where, m)
           /\ where'[n] = None => \A a \in Above(where, n) : Site.name[a] # "git"
           /\ where'[n] = None /\ asked.expired =>
                  \E a \in Above(where, n) : a # Root /\ Site.name[where[a]] = "trash" /\ Expired(a)]_fsvars

\* A run that says "ok" leaves nothing at its path, also when others make
\* files in the meantime, and one that says "refused" has taken nothing: what
\* the purge refuses on the way, the walk before it refused too.
AnswersTrue ==
    [][queue # <<>> /\ queue' # queue =>
           /\ answer'.rc = "ok" => Path(where', answer'.node) # answer'.path
           /\ answer'.rc = "refused" /\ ~touched =>
                  \A n \in DOMAIN where : before'[n] # None => where'[n] = before'[n]]_fsvars

Taken == {n \in DOMAIN where : asked.start[n] # None /\ Path(where, n) # Path(asked.start, n)}

\* A command takes no more entries than its ceiling, which for purge_trash is
\* one for all the entries it purges.
WithinCeiling == ~touched => Cardinality(Taken) <= asked.budget

\* "Every PATH is checked (a dry run of the guard) before any is touched: one
\* refusal and nothing is deleted."
RefusedTouchesNothing ==
    queue = <<>> /\ answer.rc = "refused" /\ ~touched => Taken = {}
=============================================================================
