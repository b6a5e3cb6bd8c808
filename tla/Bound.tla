------------------------------- MODULE Bound --------------------------------
(* tools/bound.c on Linux: it runs a command, stops it at a deadline or on a *)
(* signal, and does not end normally before every process the command left   *)
(* is gone.  The processes fork, leave their session, exit and reap all the  *)
(* while; a process whose parent dies is adopted by bound, the subreaper.    *)
(* ps is a reading of the process table that may fail.  A pid is used once.  *)
EXTENDS Integers, FiniteSets

CONSTANTS Procs,    \* a bound of the model: how many processes there ever are
          TreeMax   \* TREE_MAX

Proc == 1 .. Procs
child == 1          \* the command
Self == 0           \* bound

ASSUME BoundAssumption == Procs \in Nat \ {0} /\ TreeMax \in Nat

VARIABLES state,       \* "none" (not forked yet), "alive", "zombie" or "gone"
          parent, group,
          held,        \* processes that were sent SIGSTOP
          killed,      \* processes that were sent SIGKILL
          own,         \* the command exited by itself (history)
          time,        \* "command", "cleanup" (from command_at) or "past" (from hard_at)
          interrupted, \* 0, or "signal" or "timeout" (142)
          tree,
          pc,          \* where bound is
          listing,     \* what a reading of the table left to look at: <<pid, parent>>
          added,       \* this reading had something new
          cause, stopping,
          reaped,      \* waitpid gave the status of the command
          result       \* "none", "status", the interruption, or "stop"

world == <<state, parent, group, held, killed, own>>
self == <<tree, pc, listing, added, cause, stopping, reaped, result>>
boundvars == <<world, time, interrupted, self>>

BoundInit ==
    /\ state = [p \in Proc |-> IF p = child THEN "alive" ELSE "none"]
    /\ parent = [p \in Proc |-> Self]
    /\ group = [p \in Proc |-> Self]
    /\ held = {} /\ killed = {}
    /\ own = FALSE
    /\ time = "command" /\ interrupted = "no"
    /\ tree = {} /\ listing = {}
    /\ pc = "command"
    /\ added = FALSE /\ stopping = FALSE /\ reaped = FALSE
    /\ cause = "none"
    /\ result = "none"

-----------------------------------------------------------------------------
(* The command and its descendants.  A stopped or killed process does       *)
(* nothing more, but die.                                                   *)

Alive(p) == state[p] = "alive"
Runs(p) == Alive(p) /\ p \notin held \union killed

\* Its children, dead or alive, are adopted.
Dead(p) ==
    /\ state' = [state EXCEPT ![p] = "zombie"]
    /\ parent' = [q \in Proc |-> IF parent[q] = p THEN Self ELSE parent[q]]

\* The child of bound leads a session of its own before it runs the command.
Fork(p) ==
    LET q == CHOOSE x \in Proc : state[x] = "none" /\ \A y \in Proc : y < x => state[y] # "none"
    IN
    /\ Runs(p) /\ group[child] = child
    /\ \E x \in Proc : state[x] = "none"
    /\ state' = [state EXCEPT ![q] = "alive"]
    /\ parent' = [parent EXCEPT ![q] = p]
    /\ group' = [group EXCEPT ![q] = group[p]]
    /\ UNCHANGED <<held, killed, own>>

Setsid(p) ==
    /\ Runs(p) /\ group[p] # p
    /\ group' = [group EXCEPT ![p] = p]
    /\ UNCHANGED <<state, parent, held, killed, own>>

Exit(p) ==
    /\ Runs(p) /\ Dead(p)
    /\ own' = (own \/ p = child)
    /\ UNCHANGED <<group, held, killed>>

Die(p) ==
    /\ Alive(p) /\ p \in killed /\ Dead(p)
    /\ UNCHANGED <<group, held, killed, own>>

Wait(p) ==
    \E q \in Proc :
        /\ Runs(p) /\ parent[q] = p /\ state[q] = "zombie"
        /\ state' = [state EXCEPT ![q] = "gone"]
        /\ UNCHANGED <<parent, group, held, killed, own>>

World ==
    /\ \E p \in Proc : Fork(p) \/ Setsid(p) \/ Exit(p) \/ Die(p) \/ Wait(p)
    /\ UNCHANGED <<time, interrupted, self>>

Tick ==
    /\ time # "past" /\ result = "none"
    /\ time' = IF time = "command" THEN "cleanup" ELSE "past"
    /\ UNCHANGED <<world, interrupted, self>>

\* TERM, INT or HUP; the first one is kept.
Signal ==
    /\ interrupted = "no" /\ result = "none"
    /\ interrupted' = "signal"
    /\ UNCHANGED <<world, time, self>>

-----------------------------------------------------------------------------
(* bound.                                                                   *)

past_hard == time = "past"
Quiet == UNCHANGED <<time, interrupted>>
Idle == UNCHANGED <<parent, group, held, killed, own>>
At(a, b) == pc = a /\ pc' = b

Table == {<<p, parent[p]>> : p \in {q \in Proc : state[q] \in {"alive", "zombie"}}}
InGroup == {p \in Proc : group[p] = child}
Kill(s) == killed' = killed \union {p \in s : Alive(p)}
has(p) == p \in tree
Room == Cardinality(tree) < TreeMax

Reap(p) == state' = [state EXCEPT ![p] = "gone"]

\* reap_until: waitpid first, and then the reasons not to wait any longer.
WaitChild(a, b, c) ==
    /\ IF state[child] = "zombie" THEN At(a, c) /\ Reap(child) /\ reaped' = TRUE
       ELSE At(a, b) /\ UNCHANGED <<state, reaped>>
    /\ Idle /\ Quiet /\ UNCHANGED <<tree, listing, added, cause, stopping, result>>

WaitCommand == WaitChild("command", "commandLate", "cleanup")

\* Mutant: a deadline is not recorded.
CommandLateUnmarked ==
    /\ IF interrupted # "no" \/ time # "command" THEN At("commandLate", "freeze") ELSE At("commandLate", "command")
    /\ Quiet /\ UNCHANGED <<world, tree, listing, added, cause, stopping, reaped, result>>

CommandLate ==
    /\ IF interrupted # "no" \/ time # "command" THEN At("commandLate", "freeze") ELSE At("commandLate", "command")
    /\ interrupted' = IF interrupted = "no" /\ time # "command" THEN "timeout" ELSE interrupted
    /\ UNCHANGED <<world, time, tree, listing, added, cause, stopping, reaped, result>>

\* freeze_tree.
StopRoot ==
    /\ At("freeze", "snapshot")
    /\ tree' = tree \union {child}
    /\ held' = held \union {child}
    /\ Quiet /\ UNCHANGED <<state, parent, group, killed, own, listing, added, cause, stopping, reaped, result>>

Unfrozen(a, c) == At(a, "killTree") /\ cause' = c

Snapshot ==
    /\ \/ \E c \in {"deadline", "enumeration"} : Unfrozen("snapshot", c) /\ UNCHANGED <<listing, added>>
       \/ /\ ~past_hard /\ At("snapshot", "stopListed")
          /\ listing' = Table
          /\ added' = FALSE
          /\ UNCHANGED cause
    /\ Quiet /\ UNCHANGED <<world, tree, stopping, reaped, result>>

\* One line of what ps wrote.
StopListed ==
    \E e \in listing :
        LET new == has(e[2]) /\ ~has(e[1]) IN
        /\ listing' = listing \ {e}
        /\ IF past_hard THEN Unfrozen("stopListed", "deadline") /\ UNCHANGED <<tree, held, added>>
           ELSE IF new /\ ~Room THEN Unfrozen("stopListed", "enumeration") /\ UNCHANGED <<tree, held, added>>
           ELSE /\ At("stopListed", "stopListed")
                /\ tree' = IF new THEN tree \union {e[1]} ELSE tree
                /\ held' = IF new THEN held \union {e[1]} ELSE held
                /\ added' = (added \/ new)
                /\ UNCHANGED cause
        /\ Quiet /\ UNCHANGED <<state, parent, group, killed, own, stopping, reaped, result>>

\* Mutant: one reading is enough.
NextReadingNever ==
    /\ listing = {}
    /\ At("stopListed", "killTree")
    /\ Quiet /\ UNCHANGED <<world, tree, listing, added, cause, stopping, reaped, result>>

\* Another reading unless this one had nothing new.
NextReading ==
    /\ listing = {}
    /\ IF added THEN At("stopListed", "snapshot") ELSE At("stopListed", "killTree")
    /\ Quiet /\ UNCHANGED <<world, tree, listing, added, cause, stopping, reaped, result>>

KillTree ==
    /\ IF cause = "none" THEN At("killTree", "reap") ELSE At("killTree", "cleanup")
    /\ stopping' = (cause # "none")
    /\ Kill(InGroup \union tree)
    /\ Quiet /\ UNCHANGED <<state, parent, group, held, own, tree, listing, added, cause, reaped, result>>

WaitKilled == WaitChild("reap", "reapLate", "cleanup")

ReapLate ==
    /\ IF past_hard THEN At("reapLate", "cleanup") /\ cause' = "deadline" /\ stopping' = TRUE
       ELSE At("reapLate", "reap") /\ UNCHANGED <<cause, stopping>>
    /\ Quiet /\ UNCHANGED <<world, tree, listing, added, reaped, result>>

\* finish_cleanup, of the normal end and of report_stop.
KillKnown ==
    /\ At("cleanup", "known")
    /\ Kill(InGroup \union {child} \union tree)
    /\ Quiet /\ UNCHANGED <<state, parent, group, held, own, tree, listing, added, cause, stopping, reaped, result>>

\* A cleanup that fails ends the program by report_stop, which begins with another.
Failed(a, c) ==
    /\ At(a, IF stopping THEN "drain" ELSE "cleanup")
    /\ stopping' = TRUE
    /\ cause' = c

known_gone == \A p \in tree : ~Alive(p)

\* Mutant: the clock is not looked at while the known processes die.
KnownPatient ==
    /\ At("known", IF known_gone THEN "scan" ELSE "known")
    /\ Quiet /\ UNCHANGED <<world, tree, listing, added, cause, stopping, reaped, result>>

Known ==
    /\ IF past_hard THEN Failed("known", "deadline")
       ELSE At("known", IF known_gone THEN "scan" ELSE "known") /\ UNCHANGED <<cause, stopping>>
    /\ Quiet /\ UNCHANGED <<world, tree, listing, added, reaped, result>>

\* sweep_adopted: readdir gives the processes there are when it fills its buffer.
Scan ==
    /\ \/ past_hard /\ Failed("scan", "deadline") /\ UNCHANGED <<listing, added>>
       \/ ~past_hard /\ Failed("scan", "enumeration") /\ UNCHANGED <<listing, added>>
       \/ /\ ~past_hard /\ At("scan", "sweep")
          /\ listing' = Table
          /\ added' = FALSE
          /\ UNCHANGED <<cause, stopping>>
    /\ Quiet /\ UNCHANGED <<world, tree, reaped, result>>

\* The next process of the directory, in the order of the pids, as it is now.
Sweep ==
    \E e \in listing :
        LET hit == e[1] # child /\ Alive(e[1]) /\ parent[e[1]] = Self IN
        /\ \A f \in listing : e[1] <= f[1]
        /\ listing' = listing \ {e}
        /\ IF past_hard THEN Failed("sweep", "deadline") /\ UNCHANGED <<killed, tree, added>>
           ELSE /\ At("sweep", "sweep")
                /\ Kill(IF hit THEN {e[1]} ELSE {})
                /\ tree' = IF hit /\ Room THEN tree \union {e[1]} ELSE tree
                /\ added' = (added \/ hit)
                /\ UNCHANGED <<cause, stopping>>
        /\ Quiet /\ UNCHANGED <<state, parent, group, held, own, reaped, result>>

\* Scan again until a scan finds nothing.
Swept ==
    /\ listing = {}
    /\ IF added THEN At("sweep", "scan") /\ Kill(InGroup \union tree)
       ELSE At("sweep", IF stopping THEN "drain" ELSE "rest") /\ UNCHANGED killed
    /\ Quiet /\ UNCHANGED <<state, parent, group, held, own, tree, listing, added, cause, stopping, reaped, result>>

Children == {p \in Proc : parent[p] = Self /\ state[p] \in {"alive", "zombie"}}
Zombies == {p \in Children : state[p] = "zombie"}

\* Mutant: nothing to reap now is nothing left.
ReapRestOnce ==
    /\ \/ \E p \in Zombies : Reap(p) /\ At("rest", "rest")
       \/ Zombies = {} /\ UNCHANGED state /\ At("rest", "finish")
    /\ Idle /\ Quiet /\ UNCHANGED <<tree, listing, added, cause, stopping, reaped, result>>

\* The end of main: every child that is left is reaped, and then the result.
ReapRest ==
    /\ \/ \E p \in Zombies : Reap(p) /\ At("rest", "rest") /\ UNCHANGED <<cause, stopping>>
       \/ /\ Zombies = {} /\ Children # {} /\ UNCHANGED state
          /\ IF past_hard THEN At("rest", "cleanup") /\ cause' = "deadline" /\ stopping' = TRUE
             ELSE At("rest", "rest") /\ UNCHANGED <<cause, stopping>>
       \/ Children = {} /\ At("rest", "finish") /\ UNCHANGED <<state, cause, stopping>>
    /\ Idle /\ Quiet /\ UNCHANGED <<tree, listing, added, reaped, result>>

Finish ==
    /\ IF past_hard /\ interrupted = "no"
          THEN At("finish", "cleanup") /\ cause' = "deadline" /\ stopping' = TRUE /\ UNCHANGED result
          ELSE /\ At("finish", "done")
               /\ result' = IF interrupted = "no" THEN "status" ELSE interrupted
               /\ UNCHANGED <<cause, stopping>>
    /\ Quiet /\ UNCHANGED <<world, tree, listing, added, reaped>>

\* The end of report_stop.
Drain ==
    /\ \/ \E p \in Zombies : ~past_hard /\ Reap(p) /\ At("drain", "drain") /\ UNCHANGED result
       \/ /\ past_hard \/ Zombies = {}
          /\ At("drain", "done") /\ result' = "stop" /\ UNCHANGED state
    /\ Idle /\ Quiet /\ UNCHANGED <<tree, listing, added, cause, stopping, reaped>>

BoundStep ==
    \/ WaitCommand \/ CommandLate
    \/ StopRoot \/ Snapshot \/ StopListed \/ NextReading \/ KillTree \/ WaitKilled \/ ReapLate
    \/ KillKnown \/ Known \/ Scan \/ Sweep \/ Swept
    \/ ReapRest \/ Finish \/ Drain

BoundNext == BoundStep \/ (result = "none" /\ (World \/ Tick \/ Signal))

\* The clock goes on, and bound is scheduled; nothing is assumed of the command.
BoundSpec == BoundInit /\ [][BoundNext]_boundvars /\ WF_boundvars(BoundStep) /\ WF_boundvars(Tick)

-----------------------------------------------------------------------------
(* Properties.                                                              *)

\* bound ends normally, with the status of the command or with the
\* interruption, only when no process the command left is alive or unreaped.
NormalMeansGone ==
    result \notin {"none", "stop"} => \A p \in Proc : state[p] \in {"none", "gone"}

\* When freeze_tree reports that the tree is frozen, no process that it does
\* not know has a parent it knows: forks between two readings of ps are found.
FrozenComplete ==
    pc = "killTree" /\ cause = "none" =>
        \A p \in Proc : Alive(p) /\ parent[p] \in tree => p \in tree \intersect held

\* The command's status is passed on only when it ended by itself, was reaped,
\* and bound had recorded neither the deadline nor a signal: what came and what
\* bound saw of it differ by the steps between its looks at the clock.
StatusTrue == result = "status" => own /\ reaped /\ interrupted = "no"

\* "A deadline cannot be missed because nothing blocks without a timeout":
\* bound ends whatever the processes do, and also when they do not die.
BoundEnds == <>(result # "none")

\* "Returns 0 when the adopted sweep proved there is nothing left".
SweepProves ==
    pc = "sweep" /\ listing = {} /\ ~added => \A p \in Proc : ~Alive(p)
=============================================================================
