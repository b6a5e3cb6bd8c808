---------------------------- MODULE ToolsProofs ----------------------------
(* Proofs about the two tools, for any number of processes, any tree of     *)
(* files, any commands and any ceilings.  First Bound: a normal end leaves  *)
(* no process behind, the freezing is complete when it says so, and the     *)
(* status passed on is the command's own.  Then SafeDel: the paths of an    *)
(* agreed plan never exceed the ceiling, what is protected stays, and an    *)
(* answer is true of the tree it is given on.                               *)
EXTENDS Bound, SafeDel, SumFacts

-----------------------------------------------------------------------------
(* The inductive invariant.                                                 *)

PidTypes ==
    /\ state \in [Proc -> {"none", "alive", "zombie", "gone"}]
    /\ parent \in [Proc -> Proc \union {Self}]
    /\ tree \subseteq Proc /\ held \subseteq Proc /\ killed \subseteq Proc
    /\ listing \subseteq Proc \X (Proc \union {Self})
    /\ interrupted \in {"no", "signal", "timeout"}

\* Processes are forked in the order of their numbers, and one that was not
\* reaped yet is a child of bound or of an older process that lives: the orphans
\* were adopted.
Family ==
    /\ \A p, q \in Proc : p < q /\ state[p] = "none" => state[q] = "none"
    /\ \A p \in Proc : state[p] \in {"alive", "zombie"} =>
           parent[p] = Self \/ (parent[p] < p /\ parent[p] \in Proc /\ Alive(parent[p]))

\* Until it is killed the tree only has stopped processes.  A process with a
\* parent in it is in it too, or is still to be looked at in this reading, or
\* this reading had something new.
Stopped ==
    /\ pc \in {"command", "commandLate", "freeze", "snapshot", "stopListed", "killTree"} =>
           tree \subseteq held
    /\ pc = "stopListed" /\ ~added =>
           \A p \in Proc : Alive(p) /\ parent[p] \in tree => p \in tree \/ <<p, parent[p]>> \in listing

\* The command was not killed by bound before an interruption, so unless there
\* was one its end is its own and its status was taken.
OwnEnd ==
    /\ state[child] \in {"zombie", "gone"} /\ child \notin killed => own
    /\ pc \in {"command", "commandLate"} => child \notin killed
    /\ interrupted = "no" => pc \in {"command", "commandLate"} \/ (own /\ reaped)

NoneLeft == \A p \in Proc : state[p] \in {"none", "gone"}

\* A result is the last thing that happens, and a result that is not a stop
\* comes when nothing is left.
Ended ==
    /\ result # "none" => pc = "done"
    /\ pc = "finish" => NoneLeft

IInv == PidTypes /\ Family /\ Stopped /\ OwnEnd /\ Ended
            /\ FrozenComplete /\ NormalMeansGone /\ StatusTrue

-----------------------------------------------------------------------------
(* Lemmas.                                                                  *)

\* Every process but bound has a positive pid.
LEMMA Pids == Proc \subseteq Nat /\ child \in Proc /\ Self \notin Proc
  BY BoundAssumption DEF Proc, child, Self

\* When bound has no child left to reap there is no process left at all: the
\* least one would have no parent.
LEMMA ChildlessMeansNoneLeft ==
    ASSUME PidTypes, Family, Children = {}
    PROVE  NoneLeft
  <1> DEFINE S == {p \in Proc : state[p] \in {"alive", "zombie"}}
  <1>1. SUFFICES ASSUME S # {} PROVE FALSE
    BY DEF NoneLeft, PidTypes
  <1>2. S \in SUBSET Nat
    BY Pids
  <1>3. PICK p \in S : \A q \in S : p <= q
    <2> HIDE DEF S
    <2> QED  BY <1>1, <1>2, LeastNatural
  <1>4. parent[p] # Self
    BY DEF Children
  <1>5. parent[p] \in S /\ parent[p] < p
    BY <1>4 DEF Family, Alive
  <1>6. p <= parent[p] /\ p \in Nat /\ parent[p] \in Nat
    BY <1>2, <1>3, <1>5
  <1> QED  BY <1>5, <1>6

\* The new process of a fork is the first of those that were not forked yet.
LEMMA ForkTakesFirst ==
    ASSUME PidTypes, Family, NEW p \in Proc, Fork(p)
    PROVE  \E q \in Proc :
               /\ state[q] = "none" /\ \A y \in Proc : y < q => state[y] # "none"
               /\ p < q
               /\ Runs(p)
               /\ state' = [state EXCEPT ![q] = "alive"]
               /\ parent' = [parent EXCEPT ![q] = p]
               /\ UNCHANGED <<held, killed, own>>
  <1> DEFINE S == {x \in Proc : state[x] = "none"}
             q == CHOOSE x \in Proc : state[x] = "none" /\ \A y \in Proc : y < x => state[y] # "none"
  <1>1. PICK x \in S : \A y \in S : x <= y
    <2>1. S # {} /\ S \in SUBSET Nat
      BY Pids DEF Fork
    <2> HIDE DEF S
    <2> QED  BY <2>1, LeastNatural
  <1>2. \A y \in Proc : y < x => state[y] # "none"
    BY <1>1, Pids
  <1>3. q \in Proc /\ state[q] = "none" /\ \A y \in Proc : y < q => state[y] # "none"
    BY <1>1, <1>2
  <1>4. Runs(p) /\ state[p] = "alive"
    BY DEF Fork, Runs, Alive
  <1>5. ~(q < p)
    BY <1>3, <1>4 DEF Family
  <1>6. p # q
    BY <1>3, <1>4
  <1>7. p < q
    <2> HIDE DEF q
    <2> QED  BY <1>3, <1>5, <1>6, Pids
  <1>8. /\ state' = [state EXCEPT ![q] = "alive"]
        /\ parent' = [parent EXCEPT ![q] = p]
        /\ UNCHANGED <<held, killed, own>>
    BY DEF Fork
  <1> QED  BY <1>3, <1>4, <1>7, <1>8

\* What bound itself may do to the processes: reap one that is dead.
Reaps ==
    /\ \/ state' = state
       \/ \E p \in Proc : state[p] = "zombie" /\ state' = [state EXCEPT ![p] = "gone"]
    /\ UNCHANGED <<parent, own>>
    /\ held \subseteq held' /\ killed \subseteq killed'

\* Every step of bound does no more.
LEMMA BoundReaps ==
    ASSUME PidTypes, BoundStep
    PROVE  Reaps
  <1> USE DEF At, Quiet, Idle, world, self
  <1>1. CASE WaitCommand \/ WaitKilled
    BY <1>1, Pids DEF WaitCommand, WaitKilled, WaitChild, Reap, Reaps
  <1>2. CASE CommandLate \/ NextReading \/ ReapLate \/ Known \/ Scan \/ Snapshot \/ Finish
    BY <1>2 DEF CommandLate, NextReading, ReapLate, Known, Scan, Snapshot, Finish, Reaps
  <1>3. CASE StopRoot \/ StopListed
    BY <1>3 DEF StopRoot, StopListed, Reaps
  <1>4. CASE KillTree \/ KillKnown \/ Sweep \/ Swept
    BY <1>4 DEF KillTree, KillKnown, Sweep, Swept, Kill, Reaps
  <1>5. CASE ReapRest \/ Drain
    BY <1>5 DEF ReapRest, Drain, Zombies, Children, Reap, Reaps
  <1> QED  BY <1>1, <1>2, <1>3, <1>4, <1>5 DEF BoundStep

-----------------------------------------------------------------------------
(* Each part of the invariant is preserved by every step.                   *)

LEMMA TypesStep ==
    ASSUME PidTypes, Family, BoundNext
    PROVE  PidTypes'
  <1> USE DEF PidTypes
  <1>1. CASE World
    <2>1. PICK p \in Proc : Fork(p) \/ Setsid(p) \/ Exit(p) \/ Die(p) \/ Wait(p)
      BY <1>1 DEF World
    <2>2. UNCHANGED <<tree, listing, interrupted>>
      BY <1>1 DEF World, self
    <2>3. CASE Fork(p)
      <3>1. PICK q \in Proc :
                /\ state' = [state EXCEPT ![q] = "alive"]
                /\ parent' = [parent EXCEPT ![q] = p]
                /\ UNCHANGED <<held, killed>>
        BY <2>3, ForkTakesFirst
      <3> QED  BY <2>2, <3>1
    <2>4. CASE Setsid(p) \/ Wait(p)
      BY <2>2, <2>4 DEF Setsid, Wait
    <2>5. CASE Exit(p) \/ Die(p)
      <3>1. Dead(p) /\ UNCHANGED <<held, killed>>
        BY <2>5 DEF Exit, Die
      <3>2. state' \in [Proc -> {"none", "alive", "zombie", "gone"}]
        BY <3>1 DEF Dead
      <3>3. parent' \in [Proc -> Proc \union {Self}]
        BY <3>1 DEF Dead
      <3> QED  BY <2>2, <3>1, <3>2, <3>3
    <2> QED  BY <2>1, <2>3, <2>4, <2>5
  <1>2. CASE Tick \/ Signal
    BY <1>2 DEF Tick, Signal, world, self
  <1>3. CASE BoundStep
    <2>1. state' \in [Proc -> {"none", "alive", "zombie", "gone"}] /\ parent' = parent
      BY <1>3, BoundReaps DEF Reaps
    <2>2. tree' \subseteq Proc /\ held' \subseteq Proc /\ killed' \subseteq Proc
      <3> USE DEF world, self, Idle
      <3>1. CASE WaitCommand \/ CommandLate \/ Snapshot \/ NextReading \/ WaitKilled \/ ReapLate
        BY <3>1 DEF WaitCommand, CommandLate, Snapshot, NextReading, WaitKilled, ReapLate, WaitChild
      <3>0. \A e \in listing : e[1] \in Proc
        OBVIOUS
      <3>2. CASE StopRoot
        BY <3>2, Pids DEF StopRoot
      <3>5. CASE StopListed
        <4>1. PICK e \in listing :
                  /\ tree' \in {tree, tree \union {e[1]}}
                  /\ held' \in {held, held \union {e[1]}}
                  /\ killed' = killed
          BY <3>5 DEF StopListed
        <4> QED  BY <4>1, <3>0
      <3>6. ASSUME NEW s \in SUBSET Proc, Kill(s) PROVE killed' \subseteq Proc
        BY <3>6 DEF Kill
      <3>3. CASE KillTree \/ KillKnown \/ Swept
        BY <3>3, <3>6, Pids DEF KillTree, KillKnown, Swept, InGroup
      <3>4. CASE Known \/ Scan \/ ReapRest \/ Finish \/ Drain
        BY <3>4 DEF Known, Scan, ReapRest, Finish, Drain
      <3>7. CASE Sweep
        <4>1. PICK e \in listing :
                  /\ tree' \in {tree, tree \union {e[1]}}
                  /\ killed' \in {killed, killed \union {p \in {e[1]} : Alive(p)}}
                  /\ held' = held
          BY <3>7 DEF Sweep, Kill
        <4> QED  BY <4>1, <3>0
      <3> QED  BY <1>3, <3>1, <3>2, <3>3, <3>4, <3>5, <3>7 DEF BoundStep
    <2>3. listing' \subseteq Proc \X (Proc \union {Self})
      <3>1. Table \subseteq Proc \X (Proc \union {Self})
        BY DEF Table
      <3>2. listing' = listing \/ listing' = Table \/ listing' \subseteq listing
        BY <1>3 DEF BoundStep, WaitCommand, CommandLate, StopRoot, Snapshot, StopListed, NextReading,
                    KillTree, WaitKilled, ReapLate, KillKnown, Known, Scan, Sweep, Swept, ReapRest,
                    Finish, Drain, WaitChild, self
      <3> QED  BY <3>1, <3>2
    <2>4. interrupted' \in {"no", "signal", "timeout"}
      BY <1>3 DEF BoundStep, WaitCommand, CommandLate, StopRoot, Snapshot, StopListed, NextReading,
                  KillTree, WaitKilled, ReapLate, KillKnown, Known, Scan, Sweep, Swept, ReapRest,
                  Finish, Drain, WaitChild, Quiet
    <2> QED  BY <2>1, <2>2, <2>3, <2>4
  <1> QED  BY <1>1, <1>2, <1>3 DEF BoundNext

LEMMA FamilyStep ==
    ASSUME PidTypes, Family, BoundNext
    PROVE  Family'
  <1>1. ASSUME Reaps PROVE Family'
    <2>1. CASE state' = state
      BY <1>1, <2>1 DEF Reaps, Family, Alive
    <2>2. ASSUME NEW q \in Proc, state[q] = "zombie", state' = [state EXCEPT ![q] = "gone"]
          PROVE  Family'
      BY <1>1, <2>2, Pids DEF Reaps, Family, Alive, PidTypes
    <2> QED  BY <1>1, <2>1, <2>2 DEF Reaps
  <1>2. ASSUME NEW p \in Proc, Fork(p) PROVE Family'
    <2>1. PICK q \in Proc :
              /\ state[q] = "none" /\ \A y \in Proc : y < q => state[y] # "none"
              /\ p < q /\ Runs(p)
              /\ state' = [state EXCEPT ![q] = "alive"]
              /\ parent' = [parent EXCEPT ![q] = p]
      BY <1>2, ForkTakesFirst
    <2>2. ASSUME NEW x \in Proc, NEW y \in Proc, x < y, state'[x] = "none"
          PROVE  state'[y] = "none"
      <3>1. state[x] = "none" /\ x # q /\ state[y] = "none"
        BY <2>1, <2>2 DEF PidTypes, Family
      <3>2. ~(x < q)
        BY <2>1, <3>1
      <3>3. y # q
        BY <2>2, <3>1, <3>2, Pids
      <3> QED  BY <2>1, <3>1, <3>3 DEF PidTypes
    <2>3. ASSUME NEW x \in Proc, state'[x] \in {"alive", "zombie"}
          PROVE  parent'[x] = Self \/ (parent'[x] < x /\ parent'[x] \in Proc /\ state'[parent'[x]] = "alive")
      <3>1. CASE x = q
        BY <2>1, <3>1 DEF PidTypes, Runs, Alive
      <3>2. CASE x # q
        BY <2>1, <2>3, <3>2 DEF PidTypes, Family, Alive
      <3> QED  BY <3>1, <3>2
    <2> QED  BY <2>2, <2>3 DEF Family, Alive
  <1>3. ASSUME NEW p \in Proc, Alive(p), Dead(p) PROVE Family'
    BY <1>3, Pids DEF Dead, Family, Alive, PidTypes
  <1>4. ASSUME NEW p \in Proc, Setsid(p) PROVE Family'
    BY <1>4 DEF Setsid, Family, Alive
  <1>5. ASSUME NEW p \in Proc, Wait(p) PROVE Family'
    BY <1>5, <1>1 DEF Wait, Reaps
  <1>6. CASE Tick \/ Signal
    BY <1>6 DEF Tick, Signal, world, Family, Alive
  <1> QED  BY <1>1, <1>2, <1>3, <1>4, <1>5, <1>6, BoundReaps DEF BoundNext, World, Exit, Die, Runs

\* What the processes may do while bound looks at them: a process that is
\* stopped or killed has no new child, and who loses his parent gets bound.
WorldMoves ==
    /\ UNCHANGED <<held, killed>>
    /\ \A p \in Proc : Alive(p)' =>
           \/ Alive(p) /\ parent'[p] \in {parent[p], Self}
           \/ Runs(parent'[p])

\* The steps of the command and its descendants.
LEMMA WorldStep ==
    ASSUME PidTypes, Family, World
    PROVE  WorldMoves /\ UNCHANGED <<time, interrupted, self>>
  <1> SUFFICES WorldMoves
    BY DEF World
  <1>1. PICK p \in Proc : Fork(p) \/ Setsid(p) \/ Exit(p) \/ Die(p) \/ Wait(p)
    BY DEF World
  <1>2. CASE Fork(p)
    <2>1. PICK q \in Proc :
              /\ Runs(p)
              /\ state' = [state EXCEPT ![q] = "alive"]
              /\ parent' = [parent EXCEPT ![q] = p]
              /\ UNCHANGED <<held, killed>>
      BY <1>2, ForkTakesFirst
    <2> QED  BY <2>1 DEF WorldMoves, PidTypes, Alive
  <1>3. CASE Setsid(p)
    BY <1>3 DEF Setsid, WorldMoves, Alive
  <1>4. CASE Exit(p) \/ Die(p)
    <2>1. Dead(p) /\ UNCHANGED <<held, killed>>
      BY <1>4 DEF Exit, Die
    <2> QED  BY <2>1 DEF Dead, WorldMoves, PidTypes, Alive
  <1>5. CASE Wait(p)
    BY <1>5 DEF Wait, WorldMoves, PidTypes, Alive
  <1> QED  BY <1>1, <1>2, <1>3, <1>4, <1>5 DEF World

\* Only bound moves in its own program.
LEMMA StoppedStep ==
    ASSUME PidTypes, Family, Stopped, FrozenComplete, BoundNext
    PROVE  Stopped' /\ FrozenComplete'
  <1>1. CASE World
    <2>1. WorldMoves /\ UNCHANGED <<pc, tree, listing, added, cause>>
      BY <1>1, WorldStep DEF self
    <2>2. ASSUME tree \subseteq held, NEW p \in Proc, Alive(p)', parent'[p] \in tree
          PROVE  Alive(p) /\ parent[p] = parent'[p]
      <3>1. ~Runs(parent'[p])
        BY <2>2 DEF Runs
      <3>2. parent'[p] # Self
        BY <2>2, Pids DEF PidTypes
      <3> QED  BY <2>1, <2>2, <3>1, <3>2 DEF WorldMoves
    <2>3. Stopped'
      BY <2>1, <2>2 DEF Stopped, WorldMoves
    <2>4. FrozenComplete'
      BY <2>1, <2>2 DEF Stopped, FrozenComplete, WorldMoves
    <2> QED  BY <2>3, <2>4
  <1>2. CASE Tick \/ Signal
    BY <1>2 DEF Tick, Signal, world, self, Stopped, FrozenComplete, Alive
  <1>3. CASE BoundStep
    <2> USE DEF At, Quiet, Idle, Stopped, FrozenComplete
    <2>1. CASE WaitCommand
      BY <2>1 DEF WaitCommand, WaitChild
    <2>2. CASE CommandLate
      BY <2>2 DEF CommandLate, world
    <2>3. CASE StopRoot
      BY <2>3 DEF StopRoot
    <2>4. CASE Snapshot
      <3>1. tree \subseteq held /\ UNCHANGED <<world, tree>>
        BY <2>4 DEF Snapshot, Unfrozen
      <3>2. CASE \E c \in {"deadline", "enumeration"} : Unfrozen("snapshot", c)
        BY <3>1, <3>2 DEF Unfrozen, world
      <3>3. CASE pc' = "stopListed" /\ listing' = Table
        BY <3>1, <3>3 DEF Table, world, Alive
      <3> QED  BY <2>4, <3>2, <3>3 DEF Snapshot
    <2>5. CASE StopListed
      <3>1. PICK e \in listing :
                /\ listing' = listing \ {e}
                /\ \/ Unfrozen("stopListed", "deadline") /\ UNCHANGED <<tree, held, added>>
                   \/ Unfrozen("stopListed", "enumeration") /\ UNCHANGED <<tree, held, added>>
                   \/ /\ At("stopListed", "stopListed")
                      /\ tree' = IF has(e[2]) /\ ~has(e[1]) THEN tree \union {e[1]} ELSE tree
                      /\ held' = IF has(e[2]) /\ ~has(e[1]) THEN held \union {e[1]} ELSE held
                      /\ added' = (added \/ (has(e[2]) /\ ~has(e[1])))
        BY <2>5, Zenon DEF StopListed
      <3>2. tree \subseteq held /\ UNCHANGED <<state, parent>>
        BY <2>5, <3>1 DEF StopListed, Unfrozen
      <3>3. CASE \E c \in {"deadline", "enumeration"} :
                     Unfrozen("stopListed", c) /\ UNCHANGED <<tree, held, added>>
        BY <3>2, <3>3 DEF Unfrozen
      <3>4. CASE /\ At("stopListed", "stopListed")
                 /\ tree' = IF has(e[2]) /\ ~has(e[1]) THEN tree \union {e[1]} ELSE tree
                 /\ held' = IF has(e[2]) /\ ~has(e[1]) THEN held \union {e[1]} ELSE held
                 /\ added' = (added \/ (has(e[2]) /\ ~has(e[1])))
        <4>1. pc' = "stopListed" /\ tree' \subseteq held'
          BY <3>2, <3>4
        <4>2. ASSUME ~added', NEW p \in Proc, Alive(p)', parent'[p] \in tree'
              PROVE  p \in tree' \/ <<p, parent'[p]>> \in listing'
          <5>1. ~added /\ ~(has(e[2]) /\ ~has(e[1])) /\ tree' = tree
            BY <3>4, <4>2
          <5>2. p \in tree \/ <<p, parent[p]>> \in listing
            BY <3>2, <3>4, <4>2, <5>1 DEF Alive
          <5>3. CASE e = <<p, parent[p]>>
            BY <3>2, <4>2, <5>1, <5>3 DEF has
          <5> QED  BY <3>1, <3>2, <5>1, <5>2, <5>3
        <4> QED  BY <4>1, <4>2
      <3> QED  BY <3>1, <3>3, <3>4
    <2>6. CASE NextReading
      BY <2>6 DEF NextReading, world, Alive
    <2>7. CASE KillTree \/ WaitKilled \/ ReapLate \/ KillKnown \/ Known \/ Scan \/ Sweep \/ Swept
               \/ ReapRest \/ Finish \/ Drain
      BY <2>7 DEF KillTree, WaitKilled, WaitChild, ReapLate, KillKnown, Known, Scan, Sweep, Swept,
                  ReapRest, Finish, Drain, Failed
    <2> QED  BY <1>3, <2>1, <2>2, <2>3, <2>4, <2>5, <2>6, <2>7 DEF BoundStep
  <1> QED  BY <1>1, <1>2, <1>3 DEF BoundNext

\* The status of the command is its own unless bound was interrupted.
LEMMA OwnEndStep ==
    ASSUME PidTypes, Family, OwnEnd, BoundNext
    PROVE  OwnEnd'
  <1>1. CASE World
    <2>1. PICK p \in Proc : Fork(p) \/ Setsid(p) \/ Exit(p) \/ Die(p) \/ Wait(p)
      BY <1>1 DEF World
    <2>2. UNCHANGED <<pc, interrupted, reaped>>
      BY <1>1 DEF World, self
    <2>3. CASE Fork(p)
      <3>1. PICK q \in Proc :
                state' = [state EXCEPT ![q] = "alive"] /\ UNCHANGED <<killed, own>>
        BY <2>3, ForkTakesFirst
      <3> QED  BY <2>2, <3>1, Pids DEF OwnEnd, PidTypes
    <2>4. CASE Setsid(p)
      BY <2>2, <2>4 DEF Setsid, OwnEnd
    <2>5. CASE Exit(p)
      <3>1. state' = [state EXCEPT ![p] = "zombie"] /\ own' = (own \/ p = child) /\ killed' = killed
        BY <2>5 DEF Exit, Dead
      <3> QED  BY <2>2, <3>1, Pids DEF OwnEnd, PidTypes
    <2>6. CASE Die(p)
      <3>1. state' = [state EXCEPT ![p] = "zombie"] /\ p \in killed /\ UNCHANGED <<own, killed>>
        BY <2>6 DEF Die, Dead
      <3> QED  BY <2>2, <3>1, Pids DEF OwnEnd, PidTypes
    <2>7. CASE Wait(p)
      <3>1. PICK q \in Proc : state[q] = "zombie" /\ state' = [state EXCEPT ![q] = "gone"]
                                  /\ UNCHANGED <<killed, own>>
        BY <2>7 DEF Wait
      <3> QED  BY <2>2, <3>1, Pids DEF OwnEnd, PidTypes
    <2> QED  BY <2>1, <2>3, <2>4, <2>5, <2>6, <2>7
  <1>2. CASE Tick \/ Signal
    BY <1>2 DEF Tick, Signal, world, self, OwnEnd
  <1>3. CASE BoundStep
    <2>1. state'[child] \in {"zombie", "gone"} /\ child \notin killed' => own'
      BY <1>3, BoundReaps, Pids DEF Reaps, OwnEnd, PidTypes
    <2>2. /\ pc' \in {"command", "commandLate"} => pc \in {"command", "commandLate"} /\ killed' = killed
          /\ reaped => reaped'
          /\ own' = own
      <3> USE DEF WaitChild, At, Unfrozen, Failed, Idle, world
      <3>1. CASE WaitCommand \/ CommandLate \/ WaitKilled
        BY <3>1 DEF WaitCommand, CommandLate, WaitKilled
      <3>2. CASE StopRoot \/ Snapshot \/ NextReading \/ KillTree \/ ReapLate
        BY <3>2 DEF StopRoot, Snapshot, NextReading, KillTree, ReapLate
      <3>3. CASE StopListed \/ KillKnown \/ Known \/ Scan
        BY <3>3 DEF StopListed, KillKnown, Known, Scan
      <3>4. CASE Swept
        BY <3>4 DEF Swept
      <3>7. CASE Sweep
        <4>1. pc = "sweep" /\ pc' \in {"sweep", "drain", "cleanup"} /\ UNCHANGED <<reaped, own>>
          BY <3>7 DEF Sweep
        <4> QED  BY <4>1
      <3>5. CASE ReapRest \/ Finish
        BY <3>5 DEF ReapRest, Finish
      <3>6. CASE Drain
        BY <3>6 DEF Drain
      <3> QED  BY <1>3, <3>1, <3>2, <3>3, <3>4, <3>5, <3>6, <3>7 DEF BoundStep
    <2>3. interrupted' = "no" => pc' \in {"command", "commandLate"} \/ (own' /\ reaped')
      <3>1. CASE WaitCommand
        BY <2>2, <3>1 DEF WaitCommand, WaitChild, At, Quiet, OwnEnd
      <3>2. CASE CommandLate
        BY <2>2, <3>2 DEF CommandLate, At, OwnEnd
      <3>3. CASE ~WaitCommand /\ ~CommandLate
        <4>1. interrupted' = interrupted /\ pc \notin {"command", "commandLate"}
          BY <1>3, <3>3 DEF BoundStep, StopRoot, Snapshot, StopListed, NextReading,
                  KillTree, WaitKilled, ReapLate, KillKnown, Known, Scan, Sweep, Swept, ReapRest,
                  Finish, Drain, WaitChild, At, Unfrozen, Failed, Quiet
        <4> QED  BY <2>2, <4>1 DEF OwnEnd
      <3> QED  BY <3>1, <3>2, <3>3
    <2> QED  BY <2>1, <2>2, <2>3 DEF OwnEnd
  <1> QED  BY <1>1, <1>2, <1>3 DEF BoundNext

\* A result is given once, and what is true of it stays true.
LEMMA EndedStep ==
    ASSUME IInv, BoundNext
    PROVE  Ended' /\ NormalMeansGone' /\ StatusTrue'
  <1> USE DEF IInv
  <1>1. CASE result = "none" /\ World
    <2>1. UNCHANGED <<pc, result>>
      BY <1>1 DEF World, self
    <2>2. pc = "finish" => ~World
      <3> SUFFICES ASSUME NoneLeft, World PROVE FALSE
        BY DEF Ended
      <3> QED  BY DEF World, Fork, Setsid, Exit, Die, Wait, Runs, Alive, NoneLeft
    <2> QED  BY <1>1, <2>1, <2>2 DEF Ended, NormalMeansGone, StatusTrue
  <1>2. CASE result = "none" /\ (Tick \/ Signal)
    BY <1>2 DEF Tick, Signal, world, self, Ended, NoneLeft, NormalMeansGone, StatusTrue
  <1>3. CASE BoundStep
    <2>0. result = "none"
      BY <1>3 DEF BoundStep, WaitCommand, CommandLate, StopRoot, Snapshot, StopListed, NextReading,
                  KillTree, WaitKilled, ReapLate, KillKnown, Known, Scan, Sweep, Swept, ReapRest,
                  Finish, Drain, WaitChild, At, Unfrozen, Failed, Ended
    <2>1. CASE ReapRest
      <3>1. result' = "none"
        BY <2>0, <2>1 DEF ReapRest
      <3>2. pc' = "finish" => Children = {} /\ state' = state
        BY <2>1 DEF ReapRest, At
      <3>3. pc' = "finish" => NoneLeft'
        BY <3>2, ChildlessMeansNoneLeft DEF NoneLeft
      <3> QED  BY <3>1, <3>3 DEF Ended, NormalMeansGone, StatusTrue
    <2>2. CASE Finish
      <3>1. NoneLeft /\ UNCHANGED <<world, interrupted, reaped>>
        BY <2>2 DEF Finish, At, Ended, Quiet
      <3>2. NoneLeft'
        BY <3>1 DEF NoneLeft, world
      <3>3. pc' # "finish" /\ (result' # "none" => pc' = "done")
        BY <2>0, <2>2 DEF Finish, At
      <3>4. result' = "status" => interrupted = "no" /\ own /\ reaped
        BY <2>0, <2>2 DEF Finish, At, OwnEnd, PidTypes
      <3> QED  BY <3>1, <3>2, <3>3, <3>4 DEF Ended, NormalMeansGone, StatusTrue, NoneLeft, world
    <2>3. CASE Drain
      BY <2>0, <2>3 DEF Drain, At, Ended, NormalMeansGone, StatusTrue
    <2>4. CASE ~(ReapRest \/ Finish \/ Drain)
      <3>1. result' = "none" /\ pc' # "finish"
        BY <1>3, <2>0, <2>4 DEF BoundStep, WaitCommand, CommandLate, StopRoot, Snapshot, StopListed,
             NextReading, KillTree, WaitKilled, ReapLate, KillKnown, Known, Scan, Sweep, Swept,
             WaitChild, At, Unfrozen, Failed
      <3> QED  BY <3>1 DEF Ended, NormalMeansGone, StatusTrue
    <2> QED  BY <2>1, <2>2, <2>3, <2>4
  <1> QED  BY <1>1, <1>2, <1>3 DEF BoundNext

-----------------------------------------------------------------------------
(* The theorems.                                                            *)

LEMMA InitIInv == BoundInit => IInv
  <1> SUFFICES ASSUME BoundInit PROVE IInv
    OBVIOUS
  <1>1. PidTypes /\ Stopped
    BY Pids DEF BoundInit, PidTypes, Stopped
  <1>2. Family
    <2>1. \A p \in Proc : p \in Nat /\ p >= child
      BY Pids DEF Proc, child
    <2>2. \A p \in Proc : parent[p] = Self /\ (state[p] = "none" <=> p # child)
      BY DEF BoundInit
    <2>3. ASSUME NEW p \in Proc, NEW q \in Proc, p < q PROVE q # child
      BY <2>1, <2>3 DEF child
    <2> QED  BY <2>2, <2>3 DEF Family
  <1>3. OwnEnd /\ Ended
    BY Pids DEF BoundInit, OwnEnd, Ended
  <1>4. FrozenComplete /\ NormalMeansGone /\ StatusTrue
    BY DEF BoundInit, FrozenComplete, NormalMeansGone, StatusTrue
  <1> QED  BY <1>1, <1>2, <1>3, <1>4 DEF IInv

LEMMA StepIInv == IInv /\ [BoundNext]_boundvars => IInv'
  <1> SUFFICES ASSUME IInv, [BoundNext]_boundvars PROVE IInv'
    OBVIOUS
  <1>1. CASE BoundNext
    BY <1>1, TypesStep, FamilyStep, StoppedStep, OwnEndStep, EndedStep DEF IInv
  <1>2. CASE UNCHANGED boundvars
    BY <1>2 DEF boundvars, world, self, IInv, PidTypes, Family, Stopped, OwnEnd, Ended, NoneLeft,
                FrozenComplete, NormalMeansGone, StatusTrue, Alive
  <1> QED  BY <1>1, <1>2

LEMMA AlwaysIInv == BoundSpec => []IInv
  BY InitIInv, StepIInv, PTL DEF BoundSpec

\* bound ends normally only when no process the command left is alive or
\* unreaped, however many there are and whatever they do.
THEOREM NormalAlwaysMeansGone == BoundSpec => []NormalMeansGone
  <1>1. IInv => NormalMeansGone
    BY DEF IInv
  <1> QED  BY <1>1, AlwaysIInv, PTL

\* A tree that freeze_tree reports frozen has no member it does not know.
THEOREM FrozenAlwaysComplete == BoundSpec => []FrozenComplete
  <1>1. IInv => FrozenComplete
    BY DEF IInv
  <1> QED  BY <1>1, AlwaysIInv, PTL

\* The status that is passed on is that of a command that ended by itself.
THEOREM StatusAlwaysTrue == BoundSpec => []StatusTrue
  <1>1. IInv => StatusTrue
    BY DEF IInv
  <1> QED  BY <1>1, AlwaysIInv, PTL

-----------------------------------------------------------------------------
(* Trees.                                                                    *)

Forest(w) ==
    /\ w \in [DOMAIN w -> DOMAIN w \union {None}]
    /\ IsFiniteSet(DOMAIN w) /\ None \notin DOMAIN w
    /\ \A s \in SUBSET DOMAIN w : s # {} => \E n \in s : w[n] \notin s

\* Induction from the top down.
LEMMA ForestInduction ==
    ASSUME NEW w, Forest(w), NEW P, \A n \in DOMAIN w : (w[n] # None => w[n] \in P) => n \in P
    PROVE  DOMAIN w \subseteq P
  <1> SUFFICES ASSUME DOMAIN w \ P # {} PROVE FALSE
    OBVIOUS
  <1>1. PICK n \in DOMAIN w \ P : w[n] \notin DOMAIN w \ P
    BY DEF Forest
  <1>2. w[n] # None => w[n] \in DOMAIN w
    BY DEF Forest
  <1> QED  BY <1>1, <1>2

\* The function that Path takes its value from.
Climb(w) == CHOOSE up : up = [m \in DOMAIN w \union {None} |-> IF m = None THEN <<>> ELSE <<m>> \o up[w[m]]]

LEMMA PathIsClimb ==
    ASSUME NEW w, NEW n
    PROVE  Path(w, n) = Climb(w)[n]
  BY DEF Path, Climb

ClimbsOn(w, c, f) == f[None] = <<>> /\ \A m \in c : f[m] = <<m>> \o f[w[m]]

LEMMA ClimbExists ==
    ASSUME NEW w, Forest(w)
    PROVE  ClimbsOn(w, DOMAIN w, Climb(w))
  <1> DEFINE Nodes0 == DOMAIN w
             Done(c) == /\ c \in SUBSET Nodes0 /\ \A m \in c : w[m] \in c \union {None}
                        /\ \E f : ClimbsOn(w, c, f)
             Missing == {k \in Nat : \E c : Done(c) /\ Cardinality(Nodes0 \ c) = k}
  <1>0. None \notin Nodes0 /\ IsFiniteSet(Nodes0)
    BY DEF Forest
  <1>1. \A c \in SUBSET Nodes0 : IsFiniteSet(Nodes0 \ c) /\ Cardinality(Nodes0 \ c) \in Nat
    <2> SUFFICES ASSUME NEW c \in SUBSET Nodes0
                 PROVE  IsFiniteSet(Nodes0 \ c) /\ Cardinality(Nodes0 \ c) \in Nat
      OBVIOUS
    <2>1. IsFiniteSet(Nodes0 \ c)
      BY <1>0, FS_Difference
    <2> QED  BY <2>1, FS_CardinalityType
  <1>2. Missing # {}
    <2> DEFINE f0 == [x \in {None} |-> <<>>]
    <2>1. ClimbsOn(w, {}, f0)
      BY DEF ClimbsOn
    <2>2. Done({})
      BY <2>1
    <2>3. Cardinality(Nodes0 \ {}) \in Missing
      <3> HIDE DEF Done
      <3> QED  BY <1>1, <2>2
    <2> QED  BY <2>3
  <1>3. PICK k \in Missing : \A j \in Missing : k <= j
    <2> HIDE DEF Missing
    <2>1. Missing \in SUBSET Nat
      BY DEF Missing
    <2> QED  BY <1>2, <2>1, LeastNatural
  <1>4. PICK c : Done(c) /\ Cardinality(Nodes0 \ c) = k
    OBVIOUS
  <1>5. PICK f : ClimbsOn(w, c, f)
    BY <1>4
  <1>6. c = Nodes0
    <2> SUFFICES ASSUME Nodes0 \ c # {} PROVE FALSE
      BY <1>4
    <2>1. PICK x \in Nodes0 \ c : w[x] \notin Nodes0 \ c
      BY DEF Forest
    <2>2. w[x] \in c \union {None}
      BY <2>1 DEF Forest
    <2> DEFINE g == [m \in c \union {x, None} |-> IF m = x THEN <<x>> \o f[w[x]] ELSE f[m]]
               d == c \union {x}
    <2>3. x # None /\ x \notin c
      BY <1>0, <2>1
    <2>4. g[None] = <<>> /\ \A m \in c \union {None} : g[m] = f[m]
      BY <1>5, <2>3 DEF ClimbsOn
    <2>5. g[x] = <<x>> \o f[w[x]]
      OBVIOUS
    <2> HIDE DEF g
    <2>6. ASSUME NEW m \in d PROVE g[m] = <<m>> \o g[w[m]]
      <3>1. CASE m = x
        BY <2>2, <2>4, <2>5, <3>1
      <3>2. CASE m # x
        <4>1. m \in c /\ w[m] \in c \union {None}
          BY <1>4, <3>2
        <4> QED  BY <1>5, <2>4, <4>1 DEF ClimbsOn
      <3> QED  BY <3>1, <3>2
    <2>7. ClimbsOn(w, d, g)
      BY <2>4, <2>6 DEF ClimbsOn
    <2>8. Done(d)
      BY <1>4, <2>1, <2>2, <2>7
    <2>9. Cardinality(Nodes0 \ d) = k - 1 /\ Cardinality(Nodes0 \ d) \in Nat /\ k \in Nat
      <3>1. IsFiniteSet(Nodes0 \ c) /\ x \in Nodes0 \ c /\ (Nodes0 \ c) \ {x} = Nodes0 \ d
        BY <1>1, <1>4, <2>1
      <3>2. PICK s : s = Nodes0 \ c
        OBVIOUS
      <3>4. Cardinality(s \ {x}) = Cardinality(s) - 1
        BY <3>1, <3>2, FS_RemoveElement
      <3>5. Cardinality(Nodes0 \ d) = k - 1
        BY <1>4, <3>1, <3>2, <3>4
      <3>3. d \in SUBSET Nodes0
        BY <1>4, <2>1
      <3> QED  BY <1>1, <3>5, <3>3
    <2>10. k - 1 \in Missing
      <3> HIDE DEF Done, d
      <3> QED  BY <2>8, <2>9
    <2>11. k <= k - 1
      <3> HIDE DEF Missing
      <3> QED  BY <1>3, <2>10
    <2> QED  BY <2>9, <2>11
  <1> DEFINE h == [m \in DOMAIN w \union {None} |-> f[m]]
  <1>7. h = [m \in DOMAIN w \union {None} |-> IF m = None THEN <<>> ELSE <<m>> \o h[w[m]]]
    <2>1. ASSUME NEW m \in DOMAIN w \union {None}
          PROVE  f[m] = IF m = None THEN <<>> ELSE <<m>> \o h[w[m]]
      <3>1. CASE m = None
        BY <1>5, <3>1 DEF ClimbsOn
      <3>2. CASE m # None
        <4>1. m \in DOMAIN w /\ w[m] \in DOMAIN w \union {None}
          BY <3>2 DEF Forest
        <4> QED  BY <1>5, <1>6, <3>2, <4>1 DEF ClimbsOn
      <3> QED  BY <3>1, <3>2
    <2> QED  BY <2>1
  <1>8. Climb(w) = [m \in DOMAIN w \union {None} |-> IF m = None THEN <<>> ELSE <<m>> \o Climb(w)[w[m]]]
    <2> HIDE DEF h
    <2> QED  BY <1>7 DEF Climb
  <1>9. PICK u : u = Climb(w)
    OBVIOUS
  <1>10. u = [m \in DOMAIN w \union {None} |-> IF m = None THEN <<>> ELSE <<m>> \o u[w[m]]]
    BY <1>8, <1>9
  <1>11. ClimbsOn(w, DOMAIN w, u)
    BY <1>0, <1>10 DEF ClimbsOn
  <1> QED  BY <1>9, <1>11

LEMMA PathUp ==
    ASSUME NEW w, Forest(w)
    PROVE  /\ Path(w, None) = <<>>
           /\ \A n \in DOMAIN w : Path(w, n) = <<n>> \o Path(w, w[n])
  BY ClimbExists, PathIsClimb DEF ClimbsOn

LEMMA PathIsSeq ==
    ASSUME NEW w, Forest(w)
    PROVE  \A n \in DOMAIN w \union {None} : Path(w, n) \in Seq(DOMAIN w)
  <1> DEFINE P == {n \in DOMAIN w : Path(w, n) \in Seq(DOMAIN w)}
  <1>1. ASSUME NEW n \in DOMAIN w, w[n] # None => w[n] \in P PROVE n \in P
    <2>1. Path(w, w[n]) \in Seq(DOMAIN w)
      <3>1. CASE w[n] = None
        <4>1. Path(w, w[n]) = <<>>
          BY <3>1, PathUp
        <4> QED  BY <4>1
      <3>2. CASE w[n] # None
        BY <1>1, <3>2
      <3> QED  BY <3>1, <3>2
    <2>p. PICK p : p = Path(w, w[n])
      OBVIOUS
    <2>2. <<n>> \o p \in Seq(DOMAIN w)
      BY <2>1, <2>p
    <2>3. Path(w, n) = <<n>> \o p
      BY <2>p, PathUp
    <2> QED  BY <2>2, <2>3
  <1>2. DOMAIN w \subseteq P
    <2> HIDE DEF P
    <2> QED  BY <1>1, ForestInduction
  <1>3. Path(w, None) \in Seq(DOMAIN w)
    <2>1. Path(w, None) = <<>>
      BY PathUp
    <2> QED  BY <2>1
  <1> QED  BY <1>2, <1>3

\* p is n, and then q.
Longer(p, q, n, S) ==
    /\ p \in Seq(S) /\ q \in Seq(S) /\ Len(p) = 1 + Len(q)
    /\ p[1] = n /\ \A i \in 1 .. Len(q) : p[i + 1] = q[i]

LEMMA PathParts ==
    ASSUME NEW w, Forest(w), NEW n \in DOMAIN w
    PROVE  Longer(Path(w, n), Path(w, w[n]), n, DOMAIN w)
  <1>1. w[n] \in DOMAIN w \union {None}
    BY DEF Forest
  <1>p. PICK p : p = Path(w, n)
    OBVIOUS
  <1>q. PICK q : q = Path(w, w[n])
    OBVIOUS
  <1>2. p \in Seq(DOMAIN w) /\ q \in Seq(DOMAIN w) /\ p = <<n>> \o q
    BY <1>1, <1>p, <1>q, PathIsSeq, PathUp
  <1>3. Len(p) = 1 + Len(q) /\ p[1] = n /\ \A i \in 1 .. Len(q) : p[i + 1] = q[i]
    BY <1>2
  <1>4. Longer(p, q, n, DOMAIN w)
    BY <1>2, <1>3 DEF Longer
  <1> QED  BY <1>4, <1>p, <1>q

LEMMA AboveUp ==
    ASSUME NEW w, Forest(w)
    PROVE  /\ Above(w, None) = {}
           /\ \A n \in DOMAIN w : Above(w, n) = {n} \union Above(w, w[n])
  <1>1. Above(w, None) = {}
    <2>1. Path(w, None) = <<>>
      BY PathUp
    <2> QED  BY <2>1 DEF Above
  <1>2. ASSUME NEW n \in DOMAIN w PROVE Above(w, n) = {n} \union Above(w, w[n])
    <2>p. PICK p : p = Path(w, n)
      OBVIOUS
    <2>q. PICK q : q = Path(w, w[n])
      OBVIOUS
    <2>0. Longer(p, q, n, DOMAIN w)
      BY <2>p, <2>q, PathParts
    <2>1. /\ p \in Seq(DOMAIN w) /\ q \in Seq(DOMAIN w) /\ Len(p) = 1 + Len(q)
          /\ p[1] = n /\ \A i \in 1 .. Len(q) : p[i + 1] = q[i]
      BY <2>0 DEF Longer
    <2>2. Above(w, n) = {p[i] : i \in DOMAIN p} /\ Above(w, w[n]) = {q[i] : i \in DOMAIN q}
      BY <2>p, <2>q DEF Above
    <2>3. ASSUME NEW i \in DOMAIN p PROVE p[i] \in {n} \union {q[j] : j \in DOMAIN q}
      <3>1. CASE i = 1
        BY <2>1, <3>1
      <3>2. CASE i # 1
        <4>1. i - 1 \in 1 .. Len(q) /\ (i - 1) + 1 = i
          BY <2>1, <3>2
        <4>2. p[i] = q[i - 1] /\ i - 1 \in DOMAIN q
          BY <2>1, <4>1
        <4> QED  BY <4>2
      <3> QED  BY <3>1, <3>2
    <2>4. 1 \in DOMAIN p /\ n = p[1]
      BY <2>1
    <2>5. ASSUME NEW j \in DOMAIN q PROVE q[j] \in {p[i] : i \in DOMAIN p}
      <3>1. j \in 1 .. Len(q) /\ j + 1 \in DOMAIN p
        BY <2>1
      <3> QED  BY <2>1, <3>1
    <2>6. {p[i] : i \in DOMAIN p} = {n} \union {q[j] : j \in DOMAIN q}
      BY <2>3, <2>4, <2>5
    <2> QED  BY <2>2, <2>6
  <1> QED  BY <1>1, <1>2

LEMMA AboveIn ==
    ASSUME NEW w, Forest(w)
    PROVE  \A n \in DOMAIN w \union {None} : Above(w, n) \subseteq DOMAIN w
  BY PathIsSeq DEF Above

\* A node is above itself, and what is above one of those above is above too.
LEMMA AboveTransitive ==
    ASSUME NEW w, Forest(w)
    PROVE  /\ \A n \in DOMAIN w : n \in Above(w, n)
           /\ \A n \in DOMAIN w : \A a \in Above(w, n) : Above(w, a) \subseteq Above(w, n)
  <1> DEFINE P == {n \in DOMAIN w : \A a \in Above(w, n) : Above(w, a) \subseteq Above(w, n)}
  <1>1. ASSUME NEW n \in DOMAIN w, w[n] # None => w[n] \in P PROVE n \in P
    <2>1. \A a \in Above(w, w[n]) : Above(w, a) \subseteq Above(w, w[n])
      BY <1>1, AboveUp
    <2> QED  BY <2>1, AboveUp
  <1>2. DOMAIN w \subseteq P
    <2> HIDE DEF P
    <2> QED  BY <1>1, ForestInduction
  <1> QED  BY <1>2, AboveUp

\* Nobody is above what is above him.
LEMMA AboveStrict ==
    ASSUME NEW w, Forest(w)
    PROVE  \A n \in DOMAIN w : n \notin Above(w, w[n])
  <1> DEFINE P == {n \in DOMAIN w : n \notin Above(w, w[n])}
  <1>1. ASSUME NEW n \in DOMAIN w, w[n] # None => w[n] \in P PROVE n \in P
    <2> SUFFICES ASSUME n \in Above(w, w[n]) PROVE FALSE
      OBVIOUS
    <2>m. PICK m : m = w[n]
      OBVIOUS
    <2>1. m \in DOMAIN w /\ m \notin Above(w, w[m])
      BY <1>1, <2>m, AboveUp
    <2>2. n \in Above(w, w[m])
      BY <2>m, <2>1, AboveUp
    <2>3. w[m] \in DOMAIN w
      BY <2>1, <2>2, AboveUp DEF Forest
    <2>4. m \in Above(w, n)
      BY <2>m, <2>1, AboveUp, AboveTransitive
    <2> QED  BY <2>1, <2>2, <2>3, <2>4, AboveTransitive
  <1>2. DOMAIN w \subseteq P
    <2> HIDE DEF P
    <2> QED  BY <1>1, ForestInduction
  <1> QED  BY <1>2

LEMMA AboveOrder ==
    ASSUME NEW w, Forest(w), NEW a \in DOMAIN w, NEW b \in DOMAIN w, a \in Above(w, b), b \in Above(w, a)
    PROVE  a = b
  <1> SUFFICES ASSUME a # b PROVE FALSE
    OBVIOUS
  <1>1. a \in Above(w, w[b])
    BY AboveUp
  <1>2. w[b] \in DOMAIN w
    BY <1>1, AboveUp DEF Forest
  <1>3. b \in Above(w, w[b])
    BY <1>1, <1>2, AboveTransitive
  <1> QED  BY <1>3, AboveStrict

\* The nodes above one node are in a line.
LEMMA AboveChain ==
    ASSUME NEW w, Forest(w)
    PROVE  \A n \in DOMAIN w : \A a, b \in Above(w, n) : a \in Above(w, b) \/ b \in Above(w, a)
  <1> DEFINE P == {n \in DOMAIN w : \A a, b \in Above(w, n) : a \in Above(w, b) \/ b \in Above(w, a)}
  <1>1. ASSUME NEW n \in DOMAIN w, w[n] # None => w[n] \in P PROVE n \in P
    <2>1. \A a, b \in Above(w, w[n]) : a \in Above(w, b) \/ b \in Above(w, a)
      BY <1>1, AboveUp
    <2> QED  BY <2>1, AboveUp
  <1>2. DOMAIN w \subseteq P
    <2> HIDE DEF P
    <2> QED  BY <1>1, ForestInduction
  <1> QED  BY <1>2

\* Of some of the nodes above n one is nearest.
LEMMA Nearest ==
    ASSUME NEW w, Forest(w)
    PROVE  \A n \in DOMAIN w : \A r \in SUBSET Above(w, n) : r # {} => \E d \in r : r \subseteq Above(w, d)
  <1> DEFINE P == {n \in DOMAIN w : \A r \in SUBSET Above(w, n) : r # {} => \E d \in r : r \subseteq Above(w, d)}
  <1>1. ASSUME NEW n \in DOMAIN w, w[n] # None => w[n] \in P PROVE n \in P
    <2>1. SUFFICES ASSUME NEW r \in SUBSET Above(w, n), r # {} PROVE \E d \in r : r \subseteq Above(w, d)
      OBVIOUS
    <2>2. CASE n \in r
      BY <2>2
    <2>3. CASE n \notin r
      <3>1. r \in SUBSET Above(w, w[n])
        BY <2>3, AboveUp
      <3>2. w[n] # None
        BY <2>1, <3>1, AboveUp
      <3> QED  BY <1>1, <2>1, <3>1, <3>2
    <2> QED  BY <2>2, <2>3
  <1>2. DOMAIN w \subseteq P
    <2> HIDE DEF P
    <2> QED  BY <1>1, ForestInduction
  <1> QED  BY <1>2

SameUp(w, v, n) == Path(v, n) = Path(w, n) /\ Above(v, n) = Above(w, n)

\* A path is what the nodes on it are in, and tells it.
LEMMA PathSame ==
    ASSUME NEW w, Forest(w), NEW v, Forest(v), DOMAIN v = DOMAIN w
    PROVE  \A n \in DOMAIN w : (\A a \in Above(w, n) : v[a] = w[a]) => SameUp(w, v, n)
  <1> DEFINE P == {n \in DOMAIN w : (\A a \in Above(w, n) : v[a] = w[a]) => Path(v, n) = Path(w, n)}
  <1>1. ASSUME NEW n \in DOMAIN w, w[n] # None => w[n] \in P PROVE n \in P
    <2>1. SUFFICES ASSUME \A a \in Above(w, n) : v[a] = w[a] PROVE Path(v, n) = Path(w, n)
      OBVIOUS
    <2>2. v[n] = w[n] /\ \A a \in Above(w, w[n]) : v[a] = w[a]
      BY <2>1, AboveUp
    <2>3. Path(v, w[n]) = Path(w, w[n])
      BY <1>1, <2>2, PathUp
    <2> QED  BY <2>2, <2>3, PathUp
  <1>2. DOMAIN w \subseteq P
    <2> HIDE DEF P
    <2> QED  BY <1>1, ForestInduction
  <1> QED  BY <1>2 DEF Above, SameUp

LEMMA PathTells ==
    ASSUME NEW w, Forest(w), NEW v, Forest(v), DOMAIN v = DOMAIN w
    PROVE  \A n \in DOMAIN w : Path(v, n) = Path(w, n) =>
               (\A a \in Above(w, n) : v[a] = w[a]) /\ Above(v, n) = Above(w, n)
  <1> DEFINE P == {n \in DOMAIN w : Path(v, n) = Path(w, n) => \A a \in Above(w, n) : v[a] = w[a]}
  <1>1. ASSUME NEW n \in DOMAIN w, w[n] # None => w[n] \in P PROVE n \in P
    <2>1. SUFFICES ASSUME Path(v, n) = Path(w, n) PROVE \A a \in Above(w, n) : v[a] = w[a]
      OBVIOUS
    <2>p. PICK p : p = Path(w, w[n])
      OBVIOUS
    <2>q. PICK q : q = Path(v, v[n])
      OBVIOUS
    <2>r. PICK r : r = Path(w, n)
      OBVIOUS
    <2>2. Longer(r, p, n, DOMAIN w) /\ Longer(r, q, n, DOMAIN w)
      BY <2>1, <2>p, <2>q, <2>r, PathParts
    <2>3. p = q
      <3>1. p \in Seq(DOMAIN w) /\ q \in Seq(DOMAIN w) /\ Len(p) = Len(q)
        BY <2>2 DEF Longer
      <3>2. \A i \in 1 .. Len(p) : p[i] = q[i]
        BY <2>2 DEF Longer
      <3> QED  BY <3>1, <3>2
    <2>4. v[n] = w[n]
      <3>1. CASE w[n] = None
        <4>1. p = <<>>
          BY <2>p, <3>1, PathUp
        <4>2. v[n] # None => Longer(q, Path(v, v[v[n]]), v[n], DOMAIN w)
          BY <2>q, PathParts DEF Forest
        <4>3. v[n] # None => Len(q) # 0
          BY <4>2 DEF Longer
        <4> QED  BY <2>3, <3>1, <4>1, <4>3
      <3>2. CASE w[n] # None
        <4>1. Longer(p, Path(w, w[w[n]]), w[n], DOMAIN w)
          BY <2>p, <3>2, PathParts DEF Forest
        <4>2. Len(p) # 0 /\ p[1] = w[n]
          BY <4>1 DEF Longer
        <4>3. v[n] # None
          BY <2>q, <2>3, <4>2, PathUp
        <4>4. Longer(q, Path(v, v[v[n]]), v[n], DOMAIN w)
          BY <2>q, <4>3, PathParts DEF Forest
        <4> QED  BY <2>3, <4>2, <4>4 DEF Longer
      <3> QED  BY <3>1, <3>2
    <2>5. \A a \in Above(w, w[n]) : v[a] = w[a]
      BY <1>1, <2>p, <2>q, <2>3, <2>4, AboveUp
    <2> QED  BY <2>4, <2>5, AboveUp
  <1>2. DOMAIN w \subseteq P
    <2> HIDE DEF P
    <2> QED  BY <1>1, ForestInduction
  <1> QED  BY <1>2 DEF Above

-----------------------------------------------------------------------------
(* The trees of a site.                                                      *)

Nodes == DOMAIN Site.tree
Made == Site.stamps \union Site.bins \union Site.news

TreeOk(w) == DOMAIN w = Nodes /\ IsTree(w, Site.kind)
There(w, n) == n = Root \/ w[n] # None

LEMMA SiteFacts ==
    ASSUME site \in DOMAIN Sites
    PROVE  /\ IsFiniteSet(Nodes) /\ Root \in Nodes /\ None \notin Nodes
           /\ TreeOk(Site.tree)
           /\ Site.stamps \intersect Site.bins = {} /\ Site.news \intersect (Site.stamps \union Site.bins) = {}
           /\ \A n \in Made : n \in Nodes /\ n # Root /\ Site.tree[n] = None
           /\ \A n \in Site.stamps : IsDir(n)
           /\ \A n \in Site.bins : Site.name[n] = "trash"
           /\ Site.home \in Nodes /\ Site.cwd \in Nodes /\ Site.tmps \subseteq Nodes
           /\ Site.paths \subseteq Nodes /\ Site.lists \subseteq Seq(Nodes) /\ Site.trashes \subseteq Nodes
           /\ Site.caps \subseteq Nat
  <1> DEFINE s == Sites[site]
  <1>1. /\ IsFiniteSet(DOMAIN s.tree) /\ Root \in DOMAIN s.tree /\ None \notin DOMAIN s.tree
        /\ IsTree(s.tree, s.kind)
    BY SafeDelAssumption
  <1>2. s.stamps \intersect s.bins = {} /\ s.news \intersect (s.stamps \union s.bins) = {}
    BY SafeDelAssumption
  <1>3. /\ \A n \in s.stamps \union s.bins \union s.news : n \in DOMAIN s.tree \ {Root} /\ s.tree[n] = None
        /\ \A n \in s.stamps : s.kind[n] = "dir"
        /\ \A n \in s.bins : s.name[n] = "trash"
    BY SafeDelAssumption
  <1>4. /\ s.home \in DOMAIN s.tree /\ s.cwd \in DOMAIN s.tree /\ s.tmps \subseteq DOMAIN s.tree
        /\ s.paths \subseteq DOMAIN s.tree /\ s.lists \subseteq Seq(DOMAIN s.tree) /\ s.trashes \subseteq DOMAIN s.tree
        /\ s.caps \subseteq Nat
    BY SafeDelAssumption
  <1>5. Site = s
    BY DEF Site
  <1> HIDE DEF s
  <1> QED  BY <1>1, <1>2, <1>3, <1>4, <1>5 DEF Nodes, Made, TreeOk, IsDir

LEMMA TreeIsForest ==
    ASSUME site \in DOMAIN Sites, NEW w, TreeOk(w)
    PROVE  Forest(w) /\ DOMAIN w = Nodes
  BY SiteFacts DEF TreeOk, IsTree, Forest

\* What is there is below the root.
LEMMA RootAbove ==
    ASSUME site \in DOMAIN Sites, NEW w, TreeOk(w)
    PROVE  \A n \in Nodes : There(w, n) <=> Root \in Above(w, n)
  <1> USE TreeIsForest
  <1> DEFINE P == {n \in Nodes : There(w, n) <=> Root \in Above(w, n)}
  <1>1. ASSUME NEW n \in Nodes, w[n] # None => w[n] \in P PROVE n \in P
    <2>1. Above(w, n) = {n} \union Above(w, w[n])
      BY AboveUp
    <2>2. CASE w[n] = None
      BY <2>1, <2>2, AboveUp DEF There
    <2>3. CASE w[n] # None
      <3>1. There(w, w[n])
        BY <2>3 DEF There, TreeOk, IsTree
      <3> QED  BY <1>1, <2>1, <2>3, <3>1 DEF There
    <2> QED  BY <2>2, <2>3
  <1>2. Nodes \subseteq P
    <2> HIDE DEF P
    <2> QED  BY <1>1, ForestInduction
  <1> QED  BY <1>2

LEMMA ThereAbove ==
    ASSUME site \in DOMAIN Sites, NEW w, TreeOk(w)
    PROVE  \A n \in Nodes : There(w, n) => \A a \in Above(w, n) : There(w, a)
  <1> USE TreeIsForest
  <1> SUFFICES ASSUME NEW n \in Nodes, There(w, n), NEW a \in Above(w, n) PROVE There(w, a)
    OBVIOUS
  <1>1. a \in Nodes /\ Root \in Above(w, n) /\ Root \in Nodes
    BY AboveIn, RootAbove, SiteFacts
  <1>2. Root \in Above(w, a) \/ a \in Above(w, Root)
    BY <1>1, AboveChain
  <1>3. a \in Above(w, Root) => a = Root
    BY <1>1, AboveUp DEF TreeOk, IsTree
  <1> QED  BY <1>1, <1>2, <1>3, RootAbove DEF There

\* Above a node are directories.
LEMMA AboveIsDir ==
    ASSUME site \in DOMAIN Sites, NEW w, TreeOk(w)
    PROVE  \A n \in Nodes : \A a \in Above(w, n) \ {n} : IsDir(a) /\ \E m \in Above(w, n) : w[m] = a
  <1> USE TreeIsForest
  <1> DEFINE P == {n \in Nodes : \A a \in Above(w, n) \ {n} : \E m \in Above(w, n) : w[m] = a}
  <1>1. ASSUME NEW n \in Nodes, w[n] # None => w[n] \in P PROVE n \in P
    <2>1. Above(w, n) = {n} \union Above(w, w[n])
      BY AboveUp
    <2>2. CASE w[n] = None
      BY <2>1, <2>2, AboveUp
    <2>3. CASE w[n] # None
      <3>1. \A a \in Above(w, w[n]) \ {w[n]} : \E m \in Above(w, w[n]) : w[m] = a
        BY <1>1, <2>3
      <3> QED  BY <2>1, <3>1
    <2> QED  BY <2>2, <2>3
  <1>2. Nodes \subseteq P
    <2> HIDE DEF P
    <2> QED  BY <1>1, ForestInduction
  <1>3. ASSUME NEW n \in Nodes, NEW a \in Above(w, n) \ {n} PROVE IsDir(a)
    <2>1. PICK m \in Above(w, n) : w[m] = a
      BY <1>2
    <2>2. m \in Nodes /\ a \in Nodes /\ a # None
      BY AboveIn, SiteFacts
    <2> QED  BY <2>1, <2>2 DEF TreeOk, IsTree, IsDir
  <1> QED  BY <1>2, <1>3

\* A node that is not there is above nothing that is.
LEMMA AbsentAbove ==
    ASSUME site \in DOMAIN Sites, NEW w, TreeOk(w), NEW x, ~There(w, x)
    PROVE  \A n \in Nodes : There(w, n) => x \notin Above(w, n)
  BY ThereAbove

\* x is put into y, or away.
Put(w, x, y) == [w EXCEPT ![x] = y]

\* The tree after that, as long as x does not go below itself.
PutRight(w, x, y) ==
    /\ TreeOk(Put(w, x, y))
    /\ \A n \in Nodes : x \notin Above(w, n) => SameUp(w, Put(w, x, y), n)

LEMMA PutKeeps ==
    ASSUME site \in DOMAIN Sites, NEW w, TreeOk(w), NEW x \in Nodes \ {Root}, NEW y \in Nodes \union {None},
           x \notin Above(w, y),
           IF y = None THEN In(w, x) = {} ELSE IsDir(y) /\ There(w, y)
    PROVE  PutRight(w, x, y)
  <1>v. PICK v : v = Put(w, x, y)
    OBVIOUS
  <1>f. Forest(w) /\ DOMAIN w = Nodes
    BY TreeIsForest
  <1>1. DOMAIN v = Nodes /\ v \in [Nodes -> Nodes \union {None}] /\ v[x] = y /\ \A n \in Nodes \ {x} : v[n] = w[n]
    BY <1>v, <1>f DEF Put, Forest
  <1>2. v[Root] = None
    BY <1>1, SiteFacts DEF TreeOk, IsTree
  <1>3. ASSUME NEW n \in Nodes, v[n] # None
        PROVE  Site.kind[v[n]] = "dir" /\ (v[n] = Root \/ v[v[n]] # None)
    <2>1. CASE n # x
      <3>1. v[n] = w[n] /\ w[n] # None /\ w[n] \in Nodes
        BY <1>1, <1>3, <2>1
      <3>2. Site.kind[w[n]] = "dir" /\ (w[n] = Root \/ w[w[n]] # None)
        BY <3>1 DEF TreeOk, IsTree
      <3>3. CASE y = None
        <4>1. w[n] # x
          BY <3>3, <1>f DEF In
        <4> QED  BY <1>1, <3>1, <3>2, <4>1
      <3>4. CASE y # None
        BY <1>1, <3>1, <3>2, <3>4
      <3> QED  BY <3>3, <3>4
    <2>2. CASE n = x
      <3>1. v[n] = y /\ y \in Nodes /\ y # None
        BY <1>1, <1>3, <2>2
      <3>2. y \in Above(w, y)
        BY <1>f, <3>1, AboveTransitive
      <3> QED  BY <1>1, <3>1, <3>2 DEF There, IsDir
    <2> QED  BY <2>1, <2>2
  <1>4. ASSUME NEW s \in SUBSET Nodes, s # {} PROVE \E n \in s : v[n] \notin s
    <2>1. \A t \in SUBSET Nodes : t # {} => \E n \in t : w[n] \notin t
      BY <1>f DEF Forest
    <2>2. CASE y \notin s
      BY <1>1, <1>4, <2>1, <2>2
    <2>3. CASE y \in s
      <3>1. y \in Nodes /\ y \in Above(w, y) /\ Above(w, y) \subseteq Nodes
        BY <1>f, <2>3, AboveTransitive, AboveIn
      <3>2. PICK n \in s \intersect Above(w, y) : w[n] \notin s \intersect Above(w, y)
        BY <2>1, <2>3, <3>1
      <3>3. n # x /\ v[n] = w[n]
        BY <1>1, <3>2
      <3>4. w[n] # None => w[n] \in Above(w, y)
        <4>1. Above(w, n) = {n} \union Above(w, w[n]) /\ Above(w, n) \subseteq Above(w, y)
          BY <1>f, <3>1, <3>2, AboveUp, AboveTransitive
        <4>2. w[n] # None => w[n] \in Above(w, w[n])
          BY <1>f, AboveTransitive DEF Forest
        <4> QED  BY <4>1, <4>2
      <3>5. None \notin s
        BY SiteFacts
      <3> QED  BY <3>2, <3>3, <3>4, <3>5
    <2> QED  BY <2>2, <2>3
  <1>5. TreeOk(v)
    BY <1>1, <1>2, <1>3, <1>4 DEF TreeOk, IsTree
  <1>6. ASSUME NEW n \in Nodes, x \notin Above(w, n) PROVE SameUp(w, v, n)
    <2>1. \A a \in Above(w, n) : v[a] = w[a]
      BY <1>1, <1>6, <1>f, AboveIn
    <2> QED  BY <1>5, <1>f, <2>1, TreeIsForest, PathSame
  <1> QED  BY <1>5, <1>6, <1>v DEF PutRight

-----------------------------------------------------------------------------
(* What the checks say.                                                      *)

LEMMA TreeDown ==
    ASSUME site \in DOMAIN Sites, NEW w, TreeOk(w), NEW n \in Nodes
    PROVE  /\ n \in Tree(w, n) /\ Tree(w, n) \subseteq Nodes
           /\ \A m \in Tree(w, n) : In(w, m) \subseteq Tree(w, n) \ {n}
           /\ \A m \in Tree(w, n) \ {n} : w[m] \in Tree(w, n)
  <1> USE TreeIsForest
  <1>1. n \in Tree(w, n) /\ Tree(w, n) \subseteq Nodes
    BY AboveTransitive DEF Tree
  <1>2. ASSUME NEW m \in Tree(w, n), NEW c \in In(w, m) PROVE c \in Tree(w, n) \ {n}
    <2>1. c \in Nodes /\ w[c] = m /\ n \in Above(w, m)
      BY DEF Tree, In
    <2>2. n \in Above(w, c)
      BY <2>1, AboveUp
    <2>3. c # n
      BY <2>1, AboveStrict
    <2> QED  BY <2>1, <2>2, <2>3 DEF Tree
  <1>3. ASSUME NEW m \in Tree(w, n) \ {n} PROVE w[m] \in Tree(w, n)
    <2>1. n \in Above(w, w[m]) /\ m \in Nodes
      BY AboveUp DEF Tree
    <2>2. w[m] # None
      BY <2>1, AboveUp
    <2> QED  BY <2>1, <2>2 DEF Tree, Forest
  <1> QED  BY <1>1, <1>2, <1>3

\* The directories with a .git above n.
Repos(w, n) == {d \in Above(w, n) : HasGit(w, d)}

NearestOf(w, r) == IF r = {} THEN None ELSE Deepest(w, r)

LEMMA RepoIs ==
    ASSUME NEW w, NEW n
    PROVE  Repo(w, n) = NearestOf(w, Repos(w, n))
  BY DEF Repo, Repos, NearestOf

LEMMA RepoNearest ==
    ASSUME site \in DOMAIN Sites, NEW w, TreeOk(w), NEW n \in Nodes
    PROVE  IF Repos(w, n) = {} THEN Repo(w, n) = None
           ELSE Repo(w, n) \in Repos(w, n) /\ Repos(w, n) \subseteq Above(w, Repo(w, n)) /\ Repo(w, n) # None
  <1>1. CASE Repos(w, n) = {}
    BY <1>1, RepoIs DEF NearestOf
  <1>2. CASE Repos(w, n) # {}
    <2>1. \E d \in Repos(w, n) : Repos(w, n) \subseteq Above(w, d)
      <3>1. Repos(w, n) \in SUBSET Above(w, n)
        BY DEF Repos
      <3> QED  BY <1>2, <3>1, Nearest, TreeIsForest
    <2>2. Repo(w, n) = CHOOSE d \in Repos(w, n) : Repos(w, n) \subseteq Above(w, d)
      BY <1>2, RepoIs DEF NearestOf, Deepest
    <2>3. Repo(w, n) \in Repos(w, n) /\ Repos(w, n) \subseteq Above(w, Repo(w, n))
      BY <2>1, <2>2
    <2>4. Repos(w, n) \subseteq Nodes
      BY AboveIn, TreeIsForest DEF Repos
    <2> QED  BY <1>2, <2>3, <2>4, SiteFacts
  <1> QED  BY <1>1, <1>2

\* What is whitelisted is below the place that its trash is in, and is no
\* repository itself.
LEMMA WhitelistMeans ==
    ASSUME site \in DOMAIN Sites, NEW w, TreeOk(w), NEW n \in Nodes, Whitelisted(w, n, FALSE)
    PROVE  TrashHome(w, n) \in Above(w, n) \ {n} /\ n \notin Repos(w, n)
  <1> USE TreeIsForest
  <1>h. PICK h : h = Repo(w, n)
    OBVIOUS
  <1>1. CASE h # None
    <2>1. PICK a \in Above(w, n) \ {n} : w[a] = h
      BY <1>h, <1>1 DEF Whitelisted
    <2>2. a \in Nodes /\ h \in Above(w, n) /\ Repos(w, n) \subseteq Above(w, h)
      BY <1>h, <1>1, RepoNearest, AboveIn DEF Repos
    <2>3. h # n
      BY <2>1, <2>2, AboveStrict
    <2>4. n \notin Above(w, h)
      BY <2>2, <2>3, AboveOrder, AboveIn
    <2>5. TrashHome(w, n) = h
      BY <1>h, <1>1 DEF TrashHome
    <2> QED  BY <2>2, <2>3, <2>4, <2>5
  <1>2. CASE h = None
    <2> DEFINE roots == TempRoots(w) \intersect Above(w, n)
    <2>1. roots # {} /\ \A t \in roots : n \notin Above(w, t)
      BY <1>h, <1>2 DEF Whitelisted
    <2>2. \E t \in roots : roots \subseteq Above(w, t)
      <3>1. roots \in SUBSET Above(w, n) /\ roots # {}
        BY <2>1
      <3> HIDE DEF roots
      <3> QED  BY <3>1, Nearest
    <2>3. TrashHome(w, n) = CHOOSE t \in roots : roots \subseteq Above(w, t)
      BY <1>h, <1>2 DEF TrashHome, Deepest
    <2>4. TrashHome(w, n) \in roots
      <3> HIDE DEF roots
      <3> QED  BY <2>2, <2>3
    <2>5. n \in Above(w, n)
      BY AboveTransitive
    <2>6. Repos(w, n) = {}
      BY <1>h, <1>2, RepoNearest
    <2> QED  BY <2>1, <2>4, <2>5, <2>6
  <1> QED  BY <1>1, <1>2

\* Of a target that passed, and of all that is below it.
Passed(w, n) ==
    /\ n # Root /\ n \notin Above(w, Site.home) \union Above(w, Site.cwd)
    /\ \A a \in Above(w, n) : Site.name[a] # "git"
    /\ \A m \in Tree(w, n) \ {n} : Site.name[m] # "git" /\ Site.dev[m] = Site.dev[n]
    /\ Site.dev[w[n]] = Site.dev[n]
    /\ \A m \in Tree(w, n) : IsDir(m) => Depth(w, n, m) < SafedelDepth
    /\ Whitelisted(w, n, FALSE)

LEMMA AllowedMeans ==
    ASSUME NEW w, NEW r, Allowed(w, r)
    PROVE  Passed(w, r.node) /\ Cardinality(Tree(w, r.node)) <= r.max
  BY DEF Allowed, check, policy, OnRefusalList, walk, Passed

\* All that is below the target is in the repository it is in.
LEMMA RepoBelow ==
    ASSUME site \in DOMAIN Sites, NEW w, TreeOk(w), NEW n \in Nodes, Passed(w, n), NEW m \in Tree(w, n)
    PROVE  Repo(w, w[m]) = Repo(w, n)
  <1> USE TreeIsForest
  <1>1. m \in Nodes /\ n \in Above(w, m) /\ Above(w, m) = {m} \union Above(w, w[m])
    BY AboveUp DEF Tree
  <1>2. ASSUME NEW d \in Repos(w, n) PROVE d \in Repos(w, w[m])
    <2>1. d \in Above(w, n) /\ d # n /\ HasGit(w, d)
      BY WhitelistMeans DEF Passed, Repos
    <2>2. d \in Above(w, w[n])
      BY <2>1, AboveUp
    <2>3. CASE m = n
      BY <2>1, <2>2, <2>3 DEF Repos
    <2>4. CASE m # n
      <3>1. n \in Above(w, w[m])
        BY <1>1, <2>4
      <3>2. w[m] \in Nodes
        BY <1>1, <3>1, AboveUp DEF Forest
      <3>3. d \in Above(w, w[m])
        BY <2>1, <3>1, <3>2, AboveTransitive
      <3> QED  BY <2>1, <3>3 DEF Repos
    <2> QED  BY <2>3, <2>4
  <1>3. ASSUME NEW d \in Repos(w, w[m]) PROVE d \in Repos(w, n)
    <2>1. d \in Above(w, m) /\ d # m /\ HasGit(w, d) /\ d \in Nodes
      BY <1>1, AboveStrict, AboveIn DEF Repos
    <2>2. CASE d \in Above(w, n)
      BY <2>1, <2>2 DEF Repos
    <2>3. CASE n \in Above(w, d)
      <3>1. IsDir(d) /\ d \in Tree(w, n)
        BY <1>1, <2>1, <2>3, AboveIsDir DEF Tree
      <3>2. PICK c \in In(w, d) : Site.name[c] = "git"
        BY <2>1, <3>1 DEF HasGit, IsDir
      <3>3. c \in Tree(w, n) \ {n}
        BY <3>1, <3>2, TreeDown
      <3> QED  BY <3>2, <3>3 DEF Passed
    <2> QED  BY <1>1, <2>1, <2>2, <2>3, AboveChain
  <1>4. Repos(w, w[m]) = Repos(w, n)
    BY <1>2, <1>3
  <1> QED  BY <1>4, RepoIs

\* Nothing protected is in the tree of a target that passed.
LEMMA PassedUnprotected ==
    ASSUME site \in DOMAIN Sites, NEW w, TreeOk(w), NEW n \in Nodes, Passed(w, n), NEW m \in Tree(w, n)
    PROVE  ~Protected(w, m)
  <1> USE TreeIsForest
  <1>1. m \in Nodes /\ n \in Above(w, m) /\ n \in Above(w, n) /\ Above(w, n) \subseteq Above(w, m)
    BY AboveTransitive DEF Tree
  <1>2. m \notin Above(w, Site.home) \union Above(w, Site.cwd)
    <2>1. Site.home \in Nodes /\ Site.cwd \in Nodes
      BY SiteFacts
    <2>2. m \in Above(w, Site.home) => n \in Above(w, Site.home)
      BY <1>1, <2>1, AboveTransitive
    <2>3. m \in Above(w, Site.cwd) => n \in Above(w, Site.cwd)
      BY <1>1, <2>1, AboveTransitive
    <2> QED  BY <2>2, <2>3 DEF Passed
  <1>3. \A a \in Above(w, m) : Site.name[a] # "git"
    <2> TAKE a \in Above(w, m)
    <2>1. a \in Nodes /\ (a \in Above(w, n) \/ n \in Above(w, a))
      BY <1>1, AboveChain, AboveIn
    <2>2. n \in Above(w, a) => a \in Tree(w, n)
      BY <2>1 DEF Tree
    <2> QED  BY <1>1, <2>1, <2>2 DEF Passed
  <1>4. Site.dev[m] = Site.dev[w[m]]
    <2>1. CASE m = n
      BY <2>1 DEF Passed
    <2>2. CASE m # n
      <3>1. w[m] \in Tree(w, n)
        BY <2>2, TreeDown
      <3> QED  BY <2>2, <3>1 DEF Passed
    <2> QED  BY <2>1, <2>2
  <1>5. ASSUME NEW a \in Above(w, n) \ {n} PROVE a \in Above(w, m) \ {m}
    <2>1. a \in Nodes
      BY AboveIn
    <2>2. a # m
      BY <1>1, <2>1, AboveOrder
    <2> QED  BY <1>1, <2>2
  <1>6. CASE Repo(w, n) # None
    <2>1. Repo(w, w[m]) = Repo(w, n)
      BY RepoBelow
    <2>2. PICK a \in Above(w, n) \ {n} : w[a] = Repo(w, n) /\ Site.name[a] \in {"out", "trash"}
      BY <1>6 DEF Passed, Whitelisted
    <2> QED  BY <1>2, <1>3, <1>4, <1>5, <1>6, <2>1, <2>2 DEF Protected
  <1>7. CASE Repo(w, n) = None
    <2>1. Repo(w, w[m]) = None
      BY <1>7, RepoBelow
    <2>2. PICK t \in TempRoots(w) \intersect Above(w, n) : n \notin Above(w, t)
      BY <1>7 DEF Passed, Whitelisted
    <2>3. t # n
      BY <1>1, <2>2
    <2>4. ASSUME NEW u \in TempRoots(w) PROVE m \notin Above(w, u)
      <3>1. u \in Nodes /\ n \notin Above(w, u)
        BY <1>7, SiteFacts DEF Passed, TempRoots, Whitelisted
      <3> QED  BY <1>1, <3>1, AboveTransitive
    <2> QED  BY <1>2, <1>3, <1>4, <1>5, <2>1, <2>2, <2>3, <2>4 DEF Protected
  <1> QED  BY <1>6, <1>7

-----------------------------------------------------------------------------
(* The inductive invariant.                                                  *)

RunType == [node : Nodes, path : Seq(Nodes), purge : BOOLEAN, recursive : BOOLEAN, max : Nat]

\* What others will make is in no tree yet.
TreesOk ==
    /\ site \in DOMAIN Sites
    /\ TreeOk(where) /\ TreeOk(before) /\ TreeOk(asked.start)
    /\ \A n \in Site.news \ made : where[n] = None /\ before[n] = None /\ asked.start[n] = None
    /\ doing \in {"idle", "purge", "trash"}
    /\ touched \in BOOLEAN /\ asked.expired \in BOOLEAN /\ asked.budget \in Nat

\* A run is for a node that was there when the command began, at the path it
\* had then.
EntryOk(r) ==
    /\ There(asked.start, r.node) /\ r.path = Path(asked.start, r.node)
    /\ asked.expired =>
           /\ r.purge /\ asked.start[r.node] \in Nodes
           /\ Site.name[asked.start[r.node]] = "trash" /\ Expired(r.node)

QueueOk == queue \in Seq(RunType) /\ \A i \in DOMAIN queue : EntryOk(queue[i])

\* Under way, the tree is the one the run began with but for what was made and,
\* in a purge, for what is gone from below the target.
RunOk ==
    doing # "idle" =>
        /\ queue # <<>> /\ Now.purge = (doing = "purge")
        /\ Path(before, Now.node) = Now.path /\ Allowed(before, Now)
        /\ \A n \in Nodes : before[n] # None =>
               where[n] = before[n] \/ (doing = "purge" /\ where[n] = None /\ Now.node \in Above(before, n))
        /\ ~touched => \A n \in Nodes : before[n] = None => where[n] = None
        /\ doing = "trash" => home = TrashHome(before, Now.node)

Frame == [dir : Nodes \union {None}, left : SUBSET Nodes]

\* The directories a purge is in are a line down from the target.
Inside(k) ==
    LET d == frames[k].dir IN
    /\ d \in Nodes /\ IsDir(d) /\ where[d] # None
    /\ k = 2 => d = Now.node
    /\ k > 2 => where[d] = frames[k - 1].dir
    /\ Now.node \in Above(where, d) /\ \A a \in Above(where, d) : Site.name[a] # "git"
    /\ ~touched => /\ frames[k].left \subseteq In(before, d)
                   /\ Now.node \in Above(before, d) /\ Depth(before, Now.node, d) = k - 2

FramesOk ==
    doing = "purge" =>
        /\ frames \in Seq(Frame) /\ frames # <<>>
        /\ frames[1].dir = None /\ frames[1].left \subseteq {Now.node}
        /\ frames[1].left # {} => Len(frames) = 1 /\ where[Now.node] # None
        /\ Len(frames) = 1 /\ frames[1].left = {} => where[Now.node] = None
        /\ \A k \in 2 .. Len(frames) : Inside(k)

\* What is gone, and what may still go, was below one of the targets.
Doomed == Taken \union UNION {Tree(asked.start, queue[i].node) : i \in DOMAIN queue}

CeilingOk ==
    ~touched => \/ Cardinality(Doomed) <= asked.budget
                \/ /\ doing = "idle" /\ where = asked.start
                   /\ Len(queue) = 1 /\ Now.max <= asked.budget

GuardInv == TreesOk /\ QueueOk /\ RunOk /\ FramesOk /\ CeilingOk

-----------------------------------------------------------------------------
(* Lemmas about a run.                                                       *)

LEMMA FirstEntry ==
    ASSUME QueueOk, queue # <<>>
    PROVE  /\ Now \in RunType /\ EntryOk(Now) /\ 1 \in DOMAIN queue /\ Now = queue[1]
           /\ Tail(queue) \in Seq(RunType)
           /\ \A i \in DOMAIN Tail(queue) : i + 1 \in DOMAIN queue /\ Tail(queue)[i] = queue[i + 1]
  <1>1. queue \in Seq(RunType)
    BY DEF QueueOk
  <1>2. 1 \in DOMAIN queue /\ Head(queue) = queue[1]
    BY <1>1
  <1>3. Tail(queue) \in Seq(RunType)
           /\ \A i \in DOMAIN Tail(queue) : i + 1 \in DOMAIN queue /\ Tail(queue)[i] = queue[i + 1]
    BY <1>1
  <1> QED  BY <1>1, <1>2, <1>3 DEF QueueOk, Now

\* Where the path of a run leads its target is, and its target is not the root.
LEMMA TargetThere ==
    ASSUME TreesOk, QueueOk, queue # <<>>, NEW w, TreeOk(w), Path(w, Now.node) = Now.path
    PROVE  /\ There(w, Now.node) /\ Now.node \in Nodes
           /\ \A a \in Above(w, Now.node) : w[a] = asked.start[a]
           /\ Above(w, Now.node) = Above(asked.start, Now.node)
  <1>1. Now.node \in Nodes /\ There(asked.start, Now.node) /\ Path(w, Now.node) = Path(asked.start, Now.node)
    BY FirstEntry DEF EntryOk, RunType
  <1>2. site \in DOMAIN Sites /\ TreeOk(asked.start)
    BY DEF TreesOk
  <1>3. /\ \A a \in Above(asked.start, Now.node) : w[a] = asked.start[a]
        /\ Above(w, Now.node) = Above(asked.start, Now.node)
    BY <1>1, <1>2, TreeIsForest, PathTells
  <1> QED  BY <1>1, <1>2, <1>3, RootAbove

\* While the target is there it is where it was.
LEMMA TargetStays ==
    ASSUME TreesOk, QueueOk, RunOk, doing # "idle"
    PROVE  /\ Now.node \in Nodes /\ Now.node # Root /\ before[Now.node] # None /\ Passed(before, Now.node)
           /\ where[Now.node] # None =>
                  /\ \A a \in Above(before, Now.node) : where[a] = before[a]
                  /\ SameUp(before, where, Now.node)
  <1>n. PICK n : n = Now.node
    OBVIOUS
  <1>1. site \in DOMAIN Sites /\ TreeOk(before) /\ TreeOk(where) /\ queue # <<>>
    BY DEF TreesOk, RunOk
  <1>2. There(before, n) /\ n \in Nodes /\ Passed(before, n)
    BY <1>n, <1>1, TargetThere, AllowedMeans DEF RunOk
  <1>3. n # Root /\ before[n] # None
    BY <1>2 DEF Passed, There
  <1>4. ASSUME where[n] # None, NEW a \in Above(before, n) PROVE where[a] = before[a]
    <2>1. a \in Nodes /\ There(before, a)
      BY <1>1, <1>2, TreeIsForest, AboveIn, ThereAbove
    <2>2. CASE before[a] = None
      BY <1>1, <2>1, <2>2 DEF There, TreeOk, IsTree
    <2>3. CASE before[a] # None
      <3>1. SUFFICES ASSUME where[a] = None, n \in Above(before, a) PROVE FALSE
        BY <1>n, <2>1, <2>3 DEF RunOk
      <3>2. a = n
        BY <1>1, <1>2, <2>1, <3>1, TreeIsForest, AboveOrder
      <3> QED  BY <1>4, <3>1, <3>2
    <2> QED  BY <2>2, <2>3
  <1>5. where[n] # None => SameUp(before, where, n)
    BY <1>1, <1>2, <1>4, TreeIsForest, PathSame
  <1> QED  BY <1>n, <1>2, <1>3, <1>4, <1>5

-----------------------------------------------------------------------------
(* What is taken.                                                            *)

TakenIn(w, s) == {n \in Nodes : s[n] # None /\ Path(w, n) # Path(s, n)}

\* Putting x elsewhere takes what was below x.
LEMMA TakenPut ==
    ASSUME site \in DOMAIN Sites, NEW w, TreeOk(w), NEW s, TreeOk(s), NEW x, NEW y, PutRight(w, x, y)
    PROVE  \A n \in TakenIn(Put(w, x, y), s) :
               n \in TakenIn(w, s) \/ (There(w, n) /\ x \in Above(w, n) /\ Above(w, n) = Above(s, n))
  <1> SUFFICES ASSUME NEW n \in TakenIn(Put(w, x, y), s), n \notin TakenIn(w, s)
               PROVE  There(w, n) /\ x \in Above(w, n) /\ Above(w, n) = Above(s, n)
    OBVIOUS
  <1>1. n \in Nodes /\ s[n] # None /\ Path(w, n) = Path(s, n) /\ Path(Put(w, x, y), n) # Path(s, n)
    BY DEF TakenIn
  <1>2. (\A a \in Above(s, n) : w[a] = s[a]) /\ Above(w, n) = Above(s, n)
    BY <1>1, TreeIsForest, PathTells
  <1>3. Root \in Above(w, n)
    BY <1>1, <1>2, RootAbove DEF There
  <1>4. x \in Above(w, n)
    BY <1>1 DEF PutRight, SameUp
  <1> QED  BY <1>1, <1>2, <1>3, <1>4, RootAbove

-----------------------------------------------------------------------------
(* Steps.                                                                    *)

\* The runs to be made are some of those before.
LEMMA QueueKeeps ==
    ASSUME QueueOk, asked' = asked, clock' = clock, site' = site,
           queue' = queue \/ (queue # <<>> /\ queue' = Tail(queue)) \/ queue' = <<>>,
           asked.expired => \A i \in DOMAIN queue : born'[queue[i].node] = born[queue[i].node]
    PROVE  QueueOk' /\ \A i \in DOMAIN queue' : \E j \in DOMAIN queue : queue'[i] = queue[j]
  <1>1. queue' \in Seq(RunType) /\ \A i \in DOMAIN queue' : \E j \in DOMAIN queue : queue'[i] = queue[j]
    <2>1. CASE queue' = queue
      BY <2>1 DEF QueueOk
    <2>2. CASE queue # <<>> /\ queue' = Tail(queue)
      BY <2>2, FirstEntry
    <2>3. CASE queue' = <<>>
      BY <2>3
    <2> QED  BY <2>1, <2>2, <2>3
  <1>2. Site' = Site
    BY DEF Site
  <1>3. ASSUME NEW r, EntryOk(r), asked.expired => born'[r.node] = born[r.node]
        PROVE  EntryOk(r)'
    BY <1>2, <1>3 DEF EntryOk, Expired, There, Nodes
  <1>4. ASSUME NEW i \in DOMAIN queue' PROVE EntryOk(queue[i])'
    <2>1. PICK j \in DOMAIN queue : queue'[i] = queue[j]
      BY <1>1
    <2>r. PICK r : r = queue[j]
      OBVIOUS
    <2>2. EntryOk(r)'
      BY <1>3, <2>r DEF QueueOk
    <2> QED  BY <2>1, <2>2, <2>r DEF EntryOk
  <1>5. queue' \in Seq(RunType')
    BY <1>1, <1>2 DEF RunType, Nodes
  <1> QED  BY <1>1, <1>4, <1>5 DEF QueueOk

-----------------------------------------------------------------------------
(* The size of a union: g bounds it if it grows by as much as each member.   *)

LEMMA UnionBound ==
    ASSUME NEW S, IsFiniteSet(S), NEW T, NEW g, \A x \in S : IsFiniteSet(T[x]), g[{}] = 0,
           \A s \in SUBSET S : g[s] \in Nat /\ \A x \in s : g[s \ {x}] + Cardinality(T[x]) <= g[s]
    PROVE  Cardinality(UNION {T[x] : x \in S}) <= g[S]
  <1> DEFINE U(s) == UNION {T[x] : x \in s}
             Fine(s) == IsFiniteSet(U(s)) /\ Cardinality(U(s)) <= g[s]
             Bad == {s \in SUBSET S : ~Fine(s)}
             Sizes == {n \in Nat : \E s \in Bad : n = Cardinality(s)}
  <1>1. SUFFICES ASSUME Bad # {} PROVE FALSE
    OBVIOUS
  <1>2. \A s \in SUBSET S : IsFiniteSet(s) /\ Cardinality(s) \in Nat
    BY FS_Subset, FS_CardinalityType
  <1>3. Sizes \in SUBSET Nat /\ Sizes # {}
    BY <1>1, <1>2
  <1>4. PICK n \in Sizes : \A m \in Sizes : n <= m
    BY <1>3, LeastNatural
  <1>5. PICK s \in Bad : n = Cardinality(s)
    BY <1>4
  <1>6. CASE s = {}
    <2>1. U(s) = {}
      BY <1>6
    <2>2. Fine(s)
      BY <1>6, <2>1, FS_EmptySet
    <2> QED  BY <1>5, <2>2
  <1>7. CASE s # {}
    <2>1. PICK y \in s : y \in S
      BY <1>5, <1>7
    <2>2. Cardinality(s \ {y}) = n - 1 /\ n \in Nat \ {0}
      BY <1>5, <1>7, SmallerSet
    <2>3. n - 1 \notin Sizes
      <3> HIDE DEF Sizes
      <3> QED  BY <1>4, <2>2
    <2>4. Fine(s \ {y})
      <3> HIDE DEF Fine
      <3>1. s \ {y} \in SUBSET S /\ n - 1 \in Nat
        BY <1>5, <2>2
      <3> QED  BY <2>2, <2>3, <3>1
    <2>5. U(s) = U(s \ {y}) \union T[y]
      BY <2>1
    <2>u. PICK u : u = U(s \ {y})
      OBVIOUS
    <2>t. PICK t : t = T[y]
      OBVIOUS
    <2>6. IsFiniteSet(u) /\ IsFiniteSet(t) /\ Cardinality(u) <= g[s \ {y}]
      BY <2>1, <2>4, <2>u, <2>t
    <2>7. IsFiniteSet(u \union t) /\ Cardinality(u \union t) <= Cardinality(u) + Cardinality(t)
      <3>1. /\ IsFiniteSet(u \union t)
            /\ Cardinality(u \union t) = Cardinality(u) + Cardinality(t) - Cardinality(u \intersect t)
        BY <2>6, FS_Union
      <3>2. Cardinality(u) \in Nat /\ Cardinality(t) \in Nat /\ Cardinality(u \intersect t) \in Nat
        BY <2>6, FS_Intersection, FS_CardinalityType
      <3> QED  BY <3>1, <3>2
    <2>8. g[s \ {y}] + Cardinality(t) <= g[s] /\ g[s] \in Nat /\ g[s \ {y}] \in Nat
      BY <1>5, <2>1, <2>t
    <2>9. Cardinality(u) \in Nat /\ Cardinality(t) \in Nat /\ Cardinality(u \union t) \in Nat
      BY <2>6, <2>7, FS_CardinalityType
    <2>10. Cardinality(u \union t) <= g[s]
      BY <2>6, <2>7, <2>8, <2>9
    <2>11. Fine(s)
      BY <2>5, <2>7, <2>10, <2>u, <2>t
    <2> HIDE DEF Fine
    <2> QED  BY <1>5, <2>11
  <1> QED  BY <1>6, <1>7

-----------------------------------------------------------------------------
(* The steps of a run.                                                       *)

\* Between a step and the next of a run nothing is in its way in the tree that
\* was not there before.
LEMMA BothThere ==
    ASSUME TreesOk, RunOk, doing # "idle"
    PROVE  \A n \in Nodes : where[n] # None /\ before[n] # None => SameUp(before, where, n)
  <1>1. TreeOk(where) /\ TreeOk(before) /\ Forest(before) /\ Forest(where)
        /\ DOMAIN before = Nodes /\ DOMAIN where = Nodes
    BY TreeIsForest DEF TreesOk
  <1> DEFINE P == {n \in Nodes : where[n] # None /\ before[n] # None => SameUp(before, where, n)}
  <1>2. ASSUME NEW n \in Nodes, before[n] # None => before[n] \in P PROVE n \in P
    <2> SUFFICES ASSUME where[n] # None, before[n] # None PROVE SameUp(before, where, n)
      OBVIOUS
    <2>m. PICK m : m = before[n]
      OBVIOUS
    <2>1. where[n] = m /\ before[n] = m /\ m \in Nodes
      BY <1>1, <2>m DEF RunOk, Forest
    <2>2. SameUp(before, where, m)
      <3>1. CASE m = Root
        <4>1. Path(before, m) = <<m>> \o Path(before, None) /\ Path(where, m) = <<m>> \o Path(where, None)
          BY <1>1, <2>1, <3>1, PathUp DEF TreeOk, IsTree
        <4>2. Path(before, None) = <<>> /\ Path(where, None) = <<>>
          BY <1>1, PathUp
        <4> QED  BY <4>1, <4>2 DEF SameUp, Above
      <3>2. CASE m # Root
        BY <1>1, <1>2, <2>m, <2>1, <3>2 DEF TreeOk, IsTree
      <3> QED  BY <3>1, <3>2
    <2>3. Path(before, n) = <<n>> \o Path(before, m) /\ Path(where, n) = <<n>> \o Path(where, m)
      BY <1>1, <2>1, PathUp
    <2> QED  BY <2>2, <2>3 DEF SameUp, Above
  <1>3. Nodes \subseteq P
    <2> HIDE DEF P
    <2> QED  BY <1>1, <1>2, ForestInduction
  <1> QED  BY <1>3

\* The tree after a step is well formed, and so is what the command knows of it.
LEMMA TreesKeep ==
    ASSUME TreesOk, site' = site, TreeOk(where'), before' \in {before, where}, asked' = asked,
           made \subseteq made', \A n \in Site.news \ made' : where'[n] = None,
           doing' \in {"idle", "purge", "trash"}, touched' \in BOOLEAN
    PROVE  TreesOk'
  <1>1. Site' = Site
    BY DEF Site
  <1>2. TreeOk(before')
    BY DEF TreesOk
  <1>3. ASSUME NEW n \in Site.news \ made' PROVE where'[n] = None /\ before'[n] = None /\ asked'.start[n] = None
    BY <1>3 DEF TreesOk
  <1> QED  BY <1>1, <1>2, <1>3 DEF TreesOk, TreeOk, Nodes

LEMMA DoomedIn ==
    ASSUME TreesOk
    PROVE  Doomed \subseteq Nodes /\ IsFiniteSet(Doomed)
  <1>1. DOMAIN where = Nodes /\ DOMAIN asked.start = Nodes /\ IsFiniteSet(Nodes)
    BY SiteFacts DEF TreesOk, TreeOk
  <1>2. Doomed \subseteq Nodes
    BY <1>1 DEF Doomed, Taken, Tree
  <1> QED  BY <1>1, <1>2, FS_Subset

\* The queue gets shorter, and what goes is below the target of the run.
LEMMA DoomedKeeps ==
    ASSUME TreesOk, queue # <<>>, QueueOk, asked' = asked, \A i \in DOMAIN queue' : \E j \in DOMAIN queue : queue'[i] = queue[j],
           \A n \in Taken' : n \in Taken \/ (n \in Nodes /\ Now.node \in Above(asked.start, n))
    PROVE  Doomed' \subseteq Doomed
  <1>1. ASSUME NEW i \in DOMAIN queue' PROVE Tree(asked'.start, queue'[i].node) \subseteq Doomed
    <2>1. PICK j \in DOMAIN queue : queue'[i] = queue[j]
      OBVIOUS
    <2> QED  BY <2>1 DEF Doomed
  <1>2. ASSUME NEW n \in Nodes, Now.node \in Above(asked.start, n) PROVE n \in Doomed
    <2>1. n \in Tree(asked.start, Now.node)
      BY <1>2 DEF Tree, TreesOk, TreeOk
    <2>2. 1 \in DOMAIN queue /\ Now = queue[1]
      BY FirstEntry
    <2> QED  BY <2>1, <2>2 DEF Doomed
  <1>3. Taken' \subseteq Doomed
    BY <1>2 DEF Doomed
  <1> QED  BY <1>1, <1>3 DEF Doomed

LEMMA CeilingKeeps ==
    ASSUME TreesOk, CeilingOk, doing # "idle", touched' = touched, asked' = asked, Doomed' \subseteq Doomed
    PROVE  CeilingOk'
  <1> SUFFICES ASSUME ~touched PROVE Cardinality(Doomed') <= asked.budget
    BY DEF CeilingOk
  <1>1. Cardinality(Doomed) <= asked.budget
    BY DEF CeilingOk
  <1>2. Cardinality(Doomed') <= Cardinality(Doomed)
    BY DoomedIn, FS_Subset
  <1>3. Cardinality(Doomed) \in Nat /\ Cardinality(Doomed') \in Nat /\ asked.budget \in Nat
    BY DoomedIn, FS_Subset, FS_CardinalityType DEF TreesOk
  <1> QED  BY <1>1, <1>2, <1>3

\* What a step of a run does to the tree.
Moves(w) ==
    /\ TreeOk(w) /\ \A n \in Site.news \ made : w[n] = None
    /\ \A n \in TakenIn(w, asked.start) : n \in Taken \/ Now.node \in Above(asked.start, n)

StepFrame ==
    /\ asked' = asked /\ clock' = clock /\ site' = site /\ touched' = touched /\ made' = made /\ before' = before
    /\ queue' = queue \/ queue' = Tail(queue) \/ queue' = <<>>
    /\ asked.expired => born' = born

LEMMA StepKeeps ==
    ASSUME GuardInv, doing # "idle", doing' \in {"idle", "purge", "trash"}, StepFrame, Moves(where'),
           RunOk', FramesOk'
    PROVE  GuardInv'
  <1>1. queue # <<>>
    BY DEF GuardInv, RunOk
  <1>2. TreesOk'
    BY TreesKeep DEF GuardInv, StepFrame, Moves, TreesOk
  <1>3. QueueOk' /\ \A i \in DOMAIN queue' : \E j \in DOMAIN queue : queue'[i] = queue[j]
    BY <1>1, QueueKeeps DEF GuardInv, StepFrame
  <1>4. ASSUME NEW n \in Taken' PROVE n \in Taken \/ (n \in Nodes /\ Now.node \in Above(asked.start, n))
    <2>1. DOMAIN where' = Nodes /\ asked' = asked
      BY DEF StepFrame, Moves, TreeOk
    <2>2. n \in TakenIn(where', asked.start)
      BY <2>1 DEF TakenIn, Taken
    <2> QED  BY <2>2 DEF Moves, TakenIn
  <1>5. CeilingOk'
    BY <1>1, <1>3, <1>4, DoomedKeeps, CeilingKeeps DEF GuardInv, StepFrame
  <1> QED  BY <1>2, <1>3, <1>5 DEF GuardInv

\* A run that ends where it is.
LEMMA StandingMoves ==
    ASSUME GuardInv, NEW w, w = where
    PROVE  Moves(w)
  <1>1. TreeOk(where) /\ \A n \in Site.news \ made : where[n] = None
    BY DEF GuardInv, TreesOk
  <1>2. TakenIn(where, asked.start) = Taken
    BY <1>1 DEF TakenIn, Taken, TreeOk
  <1> QED  BY <1>1, <1>2 DEF Moves

LEMMA ReturnKeeps ==
    ASSUME GuardInv, doing # "idle", NEW rc, Return(rc), before' = before, asked.expired => born' = born,
           Moves(where')
    PROVE  GuardInv'
  <1>1. StepFrame /\ doing' = "idle"
    BY DEF Return, StepFrame
  <1>2. RunOk' /\ FramesOk'
    BY <1>1 DEF RunOk, FramesOk
  <1> QED  BY <1>1, <1>2, StepKeeps

-----------------------------------------------------------------------------
(* Into the trash.                                                           *)

\* What a run into the trash finds.
LEMMA TrashFinds ==
    ASSUME GuardInv, doing = "trash"
    PROVE  /\ site \in DOMAIN Sites /\ TreeOk(where) /\ Now.node \in Nodes \ {Root} /\ where[Now.node] # None
           /\ home \in Nodes /\ IsDir(home) /\ There(where, home) /\ ~asked.expired
           /\ \A n \in Nodes : before[n] # None => where[n] = before[n]
  <1>1. TreesOk /\ QueueOk /\ RunOk /\ queue # <<>> /\ site \in DOMAIN Sites /\ TreeOk(where) /\ TreeOk(before)
    BY DEF GuardInv, TreesOk, RunOk
  <1>2. \A n \in Nodes : before[n] # None => where[n] = before[n]
    BY <1>1 DEF RunOk
  <1>n. PICK n : n = Now.node
    OBVIOUS
  <1>3. n \in Nodes /\ n # Root /\ where[n] # None /\ Passed(before, n) /\ Above(where, n) = Above(before, n)
    BY <1>n, <1>1, <1>2, TargetStays DEF SameUp
  <1>4. home \in Above(where, n) \ {n}
    <2>1. home = TrashHome(before, n)
      BY <1>n, <1>1 DEF RunOk
    <2>2. TrashHome(before, n) \in Above(before, n) \ {n}
      BY <1>1, <1>3, WhitelistMeans DEF Passed
    <2> QED  BY <1>3, <2>1, <2>2
  <1>5. home \in Nodes /\ IsDir(home) /\ There(where, home)
    BY <1>1, <1>3, <1>4, AboveIn, AboveIsDir, ThereAbove, TreeIsForest DEF There
  <1>6. ~asked.expired
    BY <1>1, FirstEntry DEF RunOk, EntryOk
  <1> QED  BY <1>n, <1>1, <1>2, <1>3, <1>5, <1>6

\* The trash is made, or is there.
LEMMA BinMoves ==
    ASSUME GuardInv, doing = "trash", NEW tr \in trashdir(where, home), IsDir(tr)
    PROVE  /\ Moves(Put(where, tr, home)) /\ tr \in Nodes /\ Put(where, tr, home)[tr] = home
           /\ \A n \in Nodes \ {tr} : Put(where, tr, home)[n] = where[n]
           /\ TakenIn(Put(where, tr, home), asked.start) \subseteq Taken
           /\ tr \in Site.bins \/ Put(where, tr, home) = where
  <1>1. site \in DOMAIN Sites /\ TreeOk(where) /\ home \in Nodes /\ There(where, home) /\ IsDir(home) /\ DOMAIN where = Nodes
    BY TrashFinds DEF TreeOk
  <1>2. TakenIn(where, asked.start) = Taken
    BY <1>1 DEF TakenIn, Taken
  <1>w. PICK w : w = Put(where, tr, home)
    OBVIOUS
  <1>3. CASE tr \in In(where, home)
    <2>1. tr \in Nodes /\ where[tr] = home
      BY <1>1, <1>3 DEF In
    <2>2. Put(where, tr, home) = where
      BY <1>1, <2>1 DEF Put, TreeOk, IsTree
    <2> QED  BY <1>2, <2>1, <2>2, StandingMoves
  <1>4. CASE tr \notin In(where, home)
    <2>1. tr \in Site.bins /\ where[tr] = None
      BY <1>4 DEF trashdir
    <2>2. tr \in Nodes \ {Root} /\ ~There(where, tr) /\ tr \notin Site.news
      BY <1>1, <2>1, SiteFacts DEF Made, There
    <2>3. tr \notin Above(where, home)
      BY <1>1, <2>2, AbsentAbove
    <2>4. home # None
      BY <1>1, SiteFacts
    <2>5. PutRight(where, tr, home)
      BY <1>1, <2>2, <2>3, <2>4, PutKeeps
    <2>6. w[tr] = home /\ \A n \in Nodes \ {tr} : w[n] = where[n]
      BY <1>w, <1>1, <2>2 DEF Put
    <2>7. TakenIn(w, asked.start) \subseteq Taken
      <3>1. \A n \in TakenIn(w, asked.start) : n \in TakenIn(where, asked.start) \/ (There(where, n) /\ tr \in Above(where, n))
        BY <1>w, <1>1, <2>5, TakenPut DEF GuardInv, TreesOk
      <3>2. \A n \in Nodes : There(where, n) => tr \notin Above(where, n)
        BY <1>1, <2>2, AbsentAbove
      <3> QED  BY <1>2, <3>1, <3>2 DEF TakenIn
    <2>8. Moves(w)
      <3>1. \A n \in Site.news \ made : w[n] = None
        BY <1>1, <2>2, <2>6, SiteFacts DEF GuardInv, TreesOk, Made
      <3> QED  BY <1>w, <2>5, <2>7, <3>1 DEF Moves, PutRight
    <2> QED  BY <1>w, <2>1, <2>2, <2>6, <2>7, <2>8
  <1> QED  BY <1>3, <1>4

\* The target is moved into an entry of the trash.
LEMMA EntryMoves ==
    ASSUME GuardInv, doing = "trash", NEW tr \in trashdir(where, home), IsDir(tr), NEW s \in Site.stamps,
           where[s] = None, tr \notin Tree(Put(where, tr, home), Now.node)
    PROVE  Moves(Put(Put(Put(where, tr, home), s, tr), Now.node, s))
  <1>n. PICK n : n = Now.node
    OBVIOUS
  <1>w. PICK w : w = Put(where, tr, home)
    OBVIOUS
  <1>v. PICK v : v = Put(w, s, tr)
    OBVIOUS
  <1>u. PICK u : u = Put(v, n, s)
    OBVIOUS
  <1>1. /\ site \in DOMAIN Sites /\ TreeOk(where) /\ n \in Nodes \ {Root} /\ where[n] # None
        /\ home \in Nodes /\ TreeOk(asked.start) /\ None \notin Nodes
    BY <1>n, TrashFinds, SiteFacts DEF GuardInv, TreesOk
  <1>2. /\ TreeOk(w) /\ tr \in Nodes /\ w[tr] = home /\ \A m \in Nodes \ {tr} : w[m] = where[m]
        /\ TakenIn(w, asked.start) \subseteq Taken /\ \A m \in Site.news \ made : w[m] = None
    BY <1>w, BinMoves DEF Moves
  <1>3. s \in Nodes \ {Root} /\ IsDir(s) /\ s \notin Site.news
    BY <1>1, SiteFacts DEF Made
  <1>4. w[s] = None /\ s # tr
    <2>1. s # tr
      <3>1. CASE tr \in In(where, home)
        BY <1>1, <3>1 DEF In
      <3>2. CASE tr \notin In(where, home)
        <4>1. tr \in Site.bins
          BY <3>2 DEF trashdir
        <4> QED  BY <1>1, <4>1, SiteFacts
      <3> QED  BY <3>1, <3>2
    <2> QED  BY <1>2, <1>3, <2>1
  <1>5. There(w, tr) /\ ~There(w, s) /\ s \notin Above(w, tr)
    BY <1>1, <1>2, <1>3, <1>4, AbsentAbove DEF There
  <1>6. PutRight(w, s, tr)
    BY <1>1, <1>2, <1>3, <1>5, PutKeeps
  <1>7. v \in [Nodes -> Nodes \union {None}] /\ v[s] = tr /\ \A m \in Nodes \ {s} : v[m] = w[m]
    BY <1>v, <1>2, <1>3, <1>6 DEF Put, PutRight, TreeOk, IsTree
  <1>8. TreeOk(v) /\ There(v, s) /\ SameUp(w, v, tr)
    BY <1>v, <1>1, <1>2, <1>5, <1>6, <1>7 DEF PutRight, There
  <1>9. n \notin Above(v, s)
    <2>1. Above(v, s) = {s} \union Above(v, tr)
      BY <1>1, <1>3, <1>7, <1>8, AboveUp, TreeIsForest
    <2>2. n # s
      BY <1>1
    <2>3. n \notin Above(w, tr)
      BY <1>n, <1>w, <1>2 DEF Tree, TreeOk
    <2> QED  BY <1>8, <2>1, <2>2, <2>3 DEF SameUp
  <1>10. PutRight(v, n, s)
    BY <1>1, <1>3, <1>8, <1>9, PutKeeps
  <1>11. ASSUME NEW m \in TakenIn(u, asked.start) PROVE m \in Taken \/ n \in Above(asked.start, m)
    <2>1. m \in TakenIn(v, asked.start) \/ (There(v, m) /\ n \in Above(v, m) /\ Above(v, m) = Above(asked.start, m))
      BY <1>u, <1>1, <1>8, <1>10, <1>11, TakenPut
    <2>2. \A k \in TakenIn(v, asked.start) : k \in TakenIn(w, asked.start) \/ (There(w, k) /\ s \in Above(w, k))
      BY <1>v, <1>1, <1>2, <1>6, TakenPut
    <2>3. \A k \in Nodes : There(w, k) => s \notin Above(w, k)
      BY <1>1, <1>2, <1>5, AbsentAbove
    <2> QED  BY <1>2, <2>1, <2>2, <2>3 DEF TakenIn
  <1>12. ASSUME NEW m \in Site.news \ made PROVE u[m] = None
    <2>1. where[m] = None /\ m \in Nodes /\ w[m] = None
      BY <1>1, <1>2, SiteFacts DEF GuardInv, TreesOk, Made
    <2>2. m # s /\ m # n
      BY <1>1, <1>3, <2>1
    <2> QED  BY <1>u, <1>7, <2>1, <2>2 DEF Put
  <1>13. Moves(u)
    BY <1>n, <1>u, <1>10, <1>11, <1>12 DEF Moves, PutRight
  <1> QED  BY <1>13, <1>n, <1>u, <1>v, <1>w

LEMMA TrashKeeps ==
    ASSUME GuardInv, Trash
    PROVE  GuardInv'
  <1>1. doing = "trash" /\ before' = before
    BY DEF Trash
  <1>n. PICK n : n = Now.node
    OBVIOUS
  <1>2. PICK tr \in trashdir(where, home) :
            \/ ~IsDir(tr) /\ Return("refused") /\ UNCHANGED <<where, born>>
            \/ /\ IsDir(tr) /\ Return("refused") /\ where' = Put(where, tr, home) /\ UNCHANGED born
            \/ /\ IsDir(tr) /\ Return("failed") /\ where' \in {where, Put(where, tr, home)} /\ UNCHANGED born
            \/ \E s \in Site.stamps :
                  /\ IsDir(tr) /\ tr \notin Tree(Put(where, tr, home), n)
                  /\ where[s] = None
                  /\ where' = [Put(where, tr, home) EXCEPT ![s] = tr, ![n] = s]
                  /\ Return("ok")
    BY <1>n DEF Trash, Put
  <1>3. ~asked.expired
    BY <1>1, TrashFinds
  <1>4. CASE where' = where /\ \E rc \in {"ok", "refused", "failed"} : Return(rc)
    BY <1>1, <1>3, <1>4, StandingMoves, ReturnKeeps
  <1>5. CASE IsDir(tr) /\ where' = Put(where, tr, home) /\ \E rc \in {"ok", "refused", "failed"} : Return(rc)
    BY <1>1, <1>3, <1>5, BinMoves, ReturnKeeps
  <1>6. CASE \E s \in Site.stamps :
                  /\ IsDir(tr) /\ tr \notin Tree(Put(where, tr, home), n)
                  /\ where[s] = None
                  /\ where' = [Put(where, tr, home) EXCEPT ![s] = tr, ![n] = s]
                  /\ Return("ok")
    <2>1. PICK s \in Site.stamps :
                  /\ IsDir(tr) /\ tr \notin Tree(Put(where, tr, home), n)
                  /\ where[s] = None
                  /\ where' = [Put(where, tr, home) EXCEPT ![s] = tr, ![n] = s]
                  /\ Return("ok")
      BY <1>6
    <2>w. PICK w : w = Put(where, tr, home)
      OBVIOUS
    <2>2. where' = Put(Put(w, s, tr), n, s)
      BY <2>1, <2>w DEF Put
    <2>3. Moves(Put(Put(w, s, tr), n, s))
      BY <1>1, <1>n, <2>1, <2>w, EntryMoves
    <2>4. Moves(where')
      BY <2>2, <2>3
    <2> QED  BY <1>1, <1>3, <2>1, <2>4, ReturnKeeps
  <1> QED  BY <1>2, <1>4, <1>5, <1>6

-----------------------------------------------------------------------------
(* A purge.                                                                  *)

LEMMA PurgeFinds ==
    ASSUME GuardInv, doing = "purge"
    PROVE  /\ site \in DOMAIN Sites /\ TreeOk(where) /\ TreeOk(before) /\ TreeOk(asked.start) /\ queue # <<>>
           /\ Now.node \in Nodes \ {Root} /\ before[Now.node] # None /\ Passed(before, Now.node)
           /\ where[Now.node] # None => SameUp(before, where, Now.node)
           /\ frames \in Seq(Frame) /\ Len(frames) \in Nat \ {0} /\ Len(frames) \in DOMAIN frames
           /\ Top \in Frame /\ Top = frames[Len(frames)] /\ None \notin Nodes
           /\ Len(frames) > 1 => Top.dir \in Nodes /\ frames[1].left = {}
           /\ Len(frames) = 1 => Top.dir = None
  <1>1. TreesOk /\ QueueOk /\ RunOk /\ FramesOk
    BY DEF GuardInv
  <1>2. /\ site \in DOMAIN Sites /\ TreeOk(where) /\ TreeOk(before) /\ TreeOk(asked.start) /\ queue # <<>>
        /\ None \notin Nodes
    BY <1>1, SiteFacts DEF TreesOk, RunOk
  <1>3. /\ Now.node \in Nodes \ {Root} /\ before[Now.node] # None /\ Passed(before, Now.node)
        /\ where[Now.node] # None => SameUp(before, where, Now.node)
    BY <1>1, TargetStays
  <1>4. frames \in Seq(Frame) /\ frames # <<>> /\ frames[1].dir = None
        /\ (frames[1].left # {} => Len(frames) = 1)
    BY <1>1 DEF FramesOk
  <1>5. Len(frames) \in Nat \ {0} /\ Len(frames) \in DOMAIN frames
    BY <1>4
  <1>6. Top = frames[Len(frames)] /\ Top \in Frame
    BY <1>4, <1>5 DEF Top
  <1>7. ASSUME Len(frames) > 1 PROVE Top.dir \in Nodes /\ frames[1].left = {}
    <2>1. Inside(Len(frames))
      BY <1>1, <1>5, <1>7 DEF FramesOk
    <2> QED  BY <1>4, <1>6, <1>7, <2>1 DEF Inside
  <1> QED  BY <1>2, <1>3, <1>4, <1>5, <1>6, <1>7

\* A directory of the line stays in it when the tree above it does.
LEMMA InsideKeeps ==
    ASSUME NEW k \in 2 .. Len(frames), Inside(k), frames'[k].dir = frames[k].dir, frames'[k].left \subseteq frames[k].left,
           frames'[k - 1].dir = frames[k - 1].dir, site' = site, queue' = queue, before' = before,
           ~touched' => ~touched, where'[frames[k].dir] = where[frames[k].dir],
           SameUp(where, where', frames[k].dir)
    PROVE  Inside(k)'
  <1>1. Site' = Site /\ Now' = Now
    BY DEF Site, Now
  <1>d. PICK d : d = frames[k].dir
    OBVIOUS
  <1>2. /\ d \in Nodes /\ IsDir(d) /\ where[d] # None /\ (k = 2 => d = Now.node)
        /\ k > 2 => where[d] = frames[k - 1].dir
        /\ Now.node \in Above(where, d) /\ \A a \in Above(where, d) : Site.name[a] # "git"
        /\ ~touched => /\ frames[k].left \subseteq In(before, d)
                       /\ Now.node \in Above(before, d) /\ Depth(before, Now.node, d) = k - 2
    BY <1>d DEF Inside
  <1>3. frames'[k].dir = d /\ where'[d] = where[d] /\ Above(where', d) = Above(where, d)
    BY <1>d DEF SameUp
  <1>4. d \in Nodes' /\ IsDir(d)'
    BY <1>1, <1>2 DEF Nodes, IsDir
  <1>5. ~touched' => /\ frames'[k].left \subseteq In(before', d)
                     /\ Now'.node \in Above(before', d) /\ Depth(before', Now'.node, d) = k - 2
    BY <1>1, <1>2
  <1> QED  BY <1>1, <1>2, <1>3, <1>4, <1>5 DEF Inside

\* What goes or is made in the tree during a purge, below its target.
LEMMA PurgeMoves ==
    ASSUME GuardInv, doing = "purge", NEW x \in Nodes \ {Root}, where[x] # None, In(where, x) = {},
           Now.node \in Above(where, x)
    PROVE  /\ Moves(Put(where, x, None)) /\ PutRight(where, x, None)
           /\ before[x] # None => Now.node \in Above(before, x)
  <1>1. /\ site \in DOMAIN Sites /\ TreeOk(where) /\ TreeOk(before) /\ TreeOk(asked.start) /\ Forest(where)
        /\ DOMAIN where = Nodes
    BY PurgeFinds, TreeIsForest
  <1>w. PICK w : w = Put(where, x, None)
    OBVIOUS
  <1>2. x \notin Above(where, None)
    BY <1>1, AboveUp
  <1>3. PutRight(where, x, None)
    BY <1>1, <1>2, PutKeeps
  <1>4. ASSUME NEW n \in TakenIn(w, asked.start) PROVE n \in Taken \/ Now.node \in Above(asked.start, n)
    <2>1. n \in TakenIn(where, asked.start) \/ (x \in Above(where, n) /\ Above(where, n) = Above(asked.start, n))
      BY <1>w, <1>1, <1>3, <1>4, TakenPut
    <2>2. n \in TakenIn(where, asked.start) => n \in Taken
      BY <1>1 DEF TakenIn, Taken
    <2>3. x \in Above(where, n) => Now.node \in Above(where, n)
      BY <1>1, <1>4, AboveTransitive DEF TakenIn
    <2> QED  BY <2>1, <2>2, <2>3
  <1>5. \A n \in Site.news \ made : w[n] = None
    <2>1. \A n \in Site.news \ made : n \in Nodes /\ where[n] = None
      BY <1>1, SiteFacts DEF GuardInv, TreesOk, Made
    <2> QED  BY <1>w, <1>1, <2>1 DEF Put
  <1>6. before[x] # None => Now.node \in Above(before, x)
    BY BothThere DEF GuardInv, SameUp
  <1> QED  BY <1>w, <1>3, <1>4, <1>5, <1>6 DEF Moves, PutRight

LEMMA AllowedSame ==
    ASSUME site' = site, before' = before, queue' = queue, Allowed(before, Now)
    PROVE  Allowed(before, Now)'
  <1>1. Site' = Site /\ Now' = Now
    BY DEF Site, Now
  <1> QED
    BY <1>1 DEF Allowed, check, policy, OnRefusalList, Whitelisted, TempRoots, Repo, HasGit, walk, IsDir

LEMMA RunKeeps ==
    ASSUME GuardInv, doing # "idle", doing' = doing, site' = site, queue' = queue, before' = before,
           doing = "trash" => home' = home,
           ~touched' => ~touched /\ \A n \in Nodes : where[n] = None => where'[n] = None,
           \A n \in Nodes : before[n] # None =>
               where'[n] = where[n] \/ (doing = "purge" /\ where'[n] = None /\ Now.node \in Above(before, n))
    PROVE  RunOk'
  <1>1. Site' = Site /\ Now' = Now /\ Nodes' = Nodes
    BY DEF Site, Now, Nodes
  <1>2. RunOk
    BY DEF GuardInv
  <1>3. Allowed(before, Now)'
    BY <1>2, AllowedSame DEF RunOk
  <1>4. TrashHome(before, Now.node)' = TrashHome(before, Now.node)
    BY <1>1 DEF Whitelisted, TempRoots, Repo, HasGit, TrashHome
  <1> QED  BY <1>1, <1>2, <1>3, <1>4 DEF RunOk

KeepFrame ==
    /\ doing' = doing /\ asked' = asked /\ clock' = clock /\ site' = site /\ touched' = touched /\ made' = made
    /\ before' = before /\ queue' = queue /\ born' = born

\* A purge goes on.
LEMMA GoesOn ==
    ASSUME GuardInv, doing = "purge", KeepFrame, Moves(where'), FramesOk',
           ~touched => \A n \in Nodes : where[n] = None => where'[n] = None,
           \A n \in Nodes : before[n] # None =>
               where'[n] = where[n] \/ (where'[n] = None /\ Now.node \in Above(before, n))
    PROVE  GuardInv'
  <1>1. StepFrame
    BY DEF KeepFrame, StepFrame
  <1>2. RunOk'
    BY RunKeeps DEF KeepFrame
  <1> QED  BY <1>1, <1>2, StepKeeps DEF KeepFrame

\* The names left to be looked at, less one.
Rest(c) == Under \o <<[Top EXCEPT !.left = @ \ {c}]>>

RestIs(f, c) ==
    /\ f \in Seq(Frame) /\ Len(f) = Len(frames) /\ \A k \in 1 .. Len(frames) - 1 : f[k] = frames[k]
    /\ f[Len(frames)].dir = Top.dir /\ f[Len(frames)].left = Top.left \ {c}

LEMMA RestShape ==
    ASSUME GuardInv, doing = "purge"
    PROVE  /\ \A c : RestIs(Rest(c), c)
           /\ Under \in Seq(Frame) /\ Len(Under) = Len(frames) - 1
           /\ \A k \in 1 .. Len(frames) - 1 : Under[k] = frames[k]
  <1>1. /\ frames \in Seq(Frame) /\ Len(frames) \in Nat \ {0} /\ Len(frames) \in DOMAIN frames
        /\ Top \in Frame /\ Top = frames[Len(frames)]
    BY PurgeFinds
  <1>2. /\ Under \in Seq(Frame) /\ Len(Under) = Len(frames) - 1
        /\ \A k \in 1 .. Len(frames) - 1 : Under[k] = frames[k]
    <2>f. PICK f : f = frames
      OBVIOUS
    <2>1. f \in Seq(Frame) /\ Len(f) \in Nat \ {0}
      BY <1>1, <2>f
    <2>l. PICK l : l = Len(f) - 1
      OBVIOUS
    <2>2. l \in Nat /\ l <= Len(f)
      BY <2>1, <2>l
    <2>3. /\ SubSeq(f, 1, l) \in Seq(Frame) /\ Len(SubSeq(f, 1, l)) = l
          /\ \A k \in 1 .. l : SubSeq(f, 1, l)[k] = f[k]
      BY <2>1, <2>2
    <2> QED  BY <2>3, <2>f, <2>l DEF Under
  <1>u. PICK u : u = Under
    OBVIOUS
  <1>3. ASSUME NEW c PROVE RestIs(Rest(c), c)
    <2>g. PICK g : g = [Top EXCEPT !.left = @ \ {c}]
      OBVIOUS
    <2>1. g \in Frame /\ g.dir = Top.dir /\ g.left = Top.left \ {c}
      BY <1>1, <2>g DEF Frame
    <2>f. PICK f : f = u \o <<g>>
      OBVIOUS
    <2>2. f \in Seq(Frame) /\ Len(f) = Len(u) + 1 /\ f[Len(u) + 1] = g /\ \A k \in 1 .. Len(u) : f[k] = u[k]
      BY <1>2, <1>u, <2>1, <2>f
    <2>3. Rest(c) = f
      BY <1>u, <2>f, <2>g DEF Rest
    <2> QED  BY <1>1, <1>2, <1>u, <2>1, <2>2, <2>3 DEF RestIs
  <1> QED  BY <1>2, <1>3

\* The frames of the line after a name was looked at.
LEMMA LineStays ==
    ASSUME GuardInv, doing = "purge", KeepFrame, NEW c, NEW f, RestIs(f, c),
           Len(frames) <= Len(frames'), \A k \in 1 .. Len(frames) : frames'[k] = f[k],
           \A k \in 2 .. Len(frames) :
               where'[frames[k].dir] = where[frames[k].dir] /\ SameUp(where, where', frames[k].dir)
    PROVE  \A k \in 2 .. Len(frames) : Inside(k)'
  <1> SUFFICES ASSUME NEW k \in 2 .. Len(frames) PROVE Inside(k)'
    OBVIOUS
  <1>1. Len(frames) \in Nat \ {0} /\ Top = frames[Len(frames)] /\ frames \in Seq(Frame)
    BY PurgeFinds
  <1>2. Inside(k)
    BY DEF GuardInv, FramesOk
  <1>3. f[k].dir = frames[k].dir /\ f[k].left \subseteq frames[k].left /\ f[k - 1].dir = frames[k - 1].dir
    <2>1. CASE k = Len(frames)
      BY <1>1, <2>1 DEF RestIs
    <2>2. CASE k # Len(frames)
      BY <1>1, <2>2 DEF RestIs
    <2> QED  BY <2>1, <2>2
  <1>4. frames'[k] = f[k] /\ frames'[k - 1] = f[k - 1]
    BY <1>1
  <1>5. site' = site /\ queue' = queue /\ before' = before /\ (~touched' => ~touched)
    BY DEF KeepFrame
  <1>6. frames'[k].dir = frames[k].dir /\ frames'[k].left \subseteq frames[k].left /\ frames'[k - 1].dir = frames[k - 1].dir
    BY <1>3, <1>4
  <1> QED  BY <1>2, <1>5, <1>6, InsideKeeps

\* Names that are left of a directory.
LEMMA NameLeft ==
    ASSUME GuardInv, doing = "purge", NEW c \in Top.left, Top.dir = None \/ where[c] = Top.dir
    PROVE  /\ c \in Nodes \ {Root} /\ where[c] # None /\ Now.node \in Above(where, c)
           /\ Len(frames) = 1 => c = Now.node
           /\ Len(frames) > 1 => where[c] = Top.dir /\ Top.dir \in Nodes
  <1>1. /\ Len(frames) \in Nat \ {0} /\ Top \in Frame /\ Top = frames[Len(frames)] /\ None \notin Nodes
        /\ (Len(frames) = 1 => Top.dir = None) /\ (Len(frames) > 1 => Top.dir \in Nodes)
        /\ site \in DOMAIN Sites /\ TreeOk(where) /\ Now.node \in Nodes \ {Root}
    BY PurgeFinds
  <1>2. c \in Nodes
    BY <1>1 DEF Frame
  <1>f. Forest(where) /\ DOMAIN where = Nodes
    BY <1>1, TreeIsForest
  <1>3. CASE Len(frames) = 1
    <2>1. c = Now.node /\ where[c] # None
      BY <1>1, <1>3 DEF GuardInv, FramesOk
    <2>2. c \in Above(where, c)
      BY <1>2, <1>f, AboveTransitive
    <2> QED  BY <1>1, <1>2, <1>3, <2>1, <2>2
  <1>4. CASE Len(frames) > 1
    <2>1. Inside(Len(frames)) /\ where[c] = Top.dir /\ where[c] # None
      BY <1>1, <1>4 DEF GuardInv, FramesOk
    <2>2. Now.node \in Above(where, Top.dir)
      BY <1>1, <2>1 DEF Inside
    <2>3. c # Root
      BY <1>1, <2>1 DEF TreeOk, IsTree
    <2>4. Now.node \in Above(where, c)
      BY <1>2, <1>f, <2>1, <2>2, AboveUp
    <2> QED  BY <1>1, <1>2, <1>4, <2>1, <2>3, <2>4
  <1>l. PICK l : l = Len(frames)
    OBVIOUS
  <1>5. l \in Nat \ {0}
    BY <1>1, <1>l
  <1>6. l = 1 \/ l > 1
    BY <1>5
  <1> QED  BY <1>3, <1>4, <1>6, <1>l

\* The four ways to deal with the name c.
Here(c) == Top.dir = None \/ where[c] = Top.dir

Skips(c) == ~Here(c) /\ Keeping(Rest(c)) /\ UNCHANGED where
NotGit(c) == Top.dir # None => Site.name[c] # "git"
Removes(c) == Here(c) /\ NotGit(c) /\ ~IsDir(c) /\ Keeping(Rest(c)) /\ where' = Put(where, c, None)
Opens(c) ==
    /\ Here(c) /\ NotGit(c) /\ IsDir(c) /\ UNCHANGED where
    /\ Keeping(Rest(c) \o <<[dir |-> c, left |-> In(where, c)]>>)

LEMMA EnterCases ==
    ASSUME Enter
    PROVE  \E c \in Top.left :
               \/ (Return("refused") \/ Return("failed")) /\ UNCHANGED where
               \/ Skips(c) \/ Removes(c) \/ Opens(c)
  BY DEF Enter, Rest, Here, NotGit, Skips, Removes, Opens, Put

LEMMA SkipKeeps ==
    ASSUME GuardInv, doing = "purge", UNCHANGED <<born, before>>, NEW c \in Top.left, Skips(c)
    PROVE  GuardInv'
  <1>1. KeepFrame /\ frames' = Rest(c) /\ where' = where /\ Top.dir # None
    BY DEF Skips, Keeping, KeepFrame, Here
  <1>2. Len(frames) \in Nat \ {0} /\ Len(frames) # 1 /\ frames \in Seq(Frame)
    BY <1>1, PurgeFinds
  <1>3. RestIs(frames', c)
    BY <1>1, RestShape
  <1>4. \A k \in 2 .. Len(frames) : Inside(k)'
    <2>f. PICK f : f = frames'
      OBVIOUS
    <2>1. RestIs(f, c) /\ Len(frames) <= Len(frames') /\ \A k \in 1 .. Len(frames) : frames'[k] = f[k]
      BY <1>2, <1>3, <2>f DEF RestIs
    <2>2. \A k \in 2 .. Len(frames) :
              where'[frames[k].dir] = where[frames[k].dir] /\ SameUp(where, where', frames[k].dir)
      BY <1>1 DEF SameUp
    <2> QED  BY <1>1, <2>1, <2>2, LineStays
  <1>5. Site' = Site /\ Now' = Now /\ Nodes' = Nodes
    BY <1>1 DEF Site, Now, Nodes, KeepFrame
  <1>6. FramesOk'
    <2>1. frames' \in Seq(Frame) /\ Len(frames') = Len(frames) /\ frames'[1] = frames[1]
      BY <1>2, <1>3 DEF RestIs
    <2>2. frames[1].dir = None /\ frames[1].left \subseteq {Now.node} /\ frames[1].left = {}
      BY <1>2, PurgeFinds DEF GuardInv, FramesOk
    <2>3. frames' # <<>>
      BY <1>2, <2>1
    <2>4. frames' \in Seq(Frame')
      BY <1>5, <2>1 DEF Frame
    <2> QED  BY <1>2, <1>4, <1>5, <2>1, <2>2, <2>3, <2>4 DEF FramesOk
  <1>7. Moves(where')
    BY <1>1, StandingMoves
  <1> QED  BY <1>1, <1>6, <1>7, GoesOn

LEMMA RemoveKeeps ==
    ASSUME GuardInv, doing = "purge", UNCHANGED <<born, before>>, NEW c \in Top.left, Removes(c)
    PROVE  GuardInv'
  <1>1. KeepFrame /\ frames' = Rest(c) /\ where' = Put(where, c, None) /\ ~IsDir(c)
        /\ (Top.dir = None \/ where[c] = Top.dir)
    BY DEF Removes, Keeping, KeepFrame, Here
  <1>2. /\ Len(frames) \in Nat \ {0} /\ frames \in Seq(Frame) /\ Top = frames[Len(frames)]
        /\ site \in DOMAIN Sites /\ TreeOk(where) /\ Forest(where) /\ DOMAIN where = Nodes
    BY PurgeFinds, TreeIsForest
  <1>3. /\ c \in Nodes \ {Root} /\ where[c] # None /\ Now.node \in Above(where, c)
        /\ (Len(frames) = 1 => c = Now.node) /\ (Len(frames) > 1 => where[c] = Top.dir)
    BY <1>1, NameLeft
  <1>4. In(where, c) = {}
    BY <1>1, <1>2, <1>3, SiteFacts DEF In, IsDir, TreeOk, IsTree
  <1>5. /\ Moves(where') /\ PutRight(where, c, None) /\ where' = Put(where, c, None)
        /\ before[c] # None => Now.node \in Above(before, c)
    BY <1>1, <1>3, <1>4, PurgeMoves
  <1>6. where'[c] = None /\ \A n \in Nodes \ {c} : where'[n] = where[n]
    BY <1>2, <1>3, <1>5 DEF Put
  <1>7. RestIs(frames', c)
    BY <1>1, RestShape
  <1>8. ASSUME NEW k \in 2 .. Len(frames)
        PROVE  where'[frames[k].dir] = where[frames[k].dir] /\ SameUp(where, where', frames[k].dir)
    <2>d. PICK d : d = frames[k].dir
      OBVIOUS
    <2>1. d \in Nodes /\ IsDir(d)
      BY <2>d DEF GuardInv, FramesOk, Inside
    <2>2. c \notin Above(where, d)
      BY <1>1, <1>2, <2>1, AboveIsDir
    <2>3. d # c
      BY <1>1, <2>1
    <2> QED  BY <1>5, <1>6, <2>1, <2>2, <2>3, <2>d DEF PutRight
  <1>9. \A k \in 2 .. Len(frames) : Inside(k)'
    <2>f. PICK f : f = frames'
      OBVIOUS
    <2>1. RestIs(f, c) /\ Len(frames) <= Len(frames') /\ \A k \in 1 .. Len(frames) : frames'[k] = f[k]
      BY <1>2, <1>7, <2>f DEF RestIs
    <2> QED  BY <1>1, <1>8, <2>1, LineStays
  <1>10. Site' = Site /\ Now' = Now /\ Nodes' = Nodes
    BY <1>1 DEF Site, Now, Nodes, KeepFrame
  <1>11. FramesOk'
    <2>1. frames' \in Seq(Frame) /\ Len(frames') = Len(frames) /\ frames' # <<>>
      BY <1>2, <1>7 DEF RestIs
    <2>2. frames'[1].dir = None /\ frames'[1].left = {}
      <3>1. CASE Len(frames) = 1
        <4>1. frames[1].dir = None /\ frames[1].left \subseteq {Now.node}
          BY DEF GuardInv, FramesOk
        <4> QED  BY <1>2, <1>3, <1>7, <3>1, <4>1 DEF RestIs
      <3>2. CASE Len(frames) # 1
        <4>1. frames[1].dir = None /\ frames[1].left = {}
          BY <1>2, <3>2, PurgeFinds DEF GuardInv, FramesOk
        <4> QED  BY <1>2, <1>7, <3>2, <4>1 DEF RestIs
      <3> QED  BY <3>1, <3>2
    <2>3. Len(frames') = 1 => where'[Now.node] = None
      BY <1>3, <1>6, <2>1
    <2>4. frames' \in Seq(Frame')
      BY <1>10, <2>1 DEF Frame
    <2> QED  BY <1>9, <1>10, <2>1, <2>2, <2>3, <2>4 DEF FramesOk
  <1>12. \A n \in Nodes : where[n] = None => where'[n] = None
    BY <1>6
  <1>13. \A n \in Nodes : before[n] # None =>
               where'[n] = where[n] \/ (where'[n] = None /\ Now.node \in Above(before, n))
    BY <1>5, <1>6
  <1> QED  BY <1>1, <1>5, <1>11, <1>12, <1>13, GoesOn

\* No .git is removed or entered.
LEMMA NameClear ==
    ASSUME GuardInv, doing = "purge", NEW c \in Top.left, Here(c), NotGit(c)
    PROVE  \A a \in Above(where, c) : Site.name[a] # "git"
  <1>1. /\ Len(frames) \in Nat \ {0} /\ Top = frames[Len(frames)] /\ None \notin Nodes
        /\ Passed(before, Now.node) /\ (where[Now.node] # None => SameUp(before, where, Now.node))
        /\ Forest(where) /\ DOMAIN where = Nodes
    BY PurgeFinds, TreeIsForest
  <1>2. /\ c \in Nodes \ {Root} /\ where[c] # None /\ (Len(frames) = 1 => c = Now.node)
        /\ (Len(frames) > 1 => where[c] = Top.dir /\ Top.dir \in Nodes)
    BY NameLeft DEF Here
  <1>3. Len(frames) > 1 => Inside(Len(frames))
    BY <1>1 DEF GuardInv, FramesOk
  <1>l. PICK l : l = Len(frames)
    OBVIOUS
  <1>4. l = 1 \/ l > 1
    BY <1>1, <1>l
  <1>5. CASE l = 1
    BY <1>1, <1>2, <1>5, <1>l DEF Passed, SameUp
  <1>6. CASE l > 1
    <2>1. Above(where, c) = {c} \union Above(where, Top.dir)
      BY <1>1, <1>2, <1>6, <1>l, AboveUp
    <2> QED  BY <1>1, <1>2, <1>3, <1>6, <1>l, <2>1 DEF Inside, NotGit
  <1> QED  BY <1>4, <1>5, <1>6

\* A directory that is entered is in the line.
LEMMA NewInside ==
    ASSUME GuardInv, doing = "purge", KeepFrame, NEW c \in Top.left, Opens(c), NEW l, l = Len(frames) + 1,
           frames'[l] = [dir |-> c, left |-> In(where, c)], frames'[l - 1].dir = Top.dir
    PROVE  Inside(l)'
  <1>1. /\ Len(frames) \in Nat \ {0} /\ frames \in Seq(Frame) /\ Top = frames[Len(frames)] /\ None \notin Nodes
        /\ site \in DOMAIN Sites /\ TreeOk(where) /\ TreeOk(before) /\ Now.node \in Nodes \ {Root}
        /\ Passed(before, Now.node) /\ (where[Now.node] # None => SameUp(before, where, Now.node))
        /\ (Len(frames) = 1 => Top.dir = None)
    BY PurgeFinds
  <1>f. Forest(where) /\ Forest(before) /\ DOMAIN where = Nodes /\ DOMAIN before = Nodes
    BY <1>1, TreeIsForest
  <1>2. IsDir(c) /\ where' = where /\ (Top.dir = None \/ where[c] = Top.dir) /\ (Top.dir # None => Site.name[c] # "git")
    BY DEF Opens, Here, NotGit
  <1>3. /\ c \in Nodes \ {Root} /\ where[c] # None /\ Now.node \in Above(where, c)
        /\ (Len(frames) = 1 => c = Now.node)
        /\ (Len(frames) > 1 => where[c] = Top.dir /\ Top.dir \in Nodes)
    BY <1>2, NameLeft
  <1>l. Len(frames) = 1 \/ Len(frames) > 1
    <2>k. PICK k : k = Len(frames)
      OBVIOUS
    <2>1. k \in Nat \ {0}
      BY <1>1, <2>k
    <2> QED  BY <2>1, <2>k
  <1>4. Len(frames) > 1 => Inside(Len(frames))
    BY <1>1 DEF GuardInv, FramesOk
  <1>5. \A a \in Above(where, c) : Site.name[a] # "git"
    BY NameClear DEF Opens
  <1>6. ASSUME ~touched
        PROVE  In(where, c) \subseteq In(before, c) /\ Now.node \in Above(before, c) /\ Depth(before, Now.node, c) = l - 2
    <2>1. \A n \in Nodes : where[n] # None => before[n] # None /\ where[n] = before[n]
      BY <1>6 DEF GuardInv, RunOk
    <2>2. In(where, c) \subseteq In(before, c)
      BY <1>1, <1>3, <1>f, <2>1 DEF In
    <2>3. Now.node \in Above(before, c)
      BY <1>3, <2>1, BothThere DEF GuardInv, SameUp
    <2>4. CASE Len(frames) = 1
      <3>p. PICK p : p = Path(before, c)
        OBVIOUS
      <3>1. Len(p) \in Nat
        BY <1>3, <1>f, <3>p, PathIsSeq
      <3>2. Len(p) - Len(p) = 0
        BY <3>1
      <3> QED  BY <1>3, <2>2, <2>3, <2>4, <3>p, <3>2 DEF Depth
    <2>5. CASE Len(frames) > 1
      <3>1. before[c] = Top.dir /\ Depth(before, Now.node, Top.dir) = Len(frames) - 2
        BY <1>1, <1>3, <1>4, <1>6, <2>1, <2>5 DEF Inside
      <3>p. PICK p : p = Path(before, c)
        OBVIOUS
      <3>q. PICK q : q = Path(before, before[c])
        OBVIOUS
      <3>r. PICK r : r = Path(before, Now.node)
        OBVIOUS
      <3>2. Longer(p, q, c, Nodes)
        BY <1>3, <1>f, <3>p, <3>q, PathParts
      <3>3. Len(p) = 1 + Len(q) /\ Len(q) \in Nat /\ Len(r) \in Nat
        BY <1>1, <1>f, <3>2, <3>r, PathIsSeq DEF Longer
      <3>4. Len(q) - Len(r) = Len(frames) - 2
        BY <3>1, <3>q, <3>r DEF Depth
      <3>5. Len(p) - Len(r) = l - 2
        BY <1>1, <3>3, <3>4
      <3> QED  BY <2>2, <2>3, <3>5, <3>p, <3>r DEF Depth
    <2> QED  BY <1>l, <2>4, <2>5
  <1>7. Site' = Site /\ Now' = Now /\ Nodes' = Nodes /\ before' = before /\ touched' = touched
    BY DEF Site, Now, Nodes, KeepFrame
  <1>8. frames'[l].dir = c /\ frames'[l].left = In(where, c)
    OBVIOUS
  <1>9. c \in Nodes' /\ IsDir(c)' /\ where'[c] # None /\ (l = 2 => c = Now'.node)
    <2>1. l = 2 => Len(frames) = 1
      <3>k. PICK k : k = Len(frames)
        OBVIOUS
      <3>1. k \in Nat /\ l = k + 1
        BY <1>1, <3>k
      <3>2. l = 2 => k = 1
        BY <3>1
      <3> QED  BY <3>2, <3>k
    <2>2. IsDir(c)'
      BY <1>2, <1>7 DEF IsDir
    <2> QED  BY <1>2, <1>3, <1>7, <2>1, <2>2
  <1>10. l > 2 => where'[c] = frames'[l - 1].dir
    BY <1>1, <1>2, <1>3
  <1>11. Now'.node \in Above(where', c) /\ \A a \in Above(where', c) : Site'.name[a] # "git"
    BY <1>2, <1>3, <1>5, <1>7
  <1>12. ~touched' => /\ frames'[l].left \subseteq In(before', c)
                      /\ Now'.node \in Above(before', c) /\ Depth(before', Now'.node, c) = l - 2
    BY <1>6, <1>7, <1>8
  <1> QED  BY <1>8, <1>9, <1>10, <1>11, <1>12 DEF Inside

LEMMA OpenKeeps ==
    ASSUME GuardInv, doing = "purge", UNCHANGED <<born, before>>, NEW c \in Top.left, Opens(c)
    PROVE  GuardInv'
  <1>r. PICK r : r = Rest(c)
    OBVIOUS
  <1>g. PICK g : g = [dir |-> c, left |-> In(where, c)]
    OBVIOUS
  <1>1. KeepFrame /\ frames' = r \o <<g>> /\ where' = where /\ (Top.dir = None \/ where[c] = Top.dir)
    BY <1>r, <1>g DEF Opens, Keeping, KeepFrame, Here
  <1>2. /\ Len(frames) \in Nat \ {0} /\ frames \in Seq(Frame) /\ DOMAIN where = Nodes
        /\ c \in Nodes /\ where[c] # None /\ (Len(frames) = 1 => c = Now.node)
    BY <1>1, PurgeFinds, NameLeft DEF TreeOk
  <1>3. RestIs(r, c) /\ r \in Seq(Frame) /\ Len(r) = Len(frames)
    BY <1>r, RestShape DEF RestIs
  <1>l. PICK l : l = Len(frames) + 1
    OBVIOUS
  <1>4. g \in Frame
    BY <1>2, <1>g DEF Frame, In
  <1>5. /\ frames' \in Seq(Frame) /\ Len(frames') = l /\ frames'[l] = g
        /\ \A k \in 1 .. Len(frames) : frames'[k] = r[k]
    <2>f. PICK f : f = r \o <<g>>
      OBVIOUS
    <2>1. f \in Seq(Frame) /\ Len(f) = Len(r) + 1 /\ f[Len(r) + 1] = g /\ \A k \in 1 .. Len(r) : f[k] = r[k]
      BY <1>3, <1>4, <2>f
    <2> QED  BY <1>1, <1>3, <1>l, <2>1, <2>f
  <1>6. \A k \in 2 .. Len(frames) : Inside(k)'
    <2>1. Len(frames) <= Len(frames')
      BY <1>2, <1>5, <1>l
    <2>2. \A k \in 2 .. Len(frames) :
              where'[frames[k].dir] = where[frames[k].dir] /\ SameUp(where, where', frames[k].dir)
      BY <1>1 DEF SameUp
    <2> QED  BY <1>1, <1>3, <1>5, <2>1, <2>2, LineStays
  <1>7. Inside(l)'
    <2>1. frames'[l - 1].dir = Top.dir
      <3>1. l - 1 = Len(frames) /\ Len(frames) \in 1 .. Len(frames)
        BY <1>2, <1>l
      <3>2. frames'[l - 1] = r[Len(frames)]
        BY <1>5, <3>1
      <3> QED  BY <1>3, <3>2 DEF RestIs
    <2> QED  BY <1>1, <1>5, <1>g, <1>l, <2>1, NewInside
  <1>8. Site' = Site /\ Now' = Now /\ Nodes' = Nodes
    BY <1>1 DEF Site, Now, Nodes, KeepFrame
  <1>9. FramesOk'
    <2>1. frames' # <<>> /\ Len(frames') # 1
      BY <1>2, <1>5, <1>l
    <2>2. frames'[1].dir = None /\ frames'[1].left = {}
      <3>0. frames'[1] = r[1] /\ frames[1].dir = None /\ frames[1].left \subseteq {Now.node}
        BY <1>2, <1>5 DEF GuardInv, FramesOk
      <3>1. CASE Len(frames) = 1
        <4>1. r[1].dir = Top.dir /\ r[1].left = Top.left \ {c} /\ Top = frames[1]
          BY <1>3, <3>1, PurgeFinds DEF RestIs
        <4> QED  BY <1>2, <3>0, <3>1, <4>1
      <3>2. CASE Len(frames) # 1
        <4>1. frames[1].left = {} /\ r[1] = frames[1]
          BY <1>2, <1>3, <3>2, PurgeFinds DEF RestIs
        <4> QED  BY <3>0, <4>1
      <3> QED  BY <3>1, <3>2
    <2>3. frames' \in Seq(Frame')
      BY <1>5, <1>8 DEF Frame
    <2>4. \A k \in 2 .. Len(frames') : Inside(k)'
      <3> TAKE k \in 2 .. Len(frames')
      <3>1. k \in 2 .. Len(frames) \/ k = l
        BY <1>2, <1>5, <1>l
      <3> QED  BY <1>6, <1>7, <3>1
    <2> QED  BY <1>8, <2>1, <2>2, <2>3, <2>4 DEF FramesOk
  <1>10. Moves(where')
    BY <1>1, StandingMoves
  <1> QED  BY <1>1, <1>9, <1>10, GoesOn

LEMMA EnterKeeps ==
    ASSUME GuardInv, doing = "purge", UNCHANGED <<born, before>>, Enter
    PROVE  GuardInv'
  <1>1. PICK c \in Top.left :
            \/ (Return("refused") \/ Return("failed")) /\ UNCHANGED where
            \/ Skips(c) \/ Removes(c) \/ Opens(c)
    BY EnterCases
  <1>2. CASE (Return("refused") \/ Return("failed")) /\ UNCHANGED where
    BY <1>2, StandingMoves, ReturnKeeps
  <1> QED  BY <1>1, <1>2, SkipKeeps, RemoveKeeps, OpenKeeps

\* The directory at the end of the line goes.
LEMMA DropKeeps ==
    ASSUME GuardInv, doing = "purge", UNCHANGED <<born, before>>, Top.left = {}, Top.dir # None, In(where, Top.dir) = {},
           where' = [where EXCEPT ![Top.dir] = None], Keeping(Under)
    PROVE  GuardInv'
  <1>x. PICK x : x = Top.dir
    OBVIOUS
  <1>n. PICK n : n = Len(frames)
    OBVIOUS
  <1>1. KeepFrame /\ frames' = Under /\ where' = Put(where, x, None) /\ In(where, x) = {}
    BY <1>x DEF Keeping, KeepFrame, Put
  <1>2. /\ n \in Nat \ {0, 1} /\ frames \in Seq(Frame) /\ Top = frames[n]
        /\ site \in DOMAIN Sites /\ TreeOk(where) /\ Forest(where) /\ DOMAIN where = Nodes /\ None \notin Nodes
        /\ Now.node \in Nodes \ {Root} /\ frames[1].left = {}
    <2>1. /\ Len(frames) \in Nat \ {0} /\ (Len(frames) = 1 => Top.dir = None)
          /\ (Len(frames) > 1 => frames[1].left = {})
      BY PurgeFinds
    <2>2. n \in Nat \ {0} /\ n # 1
      BY <1>n, <2>1
    <2>3. n > 1
      BY <2>2
    <2> QED  BY <1>n, <2>1, <2>2, <2>3, PurgeFinds, TreeIsForest
  <1>3. \A k \in 2 .. n : Inside(k)
    BY <1>n DEF GuardInv, FramesOk
  <1>4. /\ x \in Nodes /\ where[x] # None /\ Now.node \in Above(where, x) /\ (n = 2 => x = Now.node)
    <2>1. n \in 2 .. n
      BY <1>2
    <2>2. Inside(n)
      BY <1>3, <2>1
    <2> QED  BY <1>2, <1>x, <2>2 DEF Inside
  <1>5. x # Root
    BY <1>2, <1>4 DEF TreeOk, IsTree
  <1>6. /\ Moves(where') /\ PutRight(where, x, None)
        /\ before[x] # None => Now.node \in Above(before, x)
    BY <1>1, <1>4, <1>5, PurgeMoves
  <1>7. where'[x] = None /\ \A m \in Nodes \ {x} : where'[m] = where[m]
    BY <1>1, <1>2, <1>4 DEF Put
  <1>8. /\ frames' \in Seq(Frame) /\ Len(frames') = n - 1 /\ \A k \in 1 .. n - 1 : frames'[k] = frames[k]
    BY <1>1, <1>n, RestShape
  <1>9. ASSUME NEW k \in 2 .. n - 1 PROVE Inside(k)'
    <2>d. PICK d : d = frames[k].dir
      OBVIOUS
    <2>0. k \in 2 .. n /\ k + 1 \in 2 .. n /\ k + 1 > 2 /\ (k + 1) - 1 = k /\ k - 1 \in 1 .. n - 1 /\ k \in 1 .. n - 1
      BY <1>2
    <2>1. d \in Nodes /\ Inside(k)
      BY <1>3, <2>0, <2>d DEF Inside
    <2>2. Inside(k + 1)
      BY <1>3, <2>0
    <2>3. frames[k + 1].dir \in Nodes /\ where[frames[k + 1].dir] = d
      BY <2>0, <2>2, <2>d DEF Inside
    <2>4. frames[k + 1].dir \in In(where, d)
      BY <1>2, <2>3 DEF In
    <2>5. d # x
      BY <1>1, <2>4
    <2>6. x \notin Above(where, d)
      <3>1. \A m \in Above(where, d) : m \in Nodes
        BY <1>2, <2>1, AboveIn
      <3>2. x \in Above(where, d) => \E m \in Above(where, d) : where[m] = x
        BY <1>2, <2>1, <2>5, AboveIsDir
      <3> QED  BY <1>1, <1>2, <3>1, <3>2 DEF In
    <2>7. where'[d] = where[d] /\ SameUp(where, where', d)
      BY <1>1, <1>6, <1>7, <2>1, <2>5, <2>6 DEF PutRight
    <2>8. frames'[k] = frames[k] /\ frames'[k - 1] = frames[k - 1]
      BY <1>8, <2>0
    <2>9. site' = site /\ queue' = queue /\ before' = before /\ (~touched' => ~touched)
      BY <1>1 DEF KeepFrame
    <2>10. k \in 2 .. Len(frames)
      BY <1>n, <2>0
    <2>11. /\ frames'[k].dir = frames[k].dir /\ frames'[k].left \subseteq frames[k].left
           /\ frames'[k - 1].dir = frames[k - 1].dir
      BY <2>8
    <2> QED  BY <2>d, <2>1, <2>7, <2>9, <2>10, <2>11, InsideKeeps
  <1>10. Site' = Site /\ Now' = Now /\ Nodes' = Nodes
    BY <1>1 DEF Site, Now, Nodes, KeepFrame
  <1>11. FramesOk'
    <2>1. frames' # <<>> /\ frames'[1] = frames[1] /\ frames' \in Seq(Frame')
      BY <1>2, <1>8, <1>10 DEF Frame
    <2>2. frames[1].dir = None /\ frames[1].left = {}
      BY <1>2 DEF GuardInv, FramesOk
    <2>3. Len(frames') = 1 => where'[Now'.node] = None
      <3>1. n - 1 = 1 => n = 2
        BY <1>2
      <3> QED  BY <1>4, <1>7, <1>8, <1>10, <3>1
    <2>4. \A k \in 2 .. Len(frames') : Inside(k)'
      BY <1>8, <1>9
    <2> QED  BY <1>10, <2>1, <2>2, <2>3, <2>4 DEF FramesOk
  <1>12. \A m \in Nodes : where[m] = None => where'[m] = None
    BY <1>7
  <1>13. \A m \in Nodes : before[m] # None =>
               where'[m] = where[m] \/ (where'[m] = None /\ Now.node \in Above(before, m))
    BY <1>6, <1>7
  <1> QED  BY <1>1, <1>6, <1>11, <1>12, <1>13, GoesOn

LEMMA PurgeKeeps ==
    ASSUME GuardInv, Purge
    PROVE  GuardInv'
  <1>1. doing = "purge" /\ (Enter \/ Leave) /\ UNCHANGED <<born, before>>
    BY DEF Purge
  <1>2. CASE Enter
    BY <1>1, <1>2, EnterKeeps
  <1>3. CASE Leave
    <2>1. CASE (Return("ok") \/ Return("failed")) /\ UNCHANGED where
      BY <1>1, <2>1, StandingMoves, ReturnKeeps
    <2>2. CASE /\ Top.left = {} /\ Top.dir # None /\ In(where, Top.dir) = {}
               /\ where' = [where EXCEPT ![Top.dir] = None] /\ Keeping(Under)
      BY <1>1, <2>2, DropKeeps
    <2> QED  BY <1>3, <2>1, <2>2 DEF Leave
  <1> QED  BY <1>1, <1>2, <1>3

-----------------------------------------------------------------------------
(* The beginning of a run, and what others do.                               *)

\* A run that begins, or does not: the tree stands.
BeginFrame ==
    /\ asked' = asked /\ clock' = clock /\ site' = site /\ touched' = touched /\ made' = made
    /\ before' = where /\ where' = where /\ born' = born

\* The ceiling of a run that was given to the guard itself is looked at here.
LEMMA BeginCeiling ==
    ASSUME GuardInv, BeginFrame, queue # <<>>, doing = "idle",
           \/ queue' = Tail(queue) \/ queue' = <<>>
           \/ queue' = queue /\ Cardinality(Tree(where, Now.node)) <= Now.max
    PROVE  CeilingOk'
  <1> SUFFICES ASSUME ~touched PROVE Cardinality(Doomed') <= asked.budget
    BY DEF CeilingOk, BeginFrame
  <1>1. TreesOk /\ QueueOk /\ CeilingOk /\ asked.budget \in Nat
    BY DEF GuardInv, TreesOk
  <1>2. \A i \in DOMAIN queue' : \E j \in DOMAIN queue : queue'[i] = queue[j]
    BY <1>1, FirstEntry
  <1>3. Taken' = Taken
    BY DEF BeginFrame, Taken
  <1>4. CASE Cardinality(Doomed) <= asked.budget
    <2>1. Doomed' \subseteq Doomed
      BY <1>1, <1>2, <1>3, DoomedKeeps DEF BeginFrame
    <2>2. /\ Cardinality(Doomed') <= Cardinality(Doomed)
          /\ Cardinality(Doomed') \in Nat /\ Cardinality(Doomed) \in Nat
      BY <1>1, <2>1, DoomedIn, FS_Subset, FS_CardinalityType
    <2> QED  BY <1>1, <1>4, <2>2
  <1>5. CASE where = asked.start /\ Len(queue) = 1 /\ Now.max <= asked.budget
    <2>1. Taken' = {}
      BY <1>3, <1>5 DEF Taken
    <2>2. CASE queue' = queue /\ Cardinality(Tree(where, Now.node)) <= Now.max
      <3>1. \A i \in DOMAIN queue : queue[i] = Now
        BY <1>1, <1>5, FirstEntry DEF QueueOk
      <3>2. Doomed' \subseteq Tree(where, Now.node)
        BY <1>5, <2>1, <2>2, <3>1 DEF Doomed, BeginFrame
      <3>3. Tree(where, Now.node) \subseteq Nodes /\ IsFiniteSet(Nodes)
        BY <1>1, SiteFacts DEF Tree, TreesOk, TreeOk
      <3>4. /\ Cardinality(Doomed') <= Cardinality(Tree(where, Now.node))
            /\ Cardinality(Doomed') \in Nat /\ Cardinality(Tree(where, Now.node)) \in Nat
        BY <3>2, <3>3, FS_Subset, FS_CardinalityType
      <3>5. Now.max \in Nat
        BY <1>1, FirstEntry DEF RunType
      <3> QED  BY <1>1, <1>5, <2>2, <3>4, <3>5
    <2>3. CASE queue' = Tail(queue) \/ queue' = <<>>
      <3>1. queue' = <<>>
        BY <1>1, <1>5, <2>3 DEF QueueOk
      <3>2. Doomed' = {}
        BY <2>1, <3>1 DEF Doomed
      <3> QED  BY <1>1, <3>2, FS_EmptySet
    <2> QED  BY <2>2, <2>3
  <1> QED  BY <1>1, <1>4, <1>5 DEF CeilingOk

LEMMA BeginKeeps ==
    ASSUME GuardInv, Begin
    PROVE  GuardInv'
  <1>1. queue # <<>> /\ doing = "idle" /\ before' = where /\ where' = where /\ born' = born
    BY DEF Begin
  <1>2. TreesOk /\ QueueOk
    BY DEF GuardInv
  <1>3. BeginFrame /\ (queue' = Tail(queue) \/ queue' = <<>> \/ queue' = queue)
    BY <1>1 DEF Begin, Return, BeginFrame
  <1>4. doing' \in {"idle", "purge", "trash"}
    BY DEF Begin, Return
  <1>5. TreesOk'
    BY <1>2, <1>3, <1>4, TreesKeep DEF BeginFrame, TreesOk
  <1>6. QueueOk'
    BY <1>1, <1>2, <1>3, QueueKeeps DEF BeginFrame
  <1>7. CASE Return("ok") \/ Return("refused") \/ Return("failed")
    <2>1. doing' = "idle" /\ (queue' = Tail(queue) \/ queue' = <<>>)
      BY <1>7 DEF Return
    <2>2. CeilingOk'
      BY <1>1, <1>3, <2>1, BeginCeiling
    <2>3. RunOk' /\ FramesOk'
      BY <2>1 DEF RunOk, FramesOk
    <2> QED  BY <1>5, <1>6, <2>2, <2>3 DEF GuardInv
  <1>8. CASE /\ Present(Now) /\ Allowed(where, Now)
             /\ doing' = IF Now.purge THEN "purge" ELSE "trash"
             /\ home' = TrashHome(where, Now.node)
             /\ frames' = IF Now.purge THEN <<[dir |-> None, left |-> {Now.node}]>> ELSE <<>>
             /\ UNCHANGED <<clock, queue, asked, answer, touched, calls, made, site>>
    <2>0. Site' = Site /\ Now' = Now /\ Nodes' = Nodes
      BY <1>8 DEF Site, Now, Nodes
    <2>1. CeilingOk'
      BY <1>1, <1>3, <1>8, AllowedMeans, BeginCeiling
    <2>2. Path(where, Now.node) = Now.path
      BY <1>8 DEF Present
    <2>3. Now.node \in Nodes /\ There(where, Now.node) /\ Passed(where, Now.node) /\ Now.purge \in BOOLEAN
      BY <1>1, <1>2, <1>8, <2>2, TargetThere, AllowedMeans, FirstEntry DEF TreesOk, RunType
    <2>4. where[Now.node] # None
      BY <2>3 DEF There, Passed
    <2>5. FramesOk'
      <3> SUFFICES ASSUME Now.purge PROVE FramesOk'
        BY <1>8, <2>3 DEF FramesOk
      <3>f. PICK f : f = <<[dir |-> None, left |-> {Now.node}]>>
        OBVIOUS
      <3>1. frames' = f
        BY <1>8, <3>f
      <3>2. f \in Seq(Frame) /\ Len(f) = 1 /\ f[1].dir = None /\ f[1].left = {Now.node}
        BY <2>3, <3>f DEF Frame
      <3>3. f \in Seq(Frame') /\ f # <<>>
        BY <2>0, <3>2 DEF Frame
      <3>4. \A k \in 2 .. Len(frames') : Inside(k)'
        BY <3>1, <3>2
      <3> QED  BY <1>1, <2>0, <2>4, <3>1, <3>2, <3>3, <3>4 DEF FramesOk
    <2>6. Allowed(before, Now)' /\ TrashHome(before, Now.node)' = TrashHome(where, Now.node)
      BY <1>1, <1>8, <2>0 DEF Allowed, check, policy, OnRefusalList, Whitelisted, TempRoots, Repo, HasGit, walk, IsDir,
                             TrashHome
    <2>7. RunOk'
      BY <1>1, <1>8, <2>0, <2>2, <2>3, <2>6 DEF RunOk
    <2> QED  BY <1>5, <1>6, <2>1, <2>5, <2>7 DEF GuardInv
  <1>9. Return(IF AbsentRefused(Now) THEN "refused" ELSE "ok") => Return("ok") \/ Return("refused")
    BY Zenon
  <1> QED  BY <1>7, <1>8, <1>9 DEF Begin

LEMMA MakeKeeps ==
    ASSUME GuardInv, Make
    PROVE  GuardInv'
  <1>1. PICK n \in Site.news \ made, d \in DOMAIN where :
            /\ IsDir(d) /\ Root \in Above(where, d)
            /\ where' = [where EXCEPT ![n] = d] /\ born' = [born EXCEPT ![n] = clock]
            /\ touched' = TRUE /\ made' = made \union {n}
            /\ UNCHANGED <<clock, runvars, calls, site>>
    BY DEF Make
  <1>2. /\ queue' = queue /\ doing' = doing /\ home' = home /\ frames' = frames /\ asked' = asked
        /\ before' = before /\ site' = site /\ clock' = clock
    BY <1>1 DEF runvars
  <1>3. /\ TreesOk /\ QueueOk /\ RunOk /\ FramesOk /\ site \in DOMAIN Sites
        /\ TreeOk(where) /\ TreeOk(asked.start) /\ DOMAIN where = Nodes /\ DOMAIN born' = DOMAIN born
    BY <1>1 DEF GuardInv, TreesOk, TreeOk
  <1>4. n \in Nodes \ {Root} /\ where[n] = None /\ before[n] = None /\ asked.start[n] = None /\ d # None
    BY <1>1, <1>3, SiteFacts DEF TreesOk, Made
  <1>5. There(where, d) /\ ~There(where, n) /\ d \in Nodes
    BY <1>1, <1>3, <1>4, RootAbove DEF There
  <1>6. n \notin Above(where, d)
    BY <1>3, <1>5, AbsentAbove
  <1>7. PutRight(where, n, d) /\ where' = Put(where, n, d)
    BY <1>1, <1>3, <1>4, <1>5, <1>6, PutKeeps DEF Put
  <1>8. where'[n] = d /\ \A m \in Nodes \ {n} : where'[m] = where[m]
    BY <1>1, <1>3, <1>4
  <1>9. TreesOk'
    <2>1. TreeOk(where')
      BY <1>7 DEF PutRight
    <2>2. \A m \in Site.news \ made' : where'[m] = None
      <3> TAKE m \in Site.news \ made'
      <3>1. m \in Site.news \ made /\ m # n
        BY <1>1
      <3>2. m \in Nodes /\ where[m] = None
        BY <1>3, <3>1, SiteFacts DEF TreesOk, Made
      <3> QED  BY <1>8, <3>1, <3>2
    <2> QED  BY <1>1, <1>2, <1>3, <2>1, <2>2, TreesKeep DEF TreesOk
  <1>10. QueueOk'
    <2>1. ASSUME NEW i \in DOMAIN queue PROVE born'[queue[i].node] = born[queue[i].node]
      <3>1. There(asked.start, queue[i].node)
        BY <1>3 DEF QueueOk, EntryOk
      <3>2. queue[i].node # n
        BY <1>4, <3>1 DEF There
      <3> QED  BY <1>1, <3>2
    <2> QED  BY <1>2, <1>3, <2>1, QueueKeeps
  <1>11. \A m \in Nodes : before[m] # None => where'[m] = where[m]
    BY <1>4, <1>8
  <1>12. RunOk'
    <2>1. CASE doing = "idle"
      BY <1>2, <2>1 DEF RunOk
    <2>2. CASE doing # "idle"
      BY <1>1, <1>2, <1>11, <2>2, RunKeeps
    <2> QED  BY <2>1, <2>2
  <1>13. FramesOk'
    <2> SUFFICES ASSUME doing = "purge" PROVE FramesOk'
      BY <1>2 DEF FramesOk
    <2>1. ASSUME NEW k \in 2 .. Len(frames) PROVE Inside(k)'
      <3>k. PICK e : e = frames[k].dir
        OBVIOUS
      <3>1. Inside(k) /\ e \in Nodes /\ where[e] # None
        BY <1>3, <3>k DEF FramesOk, Inside
      <3>2. n \notin Above(where, e) /\ e # n
        BY <1>3, <1>4, <1>5, <3>1, AbsentAbove DEF There
      <3>3. where'[e] = where[e] /\ SameUp(where, where', e)
        BY <1>7, <1>8, <3>1, <3>2 DEF PutRight
      <3>4. /\ frames'[k].dir = frames[k].dir /\ frames'[k].left \subseteq frames[k].left
            /\ frames'[k - 1].dir = frames[k - 1].dir
        BY <1>2
      <3> QED  BY <1>1, <1>2, <3>1, <3>3, <3>4, <3>k, InsideKeeps
    <2>2. Site' = Site /\ Now' = Now /\ Nodes' = Nodes
      BY <1>2 DEF Site, Now, Nodes
    <2>3. where'[Now.node] = where[Now.node]
      BY <1>11, PurgeFinds
    <2>4. frames' \in Seq(Frame')
      BY <1>2, <2>2, PurgeFinds DEF Frame
    <2> QED  BY <1>2, <1>3, <2>1, <2>2, <2>3, <2>4 DEF FramesOk
  <1>14. CeilingOk'
    BY <1>1 DEF CeilingOk
  <1> QED  BY <1>9, <1>10, <1>12, <1>13, <1>14 DEF GuardInv

\* Nothing of what the guard knows changes.
LEMMA StillKeeps ==
    ASSUME GuardInv, queue = <<>> \/ (clock' = clock /\ born' = born),
           UNCHANGED <<where, runvars, touched, made, site>>
    PROVE  GuardInv'
  <1>1. /\ queue' = queue /\ doing' = doing /\ home' = home /\ frames' = frames /\ asked' = asked
        /\ before' = before /\ site' = site /\ where' = where /\ touched' = touched /\ made' = made
    BY DEF runvars
  <1>2. TreesOk /\ QueueOk /\ RunOk /\ FramesOk /\ CeilingOk
    BY DEF GuardInv
  <1>3. Site' = Site /\ Now' = Now /\ Nodes' = Nodes /\ Frame' = Frame
    BY <1>1 DEF Site, Now, Nodes, Frame
  <1>4. TreesOk'
    BY <1>1, <1>2, TreesKeep DEF TreesOk
  <1>5. QueueOk'
    <2>1. CASE queue = <<>>
      BY <1>1, <2>1 DEF QueueOk
    <2>2. CASE clock' = clock /\ born' = born
      BY <1>1, <1>2, <2>2, QueueKeeps
    <2> QED  BY <2>1, <2>2
  <1>6. RunOk'
    <2>1. CASE doing = "idle"
      BY <1>1, <2>1 DEF RunOk
    <2>2. CASE doing # "idle"
      BY <1>1, <2>2, RunKeeps
    <2> QED  BY <2>1, <2>2
  <1>7. FramesOk'
    BY <1>1, <1>2, <1>3 DEF FramesOk, Inside, IsDir
  <1>8. CeilingOk'
    <2>1. Doomed' = Doomed
      BY <1>1 DEF Doomed, Taken
    <2> QED  BY <1>1, <1>2, <1>3, <2>1 DEF CeilingOk
  <1> QED  BY <1>4, <1>5, <1>6, <1>7, <1>8 DEF GuardInv

-----------------------------------------------------------------------------
(* The commands.                                                             *)

\* The runs a command asks for, of what is there now.
AskedOk(rs, expired) ==
    /\ rs \in Seq(RunType)
    /\ \A i \in DOMAIN rs :
           /\ There(where, rs[i].node) /\ rs[i].path = Path(where, rs[i].node)
           /\ expired => /\ rs[i].purge /\ where[rs[i].node] \in Nodes
                         /\ Site.name[where[rs[i].node]] = "trash" /\ Expired(rs[i].node)

AskedFor(rs) == UNION {Tree(where, rs[i].node) : i \in DOMAIN rs}

LEMMA AskKeeps ==
    ASSUME GuardInv, NEW rs, NEW budget \in Nat, NEW expired \in BOOLEAN, Ask(rs, budget, expired), AskedOk(rs, expired),
           Cardinality(AskedFor(rs)) <= budget \/ (Len(rs) = 1 /\ rs[1].max <= budget)
    PROVE  GuardInv'
  <1>1. /\ queue = <<>> /\ queue' = rs /\ asked' = [start |-> where, budget |-> budget, expired |-> expired]
        /\ before' = where /\ touched' = FALSE
        /\ where' = where /\ born' = born /\ clock' = clock /\ doing' = doing /\ made' = made /\ site' = site
    BY DEF Ask
  <1>2. asked'.start = where /\ asked'.budget = budget /\ asked'.expired = expired
    BY <1>1
  <1>3. Site' = Site /\ Nodes' = Nodes
    BY <1>1 DEF Site, Nodes
  <1>4. doing = "idle" /\ TreesOk
    BY <1>1 DEF GuardInv, RunOk
  <1>5. RunOk' /\ FramesOk'
    BY <1>1, <1>4 DEF RunOk, FramesOk
  <1>6. TreesOk'
    BY <1>1, <1>2, <1>3, <1>4 DEF TreesOk, TreeOk
  <1>7. QueueOk'
    <2>1. rs \in Seq(RunType')
      BY <1>3 DEF AskedOk, RunType
    <2>2. ASSUME NEW i \in DOMAIN rs PROVE EntryOk(queue[i])'
      <3>r. PICK r : r = rs[i]
        OBVIOUS
      <3>1. /\ There(where, r.node) /\ r.path = Path(where, r.node)
            /\ expired => /\ r.purge /\ where[r.node] \in Nodes
                          /\ Site.name[where[r.node]] = "trash" /\ Expired(r.node)
        BY <3>r DEF AskedOk
      <3>2. queue'[i] = r
        BY <1>1, <3>r
      <3> QED  BY <1>1, <1>2, <1>3, <3>1, <3>2 DEF EntryOk, There, Expired
    <2> QED  BY <1>1, <2>1, <2>2 DEF QueueOk
  <1>8. CeilingOk'
    <2>1. Taken' = {}
      BY <1>1, <1>2 DEF Taken
    <2>2. Doomed' = AskedFor(rs)
      BY <1>1, <1>2, <2>1 DEF Doomed, AskedFor
    <2>3. CASE Cardinality(AskedFor(rs)) <= budget
      BY <1>2, <2>2, <2>3 DEF CeilingOk
    <2>4. CASE Len(rs) = 1 /\ rs[1].max <= budget
      <3>1. Now' = rs[1]
        BY <1>1, <2>4 DEF Now, AskedOk
      <3> QED  BY <1>1, <1>2, <1>4, <2>4, <3>1 DEF CeilingOk
    <2> QED  BY <2>3, <2>4
  <1> QED  BY <1>5, <1>6, <1>7, <1>8 DEF GuardInv

\* A command that is refused asks for nothing.
LEMMA NothingKeeps ==
    ASSUME GuardInv, NEW expired \in BOOLEAN, Ask(<<>>, 0, expired)
    PROVE  GuardInv'
  <1>n. PICK rs : rs = <<>>
    OBVIOUS
  <1>1. AskedOk(rs, expired)
    BY <1>n DEF AskedOk
  <1>2. AskedFor(rs) = {}
    BY <1>n DEF AskedFor
  <1>3. Cardinality(AskedFor(rs)) <= 0
    BY <1>2, FS_EmptySet
  <1>4. Ask(rs, 0, expired)
    BY <1>n
  <1> QED  BY <1>1, <1>3, <1>4, AskKeeps

LEMMA RunIs ==
    ASSUME TreesOk, NEW n \in Nodes, NEW purge \in BOOLEAN, NEW recursive \in BOOLEAN, NEW max \in Nat
    PROVE  /\ Run(n, purge, recursive, max) \in RunType
           /\ Run(n, purge, recursive, max).node = n /\ Run(n, purge, recursive, max).path = Path(where, n)
           /\ Run(n, purge, recursive, max).max = max /\ Run(n, purge, recursive, max).purge = purge
  <1>p. PICK p : p = Path(where, n)
    OBVIOUS
  <1>1. p \in Seq(Nodes)
    BY <1>p, PathIsSeq, TreeIsForest DEF TreesOk
  <1> QED  BY <1>p, <1>1 DEF Run, RunType

LEMMA CallKeeps ==
    ASSUME GuardInv, Call
    PROVE  GuardInv'
  <1>1. PICK n \in Site.paths, purge \in BOOLEAN, recursive \in BOOLEAN, max \in Site.caps :
            Root \in Above(where, n) /\ Ask(<<Run(n, purge, recursive, max)>>, max, FALSE)
    BY DEF Call
  <1>2. TreesOk /\ n \in Nodes /\ max \in Nat /\ There(where, n)
    BY <1>1, SiteFacts, RootAbove DEF GuardInv, TreesOk
  <1>r. PICK r : r = Run(n, purge, recursive, max)
    OBVIOUS
  <1>3. r \in RunType /\ r.node = n /\ r.path = Path(where, n) /\ r.max = max
    BY <1>r, <1>2, RunIs
  <1>s. PICK rs : rs = <<r>>
    OBVIOUS
  <1>4. rs \in Seq(RunType) /\ Len(rs) = 1 /\ rs[1] = r /\ \A i \in DOMAIN rs : rs[i] = r
    BY <1>3, <1>s
  <1>5. AskedOk(rs, FALSE)
    BY <1>2, <1>3, <1>4 DEF AskedOk
  <1>6. Ask(rs, max, FALSE) /\ rs[1].max <= max
    <2>1. Ask(rs, max, FALSE)
      BY <1>1, <1>r, <1>s
    <2>2. rs[1].max = max
      BY <1>3, <1>4
    <2>3. max <= max
      BY <1>2
    <2> QED  BY <2>1, <2>2, <2>3
  <1> QED  BY <1>2, <1>4, <1>5, <1>6, AskKeeps

\* Each of the paths is below the ceiling.
LEMMA PathsKeeps ==
    ASSUME GuardInv, Paths
    PROVE  GuardInv'
  <1>1. PICK ps \in Site.lists, purge \in BOOLEAN, max \in Site.caps :
            /\ \A i \in DOMAIN ps : Root \in Above(where, ps[i])
            /\ \/ /\ \A i \in DOMAIN ps : Allowed(where, Run(ps[i], purge, TRUE, max))
                  /\ Ask([i \in DOMAIN ps |-> Run(ps[i], purge, TRUE, max)], Len(ps) * max, FALSE)
               \/ Ask(<<>>, 0, FALSE)
    BY DEF Paths
  <1>2. TreesOk /\ site \in DOMAIN Sites /\ TreeOk(where) /\ ps \in Seq(Nodes) /\ max \in Nat /\ IsFiniteSet(Nodes)
    BY <1>1, SiteFacts DEF GuardInv, TreesOk
  <1>3. \A i \in DOMAIN ps : ps[i] \in Nodes /\ There(where, ps[i])
    BY <1>1, <1>2, RootAbove
  <1>4. CASE Ask(<<>>, 0, FALSE)
    BY <1>4, NothingKeeps
  <1>5. CASE /\ \A i \in DOMAIN ps : Allowed(where, Run(ps[i], purge, TRUE, max))
             /\ Ask([i \in DOMAIN ps |-> Run(ps[i], purge, TRUE, max)], Len(ps) * max, FALSE)
    <2>s. PICK rs : rs = [i \in DOMAIN ps |-> Run(ps[i], purge, TRUE, max)]
      OBVIOUS
    <2>1. \A i \in DOMAIN ps : rs[i] \in RunType /\ rs[i].node = ps[i] /\ rs[i].path = Path(where, ps[i]) /\ rs[i].max = max
      <3> TAKE i \in DOMAIN ps
      <3>r. PICK r : r = Run(ps[i], purge, TRUE, max)
        OBVIOUS
      <3>1. r \in RunType /\ r.node = ps[i] /\ r.path = Path(where, ps[i]) /\ r.max = max
        <4>n. PICK n : n = ps[i]
          OBVIOUS
        <4>t. PICK t \in BOOLEAN : t = TRUE
          OBVIOUS
        <4>1. n \in Nodes
          BY <1>3, <4>n
        <4>2. r = Run(n, purge, t, max)
          BY <3>r, <4>n, <4>t
        <4>3. /\ Run(n, purge, t, max) \in RunType /\ Run(n, purge, t, max).node = n
              /\ Run(n, purge, t, max).path = Path(where, n) /\ Run(n, purge, t, max).max = max
          BY <1>2, <4>1, RunIs
        <4> QED  BY <4>2, <4>3, <4>n
      <3>2. rs[i] = r
        BY <2>s, <3>r
      <3> QED  BY <3>1, <3>2
    <2>2. rs \in Seq(RunType) /\ DOMAIN rs = DOMAIN ps /\ DOMAIN ps = 1 .. Len(ps) /\ Len(ps) \in Nat
      <3>1. DOMAIN ps = 1 .. Len(ps) /\ Len(ps) \in Nat /\ rs = [i \in 1 .. Len(ps) |-> rs[i]]
        BY <1>2, <2>s
      <3> QED  BY <2>1, <3>1
    <2>3. AskedOk(rs, FALSE)
      BY <1>3, <2>1, <2>2 DEF AskedOk
    <2>4. \A i \in DOMAIN rs : Cardinality(Tree(where, ps[i])) <= max /\ IsFiniteSet(Tree(where, ps[i]))
      <3> TAKE i \in DOMAIN rs
      <3>1. Allowed(where, rs[i]) /\ rs[i].node = ps[i] /\ rs[i].max = max
        BY <1>5, <2>1, <2>2, <2>s
      <3>2. Tree(where, ps[i]) \subseteq Nodes
        BY <1>2 DEF Tree, TreeOk
      <3> QED  BY <1>2, <3>1, <3>2, AllowedMeans, FS_Subset
    <2>5. Cardinality(AskedFor(rs)) <= Len(ps) * max
      <3> DEFINE S == DOMAIN rs
                 T == [i \in S |-> Tree(where, ps[i])]
                 g == [s \in SUBSET S |-> Cardinality(s) * max]
      <3>1. IsFiniteSet(S) /\ Cardinality(S) = Len(ps)
        BY <2>2, FS_Interval
      <3>2. g[{}] = 0 /\ g[S] = Len(ps) * max
        BY <1>2, <3>1, FS_EmptySet
      <3>3. \A x \in S : IsFiniteSet(T[x]) /\ Cardinality(T[x]) <= max /\ Cardinality(T[x]) \in Nat
        BY <2>4, FS_CardinalityType
      <3>4. ASSUME NEW s \in SUBSET S
            PROVE  g[s] \in Nat /\ \A x \in s : g[s \ {x}] + Cardinality(T[x]) <= g[s]
        <4>1. IsFiniteSet(s) /\ Cardinality(s) \in Nat
          BY <3>1, FS_Subset, FS_CardinalityType
        <4>2. g[s] \in Nat
          BY <1>2, <4>1
        <4>3. ASSUME NEW x \in s PROVE g[s \ {x}] + Cardinality(T[x]) <= g[s]
          <5>1. Cardinality(s \ {x}) = Cardinality(s) - 1
            BY <4>1, FS_RemoveElement
          <5>k. PICK k \in Nat : k = Cardinality(s)
            BY <4>1
          <5>2. g[s \ {x}] = (k - 1) * max /\ g[s] = k * max
            BY <5>1, <5>k
          <5>3. (k - 1) * max + max = k * max
            BY <1>2
          <5>4. Cardinality(T[x]) <= max /\ Cardinality(T[x]) \in Nat
            BY <3>3
          <5>5. k * max \in Nat /\ (k - 1) * max \in Int
            BY <1>2
          <5> HIDE DEF g, T
          <5> QED  BY <1>2, <5>2, <5>3, <5>4, <5>5
        <4> QED  BY <4>2, <4>3
      <3>5. AskedFor(rs) = UNION {T[x] : x \in S}
        BY <2>1, <2>2 DEF AskedFor
      <3>6. Cardinality(UNION {T[x] : x \in S}) <= g[S]
        <4> HIDE DEF S, T, g
        <4> QED  BY <3>1, <3>2, <3>3, <3>4, UnionBound
      <3> QED  BY <3>2, <3>5, <3>6
    <2>6. Len(ps) * max \in Nat
      BY <1>2, <2>2
    <2>7. Ask(rs, Len(ps) * max, FALSE)
      BY <1>5, <2>s
    <2> QED  BY <2>3, <2>5, <2>6, <2>7, AskKeeps
  <1> QED  BY <1>1, <1>4, <1>5

\* The sizes of the entries of a trash that are purged, and their sum.
SizeOf(ns) == [i \in DOMAIN ns |-> Cardinality(Tree(where, ns[i]))]

LEMMA PurgeTrashAsks ==
    ASSUME PurgeTrash
    PROVE  queue = <<>> /\ where' = where
  <1>1. PICK h \in Site.trashes, max \in Site.caps :
            LET old == {n \in DOMAIN where : where[n] \in {t \in In(where, h) : Site.name[t] = "trash"} /\ Expired(n)}
            IN  \E ns \in [1 .. Cardinality(old) -> old] : \E rs, b : Ask(rs, b, TRUE)
    BY ZenonT(60) DEF PurgeTrash
  <1>2. PICK rs, b : Ask(rs, b, TRUE)
    BY <1>1
  <1> QED  BY <1>2 DEF Ask

LEMMA PurgeTrashCases ==
    ASSUME PurgeTrash
    PROVE  \/ Ask(<<>>, 0, TRUE)
           \/ \E h \in Site.trashes, max \in Site.caps :
              \E bin \in SUBSET In(where, h) :
              \E old \in SUBSET DOMAIN where :
              \E ns \in [1 .. Cardinality(old) -> old] :
                  /\ \A t \in bin : Site.name[t] = "trash"
                  /\ \A n \in old : where[n] \in bin /\ Expired(n)
                  /\ ~(SumFunction(SizeOf(ns)) > max)
                  /\ Ask([i \in DOMAIN ns |-> [Run(ns[i], TRUE, TRUE, max) EXCEPT !.max = SumFunction(SizeOf(ns))]], max, TRUE)
  <1> SUFFICES ASSUME ~Ask(<<>>, 0, TRUE)
               PROVE  \E h \in Site.trashes, max \in Site.caps :
                      \E bin \in SUBSET In(where, h) :
                      \E old \in SUBSET DOMAIN where :
                      \E ns \in [1 .. Cardinality(old) -> old] :
                  /\ \A t \in bin : Site.name[t] = "trash"
                  /\ \A n \in old : where[n] \in bin /\ Expired(n)
                  /\ ~(SumFunction(SizeOf(ns)) > max)
                  /\ Ask([i \in DOMAIN ns |-> [Run(ns[i], TRUE, TRUE, max) EXCEPT !.max = SumFunction(SizeOf(ns))]], max, TRUE)
    OBVIOUS
  <1> DEFINE Bin(h) == {t \in In(where, h) : Site.name[t] = "trash"}
             Old(h) == {n \in DOMAIN where : where[n] \in Bin(h) /\ Expired(n)}
             Rs(ns, max) == [i \in DOMAIN ns |-> Run(ns[i], TRUE, TRUE, max)]
             Total(ns) == SumFunction(SizeOf(ns))
  <1>1. PICK h \in Site.trashes, max \in Site.caps : \E ns \in [1 .. Cardinality(Old(h)) -> Old(h)] :
            /\ ~OverCeiling(Rs(ns, max), max)
            /\ Ask([i \in DOMAIN Rs(ns, max) |-> [Rs(ns, max)[i] EXCEPT !.max = Total(ns)]], max, TRUE)
    BY ZenonT(60) DEF PurgeTrash, SizeOf
  <1>2. PICK ns \in [1 .. Cardinality(Old(h)) -> Old(h)] :
            /\ ~OverCeiling(Rs(ns, max), max)
            /\ Ask([i \in DOMAIN Rs(ns, max) |-> [Rs(ns, max)[i] EXCEPT !.max = Total(ns)]], max, TRUE)
    BY <1>1
  <1>3. [i \in DOMAIN Rs(ns, max) |-> [Rs(ns, max)[i] EXCEPT !.max = Total(ns)]]
            = [i \in DOMAIN ns |-> [Run(ns[i], TRUE, TRUE, max) EXCEPT !.max = Total(ns)]]
    OBVIOUS
  <1>4. [i \in DOMAIN Rs(ns, max) |-> Cardinality(Tree(where, Rs(ns, max)[i].node))] = SizeOf(ns)
    BY DEF SizeOf, Run
  <1>5. ~(SumFunction(SizeOf(ns)) > max)
    BY <1>2, <1>4 DEF OverCeiling
  <1>b. PICK bin : bin = Bin(h)
    OBVIOUS
  <1>o. PICK old : old = Old(h)
    OBVIOUS
  <1>t. PICK total : total = SumFunction(SizeOf(ns))
    OBVIOUS
  <1>6. /\ bin \in SUBSET In(where, h) /\ old \in SUBSET DOMAIN where /\ \A t \in bin : Site.name[t] = "trash"
        /\ \A n \in old : where[n] \in bin /\ Expired(n)
    BY <1>b, <1>o
  <1>7. ns \in [1 .. Cardinality(old) -> old]
    BY <1>2, <1>o
  <1>8. Ask([i \in DOMAIN ns |-> [Run(ns[i], TRUE, TRUE, max) EXCEPT !.max = total]], max, TRUE)
    BY <1>2, <1>3, <1>t
  <1>9. ~(total > max)
    BY <1>5, <1>t
  <1> HIDE DEF Bin, Old, Rs, Total
  <1> USE <1>6, <1>7
  <1> WITNESS h \in Site.trashes, max \in Site.caps
  <1> WITNESS bin \in SUBSET In(where, h)
  <1> WITNESS old \in SUBSET DOMAIN where
  <1> WITNESS ns \in [1 .. Cardinality(old) -> old]
  <1> QED  BY <1>6, <1>8, <1>9, <1>t

\* What a purge of the trash asks for is no more than the sum it looked at.
LEMMA PurgeTrashKeeps ==
    ASSUME GuardInv, PurgeTrash
    PROVE  GuardInv'
  <1>1. CASE Ask(<<>>, 0, TRUE)
    <2>t. PICK t \in BOOLEAN : t = TRUE
      OBVIOUS
    <2> QED  BY <1>1, <2>t, NothingKeeps
  <1>2. ASSUME NEW h \in Site.trashes, NEW max \in Site.caps, NEW bin \in SUBSET In(where, h),
               NEW old \in SUBSET DOMAIN where, NEW ns \in [1 .. Cardinality(old) -> old],
               \A t \in bin : Site.name[t] = "trash", \A n \in old : where[n] \in bin /\ Expired(n),
               ~(SumFunction(SizeOf(ns)) > max),
               Ask([i \in DOMAIN ns |-> [Run(ns[i], TRUE, TRUE, max) EXCEPT !.max = SumFunction(SizeOf(ns))]], max, TRUE)
        PROVE  GuardInv'
    <2>1. /\ TreesOk /\ site \in DOMAIN Sites /\ TreeOk(where) /\ DOMAIN where = Nodes /\ max \in Nat
          /\ IsFiniteSet(Nodes) /\ None \notin Nodes
      BY <1>2, SiteFacts DEF GuardInv, TreesOk, TreeOk
    <2>2. IsFiniteSet(old) /\ Cardinality(old) \in Nat
      BY <2>1, FS_Subset, FS_CardinalityType
    <2>l. PICK l \in Nat : l = Cardinality(old)
      BY <2>2
    <2>3. DOMAIN ns = 1 .. l /\ \A i \in 1 .. l : ns[i] \in old
      BY <2>l
    <2>4. \A n \in old : n \in Nodes /\ where[n] \in Nodes /\ where[n] # None /\ Site.name[where[n]] = "trash" /\ Expired(n)
      BY <1>2, <2>1 DEF In
    <2>5. IsFiniteSet(1 .. l)
      BY FS_Interval
    <2>f. PICK f : f = SizeOf(ns)
      OBVIOUS
    <2>6. \A i \in 1 .. l : f[i] = Cardinality(Tree(where, ns[i])) /\ f[i] \in Nat /\ IsFiniteSet(Tree(where, ns[i]))
      <3> TAKE i \in 1 .. l
      <3>1. IsFiniteSet(Tree(where, ns[i]))
        BY <2>1, FS_Subset DEF Tree
      <3>2. Cardinality(Tree(where, ns[i])) \in Nat
        BY <3>1, FS_CardinalityType
      <3>3. f[i] = Cardinality(Tree(where, ns[i]))
        BY <2>3, <2>f DEF SizeOf
      <3> QED  BY <3>1, <3>2, <3>3
    <2>t. PICK total : total = SumFunctionOnSet(f, 1 .. l)
      OBVIOUS
    <2>7. total \in Nat /\ SumFunction(SizeOf(ns)) = total
      <3>1. DOMAIN f = 1 .. l
        BY <2>3, <2>f DEF SizeOf
      <3>2. SumFunction(f) = SumFunctionOnSet(f, 1 .. l)
        BY <3>1 DEF SumFunction, FoldFunction, SumFunctionOnSet
      <3>3. total \in Nat
        BY <2>5, <2>6, <2>t, SumIsNatural
      <3> QED  BY <2>f, <2>t, <3>2, <3>3
    <2>8. total <= max
      BY <1>2, <2>1, <2>7
    <2>r. PICK rs : rs = [i \in DOMAIN ns |-> [Run(ns[i], TRUE, TRUE, max) EXCEPT !.max = total]]
      OBVIOUS
    <2>b. PICK b \in BOOLEAN : b = TRUE
      OBVIOUS
    <2>9. ASSUME NEW i \in 1 .. l
          PROVE  rs[i] \in RunType /\ rs[i].node = ns[i] /\ rs[i].path = Path(where, ns[i]) /\ rs[i].purge = TRUE
      <3>n. PICK n : n = ns[i]
        OBVIOUS
      <3>q. PICK q : q = Run(n, b, b, max)
        OBVIOUS
      <3>1. n \in Nodes
        BY <2>3, <2>4, <3>n
      <3>2. q \in RunType /\ q.node = n /\ q.path = Path(where, n) /\ q.purge = b
        BY <2>1, <3>1, <3>q, RunIs
      <3>3. rs[i] = [q EXCEPT !.max = total]
        BY <2>3, <2>b, <2>r, <3>n, <3>q
      <3> QED  BY <2>b, <2>7, <3>n, <3>2, <3>3 DEF RunType
    <2>10. rs \in Seq(RunType) /\ DOMAIN rs = 1 .. l
      <3>1. DOMAIN rs = 1 .. l /\ rs = [i \in 1 .. l |-> rs[i]]
        BY <2>3, <2>r
      <3>2. \A i \in 1 .. l : rs[i] \in RunType
        BY <2>9
      <3> HIDE DEF RunType
      <3> QED  BY <3>1, <3>2
    <2>11. AskedOk(rs, b)
      <3>1. \A n \in old : There(where, n)
        BY <2>4 DEF There
      <3> QED  BY <2>3, <2>4, <2>9, <2>10, <3>1 DEF AskedOk
    <2>12. Cardinality(AskedFor(rs)) <= max
      <3> DEFINE S == 1 .. l
                 T == [i \in S |-> Tree(where, ns[i])]
                 g == [s \in SUBSET S |-> SumFunctionOnSet(f, s)]
      <3>1. g[{}] = 0 /\ g[S] = total
        BY <2>t, SumEmpty
      <3>2. \A x \in S : T[x] = Tree(where, ns[x])
        OBVIOUS
      <3>3. \A s \in SUBSET S : g[s] = SumFunctionOnSet(f, s)
        OBVIOUS
      <3>4. AskedFor(rs) = UNION {T[x] : x \in S}
        <4>1. \A x \in S : Tree(where, rs[x].node) = T[x]
          BY <2>9, <3>2
        <4> HIDE DEF T
        <4> QED  BY <2>10, <4>1 DEF AskedFor
      <3> HIDE DEF g, T
      <3>5. ASSUME NEW s \in SUBSET S
            PROVE  g[s] \in Nat /\ \A x \in s : g[s \ {x}] + Cardinality(T[x]) <= g[s]
        <4>1. IsFiniteSet(s) /\ \A x \in s : f[x] \in Nat
          BY <2>5, <2>6, FS_Subset
        <4>2. g[s] \in Nat
          BY <3>3, <4>1, SumIsNatural
        <4>3. ASSUME NEW x \in s PROVE g[s \ {x}] + Cardinality(T[x]) <= g[s]
          <5>0. s \in SUBSET S /\ s \ {x} \in SUBSET S
            BY <4>3
          <5>1. g[s] = f[x] + g[s \ {x}]
            <6>1. SumFunctionOnSet(f, s) = f[x] + SumFunctionOnSet(f, s \ {x})
              BY <4>1, SumRemove
            <6> QED  BY <3>3, <5>0, <6>1
          <5>2. Cardinality(T[x]) = f[x] /\ f[x] \in Nat
            BY <2>6, <3>2
          <5>3. g[s \ {x}] \in Nat
            <6>1. IsFiniteSet(s \ {x}) /\ \A y \in s \ {x} : f[y] \in Nat
              BY <4>1, FS_RemoveElement
            <6>2. SumFunctionOnSet(f, s \ {x}) \in Nat
              BY <6>1, SumIsNatural
            <6> QED  BY <3>3, <5>0, <6>2
          <5> QED  BY <4>2, <5>1, <5>2, <5>3
        <4> QED  BY <4>2, <4>3
      <3>6. \A x \in S : IsFiniteSet(T[x])
        BY <2>6, <3>2
      <3>7. Cardinality(UNION {T[x] : x \in S}) <= g[S]
        <4> HIDE DEF S
        <4> QED  BY <2>5, <3>1, <3>5, <3>6, UnionBound DEF S
      <3>8. Cardinality(AskedFor(rs)) <= total
        BY <3>1, <3>4, <3>7
      <3>9. Cardinality(AskedFor(rs)) \in Nat
        <4>1. AskedFor(rs) \subseteq Nodes
          BY <2>1 DEF AskedFor, Tree
        <4> QED  BY <2>1, <4>1, FS_Subset, FS_CardinalityType
      <3> QED  BY <2>1, <2>7, <2>8, <3>8, <3>9
    <2>13. Ask(rs, max, b)
      BY <1>2, <2>7, <2>r, <2>b
    <2> QED  BY <2>1, <2>11, <2>12, <2>13, AskKeeps
  <1> QED  BY <1>1, <1>2, PurgeTrashCases

-----------------------------------------------------------------------------
(* The invariant holds.                                                      *)

LEMMA GuardInit ==
    ASSUME SafeDelInit
    PROVE  GuardInv
  <1>1. /\ site \in DOMAIN Sites /\ where = Site.tree /\ before = Site.tree /\ queue = <<>> /\ doing = "idle"
        /\ asked = [start |-> Site.tree, budget |-> 0, expired |-> FALSE] /\ touched = FALSE
    BY DEF SafeDelInit
  <1>2. TreeOk(Site.tree) /\ \A n \in Site.news : Site.tree[n] = None
    BY <1>1, SiteFacts DEF Made
  <1>3. asked.start = Site.tree /\ asked.budget = 0 /\ asked.expired = FALSE
    BY <1>1
  <1>4. TreesOk
    BY <1>1, <1>2, <1>3 DEF TreesOk
  <1>5. QueueOk /\ RunOk /\ FramesOk
    BY <1>1 DEF QueueOk, RunOk, FramesOk
  <1>6. CeilingOk
    <2>1. Doomed = {}
      BY <1>1, <1>3 DEF Doomed, Taken
    <2> QED  BY <1>3, <2>1, FS_EmptySet DEF CeilingOk
  <1> QED  BY <1>4, <1>5, <1>6 DEF GuardInv

LEMMA GuardStep ==
    ASSUME GuardInv, [SafeDelNext]_fsvars
    PROVE  GuardInv'
  <1>1. CASE Hour
    <2>1. queue = <<>> /\ UNCHANGED <<where, runvars, touched, made, site>>
      BY <1>1 DEF Hour
    <2>2. queue = <<>> \/ (clock' = clock /\ born' = born)
      BY <2>1
    <2>3. UNCHANGED <<where, runvars, touched, made, site>>
      BY <2>1
    <2> HIDE <2>1
    <2> QED  BY <2>2, <2>3, StillKeeps
  <1>2. CASE UNCHANGED fsvars
    <2>1. clock' = clock /\ born' = born /\ UNCHANGED <<where, runvars, touched, made, site>>
      BY <1>2 DEF fsvars
    <2> QED  BY <2>1, StillKeeps
  <1> QED  BY <1>1, <1>2, CallKeeps, PathsKeeps, PurgeTrashKeeps, BeginKeeps, TrashKeeps, PurgeKeeps, MakeKeeps
           DEF SafeDelNext

\* At every step the tree is a tree, the runs that are queued and the directories
\* a purge is in are those it was asked about, and the rest of the ceiling covers
\* what is still queued.
THEOREM GuardHolds == SafeDelSpec => []GuardInv
  <1>1. SafeDelInit => GuardInv
    BY GuardInit
  <1>2. GuardInv /\ [SafeDelNext]_fsvars => GuardInv'
    BY GuardStep
  <1> QED  BY <1>1, <1>2, PTL DEF SafeDelSpec

\* A command takes no more entries than its ceiling, which for a purge of the
\* trash is one for all the entries it purges.
THEOREM CeilingHolds == SafeDelSpec => []WithinCeiling
  <1>1. ASSUME GuardInv PROVE WithinCeiling
    <2> SUFFICES ASSUME ~touched PROVE Cardinality(Taken) <= asked.budget
      BY DEF WithinCeiling
    <2>0. TreesOk /\ IsFiniteSet(Doomed) /\ asked.budget \in Nat
      BY <1>1, DoomedIn DEF GuardInv, TreesOk
    <2>1. Taken \subseteq Doomed
      BY DEF Doomed
    <2>2. Cardinality(Taken) <= Cardinality(Doomed) /\ Cardinality(Taken) \in Nat /\ Cardinality(Doomed) \in Nat
      BY <2>0, <2>1, FS_Subset, FS_CardinalityType
    <2>3. CASE Cardinality(Doomed) <= asked.budget
      BY <2>0, <2>2, <2>3
    <2>4. CASE where = asked.start
      <3>1. Taken = {}
        BY <2>4 DEF Taken
      <3> QED  BY <2>0, <3>1, FS_EmptySet
    <2> QED  BY <1>1, <2>3, <2>4 DEF GuardInv, CeilingOk
  <1> QED  BY <1>1, GuardHolds, PTL

-----------------------------------------------------------------------------
(* The target of a purge passes at every moment of it, when others make      *)
(* nothing.                                                                  *)

\* What is not below the target is where it was.
LEMMA OutsideStays ==
    ASSUME GuardInv, doing = "purge", ~touched
    PROVE  \A n \in Nodes : Now.node \notin Above(before, n) => where[n] = before[n] /\ SameUp(before, where, n)
  <1>1. /\ TreeOk(where) /\ TreeOk(before) /\ Forest(where) /\ Forest(before) /\ DOMAIN where = Nodes /\ DOMAIN before = Nodes
    BY PurgeFinds, TreeIsForest
  <1>2. ASSUME NEW n \in Nodes, Now.node \notin Above(before, n), NEW a \in Above(before, n) PROVE where[a] = before[a]
    <2>1. a \in Nodes /\ Now.node \notin Above(before, a)
      BY <1>1, <1>2, AboveIn, AboveTransitive
    <2> QED  BY <2>1 DEF GuardInv, RunOk
  <1>3. \A n \in Nodes : n \in Above(before, n)
    BY <1>1, AboveTransitive
  <1> QED  BY <1>1, <1>2, <1>3, PathSame

\* No .git came or went.
LEMMA GitStays ==
    ASSUME GuardInv, doing = "purge", ~touched
    PROVE  \A d : HasGit(where, d) <=> HasGit(before, d)
  <1>1. /\ DOMAIN where = Nodes /\ DOMAIN before = Nodes /\ None \notin Nodes /\ Passed(before, Now.node)
        /\ Now.node \in Nodes /\ TreeOk(before)
    BY PurgeFinds DEF TreeOk
  <1>2. \A c \in Nodes : Site.name[c] = "git" => where[c] = before[c]
    <2> TAKE c \in Nodes
    <2> SUFFICES ASSUME Site.name[c] = "git" PROVE Now.node \notin Above(before, c)
      BY OutsideStays
    <2>1. c = Now.node => c \in Above(before, Now.node)
      BY <1>1, AboveTransitive, TreeIsForest, PurgeFinds
    <2> QED  BY <1>1, <2>1 DEF Passed, Tree
  <1> QED  BY <1>1, <1>2 DEF HasGit, In

LEMMA StillPasses ==
    ASSUME GuardInv, doing = "purge", ~touched, where[Now.node] # None
    PROVE  Passed(where, Now.node)
  <1>n. PICK n : n = Now.node
    OBVIOUS
  <1>1. /\ site \in DOMAIN Sites /\ TreeOk(where) /\ TreeOk(before) /\ Forest(where) /\ Forest(before)
        /\ DOMAIN where = Nodes /\ DOMAIN before = Nodes /\ None \notin Nodes
        /\ n \in Nodes \ {Root} /\ where[n] # None /\ Passed(before, n) /\ SameUp(before, where, n)
    BY <1>n, PurgeFinds, TreeIsForest
  <1>2. \A m \in Nodes : where[m] # None => before[m] # None /\ where[m] = before[m] /\ SameUp(before, where, m)
    <2> TAKE m \in Nodes
    <2>1. where[m] # None => before[m] # None
      BY DEF GuardInv, RunOk
    <2>2. before[m] # None /\ where[m] # None => where[m] = before[m]
      BY DEF GuardInv, RunOk
    <2> QED  BY <2>1, <2>2, BothThere DEF GuardInv
  <1>3. \A m \in Nodes : n \notin Above(before, m) => SameUp(before, where, m)
    BY <1>n, OutsideStays
  <1>4. Above(where, Site.home) = Above(before, Site.home) /\ Above(where, Site.cwd) = Above(before, Site.cwd)
    BY <1>1, <1>3, SiteFacts DEF Passed, SameUp
  <1>5. \A m \in Tree(where, n) : m \in Tree(before, n) /\ Depth(where, n, m) = Depth(before, n, m)
    <2> TAKE m \in Tree(where, n)
    <2>1. m \in Nodes /\ n \in Above(where, m)
      BY <1>1 DEF Tree
    <2>2. CASE m = n
      BY <1>1, <2>2, AboveTransitive DEF Tree, Depth, SameUp
    <2>3. CASE m # n
      <3>1. where[m] # None
        BY <1>1, <2>1, <2>3, AboveUp
      <3> QED  BY <1>1, <1>2, <2>1, <3>1 DEF Tree, Depth, SameUp
    <2> QED  BY <2>2, <2>3
  <1>6. Repos(where, n) = Repos(before, n)
    BY <1>1, GitStays DEF Repos, SameUp
  <1>7. Repo(where, n) = Repo(before, n)
    <2>1. CASE Repos(before, n) = {}
      BY <1>1, <1>6, <2>1, RepoNearest
    <2>2. CASE Repos(before, n) # {}
      <3>x. PICK x : x = Repo(where, n)
        OBVIOUS
      <3>y. PICK y : y = Repo(before, n)
        OBVIOUS
      <3>1. /\ x \in Repos(before, n) /\ y \in Repos(before, n)
            /\ Repos(before, n) \subseteq Above(where, x) /\ Repos(before, n) \subseteq Above(before, y)
        BY <1>1, <1>6, <2>2, <3>x, <3>y, RepoNearest
      <3>2. x \in Nodes /\ y \in Nodes /\ x \in Above(where, n) /\ y \in Above(where, n)
        BY <1>1, <3>1, AboveIn DEF Repos, SameUp
      <3>3. There(where, x)
        BY <1>1, <3>2, ThereAbove DEF There
      <3>4. Above(where, x) = Above(before, x)
        <4>1. CASE x = Root
          <5>1. where[x] = None /\ before[x] = None
            BY <1>1, <4>1 DEF TreeOk, IsTree
          <5>2. Above(where, x) = {x} \union Above(where, None) /\ Above(before, x) = {x} \union Above(before, None)
            BY <1>1, <3>2, <5>1, AboveUp
          <5>3. Above(where, None) = {} /\ Above(before, None) = {}
            BY <1>1, AboveUp
          <5> QED  BY <5>2, <5>3
        <4>2. CASE x # Root
          BY <1>2, <3>2, <3>3, <4>2 DEF There, SameUp
        <4> QED  BY <4>1, <4>2
      <3>5. x = y
        BY <1>1, <3>1, <3>2, <3>4, AboveOrder
      <3> QED  BY <3>x, <3>y, <3>5
    <2> QED  BY <2>1, <2>2
  <1>8. where[n] = before[n] /\ \A a \in Above(where, n) : a \in Nodes /\ where[a] = before[a]
    <2>1. \A a \in Above(before, n) : where[a] = before[a]
      BY <1>n, <1>1, TargetStays DEF GuardInv
    <2>2. n \in Above(before, n)
      BY <1>1, AboveTransitive
    <2> QED  BY <1>1, <2>1, <2>2, AboveIn DEF SameUp
  <1>9. TempRoots(where) = TempRoots(before)
    BY <1>4 DEF TempRoots
  <1>10. Whitelisted(where, n, FALSE)
    <2>1. Whitelisted(before, n, FALSE)
      BY <1>1 DEF Passed
    <2>2. CASE Repo(before, n) # None
      BY <1>1, <1>7, <1>8, <2>1, <2>2 DEF Whitelisted, SameUp
    <2>3. CASE Repo(before, n) = None
      <3>1. \A t \in TempRoots(before) : t \in Nodes /\ n \notin Above(before, t)
        BY <1>1, <2>1, <2>3, SiteFacts DEF Whitelisted, TempRoots
      <3>2. \A t \in TempRoots(before) : n \notin Above(where, t)
        BY <1>3, <3>1 DEF SameUp
      <3> QED  BY <1>1, <1>7, <1>9, <2>1, <2>3, <3>2 DEF Whitelisted, SameUp
    <2> QED  BY <2>2, <2>3
  <1>11. n # Root /\ n \notin Above(where, Site.home) \union Above(where, Site.cwd)
         /\ \A a \in Above(where, n) : Site.name[a] # "git"
    BY <1>1, <1>4 DEF Passed, SameUp
  <1>12. /\ \A m \in Tree(where, n) \ {n} : Site.name[m] # "git" /\ Site.dev[m] = Site.dev[n]
         /\ Site.dev[where[n]] = Site.dev[n]
         /\ \A m \in Tree(where, n) : IsDir(m) => Depth(where, n, m) < SafedelDepth
    BY <1>1, <1>5, <1>8 DEF Passed
  <1> QED  BY <1>n, <1>10, <1>11, <1>12 DEF Passed

-----------------------------------------------------------------------------
(* What is protected stays.                                                  *)

Spared(n) ==
    where[n] # None /\ where'[n] # where[n] =>
        /\ ~touched => \A m \in Tree(where, n) : ~Protected(where, m)
        /\ where'[n] = None => \A a \in Above(where, n) : Site.name[a] # "git"
        /\ where'[n] = None /\ asked.expired =>
               \E a \in Above(where, n) : a # Root /\ Site.name[where[a]] = "trash" /\ Expired(a)

\* One entry of a tree being purged goes.
LEMMA OneSpared ==
    ASSUME GuardInv, doing = "purge", NEW x \in Nodes, where[x] # None, Now.node \in Above(where, x),
           \A a \in Above(where, x) : Site.name[a] # "git"
    PROVE  Spared(x)
  <1>n. PICK n : n = Now.node
    OBVIOUS
  <1>1. /\ site \in DOMAIN Sites /\ TreeOk(where) /\ TreeOk(before) /\ Forest(where) /\ DOMAIN where = Nodes
        /\ n \in Nodes \ {Root} /\ n \in Above(where, x) /\ before[n] # None
    BY <1>n, PurgeFinds, TreeIsForest
  <1>2. where[n] # None
    BY <1>1, ThereAbove DEF There
  <1>3. ASSUME ~touched PROVE \A m \in Tree(where, x) : ~Protected(where, m)
    <2>1. Passed(where, n)
      BY <1>n, <1>2, <1>3, StillPasses
    <2>2. Tree(where, x) \subseteq Tree(where, n)
      BY <1>1, AboveTransitive DEF Tree
    <2> QED  BY <1>1, <2>1, <2>2, PassedUnprotected
  <1>4. ASSUME asked.expired
        PROVE  \E a \in Above(where, x) : a # Root /\ Site.name[where[a]] = "trash" /\ Expired(a)
    <2>1. queue # <<>> /\ Path(before, Now.node) = Now.path /\ TreesOk /\ QueueOk /\ RunOk /\ doing # "idle"
      BY DEF GuardInv, RunOk
    <2>2. Site.name[asked.start[n]] = "trash" /\ Expired(n)
      BY <1>4, <1>n, <2>1, FirstEntry DEF EntryOk
    <2>3. n \in Above(before, n)
      BY <1>1, AboveTransitive, TreeIsForest
    <2>4. before[n] = asked.start[n] /\ where[n] = before[n]
      BY <1>1, <1>2, <1>n, <2>1, <2>3, TargetThere, TargetStays
    <2> QED  BY <1>1, <2>2, <2>4
  <1> QED  BY <1>3, <1>4 DEF Spared

LEMMA PurgeSpares ==
    ASSUME GuardInv, Purge
    PROVE  \A n \in Nodes : Spared(n)
  <1>1. doing = "purge" /\ (Enter \/ Leave)
    BY DEF Purge
  <1>2. /\ Len(frames) \in Nat \ {0} /\ Top = frames[Len(frames)] /\ DOMAIN where = Nodes
        /\ (Len(frames) = 1 => Top.dir = None)
    BY <1>1, PurgeFinds DEF TreeOk
  <1>3. CASE where' = where
    BY <1>3 DEF Spared
  <1>4. ASSUME NEW c \in Top.left, Removes(c) PROVE \A n \in Nodes : Spared(n)
    <2>1. Here(c) /\ NotGit(c) /\ where' = Put(where, c, None)
      BY <1>4 DEF Removes
    <2>2. c \in Nodes /\ where[c] # None /\ Now.node \in Above(where, c)
      BY <1>1, <2>1, NameLeft DEF Here
    <2>3. Spared(c)
      BY <1>1, <2>1, <2>2, NameClear, OneSpared
    <2>4. \A n \in Nodes \ {c} : where'[n] = where[n]
      BY <1>2, <2>1 DEF Put
    <2> QED  BY <2>3, <2>4 DEF Spared
  <1>5. ASSUME Top.dir # None, where' = [where EXCEPT ![Top.dir] = None] PROVE \A n \in Nodes : Spared(n)
    <2>x. PICK x : x = Top.dir
      OBVIOUS
    <2>l. PICK l : l = Len(frames)
      OBVIOUS
    <2>0. l \in 2 .. l
      BY <1>2, <1>5, <2>l
    <2>1. Inside(l)
      BY <1>1, <2>0, <2>l DEF GuardInv, FramesOk
    <2>2. x \in Nodes /\ where[x] # None /\ Now.node \in Above(where, x) /\ \A a \in Above(where, x) : Site.name[a] # "git"
      BY <1>2, <2>1, <2>l, <2>x DEF Inside
    <2>3. Spared(x)
      BY <1>1, <2>2, OneSpared
    <2>4. \A n \in Nodes \ {x} : where'[n] = where[n]
      BY <1>2, <1>5, <2>x
    <2> QED  BY <2>3, <2>4 DEF Spared
  <1>6. CASE Enter
    <2>1. PICK c \in Top.left :
              \/ (Return("refused") \/ Return("failed")) /\ UNCHANGED where
              \/ Skips(c) \/ Removes(c) \/ Opens(c)
      BY <1>6, EnterCases
    <2>2. where' = where \/ Removes(c)
      BY <2>1 DEF Skips, Opens
    <2> QED  BY <1>3, <1>4, <2>2
  <1>7. CASE Leave
    <2>1. where' = where \/ (Top.dir # None /\ where' = [where EXCEPT ![Top.dir] = None])
      BY <1>7 DEF Leave
    <2> QED  BY <1>3, <1>5, <2>1
  <1> QED  BY <1>1, <1>6, <1>7

\* What was there is where it was, but for the target of a run that ends well.
LEMMA TrashMoves ==
    ASSUME GuardInv, Trash, NEW n \in Nodes, where[n] # None, where'[n] # where[n]
    PROVE  /\ n = Now.node /\ Return("ok") /\ where'[n] # None
  <1>1. /\ doing = "trash" /\ TreeOk(where) /\ DOMAIN where = Nodes /\ site \in DOMAIN Sites /\ None \notin Nodes
        /\ home \in Nodes /\ Now.node \in Nodes
    BY TrashFinds, SiteFacts DEF Trash, TreeOk
  <1>2. PICK tr \in trashdir(where, home) :
            \/ where' \in {where, Put(where, tr, home)}
            \/ \E s \in Site.stamps :
                  /\ where[s] = None
                  /\ where' = [Put(where, tr, home) EXCEPT ![s] = tr, ![Now.node] = s]
                  /\ Return("ok")
    BY DEF Trash, Put
  <1>w. PICK w : w = Put(where, tr, home)
    OBVIOUS
  <1>3. where[tr] = None \/ where[tr] = home
    BY DEF trashdir, In
  <1>4. w[n] = where[n] /\ DOMAIN w = Nodes
    BY <1>1, <1>3, <1>w DEF Put
  <1>5. PICK s \in Site.stamps : where[s] = None /\ where' = [w EXCEPT ![s] = tr, ![Now.node] = s] /\ Return("ok")
    BY <1>2, <1>4, <1>w
  <1>6. s \in Nodes /\ s # None /\ n # s
    BY <1>1, <1>5, SiteFacts DEF Made
  <1>7. n = Now.node
    BY <1>1, <1>4, <1>5, <1>6
  <1>8. where'[n] = s
    BY <1>1, <1>4, <1>5, <1>7
  <1> QED  BY <1>5, <1>6, <1>7, <1>8

LEMMA StepSpares ==
    ASSUME GuardInv, [SafeDelNext]_fsvars
    PROVE  \A n \in DOMAIN where : Spared(n)
  <1> SUFFICES ASSUME NEW n \in Nodes, where[n] # None, where'[n] # where[n] PROVE Spared(n)
    <2>1. DOMAIN where = Nodes
      BY DEF GuardInv, TreesOk, TreeOk
    <2> QED  BY <2>1 DEF Spared
  <1>1. CASE Trash
    <2>1. n = Now.node /\ where'[n] # None /\ doing = "trash"
      BY <1>1, TrashMoves DEF Trash
    <2>2. ASSUME ~touched PROVE \A m \in Tree(where, n) : ~Protected(where, m)
      <3>1. TreeOk(where) /\ TreeOk(before) /\ site \in DOMAIN Sites /\ TreesOk /\ QueueOk /\ RunOk
        BY DEF GuardInv, TreesOk
      <3>2. where = before
        <4>1. \A m \in Nodes : where[m] = before[m]
          BY <2>1, <2>2, <3>1 DEF RunOk
        <4>2. where \in [Nodes -> Nodes \union {None}] /\ before \in [Nodes -> Nodes \union {None}]
          BY <3>1 DEF TreeOk, IsTree
        <4> QED  BY <4>1, <4>2
      <3>3. Passed(where, n)
        BY <2>1, <3>1, <3>2, TargetStays
      <3> QED  BY <3>1, <3>3, PassedUnprotected
    <2> QED  BY <2>1, <2>2 DEF Spared
  <1>2. CASE Purge
    BY <1>2, PurgeSpares
  <1>3. CASE Make
    <2>1. PICK x \in Site.news \ made : \E d \in DOMAIN where : where' = [where EXCEPT ![x] = d]
      BY <1>3 DEF Make
    <2>2. where[x] = None /\ DOMAIN where = Nodes
      BY <2>1 DEF GuardInv, TreesOk, TreeOk
    <2> QED  BY <2>1, <2>2
  <1>4. CASE Call \/ Paths \/ PurgeTrash \/ Begin \/ Hour \/ UNCHANGED fsvars
    <2>1. where' = where
      <3>1. CASE Call
        BY <3>1 DEF Call, Ask
      <3>2. CASE Paths
        BY <3>2 DEF Paths, Ask
      <3>3. CASE PurgeTrash
        BY <3>3, PurgeTrashAsks
      <3>4. CASE Begin
        BY <3>4 DEF Begin
      <3>5. CASE Hour \/ UNCHANGED fsvars
        BY <3>5 DEF Hour, fsvars
      <3> QED  BY <1>4, <3>1, <3>2, <3>3, <3>4, <3>5
    <2> QED  BY <2>1
  <1> QED  BY <1>1, <1>2, <1>3, <1>4 DEF SafeDelNext

\* Nothing protected is moved or removed by any sequence of calls; a .git that
\* others put into a directory being purged stays; and a purge of the trash
\* takes nothing younger than HOURS.
THEOREM ProtectedHolds == SafeDelSpec => ProtectedStay
  <1>1. GuardInv /\ [SafeDelNext]_fsvars
            => [\A n \in DOMAIN where : where[n] # None /\ where'[n] # where[n] =>
                    /\ ~touched => \A m \in Tree(where, n) : ~Protected(where, m)
                    /\ where'[n] = None => \A a \in Above(where, n) : Site.name[a] # "git"
                    /\ where'[n] = None /\ asked.expired =>
                           \E a \in Above(where, n) : a # Root /\ Site.name[where[a]] = "trash" /\ Expired(a)]_fsvars
    BY StepSpares DEF Spared
  <1> QED  BY <1>1, GuardHolds, PTL DEF SafeDelSpec, ProtectedStay

-----------------------------------------------------------------------------
(* The answers are true.                                                     *)

\* The walk before a purge saw what the purge comes to.
LEMMA NameSeen ==
    ASSUME GuardInv, doing = "purge", ~touched, NEW c \in Top.left
    PROVE  /\ c \in Tree(before, Now.node) /\ Depth(before, Now.node, c) = Len(frames) - 1
           /\ Top.dir # None => c # Now.node
  <1>n. PICK n : n = Now.node
    OBVIOUS
  <1>1. /\ Len(frames) \in Nat \ {0} /\ Top = frames[Len(frames)] /\ None \notin Nodes
        /\ site \in DOMAIN Sites /\ TreeOk(before) /\ Forest(before) /\ DOMAIN before = Nodes /\ n \in Nodes
        /\ (Len(frames) = 1 => Top.dir = None) /\ (Len(frames) > 1 => Top.dir \in Nodes)
    BY <1>n, PurgeFinds, TreeIsForest
  <1>l. PICK l : l = Len(frames)
    OBVIOUS
  <1>2. l = 1 \/ l > 1
    BY <1>1, <1>l
  <1>3. CASE l = 1
    <2>1. c = n
      BY <1>1, <1>3, <1>l, <1>n DEF GuardInv, FramesOk
    <2>p. PICK p : p = Path(before, n)
      OBVIOUS
    <2>2. Len(p) \in Nat
      BY <1>1, <2>p, PathIsSeq
    <2>3. Len(p) - Len(p) = l - 1
      BY <1>3, <2>2
    <2> QED  BY <1>1, <1>3, <1>l, <1>n, <2>1, <2>3, <2>p, TreeDown DEF Depth
  <1>4. CASE l > 1
    <2>1. Inside(l) /\ l > 1
      BY <1>1, <1>4, <1>l DEF GuardInv, FramesOk
    <2>d. PICK d : d = Top.dir
      OBVIOUS
    <2>2. d \in Nodes /\ c \in In(before, d) /\ n \in Above(before, d) /\ Depth(before, n, d) = l - 2
      BY <1>1, <1>l, <1>n, <2>1, <2>d DEF Inside
    <2>3. c \in Nodes /\ before[c] = d
      BY <1>1, <2>2 DEF In
    <2>4. d \in Tree(before, n)
      BY <1>1, <2>2 DEF Tree
    <2>5. c \in Tree(before, n) /\ c # n
      BY <1>1, <2>2, <2>4, TreeDown
    <2>p. PICK p : p = Path(before, c)
      OBVIOUS
    <2>q. PICK q : q = Path(before, before[c])
      OBVIOUS
    <2>r. PICK r : r = Path(before, n)
      OBVIOUS
    <2>6. Longer(p, q, c, Nodes)
      BY <1>1, <2>3, <2>p, <2>q, PathParts
    <2>7. Len(p) = 1 + Len(q) /\ Len(q) \in Nat /\ Len(r) \in Nat /\ l \in Nat
      BY <1>1, <1>l, <2>6, <2>r, PathIsSeq DEF Longer
    <2>8. Len(q) - Len(r) = l - 2
      BY <2>2, <2>3, <2>q, <2>r DEF Depth
    <2>9. Len(p) - Len(r) = l - 1
      BY <2>7, <2>8
    <2> QED  BY <1>l, <1>n, <2>5, <2>9, <2>p, <2>r DEF Depth
  <1> QED  BY <1>2, <1>3, <1>4

\* So the purge refuses nothing unless others made something.
LEMMA NeverRefuses ==
    ASSUME GuardInv, doing = "purge", ~touched, Enter
    PROVE  ~Return("refused")
  <1> SUFFICES ASSUME Return("refused") PROVE FALSE
    OBVIOUS
  <1>1. frames' = <<>> /\ doing' = "idle"
    BY DEF Return
  <1>2. PICK c \in Top.left :
            \/ Top.dir # None /\ Site.name[c] = "git"
            \/ Site.dev[c] # Site.dev[Now.node]
            \/ IsDir(c) /\ TooDeep
            \/ Return("failed")
            \/ Keeping(Rest(c))
            \/ \E f : Keeping(f)
    BY DEF Enter, Rest
  <1>3. ~Return("failed") /\ ~\E f : Keeping(f)
    BY DEF Return, Keeping
  <1>4. /\ c \in Tree(before, Now.node) /\ Depth(before, Now.node, c) = Len(frames) - 1
        /\ (Top.dir # None => c # Now.node)
    BY NameSeen
  <1>5. Passed(before, Now.node) /\ Len(frames) \in Nat /\ SafedelDepth \in Nat
    BY PurgeFinds, SafeDelAssumption
  <1>6. CASE Top.dir # None /\ Site.name[c] = "git"
    BY <1>4, <1>5, <1>6 DEF Passed
  <1>7. CASE Site.dev[c] # Site.dev[Now.node]
    BY <1>4, <1>5, <1>7 DEF Passed
  <1>8. CASE IsDir(c) /\ TooDeep
    <2>1. Depth(before, Now.node, c) < SafedelDepth
      BY <1>4, <1>5, <1>8 DEF Passed
    <2> QED  BY <1>4, <1>5, <1>8, <2>1 DEF TooDeep
  <1> QED  BY <1>2, <1>3, <1>6, <1>7, <1>8

TellsTrue ==
    /\ answer'.rc = "ok" => Path(where', answer'.node) # answer'.path
    /\ answer'.rc = "refused" /\ ~touched => \A n \in DOMAIN where : before'[n] # None => where'[n] = before'[n]

LEMMA ReturnSays ==
    ASSUME NEW rc, Return(rc)
    PROVE  answer'.rc = rc /\ answer'.node = Now.node /\ answer'.path = Now.path
  BY DEF Return

\* A path whose last step is another is another path.
LEMMA PathMoved ==
    ASSUME GuardInv, doing # "idle", NEW w, TreeOk(w), w[Now.node] # before[Now.node]
    PROVE  Path(w, Now.node) # Now.path
  <1> SUFFICES ASSUME Path(w, Now.node) = Now.path PROVE FALSE
    OBVIOUS
  <1>1. TreesOk /\ QueueOk /\ RunOk /\ queue # <<>> /\ Path(before, Now.node) = Now.path /\ TreeOk(before)
        /\ site \in DOMAIN Sites
    BY DEF GuardInv, RunOk, TreesOk
  <1>2. Now.node \in Nodes /\ Forest(before) /\ Forest(w) /\ DOMAIN w = Nodes /\ DOMAIN before = Nodes
    BY <1>1, TargetStays, TreeIsForest
  <1>3. Now.node \in Above(before, Now.node)
    BY <1>2, AboveTransitive
  <1> QED  BY <1>1, <1>2, <1>3, PathTells

LEMMA BeginTrue ==
    ASSUME Begin, queue' # queue
    PROVE  TellsTrue
  <1>1. before' = where /\ where' = where
    BY DEF Begin
  <1>2. CASE ~Present(Now) /\ Return("ok")
    BY <1>1, <1>2, ReturnSays DEF TellsTrue, Present
  <1>3. CASE Return("refused") \/ Return("failed")
    BY <1>1, <1>3, ReturnSays DEF TellsTrue
  <1>4. ~Present(Now) /\ Return(IF AbsentRefused(Now) THEN "refused" ELSE "ok")
            => (~Present(Now) /\ Return("ok")) \/ Return("refused")
    BY Zenon
  <1> QED  BY <1>2, <1>3, <1>4 DEF Begin

LEMMA TrashTrue ==
    ASSUME GuardInv, Trash
    PROVE  TellsTrue
  <1>n. PICK n : n = Now.node
    OBVIOUS
  <1>1. /\ doing = "trash" /\ site \in DOMAIN Sites /\ TreeOk(where) /\ DOMAIN where = Nodes /\ home \in Nodes
        /\ n \in Nodes \ {Root} /\ where[n] # None /\ None \notin Nodes
        /\ \A m \in Nodes : before[m] # None => where[m] = before[m]
    BY <1>n, TrashFinds, SiteFacts DEF Trash, TreeOk
  <1>2. before[n] # None /\ site' = site /\ before' = before
    BY <1>1, <1>n, TargetStays DEF GuardInv, Trash, Return
  <1>3. answer'.node = n /\ answer'.path = Now.path
    BY <1>n, ReturnSays DEF Trash
  <1>4. TreeOk(where')
    <2>1. TreesOk'
      BY TrashKeeps DEF GuardInv
    <2> QED  BY <1>2, <2>1 DEF TreesOk, TreeOk, Nodes, Site
  <1>5. ASSUME answer'.rc = "ok" PROVE Path(where', n) # Now.path
    <2>1. ~Return("refused") /\ ~Return("failed")
      BY <1>5, ReturnSays
    <2>2. PICK s \in Site.stamps : \E w, tr : where[s] = None /\ where' = [w EXCEPT ![s] = tr, ![n] = s] /\ DOMAIN w = Nodes
      BY <1>1, <1>n, <2>1 DEF Trash
    <2>3. s \in Nodes /\ s # None /\ s # Root
      BY <1>1, SiteFacts DEF Made
    <2>4. where'[n] = s
      BY <1>1, <2>2
    <2>5. where[n] # s
      BY <1>1, <2>2, <2>3 DEF TreeOk, IsTree
    <2>6. where'[n] # before[n]
      BY <1>1, <1>2, <2>4, <2>5
    <2> QED  BY <1>1, <1>4, <1>n, <2>6, PathMoved
  <1>6. ASSUME answer'.rc = "refused", NEW m \in Nodes, before[m] # None PROVE where'[m] = before[m]
    <2>1. where[m] = before[m] /\ where[m] # None
      BY <1>1, <1>6
    <2>2. ~Return("ok")
      BY <1>6, ReturnSays
    <2>3. where'[m] = where[m]
      BY <2>1, <2>2, TrashMoves
    <2> QED  BY <2>1, <2>3
  <1> QED  BY <1>1, <1>2, <1>3, <1>5, <1>6 DEF TellsTrue

LEMMA PurgeTrue ==
    ASSUME GuardInv, Purge, queue' # queue
    PROVE  TellsTrue
  <1>1. doing = "purge" /\ (Enter \/ Leave)
    BY DEF Purge
  <1>2. CASE Enter
    <2>1. Return("refused") \/ Return("failed")
      BY <1>2, EnterCases DEF Skips, Removes, Opens, Keeping
    <2>2. answer'.rc # "ok" /\ (answer'.rc = "refused" => Return("refused"))
      BY <2>1, ReturnSays
    <2> QED  BY <1>1, <1>2, <2>2, NeverRefuses DEF TellsTrue
  <1>3. CASE Leave
    <2>1. CASE Return("failed")
      BY <2>1, ReturnSays DEF TellsTrue
    <2>2. CASE Top.left = {} /\ Top.dir = None /\ Return("ok") /\ UNCHANGED where
      <3>1. /\ Len(frames) \in Nat \ {0} /\ Top = frames[Len(frames)] /\ None \notin Nodes /\ TreeOk(where)
            /\ (Len(frames) > 1 => Top.dir \in Nodes) /\ before[Now.node] # None
        BY <1>1, PurgeFinds
      <3>l. PICK l : l = Len(frames)
        OBVIOUS
      <3>2. l = 1
        <4>1. l = 1 \/ l > 1
          BY <3>1, <3>l
        <4> QED  BY <2>2, <3>1, <3>l, <4>1
      <3>3. where[Now.node] = None
        BY <1>1, <2>2, <3>1, <3>2, <3>l DEF GuardInv, FramesOk
      <3>4. Path(where, Now.node) # Now.path
        BY <1>1, <3>1, <3>3, PathMoved
      <3> QED  BY <2>2, <3>4, ReturnSays DEF TellsTrue
    <2> QED  BY <1>3, <2>1, <2>2 DEF Leave, Keeping
  <1> QED  BY <1>1, <1>2, <1>3

LEMMA StepTrue ==
    ASSUME GuardInv, [SafeDelNext]_fsvars, queue # <<>>, queue' # queue
    PROVE  TellsTrue
  <1>1. CASE Call \/ Paths \/ PurgeTrash
    <2>1. CASE Call
      BY <2>1 DEF Call, Ask
    <2>2. CASE Paths
      BY <2>2 DEF Paths, Ask
    <2>3. CASE PurgeTrash
      BY <2>3, PurgeTrashAsks
    <2> QED  BY <1>1, <2>1, <2>2, <2>3
  <1>2. CASE Make \/ Hour \/ UNCHANGED fsvars
    BY <1>2 DEF Make, Hour, fsvars, runvars
  <1> QED  BY <1>1, <1>2, BeginTrue, TrashTrue, PurgeTrue DEF SafeDelNext

\* A run that says "ok" leaves nothing at its path, and one that says "refused"
\* has taken nothing.
THEOREM AnswersHold == SafeDelSpec => AnswersTrue
  <1>1. GuardInv /\ [SafeDelNext]_fsvars
            => [queue # <<>> /\ queue' # queue =>
                    /\ answer'.rc = "ok" => Path(where', answer'.node) # answer'.path
                    /\ answer'.rc = "refused" /\ ~touched =>
                           \A n \in DOMAIN where : before'[n] # None => where'[n] = before'[n]]_fsvars
    BY StepTrue DEF TellsTrue
  <1> QED  BY <1>1, GuardHolds, PTL DEF SafeDelSpec, AnswersTrue
=============================================================================
