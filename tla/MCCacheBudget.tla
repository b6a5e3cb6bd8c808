---------------------------- MODULE MCCacheBudget ----------------------------
(* Two processes with two budgets, one of them zero, all smaller than the    *)
(* entries together.  In the scene "eviction" there are three entries and a  *)
(* clock, several victims in a trim and equal seconds, and nothing fails; in *)
(* the scene "ending" there are two entries, a crash or a failing call may   *)
(* happen at any moment, and the clock plays no part.                        *)
EXTENDS CacheDir
CONSTANTS p1, p2

VARIABLE scene

MCShort == [k \in Key |-> 0]
MCSize == [k \in Key |-> IF k = 2 THEN 2 ELSE 1]
MCLimit == [p \in Proc |-> IF p = p1 THEN 1 ELSE 0]

InScene ==
    IF scene = "eviction" THEN faults = 0
    ELSE now = 0 /\ \A p \in Proc : proc[p].key # 2

MCInit == Init /\ scene \in {"eviction", "ending"}

MCSpec ==
    /\ MCInit
    /\ [][Next /\ scene' = scene /\ InScene']_<<vars, scene>>
    /\ Fairness
=============================================================================
