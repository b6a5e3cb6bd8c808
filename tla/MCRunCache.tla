----------------------------- MODULE MCRunCache -----------------------------
(* Two command lines that search two directories in opposite orders; a       *)
(* header whose second version includes another; a source whose second       *)
(* version includes the header twice.  In the scene "edits" compiles follow  *)
(* one another with all of this, in the scene "race" two of the first        *)
(* command line run at once and the header that includes the other is not    *)
(* written.                                                                  *)
EXTENDS RunCache, TLC

VARIABLE scene

MCSearch == [o \in Opt |-> IF o = 1 THEN <<1, 2>> ELSE <<2, 1>>]
MCVersions == [f \in Path |-> IF f = Source THEN {0, 1, 2}
                              ELSE IF f = Product THEN {0, 1, 2}
                              ELSE IF f[2] = "b" THEN {0, 1} ELSE {0, 1, 2}]
MCIncludes ==
    [f \in Path |-> [v \in Versions[f] \ {0} |->
        IF f = Source THEN (IF v = 1 THEN <<"a">> ELSE <<"a", "a">>)
        ELSE IF f = Product \/ f[2] = "b" \/ v = 1 \/ "b" \notin Header THEN <<>> ELSE <<"b">>]]
Twins == Permutations(Proc)
MCFirst == [f \in Path |-> IF f = <<1, "a">> THEN 0 ELSE 1]

InScene ==
    IF scene = "edits" THEN \E p \in Proc : \A q \in Proc \ {p} : proc[q] = Fresh
    ELSE /\ \A p \in Proc : proc[p].opt \in {None, 1}
         /\ \A f \in Path \ {Source, Product} :
                IF f[2] = "b" THEN file[f] = First[f] ELSE file[f] # 2

MCInit == Init /\ scene \in {"edits", "race"}

MCSpec ==
    /\ MCInit
    /\ [][Next /\ scene' = scene /\ InScene']_<<vars, scene>>
=============================================================================
