----------------------------- MODULE MCCacheTemp -----------------------------
(* Two processes storing the same model, one failing rename.                *)
EXTENDS CacheDir
CONSTANTS p1, p2

MCShort == [k \in Key |-> 0]
MCSize == [k \in Key |-> 1]
MCLimit == [p \in Proc |-> 1]
=============================================================================
