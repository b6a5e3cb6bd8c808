---------------------------- MODULE MCCacheFaults ----------------------------
(* Two processes over one model entry and one run entry that do not fit a   *)
(* budget together, with a fault and an edited file at any moment: a run    *)
(* entry that lost its end counts for less.  There is an inode for every    *)
(* name and every open descriptor.                                          *)
EXTENDS CacheDir
CONSTANTS p1, p2

MCSize == [k \in Key |-> 2]
MCShort == [k \in Key |-> 1]
MCLimit == [p \in Proc |-> IF p = p1 THEN 2 ELSE 1]
=============================================================================
