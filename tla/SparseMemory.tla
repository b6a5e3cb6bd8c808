---------------------------- MODULE SparseMemory ----------------------------
(* The indexed memory of the model machine (cx/core/sparse.cx): an open     *)
(* addressing table that answers 0 for a key never set, keeps a slot taken  *)
(* when its value is zero, and doubles when the next entry would fill more  *)
(* than half of it.  An allocation that fails ends the program and is left  *)
(* out.                                                                     *)
EXTENDS Integers, Sequences, SequencesExt

CONSTANTS Key, Value,  \* 64-bit words; 0 is one of each
          KeyHash,        \* KeyHash[k]: the 44 high bits of the product in slot()
          SparseFirstCap,    \* 1 << 16
          SparseMaxCap       \* a bound of the model: growth beyond it is not taken

ASSUME SparseAssumption ==
    /\ 0 \in Value /\ 0 \in Key
    /\ KeyHash \in [Key -> Nat]
    /\ SparseFirstCap \in Nat \ {0, 1} /\ SparseMaxCap \in Nat

VARIABLE m   \* CxSparse

\* A table of cap slots as mm_zalloc gives it.
ZeroedSlots(cap) == [cap |-> cap, n |-> 0, used |-> [s \in 0 .. cap - 1 |-> FALSE],
                keys |-> [s \in 0 .. cap - 1 |-> 0], values |-> [s \in 0 .. cap - 1 |-> 0]]

SparseInit == m = ZeroedSlots(0)

-----------------------------------------------------------------------------
slot(t, k) == KeyHash[k] % t.cap

\* Where the loop of get and set stops: the first slot from slot(k) on, around
\* the end, that is unused or holds k.  There always is one: the Min of nothing,
\* for a loop that does not end, stops TLC.
Probe(t, k) ==
    LET At(d) == (slot(t, k) + d) % t.cap
        d == Min({e \in 0 .. t.cap - 1 : ~t.used[At(e)] \/ t.keys[At(e)] = k})
    IN At(d)

core_memory_get(t, k) ==
    IF t.cap = 0 THEN 0
    ELSE LET s == Probe(t, k) IN IF t.used[s] THEN t.values[s] ELSE 0

\* The last two lines of core_memory_set.
PutSlot(t, k, v) ==
    LET s == Probe(t, k) IN
    [t EXCEPT !.used[s] = TRUE, !.keys[s] = k, !.values[s] = v,
              !.n = IF t.used[s] THEN @ ELSE @ + 1]

\* The old slots are copied to the same places of the new table.
GrownInPlace(t) ==
    LET new == ZeroedSlots(IF t.cap = 0 THEN SparseFirstCap ELSE 2 * t.cap) IN
    [new EXCEPT !.n = t.n,
                !.used = [s \in DOMAIN @ |-> s < t.cap /\ t.used[s]],
                !.keys = [s \in DOMAIN @ |-> IF s < t.cap THEN t.keys[s] ELSE 0],
                !.values = [s \in DOMAIN @ |-> IF s < t.cap THEN t.values[s] ELSE 0]]

\* The table of twice the size, with the used slots set again in slot order;
\* those calls find room, so they do not grow the table themselves.
GrownSlots(t) ==
    FoldLeft(LAMBDA new, s : IF t.used[s] THEN PutSlot(new, t.keys[s], t.values[s]) ELSE new,
             ZeroedSlots(IF t.cap = 0 THEN SparseFirstCap ELSE 2 * t.cap),
             [j \in 1 .. t.cap |-> j - 1])

Full(t) == (t.n + 1) * 2 > t.cap

core_memory_set(k, v) ==
    LET room == IF Full(m) THEN GrownSlots(m) ELSE m IN
    /\ room.cap <= SparseMaxCap
    /\ m' = PutSlot(room, k, v)

SparseNext == \E k \in Key, v \in Value : core_memory_set(k, v)

SparseSpec == SparseInit /\ [][SparseNext]_m

-----------------------------------------------------------------------------
\* The table is a function from keys to words that is 0 at the start and that
\* a set changes at its key only, through every collision and every growth.
Word == INSTANCE WordMemory WITH memory <- [k \in Key |-> core_memory_get(m, k)]
ImplementsWords == Word!Spec

=============================================================================
