------------------------------- MODULE MCCore -------------------------------
(* The sequential parts of the core side by side.  The managed memory: two   *)
(* instances, two buffers of up to two bytes in all and two leases, what a   *)
(* borrow can do to the bytes under it, and slots, instances and quotas that *)
(* are given back and taken again; TokenEnd bounds the run as it bounds the  *)
(* code.  The sparse memory, with hashes that collide in every table size,   *)
(* searches that go around the end and three doublings.  The byte tables,    *)
(* with strings that collide, the empty one among them, and a name whose     *)
(* file comes, changes and goes.  A run of two transitions of up to three    *)
(* actions, with frames pushed before, between and after two swaps.  They    *)
(* share no state, so one of them moves in a behaviour and the others stay   *)
(* where they begin.                                                         *)
EXTENDS ManagedMemory, SparseMemory, ByteTables, ModelMachine

VARIABLE focus

MCKeyHash == [k \in Key |-> CASE k = 0 -> 7 [] k = 1 -> 7 [] k = 2 -> 15 [] k = 3 -> 3 [] OTHER -> 6]
MCHash == [b \in Bytes |-> CASE b = "" -> 7 [] b = "x" -> 7 [] b = "y" -> 3 [] OTHER -> 6]

corevars == <<vars, m, tablevars, machinevars, focus>>

\* A part that does not move begins in one of its initial states.
Rests == [tables |-> host = [p \in Name |-> Absent], machine |-> xn = 0]

MCInit ==
    /\ focus \in {"managed", "sparse", "tables", "machine"}
    /\ Init /\ SparseInit /\ TablesInit /\ MachineInit
    /\ blobtable = <<Empty, Empty>>   \* blobs are told apart by their numbers only
    /\ \A part \in DOMAIN Rests \ {focus} : Rests[part]

MCNext ==
    /\ UNCHANGED focus
    /\ \/ focus = "managed" /\ Next /\ UNCHANGED <<m, tablevars, machinevars>>
       \/ focus = "sparse" /\ SparseNext /\ UNCHANGED <<vars, tablevars, machinevars>>
       \/ focus = "tables" /\ TablesNext /\ UNCHANGED <<vars, m, machinevars>>
       \/ focus = "machine" /\ MachineNext /\ UNCHANGED <<vars, m, tablevars>>

\* One thread runs one model, and it keeps running.
MCSpec == MCInit /\ [][MCNext]_corevars /\ WF_machinevars(focus = "machine" /\ MachineNext)

\* A model that loops for ever comes back to the driver all the same: every
\* run of the machine ends (RunEnds, of the behaviours in which it runs),
\* because transitions are counted against the budget of core_run.
MachineEnds == focus = "machine" => RunEnds
=============================================================================
