----------------------------- MODULE WordMemory -----------------------------
(* What the actions LDX and STX of the model machine see of their memory: a *)
(* word at every key, zero until it is set.                                 *)
CONSTANTS Key, Value
VARIABLE memory

Init == memory = [k \in Key |-> 0]
Set(k, v) == memory' = [memory EXCEPT ![k] = v]
Spec == Init /\ [][\E k \in Key, v \in Value : Set(k, v)]_memory
=============================================================================
