----------------------------- MODULE Ownership -----------------------------
(* What the managed byte memory promises its callers, without slots,       *)
(* tables or counters: a capability is a token that is issued once.  An    *)
(* owner token stands for one buffer; a loan lends a buffer to the holder  *)
(* of a lease token, to one exclusive borrower or to any number of shared  *)
(* ones, and a buffer that is lent can neither be freed nor change hands.  *)
CONSTANT Token

VARIABLES issued,  \* every token handed out so far, whatever it was for
          owners,  \* the owner tokens in force
          loans    \* the loans in force

vars == <<issued, owners, loans>>

Loan == [lease : Token, owner : Token, exclusive : BOOLEAN]
On(t) == {x \in loans : x.owner = t}
Fresh == Token \ issued

Init == issued = {} /\ owners = {} /\ loans = {}

\* An instance takes a token of its own; it is neither an owner nor a lease.
Open(t) == issued' = issued \union {t} /\ UNCHANGED <<owners, loans>>

Allocate(t) ==
    /\ issued' = issued \union {t}
    /\ owners' = owners \union {t}
    /\ UNCHANGED loans

Transfer(old, t) ==
    /\ On(old) = {}
    /\ issued' = issued \union {t}
    /\ owners' = (owners \ {old}) \union {t}
    /\ UNCHANGED loans

Free(old) ==
    /\ On(old) = {}
    /\ owners' = owners \ {old}
    /\ UNCHANGED <<issued, loans>>

Lend(o, t, exclusive) ==
    /\ IF exclusive THEN On(o) = {} ELSE \A x \in On(o) : ~x.exclusive
    /\ issued' = issued \union {t}
    /\ loans' = loans \union {[lease |-> t, owner |-> o, exclusive |-> exclusive]}
    /\ UNCHANGED owners

Return(x) == loans' = loans \ {x} /\ UNCHANGED <<issued, owners>>

Next ==
    \/ \E t \in Fresh :
           \/ Open(t)
           \/ Allocate(t)
           \/ \E o \in owners : Transfer(o, t) \/ \E exclusive \in BOOLEAN : Lend(o, t, exclusive)
    \/ \E o \in owners : Free(o)
    \/ \E x \in loans : Return(x)

Spec == Init /\ [][Next]_vars

-----------------------------------------------------------------------------
\* Shared or exclusive, never both, and only of buffers that still exist:
\* what the borrow rules of cx/core/memory.md add up to.
SharedXorExclusive ==
    \A x, y \in loans : x.owner = y.owner /\ x.exclusive => x = y

LoansBacked == \A x \in loans : x.owner \in owners /\ x.lease \in issued

=============================================================================
