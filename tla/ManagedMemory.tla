--------------------------- MODULE ManagedMemory ---------------------------
(* The managed byte memory of cx/core/memory.cx: byte buffers behind value *)
(* handles.  An instance has buffer slots and lease slots; an owner handle *)
(* names a buffer by slot and token, a lease handle names a bounded shared *)
(* or exclusive view of one.  Handles are plain values a caller may copy,  *)
(* keep for ever or make up, so every call takes any handle over the       *)
(* tokens issued so far and the module checks it against its tables.       *)
(*                                                                         *)
(* A call that answers anything but CM_OK changes nothing, so it is a      *)
(* stuttering step here; that includes a failed calloc.  The calls that    *)
(* only read (cm_length, cm_read_byte, cm_lease_length,                    *)
(* cm_lease_read_byte) change nothing either.                              *)
EXTENDS Integers, FiniteSets, FiniteSetsExt

CONSTANTS MaxInstances,  \* CM_MAX_INSTANCES
          MaxBuffers,    \* CM_MAX_BUFFERS
          MaxLeases,     \* CM_MAX_LEASES
          MaxBytes,      \* CM_MAX_BYTES
          TokenEnd,      \* ~0ULL, the value the token counter never leaves
          Byte, Zero     \* byte values, and the one calloc fills with

ASSUME MemoryAssumption ==
    /\ MaxInstances \in Nat \ {0} /\ MaxBuffers \in Nat \ {0}
    /\ MaxLeases \in Nat /\ MaxBytes \in Nat
    /\ TokenEnd \in Nat \ {0}
    /\ Zero \in Byte

Instances == 0 .. MaxInstances - 1
Slots == 0 .. MaxBuffers - 1
LeaseSlots == 0 .. MaxLeases - 1

VARIABLES next,   \* cm_next
          inst,   \* inst[a]: cm_ids, the three limits, cm_used and both counts
          buf,    \* buf[a][b]: cm_tokens, cm_sizes, cm_data and the borrow counts
          lease,  \* lease[a][l]: the cm_lease_* arrays, offset, length, mutable
          total   \* cm_total

vars == <<next, inst, buf, lease, total>>

NoInstance == [id |-> 0, limit |-> 0, buffers |-> 0, leases |-> 0,
               used |-> 0, owners |-> 0, borrows |-> 0]
Blank(n) == [x \in 0 .. n - 1 |-> Zero]
NoBuffer == [token |-> 0, size |-> 0, data |-> Blank(0), readers |-> 0, writers |-> 0]
NoLease == [token |-> 0, owner |-> 0, buffer |-> 0, offset |-> 0, length |-> 0,
            mutable |-> FALSE]

Init ==
    /\ next = 1
    /\ inst = [a \in Instances |-> NoInstance]
    /\ buf = [a \in Instances |-> [b \in Slots |-> NoBuffer]]
    /\ lease = [a \in Instances |-> [l \in LeaseSlots |-> NoLease]]
    /\ total = 0

-----------------------------------------------------------------------------
(* Handles and the checks every call starts with.                          *)

Tokens == 1 .. TokenEnd - 1

\* The tokens in force, as one family indexed by the place that holds each.
Places == (Instances \X {"instance"} \X {0}) \union (Instances \X {"buffer"} \X Slots)
              \union (Instances \X {"lease"} \X LeaseSlots)
TokenAt(p) ==
    CASE p[2] = "instance" -> inst[p[1]].id
      [] p[2] = "buffer" -> buf[p[1]][p[3]].token
      [] p[2] = "lease" -> lease[p[1]][p[3]].token
InForce == {TokenAt(p) : p \in Places} \ {0}

\* The counter wraps instead of stopping.
cm_issue_wraps(t) == t = next /\ next' = (next % (TokenEnd - 1)) + 1

\* Tokens are reused as soon as they are free, like the slots.
cm_issue_recycles(t) ==
    next # TokenEnd /\ t \notin InForce /\ (\A u \in 1 .. t - 1 : u \in InForce) /\ next' = next + 1

\* Hands out next and refuses at TokenEnd instead of wrapping.
cm_issue(t) == next # TokenEnd /\ t = next /\ next' = next + 1

\* Any token a caller can hold: one that was issued at some time.
Issued == 1 .. next - 1

OwnerHandle == [instance : Issued, token : Issued, slot : Slots]
LeaseHandle == [instance : Issued, token : Issued, slot : LeaseSlots]

InstanceIndex(i, a) == i # 0 /\ inst[a].id = i

OwnerIndex(i, a, o) ==
    /\ o.instance = i
    /\ o.token # 0
    /\ o.slot \in 0 .. inst[a].buffers - 1
    /\ buf[a][o.slot].token = o.token

LeaseIndex(i, a, h) ==
    /\ h.instance = i
    /\ h.token # 0
    /\ h.slot \in 0 .. inst[a].leases - 1
    /\ lease[a][h.slot].token = h.token
    /\ LET b == lease[a][h.slot].buffer IN
        /\ b \in 0 .. inst[a].buffers - 1
        /\ buf[a][b].token # 0
        /\ buf[a][b].token = lease[a][h.slot].owner

\* The handles the checks let through: every call below takes its owner and
\* lease arguments from these and refuses all others.
Owners(i, a) == {o \in OwnerHandle : OwnerIndex(i, a, o)}
Leases(i, a) == {h \in LeaseHandle : LeaseIndex(i, a, h)}

InRange(length, offset, count) == offset <= length /\ count <= length - offset

\* The request is compared with the whole quota.
FitsAlone(count, limit, used) == count <= limit

\* size_t subtraction: a difference below zero wraps to a value no request
\* reaches, so the comparison it feeds would let every request pass.
Fits(count, limit, used) == used <= limit => count <= limit - used

\* The scans for a free slot take the first one.
First(x, S) == x \in S /\ \A y \in S : x <= y

\* Shared borrowers are not asked.
Unwritten(a, b) == buf[a][b].writers = 0

\* No lease at all, what a change of a buffer by its owner needs.
Idle(a, b) == buf[a][b].readers = 0 /\ buf[a][b].writers = 0

\* An exclusive lease is given beside shared ones.
LendableUnlessWritten(a, b, writable) == buf[a][b].writers = 0

Lendable(a, b, writable) ==
    buf[a][b].writers = 0 /\ (writable => buf[a][b].readers = 0)

\* mm_move of count bytes into a buffer of the given size.
Moved(size, dst, to, src, from, count) ==
    [x \in 0 .. size - 1 |-> IF x \in to .. to + count - 1 THEN src[from + x - to] ELSE dst[x]]

\* A call that only changes the bytes of a buffer.
Store(a, b, data) ==
    buf' = [buf EXCEPT ![a][b].data = data] /\ UNCHANGED <<next, inst, lease, total>>

-----------------------------------------------------------------------------
(* Instances.                                                              *)

cm_create(limit, buffers, leases) ==
    \E a \in Instances, t \in Tokens :
        /\ limit <= MaxBytes /\ buffers \in 1 .. MaxBuffers /\ leases \in 0 .. MaxLeases
        /\ First(a, {i \in Instances : inst[i].id = 0})
        /\ cm_issue(t)
        /\ inst' = [inst EXCEPT ![a] = [id |-> t, limit |-> limit, buffers |-> buffers,
                                        leases |-> leases, used |-> 0, owners |-> 0,
                                        borrows |-> 0]]
        /\ UNCHANGED <<buf, lease, total>>

cm_destroy(a) ==
    /\ inst[a].owners = 0 /\ inst[a].borrows = 0
    /\ inst' = [inst EXCEPT ![a].id = 0, ![a].limit = 0, ![a].buffers = 0, ![a].leases = 0]
    /\ UNCHANGED <<next, buf, lease, total>>

-----------------------------------------------------------------------------
(* Owners.                                                                 *)

cm_new(a, length) ==
    \E b \in Slots, t \in Tokens :
        /\ length <= MaxBytes
        /\ First(b, {s \in 0 .. inst[a].buffers - 1 : buf[a][s].token = 0})
        /\ Fits(length, inst[a].limit, inst[a].used)
        /\ Fits(length, MaxBytes, total)
        /\ cm_issue(t)
        /\ buf' = [buf EXCEPT ![a][b] = [token |-> t, size |-> length,
                                         data |-> Blank(length), readers |-> 0, writers |-> 0]]
        /\ inst' = [inst EXCEPT ![a].used = @ + length, ![a].owners = @ + 1]
        /\ total' = total + length
        /\ UNCHANGED lease

cm_write_byte(a, o, offset, byte) ==
    /\ Idle(a, o.slot)
    /\ offset < buf[a][o.slot].size
    /\ Store(a, o.slot, [buf[a][o.slot].data EXCEPT ![offset] = byte])

\* Source and destination may be the same owner; the bytes are read before
\* any is written (memmove).
cm_copy_range(a, dst, to, src, from, count) ==
    /\ Idle(a, dst.slot)
    /\ buf[a][src.slot].writers = 0
    /\ InRange(buf[a][dst.slot].size, to, count)
    /\ InRange(buf[a][src.slot].size, from, count)
    /\ Store(a, dst.slot, Moved(buf[a][dst.slot].size, buf[a][dst.slot].data, to,
                                buf[a][src.slot].data, from, count))

\* The foreign pointer is any run of count bytes.
cm_unsafe_import(a, dst, to, bytes, count) ==
    /\ Idle(a, dst.slot)
    /\ InRange(buf[a][dst.slot].size, to, count)
    /\ Store(a, dst.slot, Moved(buf[a][dst.slot].size, buf[a][dst.slot].data, to,
                                bytes, 0, count))

cm_move(a, o) ==
    \E t \in Tokens :
        /\ Idle(a, o.slot)
        /\ cm_issue(t)
        /\ buf' = [buf EXCEPT ![a][o.slot].token = t]
        /\ UNCHANGED <<inst, lease, total>>

\* The size of the freed buffer stays in its slot.
cm_drop_keeps_size(a, o) ==
    /\ Idle(a, o.slot)
    /\ buf' = [buf EXCEPT ![a][o.slot] = [@ EXCEPT !.token = 0, !.data = Blank(0)]]
    /\ inst' = [inst EXCEPT ![a].used = @ - buf[a][o.slot].size, ![a].owners = @ - 1]
    /\ total' = total - buf[a][o.slot].size
    /\ UNCHANGED <<next, lease>>

cm_drop(a, o) ==
    /\ Idle(a, o.slot)
    /\ buf' = [buf EXCEPT ![a][o.slot] = [@ EXCEPT !.token = 0, !.size = 0, !.data = Blank(0)]]
    /\ inst' = [inst EXCEPT ![a].used = @ - buf[a][o.slot].size, ![a].owners = @ - 1]
    /\ total' = total - buf[a][o.slot].size
    /\ UNCHANGED <<next, lease>>

-----------------------------------------------------------------------------
(* Leases.                                                                 *)

\* A buffer after one more borrow of it, and after one borrow less.
Lent(q, writable) ==
    IF writable THEN [q EXCEPT !.writers = 1] ELSE [q EXCEPT !.readers = @ + 1]

\* Releasing a shared lease clears the count the way it clears the flag.
ReturnedAll(q, writable) ==
    IF writable THEN [q EXCEPT !.writers = 0] ELSE [q EXCEPT !.readers = 0]

Returned(q, writable) ==
    IF writable THEN [q EXCEPT !.writers = 0] ELSE [q EXCEPT !.readers = @ - 1]

cm_borrow(a, o, offset, length, writable) ==
    \E l \in LeaseSlots, t \in Tokens :
        /\ Lendable(a, o.slot, writable)
        /\ InRange(buf[a][o.slot].size, offset, length)
        /\ First(l, {s \in 0 .. inst[a].leases - 1 : lease[a][s].token = 0})
        /\ cm_issue(t)
        /\ lease' = [lease EXCEPT ![a][l] = [token |-> t, owner |-> o.token,
                                             buffer |-> o.slot, offset |-> offset,
                                             length |-> length, mutable |-> writable]]
        /\ buf' = [buf EXCEPT ![a][o.slot] = Lent(@, writable)]
        /\ inst' = [inst EXCEPT ![a].borrows = @ + 1]
        /\ UNCHANGED total

cm_lease_write_byte(a, h, offset, byte) ==
    LET v == lease[a][h.slot] IN
    /\ v.mutable
    /\ offset < v.length
    /\ Store(a, v.buffer, [buf[a][v.buffer].data EXCEPT ![v.offset + offset] = byte])

\* The copy starts at the buffer and not at the view.
cm_lease_copy_to_buffer(a, dst, to, src, from, count) ==
    LET v == lease[a][dst.slot]
        w == lease[a][src.slot]
    IN
    /\ v.mutable
    /\ InRange(v.length, to, count)
    /\ InRange(w.length, from, count)
    /\ Store(a, v.buffer, Moved(buf[a][v.buffer].size, buf[a][v.buffer].data, to,
                                buf[a][w.buffer].data, w.offset + from, count))

cm_lease_copy_range(a, dst, to, src, from, count) ==
    LET v == lease[a][dst.slot]
        w == lease[a][src.slot]
    IN
    /\ v.mutable
    /\ InRange(v.length, to, count)
    /\ InRange(w.length, from, count)
    /\ Store(a, v.buffer, Moved(buf[a][v.buffer].size, buf[a][v.buffer].data, v.offset + to,
                                buf[a][w.buffer].data, w.offset + from, count))

\* The code clears the token and the owner; the other fields of a free lease
\* slot are never read and are reset with them.
cm_release(a, h) ==
    LET v == lease[a][h.slot] IN
    /\ buf' = [buf EXCEPT ![a][v.buffer] = Returned(@, v.mutable)]
    /\ lease' = [lease EXCEPT ![a][h.slot] = NoLease]
    /\ inst' = [inst EXCEPT ![a].borrows = @ - 1]
    /\ UNCHANGED <<next, total>>

-----------------------------------------------------------------------------
Sizes == 0 .. MaxBytes

\* Calls on instance i, found at table index a by cm_instance_index.
OwnerCalls(i, a) ==
    \E o \in Owners(i, a) :
        \/ cm_move(a, o)
        \/ cm_drop(a, o)
        \/ \E x \in Sizes, byte \in Byte : cm_write_byte(a, o, x, byte)
        \/ \E src \in Owners(i, a), to, from, n \in Sizes :
               cm_copy_range(a, o, to, src, from, n)
        \/ \E to, n \in Sizes : \E bytes \in [0 .. n - 1 -> Byte] :
               cm_unsafe_import(a, o, to, bytes, n)
        \/ \E x, n \in Sizes, writable \in BOOLEAN : cm_borrow(a, o, x, n, writable)

LeaseCalls(i, a) ==
    \E h \in Leases(i, a) :
        \/ cm_release(a, h)
        \/ \E x \in Sizes, byte \in Byte : cm_lease_write_byte(a, h, x, byte)
        \/ \E src \in Leases(i, a), to, from, n \in Sizes :
               cm_lease_copy_range(a, h, to, src, from, n)

Next ==
    \/ \E limit \in Sizes, buffers \in 1 .. MaxBuffers, leases \in 0 .. MaxLeases :
           cm_create(limit, buffers, leases)
    \/ \E i \in Issued, a \in Instances :
           /\ InstanceIndex(i, a)
           /\ \/ cm_destroy(a)
              \/ \E length \in Sizes : cm_new(a, length)
              \/ OwnerCalls(i, a)
              \/ LeaseCalls(i, a)

Spec == Init /\ [][Next]_vars

-----------------------------------------------------------------------------
(* Properties.                                                             *)

InstanceRecord == [id : 0 .. TokenEnd - 1, limit : Sizes, buffers : 0 .. MaxBuffers,
                   leases : 0 .. MaxLeases, used : Int, owners : Int, borrows : Int]
LeaseRecord == [token : 0 .. TokenEnd - 1, owner : 0 .. TokenEnd - 1, buffer : Slots,
                offset : Nat, length : Nat, mutable : BOOLEAN]

BufferRecord == [token : 0 .. TokenEnd - 1, size : Sizes,
                 data : UNION {[0 .. n - 1 -> Byte] : n \in Sizes},
                 readers : Int, writers : {0, 1}]

\* Every table entry of cx/core/memory.cx holds a value of its kind; the
\* counters are plain integers here, that they do not go wrong is stated below.
TypeOK ==
    /\ next \in 1 .. TokenEnd
    /\ inst \in [Instances -> InstanceRecord]
    /\ buf \in [Instances -> [Slots -> BufferRecord]]
    /\ \A a \in Instances, b \in Slots : buf[a][b].data \in [0 .. buf[a][b].size - 1 -> Byte]
    /\ lease \in [Instances -> [LeaseSlots -> LeaseRecord]]
    /\ total \in Int

LiveBuffers(a) == {b \in Slots : buf[a][b].token # 0}
LiveLeases(a) == {l \in LeaseSlots : lease[a][l].token # 0}
SharedOn(a, b) == {l \in LiveLeases(a) : lease[a][l].buffer = b /\ ~lease[a][l].mutable}
ExclusiveOn(a, b) == {l \in LiveLeases(a) : lease[a][l].buffer = b /\ lease[a][l].mutable}

\* A lease in force always has its buffer under it: same owner token, slots
\* inside the limits of a live instance, view inside the buffer.  It is what
\* lets cm_lease_read_byte and cm_lease_write_byte touch cm_data with no check
\* of their own, and it takes the guards of move, drop and destroy together.
LeasesBacked ==
    \A a \in Instances : \A l \in LiveLeases(a) :
        LET v == lease[a][l] IN
        /\ inst[a].id # 0
        /\ l < inst[a].leases
        /\ v.buffer < inst[a].buffers
        /\ v.owner # 0
        /\ buf[a][v.buffer].token = v.owner
        /\ v.offset + v.length <= buf[a][v.buffer].size

\* The borrow counts of a buffer are exactly its leases, and an exclusive
\* lease is alone: cm_borrow decides from the counts and never looks at the
\* leases themselves.
BorrowsExact ==
    \A a \in Instances, b \in Slots :
        /\ buf[a][b].readers = Cardinality(SharedOn(a, b))
        /\ buf[a][b].writers = Cardinality(ExclusiveOn(a, b))
        /\ buf[a][b].writers # 0 => buf[a][b].readers = 0

\* The byte and handle accounts cm_new and cm_destroy decide from are exact:
\* no sequence of creations, drops and destroys leaks quota or frees it twice,
\* and the quotas hold.
AccountsExact ==
    /\ \A a \in Instances :
           /\ inst[a].used = SumFunction([b \in Slots |-> buf[a][b].size])
           /\ inst[a].used <= inst[a].limit
           /\ inst[a].owners = Cardinality(LiveBuffers(a))
           /\ inst[a].borrows = Cardinality(LiveLeases(a))
    /\ total = SumFunction([a \in Instances |-> inst[a].used])
    /\ total <= MaxBytes

\* No token is in force in two places, so a handle never names another object
\* than the one it was issued for.
TokensUnique ==
    \A p, q \in Places : TokenAt(p) # 0 /\ TokenAt(p) = TokenAt(q) => p = q

\* A token that was issued and is no longer in force never comes back: a
\* stale handle stays refused for ever, whatever reuses its slot.
NoRevival == [][\A t \in Issued \ InForce : t \notin InForce']_vars

\* What a shared borrower sees does not change while any shared lease of the
\* buffer is in force, whoever calls what.
SharedViewFrozen ==
    [][\A a \in Instances, b \in Slots :
           SharedOn(a, b) # {} => buf'[a][b].data = buf[a][b].data]_vars

\* While an exclusive lease is in force the bytes of its buffer change only
\* inside its own view.
ExclusiveWritesInView ==
    [][\A a \in Instances : \A l \in LiveLeases(a) :
           LET v == lease[a][l] IN
           v.mutable =>
               /\ DOMAIN buf'[a][v.buffer].data = DOMAIN buf[a][v.buffer].data
               /\ \A x \in DOMAIN buf[a][v.buffer].data :
                      \/ buf'[a][v.buffer].data[x] = buf[a][v.buffer].data[x]
                      \/ x \in v.offset .. v.offset + v.length - 1]_vars

(* The tables implement the capabilities of Ownership. *)
LoanOf(v) == [lease |-> v.token, owner |-> v.owner, exclusive |-> v.mutable]
Capabilities == INSTANCE Ownership WITH
    Token <- Tokens,
    issued <- Issued,
    owners <- UNION {{buf[a][b].token : b \in LiveBuffers(a)} : a \in Instances},
    loans <- UNION {{LoanOf(lease[a][l]) : l \in LiveLeases(a)} : a \in Instances}

\* Every call does to the capabilities what Ownership allows: the refinement
\* the slot tables, counters and limits of the module are there to implement.
ImplementsOwnership == Capabilities!Spec

=============================================================================
