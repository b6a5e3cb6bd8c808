----------------------- MODULE ManagedMemoryProofs -----------------------
(* Proofs about ManagedMemory, for every number of instances, buffers,     *)
(* leases, bytes and tokens: first the leases, the tokens and the views,   *)
(* then that the accounts are exact and that the tables implement the      *)
(* capabilities of Ownership.                                              *)
EXTENDS ManagedMemory, SumFacts

-----------------------------------------------------------------------------
(* The inductive invariant.                                                *)

\* Every token in a table was issued before, and a lease names the token its
\* buffer's owner had at the time.
TokensIssued ==
    \A a \in Instances :
        /\ inst[a].id < next
        /\ \A b \in Slots : buf[a][b].token < next
        /\ \A l \in LeaseSlots : lease[a][l].token < next

\* The count cm_destroy asks is exact.
BorrowCount == \A a \in Instances : inst[a].borrows = Cardinality(LiveLeases(a))

IInv == TypeOK /\ TokensIssued /\ LeasesBacked /\ BorrowsExact /\ BorrowCount

-----------------------------------------------------------------------------
(* Lemmas about the tables.                                                *)

\* Writing one buffer keeps the buffer table typed and leaves the others.
LEMMA BufferUpdate ==
    ASSUME buf \in [Instances -> [Slots -> BufferRecord]],
           NEW a \in Instances, NEW b \in Slots, NEW r \in BufferRecord,
           buf' = [buf EXCEPT ![a][b] = r]
    PROVE  /\ buf' \in [Instances -> [Slots -> BufferRecord]]
           /\ \A c \in Instances, d \in Slots :
                  buf'[c][d] = IF c = a /\ d = b THEN r ELSE buf[c][d]
  OBVIOUS

\* Replacing the bytes of a buffer record gives a buffer record.
LEMMA DataUpdate ==
    ASSUME NEW r \in BufferRecord, NEW d \in [0 .. r.size - 1 -> Byte]
    PROVE  /\ [r EXCEPT !.data = d] \in BufferRecord
           /\ [r EXCEPT !.data = d].data = d
           /\ [r EXCEPT !.data = d].size = r.size
           /\ [r EXCEPT !.data = d].token = r.token
           /\ [r EXCEPT !.data = d].readers = r.readers
           /\ [r EXCEPT !.data = d].writers = r.writers
  BY MemoryAssumption DEF BufferRecord, Sizes

\* A move of bytes inside the ranges of both buffers gives bytes.
LEMMA MovedType ==
    ASSUME NEW m \in Nat, NEW n \in Nat,
           NEW dst \in [0 .. m - 1 -> Byte], NEW src \in [0 .. n - 1 -> Byte],
           NEW to \in Nat, NEW from \in Nat, NEW count \in Nat,
           from + count <= n
    PROVE  Moved(m, dst, to, src, from, count) \in [0 .. m - 1 -> Byte]
  BY DEF Moved

\* The leases of an instance, and those on a buffer, are finitely many.
LEMMA LeasesFinite ==
    ASSUME NEW a \in Instances, NEW b \in Slots
    PROVE  /\ IsFiniteSet(LiveLeases(a))
           /\ IsFiniteSet(SharedOn(a, b))
           /\ IsFiniteSet(ExclusiveOn(a, b))
  <1>1. IsFiniteSet(LeaseSlots)
    BY FS_Interval, MemoryAssumption DEF LeaseSlots
  <1>2. /\ LiveLeases(a) \in SUBSET LeaseSlots
        /\ SharedOn(a, b) \in SUBSET LeaseSlots
        /\ ExclusiveOn(a, b) \in SUBSET LeaseSlots
    BY DEF LiveLeases, SharedOn, ExclusiveOn
  <1> QED  BY <1>1, <1>2, FS_Subset

\* A lease slot taken is one lease more.
LEMMA OneMore ==
    ASSUME NEW S, NEW T, NEW x, IsFiniteSet(S), x \notin S, T = S \cup {x}
    PROVE  Cardinality(T) = Cardinality(S) + 1
  BY FS_AddElement

\* The leases on a buffer depend on the lease table only.
LEMMA SameLeases ==
    ASSUME UNCHANGED lease, NEW c \in Instances, NEW e \in Slots
    PROVE  /\ LiveLeases(c)' = LiveLeases(c)
           /\ SharedOn(c, e)' = SharedOn(c, e) /\ ExclusiveOn(c, e)' = ExclusiveOn(c, e)
  BY DEF LiveLeases, SharedOn, ExclusiveOn

\* An idle buffer has no lease on it.
LEMMA IdleMeansUnlent ==
    ASSUME BorrowsExact, NEW a \in Instances, NEW b \in Slots, Idle(a, b)
    PROVE  \A l \in LiveLeases(a) : lease[a][l].buffer # b
  <1>1. Cardinality(SharedOn(a, b)) = 0 /\ Cardinality(ExclusiveOn(a, b)) = 0
    BY DEF BorrowsExact, Idle
  <1>2. SharedOn(a, b) = {} /\ ExclusiveOn(a, b) = {}
    BY <1>1, LeasesFinite, FS_EmptySet
  <1> QED  BY <1>2 DEF SharedOn, ExclusiveOn

\* An exclusive lease has no other beside it.
LEMMA ExclusiveAlone ==
    ASSUME IInv, NEW a \in Instances, NEW b \in Slots, NEW h \in ExclusiveOn(a, b)
    PROVE  SharedOn(a, b) = {} /\ \A l \in ExclusiveOn(a, b) : l = h
  <1>1. IsFiniteSet(SharedOn(a, b)) /\ IsFiniteSet(ExclusiveOn(a, b))
    BY LeasesFinite
  <1>2. /\ buf[a][b].writers = Cardinality(ExclusiveOn(a, b))
        /\ buf[a][b].readers = Cardinality(SharedOn(a, b))
        /\ buf[a][b].writers # 0 => buf[a][b].readers = 0
        /\ buf[a][b].writers \in {0, 1}
    BY DEF IInv, BorrowsExact, TypeOK, BufferRecord
  <1>3. Cardinality(ExclusiveOn(a, b)) # 0
    BY <1>1, FS_EmptySet
  <1>4. SharedOn(a, b) = {}
    BY <1>1, <1>2, <1>3, FS_EmptySet
  <1>5. \A l \in ExclusiveOn(a, b) : l = h
    BY <1>1, <1>2, <1>3, FS_Singleton
  <1> QED  BY <1>4, <1>5

-----------------------------------------------------------------------------
(* Every step preserves the invariant.                                     *)

\* The initial tables are empty.
LEMMA InitIInv == Init => IInv
  <1> SUFFICES ASSUME Init PROVE IInv
    OBVIOUS
  <1> USE MemoryAssumption DEF Init, NoInstance, NoBuffer, NoLease
  <1>1. TypeOK
    <2>1. NoInstance \in InstanceRecord
      BY DEF InstanceRecord, Sizes
    <2>2. Blank(0) \in [0 .. 0 - 1 -> Byte] /\ 0 \in Sizes
      BY DEF Blank, Sizes
    <2>3. Blank(0) \in UNION {[0 .. n - 1 -> Byte] : n \in Sizes}
      BY <2>2
    <2> HIDE DEF Blank
    <2>4. NoBuffer \in BufferRecord
      BY <2>2, <2>3 DEF BufferRecord
    <2>5. NoLease \in LeaseRecord
      BY DEF LeaseRecord, Slots
    <2>6. \A a \in Instances, b \in Slots : buf[a][b] = NoBuffer
      OBVIOUS
    <2>7. \A a \in Instances, b \in Slots : buf[a][b].data \in [0 .. buf[a][b].size - 1 -> Byte]
      BY <2>2, <2>6
    <2> QED  BY <2>1, <2>4, <2>5, <2>7 DEF TypeOK
  <1>2. \A a \in Instances : LiveLeases(a) = {}
    BY DEF LiveLeases
  <1>3. TokensIssued
    BY DEF TokensIssued
  <1>4. LeasesBacked
    BY <1>2 DEF LeasesBacked
  <1>5. \A a \in Instances, b \in Slots : SharedOn(a, b) = {} /\ ExclusiveOn(a, b) = {}
    BY <1>2 DEF SharedOn, ExclusiveOn
  <1>6. BorrowsExact
    BY <1>5, FS_EmptySet DEF BorrowsExact
  <1>7. BorrowCount
    BY <1>2, FS_EmptySet DEF BorrowCount
  <1> QED  BY <1>1, <1>3, <1>4, <1>6, <1>7 DEF IInv

\* Writing bytes of the right size disturbs nothing.
LEMMA StoreStep ==
    ASSUME IInv, NEW a \in Instances, NEW b \in Slots,
           NEW d \in [0 .. buf[a][b].size - 1 -> Byte], Store(a, b, d)
    PROVE  IInv'
  <1> DEFINE r == [buf[a][b] EXCEPT !.data = d]
  <1>1. buf[a][b] \in BufferRecord /\ buf' = [buf EXCEPT ![a][b] = r]
    BY DEF IInv, TypeOK, Store
  <1>2. /\ r \in BufferRecord
        /\ r.data = d
        /\ r.size = buf[a][b].size /\ r.token = buf[a][b].token
        /\ r.readers = buf[a][b].readers /\ r.writers = buf[a][b].writers
    BY <1>1, DataUpdate
  <1> HIDE DEF r
  <1>3. /\ buf' \in [Instances -> [Slots -> BufferRecord]]
        /\ \A c \in Instances, e \in Slots :
               buf'[c][e] = IF c = a /\ e = b THEN r ELSE buf[c][e]
    BY <1>1, <1>2, BufferUpdate DEF IInv, TypeOK
  <1>a. \A c \in Instances, e \in Slots : buf[c][e].data \in [0 .. buf[c][e].size - 1 -> Byte]
    BY DEF IInv, TypeOK
  <1>4. \A c \in Instances, e \in Slots :
            /\ buf'[c][e].size = buf[c][e].size /\ buf'[c][e].token = buf[c][e].token
            /\ buf'[c][e].readers = buf[c][e].readers
            /\ buf'[c][e].writers = buf[c][e].writers
            /\ buf'[c][e].data \in [0 .. buf[c][e].size - 1 -> Byte]
    BY <1>2, <1>3, <1>a
  <1>5. UNCHANGED <<next, inst, lease, total>>
    BY DEF Store
  <1>6. TypeOK'
    BY <1>3, <1>4, <1>5 DEF IInv, TypeOK
  <1>7. TokensIssued'
    BY <1>4, <1>5 DEF IInv, TokensIssued
  <1>8. \A c \in Instances : LiveLeases(c)' = LiveLeases(c)
    BY <1>5 DEF LiveLeases
  <1>9. LeasesBacked'
    <2> SUFFICES ASSUME NEW c \in Instances, NEW l \in LiveLeases(c)
                 PROVE  /\ inst[c].id # 0
                        /\ l < inst[c].leases
                        /\ lease[c][l].buffer < inst[c].buffers
                        /\ lease[c][l].owner # 0
                        /\ buf'[c][lease[c][l].buffer].token = lease[c][l].owner
                        /\ lease[c][l].offset + lease[c][l].length
                               <= buf'[c][lease[c][l].buffer].size
      BY <1>5, <1>8 DEF LeasesBacked
    <2>1. lease[c][l].buffer \in Slots
      BY DEF IInv, TypeOK, LiveLeases, LeaseRecord
    <2> QED  BY <2>1, <1>4 DEF IInv, LeasesBacked
  <1>10. \A c \in Instances, e \in Slots :
             SharedOn(c, e)' = SharedOn(c, e) /\ ExclusiveOn(c, e)' = ExclusiveOn(c, e)
    BY <1>5, <1>8 DEF SharedOn, ExclusiveOn
  <1>11. BorrowsExact'
    BY <1>4, <1>10 DEF IInv, BorrowsExact
  <1>12. BorrowCount'
    BY <1>5, <1>8 DEF IInv, BorrowCount
  <1> QED  BY <1>6, <1>7, <1>9, <1>11, <1>12 DEF IInv

\* What an accepted owner handle names.
LEMMA OwnerFacts ==
    ASSUME TypeOK, NEW i \in Issued, NEW a \in Instances, InstanceIndex(i, a),
           NEW o \in Owners(i, a)
    PROVE  /\ o.slot \in Slots
           /\ o.token # 0
           /\ buf[a][o.slot].token = o.token
           /\ o.slot < inst[a].buffers
           /\ inst[a].id # 0
  <1>1. o.slot \in Slots /\ OwnerIndex(i, a, o) /\ inst[a].buffers \in Nat
    BY MemoryAssumption DEF Owners, OwnerHandle, TypeOK, InstanceRecord
  <1> QED  BY <1>1 DEF InstanceIndex, OwnerIndex

\* An accepted lease handle names a lease in force.
LEMMA LeaseFacts ==
    ASSUME NEW i \in Issued, NEW a \in Instances, NEW h \in Leases(i, a)
    PROVE  h.slot \in LiveLeases(a)
  BY DEF Leases, LeaseHandle, LeaseIndex, LiveLeases

\* A fresh token is above every token in the tables.
LEMMA IssueFacts ==
    ASSUME TypeOK, NEW t \in Tokens, cm_issue(t)
    PROVE  t = next /\ t \in 0 .. TokenEnd - 1 /\ t # 0 /\ next' \in 1 .. TokenEnd /\ next' = t + 1
  BY MemoryAssumption DEF TypeOK, cm_issue, Tokens

\* A new instance has no owner, no lease and no bytes.
LEMMA CreateStep ==
    ASSUME IInv, NEW limit \in Sizes, NEW buffers \in 1 .. MaxBuffers,
           NEW leases \in 0 .. MaxLeases, cm_create(limit, buffers, leases)
    PROVE  IInv'
  <1>1. PICK a \in Instances, t \in Tokens :
            /\ inst[a].id = 0
            /\ cm_issue(t)
            /\ inst' = [inst EXCEPT ![a] = [id |-> t, limit |-> limit, buffers |-> buffers,
                                            leases |-> leases, used |-> 0, owners |-> 0,
                                            borrows |-> 0]]
            /\ UNCHANGED <<buf, lease, total>>
    BY DEF cm_create, First
  <1> DEFINE r == [id |-> t, limit |-> limit, buffers |-> buffers,
                   leases |-> leases, used |-> 0, owners |-> 0, borrows |-> 0]
  <1>2. t = next /\ t \in 0 .. TokenEnd - 1 /\ t # 0 /\ next' \in 1 .. TokenEnd /\ next' = t + 1
    BY <1>1, IssueFacts DEF IInv
  <1>3. r \in InstanceRecord
    BY <1>2, MemoryAssumption DEF InstanceRecord
  <1>4. /\ inst' \in [Instances -> InstanceRecord]
        /\ inst'[a] = r
        /\ \A c \in Instances \ {a} : inst'[c] = inst[c]
    BY <1>1, <1>3 DEF IInv, TypeOK
  <1>5. TypeOK'
    BY <1>1, <1>2, <1>4 DEF IInv, TypeOK
  <1>6. TokensIssued'
    <2>1. \A c \in Instances : inst[c].id < next /\ inst[c].id \in Int
      BY DEF IInv, TypeOK, InstanceRecord, TokensIssued
    <2>2. \A c \in Instances, b \in Slots : buf[c][b].token < next /\ buf[c][b].token \in Int
      BY DEF IInv, TypeOK, BufferRecord, TokensIssued
    <2>3. \A c \in Instances, l \in LeaseSlots : lease[c][l].token < next /\ lease[c][l].token \in Int
      BY DEF IInv, TypeOK, LeaseRecord, TokensIssued
    <2>4. next \in Int /\ next' = next + 1
      BY <1>2 DEF IInv, TypeOK
    <2> QED  BY <1>1, <1>2, <1>4, <2>1, <2>2, <2>3, <2>4 DEF TokensIssued
  <1>7. LiveLeases(a) = {}
    BY <1>1 DEF IInv, LeasesBacked
  <1>8. \A c \in Instances : LiveLeases(c)' = LiveLeases(c)
    BY <1>1 DEF LiveLeases
  <1>9. LeasesBacked'
    BY <1>1, <1>4, <1>7, <1>8 DEF IInv, LeasesBacked
  <1>10. BorrowsExact'
    BY <1>1, SameLeases DEF IInv, BorrowsExact
  <1>11. BorrowCount'
    <2>1. Cardinality(LiveLeases(a)) = 0
      BY <1>7, FS_EmptySet
    <2> QED  BY <1>4, <1>8, <2>1 DEF IInv, BorrowCount
  <1> QED  BY <1>5, <1>6, <1>9, <1>10, <1>11 DEF IInv

\* What cm_destroy leaves of a table entry.
LEMMA ClosedRecord ==
    ASSUME NEW q \in InstanceRecord
    PROVE  LET r == [q EXCEPT !.id = 0, !.limit = 0, !.buffers = 0, !.leases = 0] IN
           r \in InstanceRecord /\ r.id = 0 /\ r.borrows = q.borrows
  <1>1. /\ 0 \in 0 .. TokenEnd - 1 /\ 0 \in Sizes /\ 0 \in 0 .. MaxBuffers
        /\ 0 \in 0 .. MaxLeases
    BY MemoryAssumption DEF Sizes
  <1> QED  BY <1>1 DEF InstanceRecord

\* Only an instance without owners and leases goes, so nothing it held was lent.
LEMMA DestroyStep ==
    ASSUME IInv, NEW a \in Instances, cm_destroy(a)
    PROVE  IInv'
  <1>1. /\ inst[a].borrows = 0
        /\ inst' = [inst EXCEPT ![a] = [@ EXCEPT !.id = 0, !.limit = 0, !.buffers = 0, !.leases = 0]]
        /\ UNCHANGED <<next, buf, lease, total>>
    BY DEF cm_destroy, IInv, TypeOK, InstanceRecord
  <1>2. inst[a] \in InstanceRecord
    BY DEF IInv, TypeOK
  <1> DEFINE r == [inst[a] EXCEPT !.id = 0, !.limit = 0, !.buffers = 0, !.leases = 0]
  <1>r. r \in InstanceRecord /\ r.id = 0 /\ r.borrows = 0
    BY <1>1, <1>2, ClosedRecord
  <1>3. /\ inst' \in [Instances -> InstanceRecord]
        /\ inst'[a].id = 0 /\ inst'[a].borrows = 0
        /\ \A c \in Instances \ {a} : inst'[c] = inst[c]
    <2> HIDE DEF r
    <2>1. inst' = [inst EXCEPT ![a] = r]
      BY <1>1 DEF r
    <2> QED  BY <2>1, <1>r DEF IInv, TypeOK
  <1>4. TypeOK'
    BY <1>1, <1>3 DEF IInv, TypeOK
  <1>5. TokensIssued'
    BY <1>1, <1>3 DEF IInv, TypeOK, TokensIssued
  <1>6. LiveLeases(a) = {}
    <2>1. Cardinality(LiveLeases(a)) = 0
      BY <1>1 DEF IInv, BorrowCount
    <2>2. IsFiniteSet(LiveLeases(a))
      <3>1. 0 \in Slots
        BY MemoryAssumption DEF Slots
      <3> QED  BY <3>1, LeasesFinite
    <2> QED  BY <2>1, <2>2, FS_EmptySet
  <1>7. \A c \in Instances : LiveLeases(c)' = LiveLeases(c)
    BY <1>1 DEF LiveLeases
  <1>8. LeasesBacked'
    BY <1>1, <1>3, <1>6, <1>7 DEF IInv, LeasesBacked
  <1>9. BorrowsExact'
    BY <1>1, SameLeases DEF IInv, BorrowsExact
  <1>10. BorrowCount'
    BY <1>1, <1>3, <1>7 DEF IInv, BorrowCount
  <1> QED  BY <1>4, <1>5, <1>8, <1>9, <1>10 DEF IInv

\* What the accounts of an instance may do while its tables stay.
SameTables(c) ==
    /\ inst'[c].id = inst[c].id /\ inst'[c].buffers = inst[c].buffers
    /\ inst'[c].leases = inst[c].leases /\ inst'[c].borrows = inst[c].borrows

\* Setting the byte and owner accounts keeps an entry typed.
LEMMA AccountsRecord ==
    ASSUME inst \in [Instances -> InstanceRecord], NEW a \in Instances,
           NEW m \in Int, NEW n \in Int,
           inst' = [inst EXCEPT ![a].used = m, ![a].owners = n]
    PROVE  inst' \in [Instances -> InstanceRecord] /\ \A c \in Instances : SameTables(c)
  <1>1. inst[a] \in InstanceRecord
    OBVIOUS
  <1> DEFINE r == [inst[a] EXCEPT !.used = m, !.owners = n]
  <1>2. /\ r \in InstanceRecord
        /\ r.id = inst[a].id /\ r.buffers = inst[a].buffers
        /\ r.leases = inst[a].leases /\ r.borrows = inst[a].borrows
    BY <1>1 DEF InstanceRecord
  <1>3. inst' = [inst EXCEPT ![a] = r]
    OBVIOUS
  <1> HIDE DEF r
  <1> QED  BY <1>2, <1>3 DEF SameTables

\* Giving a buffer nobody borrows another owner, size or content, or none.
LEMMA RebindStep ==
    ASSUME IInv, NEW a \in Instances, NEW b \in Slots,
           \A l \in LiveLeases(a) : lease[a][l].buffer # b,
           NEW r \in BufferRecord, r.data \in [0 .. r.size - 1 -> Byte],
           r.readers = 0, r.writers = 0, r.token < next',
           next' \in 1 .. TokenEnd, next <= next',
           buf' = [buf EXCEPT ![a][b] = r],
           inst' \in [Instances -> InstanceRecord], \A c \in Instances : SameTables(c),
           UNCHANGED lease, total' \in Int
    PROVE  IInv'
  <1>1. /\ buf' \in [Instances -> [Slots -> BufferRecord]]
        /\ \A c \in Instances, e \in Slots :
               buf'[c][e] = IF c = a /\ e = b THEN r ELSE buf[c][e]
    BY BufferUpdate DEF IInv, TypeOK
  <1>2. TypeOK'
    <2>1. \A c \in Instances, e \in Slots : buf'[c][e].data \in [0 .. buf'[c][e].size - 1 -> Byte]
      BY <1>1 DEF IInv, TypeOK
    <2> QED  BY <1>1, <2>1 DEF IInv, TypeOK
  <1>3. TokensIssued'
    <2>1. \A c \in Instances : inst'[c].id < next'
      <3> TAKE c \in Instances
      <3>1. inst'[c].id = inst[c].id
        BY DEF SameTables
      <3>2. inst[c].id \in Int /\ inst[c].id < next /\ next \in Int
        BY MemoryAssumption DEF IInv, TypeOK, InstanceRecord, TokensIssued
      <3> QED  BY <3>1, <3>2
    <2>2. \A c \in Instances, e \in Slots : buf'[c][e].token < next'
      BY <1>1, MemoryAssumption DEF IInv, TypeOK, BufferRecord, TokensIssued
    <2>3. \A c \in Instances, l \in LeaseSlots : lease'[c][l].token < next'
      BY MemoryAssumption DEF IInv, TypeOK, LeaseRecord, TokensIssued
    <2> QED  BY <2>1, <2>2, <2>3 DEF TokensIssued
  <1>4. \A c \in Instances, e \in Slots :
            /\ LiveLeases(c)' = LiveLeases(c)
            /\ SharedOn(c, e)' = SharedOn(c, e) /\ ExclusiveOn(c, e)' = ExclusiveOn(c, e)
    BY SameLeases
  <1>5. LeasesBacked'
    <2> SUFFICES ASSUME NEW c \in Instances, NEW l \in LiveLeases(c)
                 PROVE  /\ inst'[c].id # 0
                        /\ l < inst'[c].leases
                        /\ lease[c][l].buffer < inst'[c].buffers
                        /\ lease[c][l].owner # 0
                        /\ buf'[c][lease[c][l].buffer].token = lease[c][l].owner
                        /\ lease[c][l].offset + lease[c][l].length
                               <= buf'[c][lease[c][l].buffer].size
      BY <1>4, MemoryAssumption DEF LeasesBacked, LiveLeases
    <2>1. lease[c][l].buffer \in Slots
      BY DEF IInv, TypeOK, LiveLeases, LeaseRecord
    <2>2. buf'[c][lease[c][l].buffer] = buf[c][lease[c][l].buffer]
      BY <1>1, <2>1
    <2> QED  BY <2>1, <2>2 DEF IInv, LeasesBacked, SameTables
  <1>6. SharedOn(a, b) = {} /\ ExclusiveOn(a, b) = {}
    BY DEF SharedOn, ExclusiveOn
  <1>7. BorrowsExact'
    <2> SUFFICES ASSUME NEW c \in Instances, NEW e \in Slots
                 PROVE  /\ buf'[c][e].readers = Cardinality(SharedOn(c, e))
                        /\ buf'[c][e].writers = Cardinality(ExclusiveOn(c, e))
                        /\ buf'[c][e].writers # 0 => buf'[c][e].readers = 0
      BY <1>4 DEF BorrowsExact
    <2>1. CASE c = a /\ e = b
      BY <2>1, <1>1, <1>6, FS_EmptySet
    <2>2. CASE ~(c = a /\ e = b)
      BY <2>2, <1>1 DEF IInv, BorrowsExact
    <2> QED  BY <2>1, <2>2
  <1>8. BorrowCount'
    <2>1. 0 \in Slots
      BY MemoryAssumption DEF Slots
    <2> QED  BY <1>4, <2>1 DEF IInv, BorrowCount, SameTables
  <1> QED  BY <1>2, <1>3, <1>5, <1>7, <1>8 DEF IInv

\* A new buffer takes a free slot, which no lease names.
LEMMA NewStep ==
    ASSUME IInv, NEW a \in Instances, NEW length \in Sizes, cm_new(a, length)
    PROVE  IInv'
  <1>1. PICK b \in Slots, t \in Tokens :
            /\ buf[a][b].token = 0
            /\ cm_issue(t)
            /\ buf' = [buf EXCEPT ![a][b] = [token |-> t, size |-> length, data |-> Blank(length),
                                             readers |-> 0, writers |-> 0]]
            /\ inst' = [inst EXCEPT ![a].used = inst[a].used + length,
                                    ![a].owners = inst[a].owners + 1]
            /\ total' = total + length
            /\ UNCHANGED lease
    BY DEF cm_new, First, IInv, TypeOK, InstanceRecord
  <1>2. t = next /\ t \in 0 .. TokenEnd - 1 /\ t # 0 /\ next' \in 1 .. TokenEnd /\ next' = t + 1
    BY <1>1, IssueFacts DEF IInv
  <1> DEFINE r == [token |-> t, size |-> length, data |-> Blank(length),
                   readers |-> 0, writers |-> 0]
  <1>3. Blank(length) \in [0 .. length - 1 -> Byte]
    BY MemoryAssumption DEF Blank
  <1>4. Blank(length) \in UNION {[0 .. n - 1 -> Byte] : n \in Sizes}
    BY <1>3
  <1>5. r \in BufferRecord /\ r.data \in [0 .. r.size - 1 -> Byte]
    BY <1>2, <1>3, <1>4 DEF BufferRecord
  <1>6. \A l \in LiveLeases(a) : lease[a][l].buffer # b
    BY <1>1 DEF IInv, LeasesBacked
  <1>i. inst[a].used + length \in Int /\ inst[a].owners + 1 \in Int
    BY MemoryAssumption DEF IInv, TypeOK, InstanceRecord, Sizes
  <1>7. inst' \in [Instances -> InstanceRecord] /\ \A c \in Instances : SameTables(c)
    BY <1>1, <1>i, AccountsRecord DEF IInv, TypeOK
  <1>8. total' \in Int
    BY <1>1 DEF IInv, TypeOK, Sizes
  <1>9. r.readers = 0 /\ r.writers = 0 /\ r.token < next' /\ next' \in 1 .. TokenEnd /\ next <= next'
    BY <1>2
  <1> HIDE DEF r
  <1>10. buf' = [buf EXCEPT ![a][b] = r] /\ UNCHANGED lease
    BY <1>1 DEF r
  <1> QED  BY <1>5, <1>6, <1>7, <1>8, <1>9, <1>10, RebindStep

\* Moving changes the owner token of a buffer nobody borrows.
LEMMA MoveStep ==
    ASSUME IInv, NEW a \in Instances, NEW o, o.slot \in Slots, cm_move(a, o)
    PROVE  IInv'
  <1>1. PICK t \in Tokens :
            /\ Idle(a, o.slot)
            /\ cm_issue(t)
            /\ buf' = [buf EXCEPT ![a][o.slot] = [buf[a][o.slot] EXCEPT !.token = t]]
            /\ UNCHANGED <<inst, lease, total>>
    BY DEF cm_move
  <1>2. t = next /\ t \in 0 .. TokenEnd - 1 /\ t # 0 /\ next' \in 1 .. TokenEnd /\ next' = t + 1
    BY <1>1, IssueFacts DEF IInv
  <1>3. buf[a][o.slot] \in BufferRecord
    BY DEF IInv, TypeOK
  <1> DEFINE r == [buf[a][o.slot] EXCEPT !.token = t]
  <1>4. /\ r \in BufferRecord /\ r.token = t
        /\ r.data = buf[a][o.slot].data /\ r.size = buf[a][o.slot].size
        /\ r.readers = buf[a][o.slot].readers /\ r.writers = buf[a][o.slot].writers
    BY <1>2, <1>3 DEF BufferRecord
  <1> HIDE DEF r
  <1>5. r.data \in [0 .. r.size - 1 -> Byte] /\ r.readers = 0 /\ r.writers = 0
    BY <1>1, <1>4 DEF IInv, TypeOK, Idle
  <1>6. \A l \in LiveLeases(a) : lease[a][l].buffer # o.slot
    BY <1>1, IdleMeansUnlent DEF IInv
  <1>7. inst' \in [Instances -> InstanceRecord] /\ total' \in Int /\ \A c \in Instances : SameTables(c)
    BY <1>1 DEF IInv, TypeOK, SameTables
  <1>8. buf' = [buf EXCEPT ![a][o.slot] = r]
    BY <1>1 DEF r
  <1>9. r.token < next' /\ next' \in 1 .. TokenEnd /\ next <= next' /\ UNCHANGED lease
    BY <1>1, <1>2, <1>4
  <1> QED  BY <1>4, <1>5, <1>6, <1>7, <1>8, <1>9, RebindStep

\* What cm_drop leaves of a buffer.
LEMMA EmptiedRecord ==
    ASSUME NEW q \in BufferRecord, NEW d \in UNION {[0 .. n - 1 -> Byte] : n \in Sizes}
    PROVE  LET r == [q EXCEPT !.token = 0, !.size = 0, !.data = d] IN
           /\ r \in BufferRecord /\ r.token = 0 /\ r.data = d /\ r.size = 0
           /\ r.readers = q.readers /\ r.writers = q.writers
  <1>1. 0 \in Sizes /\ 0 \in 0 .. TokenEnd - 1
    BY MemoryAssumption DEF Sizes
  <1> QED  BY <1>1 DEF BufferRecord

\* Dropping empties a buffer nobody borrows.
LEMMA DropStep ==
    ASSUME IInv, NEW a \in Instances, NEW o, o.slot \in Slots, cm_drop(a, o)
    PROVE  IInv'
  <1>1. /\ Idle(a, o.slot)
        /\ buf' = [buf EXCEPT ![a][o.slot] =
                       [buf[a][o.slot] EXCEPT !.token = 0, !.size = 0, !.data = Blank(0)]]
        /\ inst' = [inst EXCEPT ![a].used = inst[a].used - buf[a][o.slot].size,
                                ![a].owners = inst[a].owners - 1]
        /\ total' = total - buf[a][o.slot].size
        /\ UNCHANGED <<next, lease>>
    BY DEF cm_drop, IInv, TypeOK, InstanceRecord
  <1>2. buf[a][o.slot] \in BufferRecord /\ buf[a][o.slot].size \in Nat
    BY MemoryAssumption DEF IInv, TypeOK, BufferRecord, Sizes
  <1>3. Blank(0) \in [0 .. 0 - 1 -> Byte] /\ 0 \in Sizes
    BY MemoryAssumption DEF Blank, Sizes
  <1>4. Blank(0) \in UNION {[0 .. n - 1 -> Byte] : n \in Sizes}
    BY <1>3
  <1> DEFINE r == [buf[a][o.slot] EXCEPT !.token = 0, !.size = 0, !.data = Blank(0)]
  <1>5. /\ r \in BufferRecord /\ r.token = 0 /\ r.data = Blank(0) /\ r.size = 0
        /\ r.readers = buf[a][o.slot].readers /\ r.writers = buf[a][o.slot].writers
    BY <1>2, <1>3, <1>4, EmptiedRecord
  <1> HIDE DEF r
  <1>6. r.data \in [0 .. r.size - 1 -> Byte] /\ r.readers = 0 /\ r.writers = 0
    BY <1>1, <1>3, <1>5 DEF Idle
  <1>7. \A l \in LiveLeases(a) : lease[a][l].buffer # o.slot
    BY <1>1, IdleMeansUnlent DEF IInv
  <1>i. inst[a].used - buf[a][o.slot].size \in Int /\ inst[a].owners - 1 \in Int
    BY <1>2 DEF IInv, TypeOK, InstanceRecord
  <1>8. inst' \in [Instances -> InstanceRecord] /\ \A c \in Instances : SameTables(c)
    BY <1>1, <1>i, AccountsRecord DEF IInv, TypeOK
  <1>9. total' \in Int /\ next' \in 1 .. TokenEnd /\ next <= next' /\ r.token < next'
    BY <1>1, <1>2, <1>5 DEF IInv, TypeOK
  <1>10. buf' = [buf EXCEPT ![a][o.slot] = r]
    BY <1>1 DEF r
  <1> QED  BY <1>1, <1>5, <1>6, <1>7, <1>8, <1>9, <1>10, RebindStep

\* Setting the lease count keeps an entry typed and its tables.
LEMMA BorrowRecord ==
    ASSUME inst \in [Instances -> InstanceRecord], NEW a \in Instances, NEW n \in Int,
           inst' = [inst EXCEPT ![a].borrows = n]
    PROVE  /\ inst' \in [Instances -> InstanceRecord]
           /\ inst'[a].borrows = n
           /\ \A c \in Instances : /\ inst'[c].id = inst[c].id
                                   /\ inst'[c].buffers = inst[c].buffers
                                   /\ inst'[c].leases = inst[c].leases
                                   /\ c # a => inst'[c].borrows = inst[c].borrows
  <1>1. inst[a] \in InstanceRecord
    OBVIOUS
  <1> DEFINE r == [inst[a] EXCEPT !.borrows = n]
  <1>2. /\ r \in InstanceRecord
        /\ r.id = inst[a].id /\ r.buffers = inst[a].buffers
        /\ r.leases = inst[a].leases /\ r.borrows = n
    BY <1>1 DEF InstanceRecord
  <1>3. inst' = [inst EXCEPT ![a] = r]
    OBVIOUS
  <1> HIDE DEF r
  <1> QED  BY <1>2, <1>3

\* Changing a borrow count of a buffer leaves its owner, size and bytes.
LEMMA ReadersUpdate ==
    ASSUME NEW q \in BufferRecord, NEW m \in Int
    PROVE  /\ [q EXCEPT !.readers = m] \in BufferRecord
           /\ [q EXCEPT !.readers = m].token = q.token
           /\ [q EXCEPT !.readers = m].size = q.size
           /\ [q EXCEPT !.readers = m].data = q.data
           /\ [q EXCEPT !.readers = m].writers = q.writers
           /\ [q EXCEPT !.readers = m].readers = m
  BY DEF BufferRecord

\* Changing the exclusive count of a buffer leaves the rest of it.
LEMMA WritersUpdate ==
    ASSUME NEW q \in BufferRecord, NEW m \in {0, 1}
    PROVE  /\ [q EXCEPT !.writers = m] \in BufferRecord
           /\ [q EXCEPT !.writers = m].token = q.token
           /\ [q EXCEPT !.writers = m].size = q.size
           /\ [q EXCEPT !.writers = m].data = q.data
           /\ [q EXCEPT !.writers = m].readers = q.readers
           /\ [q EXCEPT !.writers = m].writers = m
  BY DEF BufferRecord

\* The counts after lending and returning, field by field.
LEMMA LentRecord ==
    ASSUME NEW q \in BufferRecord, NEW w \in BOOLEAN
    PROVE  /\ Lent(q, w) \in BufferRecord
           /\ Lent(q, w).token = q.token /\ Lent(q, w).size = q.size /\ Lent(q, w).data = q.data
           /\ Lent(q, w).readers = (IF w THEN q.readers ELSE q.readers + 1)
           /\ Lent(q, w).writers = (IF w THEN 1 ELSE q.writers)
  <1>1. q.readers + 1 \in Int /\ 1 \in {0, 1}
    BY DEF BufferRecord
  <1>2. CASE w
    <2>1. Lent(q, w) = [q EXCEPT !.writers = 1]
      BY <1>2 DEF Lent
    <2> QED  BY <1>1, <1>2, <2>1, WritersUpdate
  <1>3. CASE ~w
    <2>1. Lent(q, w) = [q EXCEPT !.readers = q.readers + 1]
      BY <1>3 DEF Lent
    <2> QED  BY <1>1, <1>3, <2>1, ReadersUpdate
  <1> QED  BY <1>2, <1>3

\* The counts after a release, field by field.
LEMMA ReturnedRecord ==
    ASSUME NEW q \in BufferRecord, NEW w \in BOOLEAN
    PROVE  /\ Returned(q, w) \in BufferRecord
           /\ Returned(q, w).token = q.token /\ Returned(q, w).size = q.size
           /\ Returned(q, w).data = q.data
           /\ Returned(q, w).readers = (IF w THEN q.readers ELSE q.readers - 1)
           /\ Returned(q, w).writers = (IF w THEN 0 ELSE q.writers)
  <1>1. q.readers - 1 \in Int /\ 0 \in {0, 1}
    BY DEF BufferRecord
  <1>2. CASE w
    <2>1. Returned(q, w) = [q EXCEPT !.writers = 0]
      BY <1>2 DEF Returned
    <2> QED  BY <1>1, <1>2, <2>1, WritersUpdate
  <1>3. CASE ~w
    <2>1. Returned(q, w) = [q EXCEPT !.readers = q.readers - 1]
      BY <1>3 DEF Returned
    <2> QED  BY <1>1, <1>3, <2>1, ReadersUpdate
  <1> QED  BY <1>2, <1>3

\* What lending and returning have in common: one lease slot and the counts of
\* one buffer change, everything else about the buffers stays.
LEMMA LeaseStepFacts ==
    ASSUME IInv, NEW a \in Instances, NEW l \in LeaseSlots, NEW b \in Slots,
           NEW v \in LeaseRecord, v.token < next',
           next' \in 1 .. TokenEnd, next <= next',
           lease' = [lease EXCEPT ![a][l] = v],
           NEW r \in BufferRecord, buf' = [buf EXCEPT ![a][b] = r],
           r.token = buf[a][b].token, r.size = buf[a][b].size, r.data = buf[a][b].data,
           NEW n \in Int, inst' = [inst EXCEPT ![a].borrows = n], UNCHANGED total,
           v.token # 0 => /\ inst[a].id # 0
                          /\ l < inst[a].leases
                          /\ v.buffer < inst[a].buffers
                          /\ v.owner # 0
                          /\ buf[a][v.buffer].token = v.owner
                          /\ v.offset + v.length <= buf[a][v.buffer].size
    PROVE  TypeOK' /\ TokensIssued' /\ LeasesBacked'
  <1>1. /\ buf' \in [Instances -> [Slots -> BufferRecord]]
        /\ \A c \in Instances, e \in Slots :
               buf'[c][e] = IF c = a /\ e = b THEN r ELSE buf[c][e]
    BY BufferUpdate DEF IInv, TypeOK
  <1>2. \A c \in Instances, e \in Slots :
            /\ buf'[c][e].token = buf[c][e].token
            /\ buf'[c][e].size = buf[c][e].size
            /\ buf'[c][e].data = buf[c][e].data
    BY <1>1
  <1>3. /\ inst' \in [Instances -> InstanceRecord]
        /\ \A c \in Instances : /\ inst'[c].id = inst[c].id
                                /\ inst'[c].buffers = inst[c].buffers
                                /\ inst'[c].leases = inst[c].leases
    BY BorrowRecord DEF IInv, TypeOK
  <1>4. /\ lease' \in [Instances -> [LeaseSlots -> LeaseRecord]]
        /\ \A c \in Instances, k \in LeaseSlots :
               lease'[c][k] = IF c = a /\ k = l THEN v ELSE lease[c][k]
    BY DEF IInv, TypeOK
  <1>5. TypeOK'
    <2>1. \A c \in Instances, e \in Slots : buf'[c][e].data \in [0 .. buf'[c][e].size - 1 -> Byte]
      BY <1>2 DEF IInv, TypeOK
    <2> QED  BY <1>1, <1>3, <1>4, <2>1 DEF IInv, TypeOK
  <1>6. TokensIssued'
    <2>1. next \in Int /\ next' \in Int
      BY MemoryAssumption DEF IInv, TypeOK
    <2>2. \A c \in Instances : inst[c].id \in Int /\ inst[c].id < next
      BY MemoryAssumption DEF IInv, TypeOK, InstanceRecord, TokensIssued
    <2>3. \A c \in Instances, e \in Slots : buf[c][e].token \in Int /\ buf[c][e].token < next
      BY MemoryAssumption DEF IInv, TypeOK, BufferRecord, TokensIssued
    <2>4. \A c \in Instances, k \in LeaseSlots : lease[c][k].token \in Int /\ lease[c][k].token < next
      BY MemoryAssumption DEF IInv, TypeOK, LeaseRecord, TokensIssued
    <2> QED  BY <1>2, <1>3, <1>4, <2>1, <2>2, <2>3, <2>4 DEF TokensIssued
  <1>7. LeasesBacked'
    <2> SUFFICES ASSUME NEW c \in Instances, NEW k \in LeaseSlots, lease'[c][k].token # 0
                 PROVE  /\ inst'[c].id # 0
                        /\ k < inst'[c].leases
                        /\ lease'[c][k].buffer < inst'[c].buffers
                        /\ lease'[c][k].owner # 0
                        /\ buf'[c][lease'[c][k].buffer].token = lease'[c][k].owner
                        /\ lease'[c][k].offset + lease'[c][k].length
                               <= buf'[c][lease'[c][k].buffer].size
      BY DEF LeasesBacked, LiveLeases
    <2>1. lease'[c][k].buffer \in Slots
      BY <1>4 DEF LeaseRecord
    <2>2. CASE c = a /\ k = l
      BY <2>1, <2>2, <1>2, <1>3, <1>4
    <2>3. CASE ~(c = a /\ k = l)
      <3>1. lease'[c][k] = lease[c][k] /\ k \in LiveLeases(c)
        BY <2>3, <1>4 DEF LiveLeases
      <3>2. /\ inst[c].id # 0
            /\ k < inst[c].leases
            /\ lease[c][k].buffer < inst[c].buffers
            /\ lease[c][k].owner # 0
            /\ buf[c][lease[c][k].buffer].token = lease[c][k].owner
            /\ lease[c][k].offset + lease[c][k].length <= buf[c][lease[c][k].buffer].size
        BY <3>1 DEF IInv, LeasesBacked
      <3> DEFINE e == lease[c][k].buffer
      <3>3. e \in Slots /\ lease'[c][k].buffer = e
        BY <2>1, <3>1
      <3>4. buf'[c][e].token = buf[c][e].token /\ buf'[c][e].size = buf[c][e].size
        BY <3>3, <1>2
      <3>5. /\ inst'[c].id = inst[c].id
            /\ inst'[c].leases = inst[c].leases
            /\ inst'[c].buffers = inst[c].buffers
        BY <1>3
      <3> QED  BY <3>1, <3>2, <3>3, <3>4, <3>5
    <2> QED  BY <2>2, <2>3
  <1> QED  BY <1>5, <1>6, <1>7

\* A borrow adds one lease and one to the count that decided on it.
LEMMA BorrowStep ==
    ASSUME IInv, NEW i \in Issued, NEW a \in Instances, InstanceIndex(i, a),
           NEW o \in Owners(i, a), NEW offset \in Sizes, NEW length \in Sizes,
           NEW writable \in BOOLEAN, cm_borrow(a, o, offset, length, writable)
    PROVE  IInv'
  <1> DEFINE b == o.slot
             q == buf[a][b]
             r == Lent(q, writable)
             new(t) == [token |-> t, owner |-> o.token, buffer |-> b, offset |-> offset,
                        length |-> length, mutable |-> writable]
  <1>1. PICK l \in LeaseSlots, t \in Tokens :
            /\ Lendable(a, b, writable)
            /\ InRange(q.size, offset, length)
            /\ l \in 0 .. inst[a].leases - 1
            /\ lease[a][l].token = 0
            /\ cm_issue(t)
            /\ lease' = [lease EXCEPT ![a][l] = new(t)]
            /\ buf' = [buf EXCEPT ![a][b] = r]
            /\ inst' = [inst EXCEPT ![a].borrows = inst[a].borrows + 1]
            /\ UNCHANGED total
    BY DEF cm_borrow, First
  <1>2. t = next /\ t \in 0 .. TokenEnd - 1 /\ t # 0 /\ next' \in 1 .. TokenEnd /\ next' = t + 1
    BY <1>1, IssueFacts DEF IInv
  <1>3. /\ b \in Slots /\ o.token # 0 /\ q.token = o.token /\ b < inst[a].buffers
        /\ inst[a].id # 0
    BY OwnerFacts DEF IInv
  <1>4. /\ q \in BufferRecord /\ q.size \in Nat
        /\ inst[a].leases \in Nat /\ inst[a].borrows \in Int
    <2>1. q \in BufferRecord /\ inst[a].leases \in Nat /\ inst[a].borrows \in Int
      BY <1>3, MemoryAssumption DEF IInv, TypeOK, InstanceRecord
    <2>2. \A x \in BufferRecord : x.size \in Sizes
      BY DEF BufferRecord
    <2>3. Sizes \subseteq Nat
      BY MemoryAssumption DEF Sizes
    <2> QED  BY <2>1, <2>2, <2>3
  <1>5. /\ r \in BufferRecord
        /\ r.token = q.token /\ r.size = q.size /\ r.data = q.data
        /\ r.readers = IF writable THEN q.readers ELSE q.readers + 1
        /\ r.writers = IF writable THEN 1 ELSE q.writers
    BY <1>4, LentRecord
  <1>6. new(t) \in LeaseRecord
    <2>1. q.token \in 0 .. TokenEnd - 1
      BY <1>4 DEF BufferRecord
    <2>2. offset \in Nat /\ length \in Nat
      BY MemoryAssumption DEF Sizes
    <2> QED  BY <1>2, <1>3, <2>1, <2>2 DEF LeaseRecord
  <1>7. l < inst[a].leases /\ offset + length <= q.size
    <2>1. offset \in Nat /\ length \in Nat
      BY MemoryAssumption DEF Sizes
    <2> QED  BY <1>1, <1>4, <2>1 DEF InRange
  <1> DEFINE v == new(t)
  <1>8. /\ v.token = t /\ v.owner = o.token /\ v.buffer = b /\ v.offset = offset
        /\ v.length = length /\ v.mutable = writable
    OBVIOUS
  <1> HIDE DEF r, v, new
  <1>9. TypeOK' /\ TokensIssued' /\ LeasesBacked'
    <2>1. v \in LeaseRecord /\ lease' = [lease EXCEPT ![a][l] = v]
      BY <1>1, <1>6 DEF v
    <2>2. v.token < next' /\ next <= next' /\ inst[a].borrows + 1 \in Int
      BY <1>2, <1>4, <1>8
    <2>3. /\ l < inst[a].leases /\ v.buffer < inst[a].buffers /\ v.owner # 0
          /\ buf[a][v.buffer].token = v.owner
          /\ v.offset + v.length <= buf[a][v.buffer].size
      BY <1>3, <1>7, <1>8
    <2> QED  BY <1>1, <1>2, <1>3, <1>5, <2>1, <2>2, <2>3, LeaseStepFacts
  <1>10. \A c \in Instances, k \in LeaseSlots :
             lease'[c][k] = IF c = a /\ k = l THEN v ELSE lease[c][k]
    BY <1>1 DEF IInv, TypeOK, v
  <1>11. \A c \in Instances, e \in Slots : buf'[c][e] = IF c = a /\ e = b THEN r ELSE buf[c][e]
    BY <1>1, <1>3 DEF IInv, TypeOK
  <1>12. \A c \in Instances : LiveLeases(c)' =
             IF c = a THEN LiveLeases(c) \cup {l} ELSE LiveLeases(c)
    BY <1>2, <1>8, <1>10 DEF LiveLeases
  <1>13. l \notin LiveLeases(a)
    BY <1>1 DEF LiveLeases
  <1>14. BorrowsExact'
    <2> SUFFICES ASSUME NEW c \in Instances, NEW e \in Slots
                 PROVE  /\ buf'[c][e].readers = Cardinality(SharedOn(c, e)')
                        /\ buf'[c][e].writers = Cardinality(ExclusiveOn(c, e)')
                        /\ buf'[c][e].writers # 0 => buf'[c][e].readers = 0
      BY DEF BorrowsExact
    <2>1. /\ buf[c][e].readers = Cardinality(SharedOn(c, e))
          /\ buf[c][e].writers = Cardinality(ExclusiveOn(c, e))
          /\ buf[c][e].writers # 0 => buf[c][e].readers = 0
          /\ IsFiniteSet(SharedOn(c, e)) /\ IsFiniteSet(ExclusiveOn(c, e))
      BY LeasesFinite DEF IInv, BorrowsExact
    <2>2. CASE ~(c = a /\ e = b)
      <3>1. SharedOn(c, e)' = SharedOn(c, e) /\ ExclusiveOn(c, e)' = ExclusiveOn(c, e)
        BY <2>2, <1>8, <1>10, <1>12, <1>13 DEF SharedOn, ExclusiveOn, LiveLeases
      <3> QED  BY <2>1, <2>2, <3>1, <1>11
    <2>3. CASE c = a /\ e = b /\ writable
      <3>1. SharedOn(c, e)' = SharedOn(c, e) /\ ExclusiveOn(c, e)' = ExclusiveOn(c, e) \cup {l}
        <4>1. v.mutable
          BY <2>3, <1>8
        <4> QED  BY <2>3, <4>1, <1>8, <1>10, <1>12, <1>13 DEF SharedOn, ExclusiveOn, LiveLeases
      <3>2. l \notin ExclusiveOn(c, e)
        BY <2>3, <1>13 DEF ExclusiveOn
      <3>3. q.writers = 0 /\ q.readers = 0
        BY <2>3, <1>1 DEF Lendable
      <3>4. Cardinality(ExclusiveOn(c, e)') = 0 + 1
        <4>1. Cardinality(ExclusiveOn(c, e)) = 0
          BY <2>1, <2>3, <3>3
        <4> QED  BY <2>1, <4>1, <3>1, <3>2, OneMore
      <3> QED  BY <2>1, <2>3, <3>1, <3>3, <3>4, <1>5, <1>11
    <2>4. CASE c = a /\ e = b /\ ~writable
      <3>1. SharedOn(c, e)' = SharedOn(c, e) \cup {l} /\ ExclusiveOn(c, e)' = ExclusiveOn(c, e)
        BY <2>4, <1>8, <1>10, <1>12, <1>13 DEF SharedOn, ExclusiveOn, LiveLeases
      <3>2. l \notin SharedOn(c, e)
        BY <2>4, <1>13 DEF SharedOn
      <3>3. q.writers = 0
        BY <2>4, <1>1 DEF Lendable
      <3>4. Cardinality(SharedOn(c, e)') = Cardinality(SharedOn(c, e)) + 1
        BY <2>1, <3>1, <3>2, OneMore
      <3> QED  BY <2>1, <2>4, <3>1, <3>3, <3>4, <1>5, <1>11
    <2> QED  BY <2>2, <2>3, <2>4
  <1>15. BorrowCount'
    <2> SUFFICES ASSUME NEW c \in Instances
                 PROVE  inst'[c].borrows = Cardinality(LiveLeases(c)')
      BY DEF BorrowCount
    <2>1. inst'[a].borrows = inst[a].borrows + 1 /\ (c # a => inst'[c].borrows = inst[c].borrows)
      BY <1>1, <1>4, BorrowRecord DEF IInv, TypeOK
    <2>2. Cardinality(LiveLeases(a) \cup {l}) = Cardinality(LiveLeases(a)) + 1
      BY <1>3, <1>13, LeasesFinite, OneMore
    <2> QED  BY <1>12, <2>1, <2>2 DEF IInv, BorrowCount
  <1> QED  BY <1>9, <1>14, <1>15 DEF IInv

\* A release takes one lease and one from its count.
LEMMA ReleaseStep ==
    ASSUME IInv, NEW a \in Instances, NEW h, h.slot \in LiveLeases(a), cm_release(a, h)
    PROVE  IInv'
  <1> DEFINE l == h.slot
             w == lease[a][l]
             b == w.buffer
             q == buf[a][b]
             r == Returned(q, w.mutable)
  <1>1. /\ buf' = [buf EXCEPT ![a][b] = r]
        /\ lease' = [lease EXCEPT ![a][l] = NoLease]
        /\ inst' = [inst EXCEPT ![a].borrows = inst[a].borrows - 1]
        /\ UNCHANGED <<next, total>>
    BY DEF cm_release
  <1>2. l \in LiveLeases(a) /\ l \in LeaseSlots /\ w \in LeaseRecord /\ b \in Slots /\ w.mutable \in BOOLEAN
    BY DEF LiveLeases, IInv, TypeOK, LeaseRecord
  <1>3. q \in BufferRecord /\ inst[a].borrows \in Int
    BY <1>2 DEF IInv, TypeOK, InstanceRecord
  <1>4. /\ r \in BufferRecord
        /\ r.token = q.token /\ r.size = q.size /\ r.data = q.data
        /\ r.readers = IF w.mutable THEN q.readers ELSE q.readers - 1
        /\ r.writers = IF w.mutable THEN 0 ELSE q.writers
    BY <1>2, <1>3, ReturnedRecord
  <1>5. NoLease \in LeaseRecord /\ NoLease.token = 0
    BY MemoryAssumption DEF NoLease, LeaseRecord, Slots
  <1> HIDE DEF r
  <1>6. TypeOK' /\ TokensIssued' /\ LeasesBacked'
    <2>1. NoLease.token < next' /\ next' \in 1 .. TokenEnd /\ next <= next'
          /\ inst[a].borrows - 1 \in Int
      BY <1>1, <1>3, <1>5, MemoryAssumption DEF IInv, TypeOK
    <2> QED  BY <1>1, <1>2, <1>4, <1>5, <2>1, LeaseStepFacts
  <1>7. \A c \in Instances, k \in LeaseSlots :
            lease'[c][k] = IF c = a /\ k = l THEN NoLease ELSE lease[c][k]
    BY <1>1, <1>2 DEF IInv, TypeOK
  <1>8. \A c \in Instances, e \in Slots : buf'[c][e] = IF c = a /\ e = b THEN r ELSE buf[c][e]
    BY <1>1, <1>2 DEF IInv, TypeOK
  <1>9. \A c \in Instances : LiveLeases(c)' = IF c = a THEN LiveLeases(c) \ {l} ELSE LiveLeases(c)
    BY <1>5, <1>7 DEF LiveLeases
  <1>10. BorrowsExact'
    <2> SUFFICES ASSUME NEW c \in Instances, NEW e \in Slots
                 PROVE  /\ buf'[c][e].readers = Cardinality(SharedOn(c, e)')
                        /\ buf'[c][e].writers = Cardinality(ExclusiveOn(c, e)')
                        /\ buf'[c][e].writers # 0 => buf'[c][e].readers = 0
      BY DEF BorrowsExact
    <2>1. /\ buf[c][e].readers = Cardinality(SharedOn(c, e))
          /\ buf[c][e].writers = Cardinality(ExclusiveOn(c, e))
          /\ buf[c][e].writers # 0 => buf[c][e].readers = 0
          /\ IsFiniteSet(SharedOn(c, e)) /\ IsFiniteSet(ExclusiveOn(c, e))
          /\ buf[c][e] \in BufferRecord
      BY LeasesFinite DEF IInv, BorrowsExact, TypeOK
    <2>2. CASE ~(c = a /\ e = b)
      <3>1. SharedOn(c, e)' = SharedOn(c, e) /\ ExclusiveOn(c, e)' = ExclusiveOn(c, e)
        BY <2>2, <1>5, <1>7 DEF SharedOn, ExclusiveOn, LiveLeases
      <3> QED  BY <2>1, <2>2, <3>1, <1>8
    <2>3. CASE c = a /\ e = b /\ w.mutable
      <3>1. SharedOn(c, e)' = SharedOn(c, e) /\ ExclusiveOn(c, e)' = ExclusiveOn(c, e) \ {l}
        BY <2>3, <1>5, <1>7 DEF SharedOn, ExclusiveOn, LiveLeases
      <3>2. l \in ExclusiveOn(c, e)
        BY <2>3 DEF ExclusiveOn
      <3>3. Cardinality(ExclusiveOn(c, e)') = Cardinality(ExclusiveOn(c, e)) - 1
        BY <2>1, <3>1, <3>2, FS_RemoveElement
      <3>4. Cardinality(ExclusiveOn(c, e)) # 0
        BY <2>1, <3>2, FS_EmptySet
      <3>5. buf[c][e].writers = 1 /\ buf[c][e].readers = Cardinality(SharedOn(c, e)')
        BY <2>1, <3>1, <3>4 DEF BufferRecord
      <3>6. buf'[c][e].readers = buf[c][e].readers /\ buf'[c][e].writers = 0
        BY <2>3, <1>2, <1>4, <1>8
      <3> QED  BY <2>1, <3>3, <3>5, <3>6
    <2>4. CASE c = a /\ e = b /\ ~w.mutable
      <3>1. SharedOn(c, e)' = SharedOn(c, e) \ {l} /\ ExclusiveOn(c, e)' = ExclusiveOn(c, e)
        BY <2>4, <1>5, <1>7 DEF SharedOn, ExclusiveOn, LiveLeases
      <3>2. l \in SharedOn(c, e)
        BY <2>4 DEF SharedOn
      <3>3. Cardinality(SharedOn(c, e)') = Cardinality(SharedOn(c, e)) - 1
        BY <2>1, <3>1, <3>2, FS_RemoveElement
      <3>4. Cardinality(SharedOn(c, e)) # 0
        BY <2>1, <3>2, FS_EmptySet
      <3> QED  BY <2>1, <2>4, <3>1, <3>3, <3>4, <1>4, <1>8
    <2> QED  BY <1>2, <2>2, <2>3, <2>4
  <1>11. BorrowCount'
    <2> SUFFICES ASSUME NEW c \in Instances
                 PROVE  inst'[c].borrows = Cardinality(LiveLeases(c)')
      BY DEF BorrowCount
    <2>1. inst'[a].borrows = inst[a].borrows - 1 /\ (c # a => inst'[c].borrows = inst[c].borrows)
      BY <1>1, <1>3, BorrowRecord DEF IInv, TypeOK
    <2>2. Cardinality(LiveLeases(a) \ {l}) = Cardinality(LiveLeases(a)) - 1
      <3>1. IsFiniteSet(LiveLeases(a))
        BY <1>2, LeasesFinite
      <3> QED  BY <1>2, <3>1, FS_RemoveElement
    <2> QED  BY <1>9, <2>1, <2>2 DEF IInv, BorrowCount
  <1> QED  BY <1>6, <1>10, <1>11 DEF IInv

\* Bytes of a buffer, and of the view of a lease, are where the table says.
LEMMA BufferBytes ==
    ASSUME IInv, NEW a \in Instances, NEW b \in Slots
    PROVE  buf[a][b].size \in Nat /\ buf[a][b].data \in [0 .. buf[a][b].size - 1 -> Byte]
  <1>1. buf[a][b] \in BufferRecord /\ buf[a][b].data \in [0 .. buf[a][b].size - 1 -> Byte]
    BY DEF IInv, TypeOK
  <1> QED  BY <1>1, MemoryAssumption DEF BufferRecord, Sizes

\* Every call on an owner preserves the invariant.
LEMMA OwnerCallsStep ==
    ASSUME IInv, NEW i \in Issued, NEW a \in Instances, InstanceIndex(i, a), OwnerCalls(i, a)
    PROVE  IInv'
  <1>1. PICK o \in Owners(i, a) :
            \/ cm_move(a, o)
            \/ cm_drop(a, o)
            \/ \E x \in Sizes, byte \in Byte : cm_write_byte(a, o, x, byte)
            \/ \E src \in Owners(i, a), to, from, n \in Sizes :
                   cm_copy_range(a, o, to, src, from, n)
            \/ \E to, n \in Sizes : \E bytes \in [0 .. n - 1 -> Byte] :
                   cm_unsafe_import(a, o, to, bytes, n)
            \/ \E x, n \in Sizes, writable \in BOOLEAN : cm_borrow(a, o, x, n, writable)
    BY DEF OwnerCalls
  <1>2. \A p \in Owners(i, a) : p.slot \in Slots
    BY OwnerFacts DEF IInv
  <1>3. \A p \in Owners(i, a) : /\ buf[a][p.slot].size \in Nat
                                /\ buf[a][p.slot].data \in [0 .. buf[a][p.slot].size - 1 -> Byte]
    BY <1>2, BufferBytes
  <1>4. CASE cm_move(a, o)
    BY <1>2, <1>4, MoveStep
  <1>5. CASE cm_drop(a, o)
    BY <1>2, <1>5, DropStep
  <1>6. ASSUME NEW x \in Sizes, NEW byte \in Byte, cm_write_byte(a, o, x, byte)
        PROVE  IInv'
    <2>1. [buf[a][o.slot].data EXCEPT ![x] = byte] \in [0 .. buf[a][o.slot].size - 1 -> Byte]
      BY <1>3
    <2>2. Store(a, o.slot, [buf[a][o.slot].data EXCEPT ![x] = byte])
      BY <1>6 DEF cm_write_byte
    <2> QED  BY <2>1, <2>2, <1>2, StoreStep
  <1>7. ASSUME NEW src \in Owners(i, a), NEW to \in Sizes, NEW from \in Sizes, NEW n \in Sizes,
               cm_copy_range(a, o, to, src, from, n)
        PROVE  IInv'
    <2> DEFINE d == Moved(buf[a][o.slot].size, buf[a][o.slot].data, to,
                          buf[a][src.slot].data, from, n)
    <2>1. to \in Nat /\ from \in Nat /\ n \in Nat
      BY MemoryAssumption DEF Sizes
    <2>2. from + n <= buf[a][src.slot].size
      BY <1>3, <1>7, <2>1 DEF cm_copy_range, InRange
    <2>3. d \in [0 .. buf[a][o.slot].size - 1 -> Byte]
      BY <1>3, <2>1, <2>2, MovedType
    <2>4. Store(a, o.slot, d)
      BY <1>7 DEF cm_copy_range
    <2> HIDE DEF d
    <2> QED  BY <2>3, <2>4, <1>2, StoreStep
  <1>8. ASSUME NEW to \in Sizes, NEW n \in Sizes, NEW bytes \in [0 .. n - 1 -> Byte],
               cm_unsafe_import(a, o, to, bytes, n)
        PROVE  IInv'
    <2> DEFINE d == Moved(buf[a][o.slot].size, buf[a][o.slot].data, to, bytes, 0, n)
    <2>1. to \in Nat /\ n \in Nat /\ 0 + n <= n
      BY MemoryAssumption DEF Sizes
    <2>2. d \in [0 .. buf[a][o.slot].size - 1 -> Byte]
      BY <1>3, <2>1, MovedType
    <2>3. Store(a, o.slot, d)
      BY <1>8 DEF cm_unsafe_import
    <2> HIDE DEF d
    <2> QED  BY <2>2, <2>3, <1>2, StoreStep
  <1>9. ASSUME NEW x \in Sizes, NEW n \in Sizes, NEW writable \in BOOLEAN,
               cm_borrow(a, o, x, n, writable)
        PROVE  IInv'
    BY <1>9, BorrowStep
  <1> QED  BY <1>1, <1>4, <1>5, <1>6, <1>7, <1>8, <1>9

\* Every call on a lease preserves the invariant.
LEMMA LeaseCallsStep ==
    ASSUME IInv, NEW i \in Issued, NEW a \in Instances, LeaseCalls(i, a)
    PROVE  IInv'
  <1>1. PICK h \in Leases(i, a) :
            \/ cm_release(a, h)
            \/ \E x \in Sizes, byte \in Byte : cm_lease_write_byte(a, h, x, byte)
            \/ \E src \in Leases(i, a), to, from, n \in Sizes :
                   cm_lease_copy_range(a, h, to, src, from, n)
    BY DEF LeaseCalls
  <1> DEFINE v(p) == lease[a][p.slot]
  <1>2. \A p \in Leases(i, a) :
            /\ p.slot \in LiveLeases(a)
            /\ v(p).buffer \in Slots /\ v(p).offset \in Nat /\ v(p).length \in Nat
            /\ buf[a][v(p).buffer].size \in Nat
            /\ buf[a][v(p).buffer].data \in [0 .. buf[a][v(p).buffer].size - 1 -> Byte]
            /\ v(p).offset + v(p).length <= buf[a][v(p).buffer].size
    <2> TAKE p \in Leases(i, a)
    <2>1. p.slot \in LiveLeases(a)
      BY LeaseFacts
    <2>2. v(p) \in LeaseRecord
      BY <2>1 DEF IInv, TypeOK, LiveLeases
    <2>3. v(p).buffer \in Slots /\ v(p).offset \in Nat /\ v(p).length \in Nat
      BY <2>2 DEF LeaseRecord
    <2>4. v(p).offset + v(p).length <= buf[a][v(p).buffer].size
      BY <2>1 DEF IInv, LeasesBacked
    <2> QED  BY <2>1, <2>3, <2>4, BufferBytes
  <1>3. CASE cm_release(a, h)
    BY <1>2, <1>3, ReleaseStep
  <1>4. ASSUME NEW x \in Sizes, NEW byte \in Byte, cm_lease_write_byte(a, h, x, byte)
        PROVE  IInv'
    <2> DEFINE d == [buf[a][v(h).buffer].data EXCEPT ![v(h).offset + x] = byte]
    <2>1. d \in [0 .. buf[a][v(h).buffer].size - 1 -> Byte]
      BY <1>2
    <2>2. Store(a, v(h).buffer, d)
      BY <1>4 DEF cm_lease_write_byte
    <2> HIDE DEF d
    <2> QED  BY <2>1, <2>2, <1>2, StoreStep
  <1>5. ASSUME NEW src \in Leases(i, a), NEW to \in Sizes, NEW from \in Sizes, NEW n \in Sizes,
               cm_lease_copy_range(a, h, to, src, from, n)
        PROVE  IInv'
    <2> DEFINE d == Moved(buf[a][v(h).buffer].size, buf[a][v(h).buffer].data, v(h).offset + to,
                          buf[a][v(src).buffer].data, v(src).offset + from, n)
    <2>1. to \in Nat /\ from \in Nat /\ n \in Nat
      BY MemoryAssumption DEF Sizes
    <2>2. from <= v(src).length /\ n <= v(src).length - from
      BY <1>5 DEF cm_lease_copy_range, InRange
    <2>3. /\ v(src).offset + from + n <= buf[a][v(src).buffer].size
          /\ v(src).offset + from \in Nat /\ v(h).offset + to \in Nat
      <3>1. /\ v(src).offset \in Nat /\ v(src).length \in Nat /\ v(h).offset \in Nat
            /\ v(src).offset + v(src).length <= buf[a][v(src).buffer].size
            /\ buf[a][v(src).buffer].size \in Nat
        BY <1>2
      <3> HIDE DEF v
      <3> QED  BY <3>1, <2>1, <2>2
    <2>4. d \in [0 .. buf[a][v(h).buffer].size - 1 -> Byte]
      BY <1>2, <2>1, <2>3, MovedType
    <2>5. Store(a, v(h).buffer, d)
      BY <1>5 DEF cm_lease_copy_range
    <2> HIDE DEF d
    <2> QED  BY <2>4, <2>5, <1>2, StoreStep
  <1> QED  BY <1>1, <1>3, <1>4, <1>5

-----------------------------------------------------------------------------
(* The theorems.                                                           *)

\* The invariant is inductive.
LEMMA StepIInv == IInv /\ [Next]_vars => IInv'
  <1> SUFFICES ASSUME IInv, [Next]_vars PROVE IInv'
    OBVIOUS
  <1>1. CASE UNCHANGED vars
    <2>a. UNCHANGED <<next, inst, buf, lease, total>>
      BY <1>1 DEF vars
    <2>1. TypeOK'
      BY <2>a DEF IInv, TypeOK
    <2>2. TokensIssued' /\ LeasesBacked'
      BY <2>a DEF IInv, TokensIssued, LeasesBacked, LiveLeases
    <2>3. BorrowsExact'
      BY <2>a, SameLeases DEF IInv, BorrowsExact
    <2>4. \A c \in Instances : LiveLeases(c)' = LiveLeases(c)
      BY <2>a DEF LiveLeases
    <2>5. BorrowCount'
      BY <2>a, <2>4 DEF IInv, BorrowCount
    <2> QED  BY <2>1, <2>2, <2>3, <2>5 DEF IInv
  <1>2. CASE \E limit \in Sizes, buffers \in 1 .. MaxBuffers, leases \in 0 .. MaxLeases :
                 cm_create(limit, buffers, leases)
    BY <1>2, CreateStep
  <1>3. CASE \E i \in Issued, a \in Instances :
                 /\ InstanceIndex(i, a)
                 /\ \/ cm_destroy(a)
                    \/ \E length \in Sizes : cm_new(a, length)
                    \/ OwnerCalls(i, a)
                    \/ LeaseCalls(i, a)
    <2>1. PICK i \in Issued, a \in Instances :
              /\ InstanceIndex(i, a)
              /\ \/ cm_destroy(a)
                 \/ \E length \in Sizes : cm_new(a, length)
                 \/ OwnerCalls(i, a)
                 \/ LeaseCalls(i, a)
      BY <1>3
    <2>2. CASE cm_destroy(a)
      BY <2>2, DestroyStep
    <2>3. CASE \E length \in Sizes : cm_new(a, length)
      BY <2>3, NewStep
    <2>4. CASE OwnerCalls(i, a)
      BY <2>1, <2>4, OwnerCallsStep
    <2>5. CASE LeaseCalls(i, a)
      BY <2>5, LeaseCallsStep
    <2> QED  BY <2>1, <2>2, <2>3, <2>4, <2>5
  <1> QED  BY <1>1, <1>2, <1>3 DEF Next

\* So it holds in every state of every behaviour.
LEMMA AlwaysIInv == Spec => []IInv
  BY InitIInv, StepIInv, PTL DEF Spec

\* Every table entry keeps a value of its kind, for all limits.
THEOREM TypeCorrect == Spec => []TypeOK
  <1>1. IInv => TypeOK
    BY DEF IInv
  <1> QED  BY <1>1, AlwaysIInv, PTL

\* A lease in force always has its buffer, owner and instance under it.
THEOREM LeasesAlwaysBacked == Spec => []LeasesBacked
  <1>1. IInv => LeasesBacked
    BY DEF IInv
  <1> QED  BY <1>1, AlwaysIInv, PTL

\* The borrow counts cm_borrow, cm_drop and the rest decide from are exact.
THEOREM BorrowsAlwaysExact == Spec => []BorrowsExact
  <1>1. IInv => BorrowsExact
    BY DEF IInv
  <1> QED  BY <1>1, AlwaysIInv, PTL

-----------------------------------------------------------------------------
(* What a step may do to the tokens.  That a token is in force in one      *)
(* place at most, and never comes back, follows from one fact: a step      *)
(* changes the token of at most one place, to nothing or to the next one.  *)

\* At most one place of the tables changes its token in a step.
TokenChange ==
    \E p \in Places :
        /\ \A q \in Places \ {p} : TokenAt(q)' = TokenAt(q)
        /\ \/ TokenAt(p)' \in {0, TokenAt(p)} /\ next' = next
           \/ TokenAt(p)' = next /\ next' = next + 1

\* A token of a place may be kept, go out of force, or be a new one.
Replaced(new, old) ==
    \/ new \in {0, old} /\ next' = next
    \/ new = next /\ next' = next + 1

-----------------------------------------------------------------------------
(* Places.                                                                 *)

\* A place is an instance, a buffer slot or a lease slot.
LEMMA PlaceForms ==
    ASSUME NEW p \in Places
    PROVE  \E a \in Instances :
               \/ p = <<a, "instance", 0>>
               \/ \E b \in Slots : p = <<a, "buffer", b>>
               \/ \E l \in LeaseSlots : p = <<a, "lease", l>>
  BY DEF Places

\* What the tables hold at each of them, now and after a step.
LEMMA PlaceTokens ==
    ASSUME NEW a \in Instances
    PROVE  /\ <<a, "instance", 0>> \in Places
           /\ TokenAt(<<a, "instance", 0>>) = inst[a].id
           /\ TokenAt(<<a, "instance", 0>>)' = inst'[a].id
           /\ \A b \in Slots :
                  /\ <<a, "buffer", b>> \in Places
                  /\ TokenAt(<<a, "buffer", b>>) = buf[a][b].token
                  /\ TokenAt(<<a, "buffer", b>>)' = buf'[a][b].token
           /\ \A l \in LeaseSlots :
                  /\ <<a, "lease", l>> \in Places
                  /\ TokenAt(<<a, "lease", l>>) = lease[a][l].token
                  /\ TokenAt(<<a, "lease", l>>)' = lease'[a][l].token
  BY DEF Places, TokenAt

\* Every token in the tables is a number below the counter.
LEMMA PlacesIssued ==
    ASSUME IInv, NEW p \in Places
    PROVE  TokenAt(p) \in Nat /\ TokenAt(p) < next
  <1>1. PICK a \in Instances :
            \/ p = <<a, "instance", 0>>
            \/ \E b \in Slots : p = <<a, "buffer", b>>
            \/ \E l \in LeaseSlots : p = <<a, "lease", l>>
    BY PlaceForms
  <1>2. CASE p = <<a, "instance", 0>>
    <2>1. inst[a].id \in Nat /\ inst[a].id < next
      BY MemoryAssumption DEF IInv, TypeOK, TokensIssued, InstanceRecord
    <2> QED  BY <1>2, <2>1, PlaceTokens
  <1>3. ASSUME NEW b \in Slots, p = <<a, "buffer", b>>
        PROVE  TokenAt(p) \in Nat /\ TokenAt(p) < next
    <2>1. buf[a][b].token \in Nat /\ buf[a][b].token < next
      BY MemoryAssumption DEF IInv, TypeOK, TokensIssued, BufferRecord
    <2> QED  BY <1>3, <2>1, PlaceTokens
  <1>4. ASSUME NEW l \in LeaseSlots, p = <<a, "lease", l>>
        PROVE  TokenAt(p) \in Nat /\ TokenAt(p) < next
    <2>1. lease[a][l].token \in Nat /\ lease[a][l].token < next
      BY MemoryAssumption DEF IInv, TypeOK, TokensIssued, LeaseRecord
    <2> QED  BY <1>4, <2>1, PlaceTokens
  <1> QED  BY <1>1, <1>2, <1>3, <1>4

\* A step that changes the token of one place only is a TokenChange.
LEMMA OnePlace ==
    ASSUME NEW p \in Places, Replaced(TokenAt(p)', TokenAt(p)),
           \A a \in Instances :
               /\ p # <<a, "instance", 0>> => inst'[a].id = inst[a].id
               /\ \A b \in Slots : p # <<a, "buffer", b>> => buf'[a][b].token = buf[a][b].token
               /\ \A l \in LeaseSlots : p # <<a, "lease", l>> => lease'[a][l].token = lease[a][l].token
    PROVE  TokenChange
  <1>1. ASSUME NEW q \in Places \ {p} PROVE TokenAt(q)' = TokenAt(q)
    <2>1. PICK a \in Instances :
              \/ q = <<a, "instance", 0>>
              \/ \E b \in Slots : q = <<a, "buffer", b>>
              \/ \E l \in LeaseSlots : q = <<a, "lease", l>>
      BY PlaceForms
    <2>2. CASE q = <<a, "instance", 0>>
      BY <2>2, PlaceTokens
    <2>3. ASSUME NEW b \in Slots, q = <<a, "buffer", b>> PROVE TokenAt(q)' = TokenAt(q)
      <3>1. p # <<a, "buffer", b>>
        BY <2>3
      <3>2. buf'[a][b].token = buf[a][b].token
        BY <3>1
      <3>3. /\ TokenAt(<<a, "buffer", b>>) = buf[a][b].token
            /\ TokenAt(<<a, "buffer", b>>)' = buf'[a][b].token
        BY PlaceTokens
      <3> QED  BY <2>3, <3>2, <3>3
    <2>4. ASSUME NEW l \in LeaseSlots, q = <<a, "lease", l>> PROVE TokenAt(q)' = TokenAt(q)
      <3>1. p # <<a, "lease", l>>
        BY <2>4
      <3>2. lease'[a][l].token = lease[a][l].token
        BY <3>1
      <3>3. /\ TokenAt(<<a, "lease", l>>) = lease[a][l].token
            /\ TokenAt(<<a, "lease", l>>)' = lease'[a][l].token
        BY PlaceTokens
      <3> QED  BY <2>4, <3>2, <3>3
    <2> QED  BY <2>1, <2>2, <2>3, <2>4
  <1> QED  BY <1>1 DEF TokenChange, Replaced

-----------------------------------------------------------------------------
(* Every step is a TokenChange.                                            *)

\* The token of one instance.
LEMMA InstancePlace ==
    ASSUME NEW a \in Instances, Replaced(inst'[a].id, inst[a].id),
           \A c \in Instances \ {a} : inst'[c].id = inst[c].id,
           UNCHANGED <<buf, lease>>
    PROVE  TokenChange
  <1> DEFINE p == <<a, "instance", 0>>
  <1>1. p \in Places /\ Replaced(TokenAt(p)', TokenAt(p))
    BY PlaceTokens
  <1>2. \A c \in Instances :
            /\ p # <<c, "instance", 0>> => inst'[c].id = inst[c].id
            /\ \A b \in Slots : p # <<c, "buffer", b>> => buf'[c][b].token = buf[c][b].token
            /\ \A l \in LeaseSlots : p # <<c, "lease", l>> => lease'[c][l].token = lease[c][l].token
    OBVIOUS
  <1> HIDE DEF p
  <1> QED  BY <1>1, <1>2, OnePlace

\* The token of one buffer slot.
LEMMA BufferPlace ==
    ASSUME NEW a \in Instances, NEW b \in Slots, Replaced(buf'[a][b].token, buf[a][b].token),
           \A c \in Instances, d \in Slots :
               c # a \/ d # b => buf'[c][d].token = buf[c][d].token,
           \A c \in Instances : inst'[c].id = inst[c].id,
           UNCHANGED lease
    PROVE  TokenChange
  <1> DEFINE p == <<a, "buffer", b>>
  <1>1. p \in Places /\ Replaced(TokenAt(p)', TokenAt(p))
    BY PlaceTokens
  <1>2. \A c \in Instances :
            /\ p # <<c, "instance", 0>> => inst'[c].id = inst[c].id
            /\ \A d \in Slots : p # <<c, "buffer", d>> => buf'[c][d].token = buf[c][d].token
            /\ \A l \in LeaseSlots : p # <<c, "lease", l>> => lease'[c][l].token = lease[c][l].token
    OBVIOUS
  <1> HIDE DEF p
  <1> QED  BY <1>1, <1>2, OnePlace

\* The token of one lease slot.
LEMMA LeasePlace ==
    ASSUME NEW a \in Instances, NEW l \in LeaseSlots,
           Replaced(lease'[a][l].token, lease[a][l].token),
           \A c \in Instances, k \in LeaseSlots :
               c # a \/ k # l => lease'[c][k].token = lease[c][k].token,
           \A c \in Instances : inst'[c].id = inst[c].id,
           \A c \in Instances, d \in Slots : buf'[c][d].token = buf[c][d].token
    PROVE  TokenChange
  <1> DEFINE p == <<a, "lease", l>>
  <1>1. p \in Places /\ Replaced(TokenAt(p)', TokenAt(p))
    BY PlaceTokens
  <1>2. \A c \in Instances :
            /\ p # <<c, "instance", 0>> => inst'[c].id = inst[c].id
            /\ \A d \in Slots : p # <<c, "buffer", d>> => buf'[c][d].token = buf[c][d].token
            /\ \A k \in LeaseSlots : p # <<c, "lease", k>> => lease'[c][k].token = lease[c][k].token
    OBVIOUS
  <1> HIDE DEF p
  <1> QED  BY <1>1, <1>2, OnePlace

\* A change of one buffer record, with whatever it does to the accounts.
LEMMA BufferChange ==
    ASSUME TypeOK, NEW a \in Instances, NEW b \in Slots, NEW r,
           buf' = [buf EXCEPT ![a][b] = r], Replaced(r.token, buf[a][b].token),
           \A c \in Instances : inst'[c].id = inst[c].id,
           UNCHANGED lease
    PROVE  TokenChange
  <1>1. \A c \in Instances, d \in Slots :
            buf'[c][d] = IF c = a /\ d = b THEN r ELSE buf[c][d]
    BY DEF TypeOK
  <1> QED  BY <1>1, BufferPlace

\* Instances come and go with a token of their own.
LEMMA InstanceSteps ==
    ASSUME TypeOK,
           \/ \E limit \in Sizes, buffers \in 1 .. MaxBuffers, leases \in 0 .. MaxLeases :
                  cm_create(limit, buffers, leases)
           \/ \E a \in Instances : cm_destroy(a)
    PROVE  TokenChange
  <1>1. ASSUME NEW limit \in Sizes, NEW buffers \in 1 .. MaxBuffers, NEW leases \in 0 .. MaxLeases,
               cm_create(limit, buffers, leases)
        PROVE  TokenChange
    <2>1. PICK a \in Instances, t \in Tokens :
              /\ cm_issue(t)
              /\ inst' = [inst EXCEPT ![a] = [id |-> t, limit |-> limit, buffers |-> buffers,
                                              leases |-> leases, used |-> 0, owners |-> 0,
                                              borrows |-> 0]]
              /\ UNCHANGED <<buf, lease, total>>
      BY <1>1 DEF cm_create
    <2>2. Replaced(inst'[a].id, inst[a].id) /\ \A c \in Instances \ {a} : inst'[c].id = inst[c].id
      BY <2>1 DEF TypeOK, cm_issue, Replaced
    <2> QED  BY <2>1, <2>2, InstancePlace
  <1>2. ASSUME NEW a \in Instances, cm_destroy(a) PROVE TokenChange
    <2> DEFINE r == [inst[a] EXCEPT !.id = 0, !.limit = 0, !.buffers = 0, !.leases = 0]
    <2>a. r.id = 0
      BY ClosedRecord DEF TypeOK
    <2>b. inst' = [inst EXCEPT ![a] = r] /\ next' = next
      BY <1>2 DEF cm_destroy, TypeOK, InstanceRecord
    <2> HIDE DEF r
    <2>1. Replaced(inst'[a].id, inst[a].id) /\ \A c \in Instances \ {a} : inst'[c].id = inst[c].id
      BY <2>a, <2>b DEF TypeOK, Replaced
    <2> QED  BY <1>2, <2>1, InstancePlace DEF cm_destroy
  <1> QED  BY <1>1, <1>2

\* A write of bytes changes no token.
LEMMA StoreKeepsTokens ==
    ASSUME TypeOK, NEW a \in Instances, NEW b \in Slots, NEW d, Store(a, b, d)
    PROVE  TokenChange
  <1> DEFINE r == [buf[a][b] EXCEPT !.data = d]
  <1>1. r.token = buf[a][b].token
    BY DEF TypeOK, BufferRecord
  <1>2. buf' = [buf EXCEPT ![a][b] = r] /\ UNCHANGED <<next, inst, lease>>
    BY DEF Store
  <1> HIDE DEF r
  <1> QED  BY <1>1, <1>2, BufferChange DEF Replaced

\* A new buffer has the new token.
LEMMA NewTakesNext ==
    ASSUME TypeOK, NEW a \in Instances, NEW length, cm_new(a, length)
    PROVE  TokenChange
  <1>1. PICK b \in Slots, t \in Tokens :
            /\ cm_issue(t)
            /\ buf' = [buf EXCEPT ![a][b] = [token |-> t, size |-> length, data |-> Blank(length),
                                             readers |-> 0, writers |-> 0]]
            /\ inst' = [inst EXCEPT ![a].used = @ + length, ![a].owners = @ + 1]
            /\ UNCHANGED lease
    BY DEF cm_new
  <1>2. \A c \in Instances : inst'[c].id = inst[c].id
    BY <1>1 DEF TypeOK, InstanceRecord
  <1> DEFINE r == [token |-> t, size |-> length, data |-> Blank(length),
                   readers |-> 0, writers |-> 0]
  <1>3. /\ buf' = [buf EXCEPT ![a][b] = r] /\ UNCHANGED lease
        /\ Replaced(r.token, buf[a][b].token)
    BY <1>1 DEF cm_issue, Replaced
  <1> HIDE DEF r
  <1> QED  BY <1>2, <1>3, BufferChange

\* Moving a buffer replaces its token by the new one.
LEMMA MoveTakesNext ==
    ASSUME TypeOK, NEW a \in Instances, NEW o, o.slot \in Slots, cm_move(a, o)
    PROVE  TokenChange
  <1>1. PICK t \in Tokens :
            /\ cm_issue(t)
            /\ buf' = [buf EXCEPT ![a][o.slot] = [buf[a][o.slot] EXCEPT !.token = t]]
            /\ UNCHANGED <<inst, lease, total>>
    BY DEF cm_move
  <1> DEFINE r == [buf[a][o.slot] EXCEPT !.token = t]
  <1>2. r.token = t
    BY DEF TypeOK, BufferRecord
  <1>3. buf' = [buf EXCEPT ![a][o.slot] = r] /\ Replaced(r.token, buf[a][o.slot].token)
    BY <1>1, <1>2 DEF cm_issue, Replaced
  <1> HIDE DEF r
  <1> QED  BY <1>1, <1>3, BufferChange

\* A dropped buffer has no token.
LEMMA DropEndsToken ==
    ASSUME TypeOK, NEW a \in Instances, NEW o, o.slot \in Slots, cm_drop(a, o)
    PROVE  TokenChange
  <1> DEFINE r == [buf[a][o.slot] EXCEPT !.token = 0, !.size = 0, !.data = Blank(0)]
  <1>1. r.token = 0
    BY DEF TypeOK, BufferRecord
  <1>2. buf' = [buf EXCEPT ![a][o.slot] = r] /\ UNCHANGED <<next, lease>>
    BY DEF cm_drop
  <1>i. \E m, n : inst' = [inst EXCEPT ![a] = [inst[a] EXCEPT !.used = m, !.owners = n]]
    BY DEF cm_drop, TypeOK, InstanceRecord
  <1>3. \A c \in Instances : inst'[c].id = inst[c].id
    BY <1>i DEF TypeOK, InstanceRecord
  <1> HIDE DEF r
  <1> QED  BY <1>1, <1>2, <1>3, BufferChange DEF Replaced

\* Lending and returning change the counts of a buffer and not its token.
LEMMA CountsKeepToken ==
    ASSUME NEW q \in BufferRecord, NEW w \in BOOLEAN
    PROVE  Lent(q, w).token = q.token /\ Returned(q, w).token = q.token
  BY DEF BufferRecord, Lent, Returned

\* A new lease has the new token.
LEMMA BorrowTakesNext ==
    ASSUME TypeOK, NEW a \in Instances, NEW o, o.slot \in Slots, NEW x, NEW n,
           NEW w \in BOOLEAN, cm_borrow(a, o, x, n, w)
    PROVE  TokenChange
  <1>1. PICK l \in LeaseSlots, t \in Tokens :
            /\ cm_issue(t)
            /\ lease' = [lease EXCEPT ![a][l] = [token |-> t, owner |-> o.token,
                                                 buffer |-> o.slot, offset |-> x,
                                                 length |-> n, mutable |-> w]]
            /\ buf' = [buf EXCEPT ![a][o.slot] = Lent(buf[a][o.slot], w)]
            /\ inst' = [inst EXCEPT ![a].borrows = @ + 1]
    BY DEF cm_borrow
  <1>2. \A c \in Instances : inst'[c].id = inst[c].id
    BY <1>1 DEF TypeOK, InstanceRecord
  <1>3. \A c \in Instances, d \in Slots : buf'[c][d].token = buf[c][d].token
    BY <1>1, CountsKeepToken DEF TypeOK
  <1>4. /\ lease'[a][l].token = t
        /\ \A c \in Instances, k \in LeaseSlots :
               c # a \/ k # l => lease'[c][k].token = lease[c][k].token
    BY <1>1 DEF TypeOK
  <1> QED  BY <1>1, <1>2, <1>3, <1>4, LeasePlace DEF cm_issue, Replaced

\* A returned lease has no token.
LEMMA ReleaseEndsToken ==
    ASSUME TypeOK, NEW a \in Instances, NEW h, h.slot \in LeaseSlots, cm_release(a, h)
    PROVE  TokenChange
  <1> DEFINE v == lease[a][h.slot]
  <1>0. v.buffer \in Slots /\ v.mutable \in BOOLEAN
    BY DEF TypeOK, LeaseRecord
  <1>1. /\ lease' = [lease EXCEPT ![a][h.slot] = NoLease]
        /\ buf' = [buf EXCEPT ![a][v.buffer] = Returned(buf[a][v.buffer], v.mutable)]
        /\ inst' = [inst EXCEPT ![a].borrows = @ - 1]
        /\ next' = next
    BY DEF cm_release
  <1>2. \A c \in Instances : inst'[c].id = inst[c].id
    BY <1>1 DEF TypeOK, InstanceRecord
  <1>3. \A c \in Instances, d \in Slots : buf'[c][d].token = buf[c][d].token
    BY <1>0, <1>1, CountsKeepToken DEF TypeOK
  <1>4. /\ lease'[a][h.slot].token = 0
        /\ \A c \in Instances, k \in LeaseSlots :
               c # a \/ k # h.slot => lease'[c][k].token = lease[c][k].token
    BY <1>1 DEF TypeOK, NoLease
  <1> QED  BY <1>1, <1>2, <1>3, <1>4, LeasePlace DEF Replaced

\* Every step changes the token of one place at most.
LEMMA StepTokens == IInv /\ [Next]_vars => TokenChange
  <1> SUFFICES ASSUME IInv, [Next]_vars PROVE TokenChange
    OBVIOUS
  <1>t. TypeOK
    BY DEF IInv
  <1>1. CASE UNCHANGED vars
    <2>1. 0 \in Instances
      BY MemoryAssumption DEF Instances
    <2> QED  BY <1>1, <2>1, InstancePlace DEF vars, Replaced
  <1>2. CASE \E limit \in Sizes, buffers \in 1 .. MaxBuffers, leases \in 0 .. MaxLeases :
                 cm_create(limit, buffers, leases)
    BY <1>2, <1>t, InstanceSteps
  <1>3. ASSUME NEW i \in Issued, NEW a \in Instances, InstanceIndex(i, a),
               \/ cm_destroy(a)
               \/ \E length \in Sizes : cm_new(a, length)
               \/ OwnerCalls(i, a)
               \/ LeaseCalls(i, a)
        PROVE  TokenChange
    <2>1. CASE cm_destroy(a)
      BY <2>1, <1>t, InstanceSteps
    <2>2. CASE \E length \in Sizes : cm_new(a, length)
      BY <2>2, <1>t, NewTakesNext
    <2>3. CASE OwnerCalls(i, a)
      <3>1. PICK o \in Owners(i, a) :
                \/ cm_move(a, o)
                \/ cm_drop(a, o)
                \/ \E x \in Sizes, byte \in Byte : cm_write_byte(a, o, x, byte)
                \/ \E src \in Owners(i, a), to, from, n \in Sizes :
                       cm_copy_range(a, o, to, src, from, n)
                \/ \E to, n \in Sizes : \E bytes \in [0 .. n - 1 -> Byte] :
                       cm_unsafe_import(a, o, to, bytes, n)
                \/ \E x, n \in Sizes, writable \in BOOLEAN : cm_borrow(a, o, x, n, writable)
        BY <2>3 DEF OwnerCalls
      <3>2. o.slot \in Slots
        BY <1>3, <1>t, OwnerFacts
      <3>3. CASE cm_move(a, o)
        BY <3>2, <3>3, <1>t, MoveTakesNext
      <3>4. CASE cm_drop(a, o)
        BY <3>2, <3>4, <1>t, DropEndsToken
      <3>5. CASE \E x \in Sizes, byte \in Byte : cm_write_byte(a, o, x, byte)
        BY <3>2, <3>5, <1>t, StoreKeepsTokens DEF cm_write_byte
      <3>6. CASE \E src \in Owners(i, a), to, from, n \in Sizes :
                     cm_copy_range(a, o, to, src, from, n)
        BY <3>2, <3>6, <1>t, StoreKeepsTokens DEF cm_copy_range
      <3>7. CASE \E to, n \in Sizes : \E bytes \in [0 .. n - 1 -> Byte] :
                     cm_unsafe_import(a, o, to, bytes, n)
        BY <3>2, <3>7, <1>t, StoreKeepsTokens DEF cm_unsafe_import
      <3>8. CASE \E x, n \in Sizes, writable \in BOOLEAN : cm_borrow(a, o, x, n, writable)
        BY <3>2, <3>8, <1>t, BorrowTakesNext
      <3> QED  BY <3>1, <3>3, <3>4, <3>5, <3>6, <3>7, <3>8
    <2>4. CASE LeaseCalls(i, a)
      <3>1. PICK h \in Leases(i, a) :
                \/ cm_release(a, h)
                \/ \E x \in Sizes, byte \in Byte : cm_lease_write_byte(a, h, x, byte)
                \/ \E src \in Leases(i, a), to, from, n \in Sizes :
                       cm_lease_copy_range(a, h, to, src, from, n)
        BY <2>4 DEF LeaseCalls
      <3>2. h.slot \in LeaseSlots /\ lease[a][h.slot].buffer \in Slots
        BY <1>t, LeaseFacts DEF LiveLeases, TypeOK, LeaseRecord
      <3>3. CASE cm_release(a, h)
        BY <3>2, <3>3, <1>t, ReleaseEndsToken
      <3>4. CASE \E x \in Sizes, byte \in Byte : cm_lease_write_byte(a, h, x, byte)
        BY <3>2, <3>4, <1>t, StoreKeepsTokens DEF cm_lease_write_byte
      <3>5. CASE \E src \in Leases(i, a), to, from, n \in Sizes :
                     cm_lease_copy_range(a, h, to, src, from, n)
        BY <3>2, <3>5, <1>t, StoreKeepsTokens DEF cm_lease_copy_range
      <3> QED  BY <3>1, <3>3, <3>4, <3>5
    <2> QED  BY <1>3, <2>1, <2>2, <2>3, <2>4
  <1> QED  BY <1>1, <1>2, <1>3 DEF Next

-----------------------------------------------------------------------------
(* The theorems.                                                           *)

\* The next token is in force nowhere, so a change keeps tokens apart.
LEMMA UniqueStep == IInv /\ TokensUnique /\ TokenChange => TokensUnique'
  <1> SUFFICES ASSUME IInv, TokensUnique, TokenChange,
                      NEW q \in Places, NEW s \in Places,
                      TokenAt(q)' # 0, TokenAt(q)' = TokenAt(s)'
               PROVE  q = s
    BY DEF TokensUnique, Places, Instances, Slots, LeaseSlots
  <1>1. PICK p \in Places :
            /\ \A u \in Places \ {p} : TokenAt(u)' = TokenAt(u)
            /\ TokenAt(p)' \in {0, TokenAt(p), next}
    BY DEF TokenChange
  <1>2. \A u \in Places : TokenAt(u) # next
    <2> TAKE u \in Places
    <2>1. TokenAt(u) \in Nat /\ TokenAt(u) < next /\ next \in Int
      BY PlacesIssued DEF IInv, TypeOK
    <2> QED  BY <2>1
  <1>3. CASE TokenAt(p)' = TokenAt(p)
    BY <1>1, <1>3 DEF TokensUnique
  <1>4. CASE TokenAt(p)' \in {0, next}
    <2>1. CASE q = p /\ s # p
      BY <1>1, <1>2, <1>4, <2>1
    <2>2. CASE q # p /\ s = p
      BY <1>1, <1>2, <1>4, <2>2
    <2>3. CASE q # p /\ s # p
      BY <1>1, <2>3 DEF TokensUnique
    <2> QED  BY <2>1, <2>2, <2>3
  <1> QED  BY <1>1, <1>3, <1>4

\* No token is in force in two places, so a handle always names the object it
\* was issued for, until the end of the token counter.
THEOREM TokensAlwaysUnique == Spec => []TokensUnique
  <1>1. Init => TokensUnique
    <2> SUFFICES ASSUME Init, NEW p \in Places PROVE TokenAt(p) = 0
      BY DEF TokensUnique
    <2>1. \A a \in Instances :
              /\ inst[a].id = 0
              /\ \A b \in Slots : buf[a][b].token = 0
              /\ \A l \in LeaseSlots : lease[a][l].token = 0
      BY DEF Init, NoInstance, NoBuffer, NoLease
    <2>2. PICK a \in Instances :
              \/ p = <<a, "instance", 0>>
              \/ \E b \in Slots : p = <<a, "buffer", b>>
              \/ \E l \in LeaseSlots : p = <<a, "lease", l>>
      BY PlaceForms
    <2>3. /\ TokenAt(<<a, "instance", 0>>) = 0
          /\ \A b \in Slots : TokenAt(<<a, "buffer", b>>) = 0
          /\ \A l \in LeaseSlots : TokenAt(<<a, "lease", l>>) = 0
      BY <2>1, PlaceTokens
    <2> QED  BY <2>2, <2>3
  <1>2. IInv /\ TokensUnique /\ [Next]_vars => TokensUnique'
    BY StepTokens, UniqueStep
  <1> QED  BY <1>1, <1>2, AlwaysIInv, PTL DEF Spec

\* A stale handle stays refused for ever: its token never comes back, whatever
\* takes its slot.
THEOREM NeverRevived == Spec => NoRevival
  <1> DEFINE Refused == \A t \in Issued \ InForce : t \notin InForce'
  <1>1. IInv /\ [Next]_vars => Refused
    <2> SUFFICES ASSUME IInv, [Next]_vars, NEW t \in Issued \ InForce, t \in InForce'
                 PROVE  FALSE
      OBVIOUS
    <2>1. PICK q \in Places : t = TokenAt(q)'
      BY DEF InForce, Places, Instances, Slots, LeaseSlots
    <2>2. t # 0 /\ t # next /\ \A u \in Places : TokenAt(u) # t
      BY DEF InForce, Issued, IInv, TypeOK
    <2>3. PICK p \in Places :
              /\ \A u \in Places \ {p} : TokenAt(u)' = TokenAt(u)
              /\ TokenAt(p)' \in {0, TokenAt(p), next}
      BY StepTokens DEF TokenChange
    <2> QED  BY <2>1, <2>2, <2>3
  <1>2. IInv /\ [Next]_vars => [Refused]_vars
    BY <1>1
  <1> QED  BY <1>2, AlwaysIInv, PTL DEF Spec, NoRevival

-----------------------------------------------------------------------------
(* What a step may do to the bytes somebody has borrowed.  All of it       *)
(* follows from one fact: a step changes the bytes of one buffer at most,  *)
(* and either nobody borrows that buffer or it changes the view of its     *)
(* only exclusive borrower.                                                *)

Unlent(a, b) == \A l \in LiveLeases(a) : lease[a][l].buffer # b

WrittenInView(v, a, b) ==
    /\ DOMAIN buf'[a][b].data = DOMAIN buf[a][b].data
    /\ \A x \in DOMAIN buf[a][b].data :
           \/ buf'[a][b].data[x] = buf[a][b].data[x]
           \/ x \in v.offset .. v.offset + v.length - 1

\* At most one buffer changes its bytes in a step.
DataChange ==
    \E a \in Instances, b \in Slots :
        /\ \A c \in Instances, d \in Slots :
               c # a \/ d # b => buf'[c][d].data = buf[c][d].data
        /\ \/ buf'[a][b].data = buf[a][b].data
           \/ Unlent(a, b)
           \/ \E h \in ExclusiveOn(a, b) : WrittenInView(lease[a][h], a, b)

-----------------------------------------------------------------------------
(* Every step is a DataChange.                                             *)

\* One buffer is replaced that nobody borrows, or whose bytes stay.
LEMMA OneBuffer ==
    ASSUME TypeOK, NEW a \in Instances, NEW b \in Slots, NEW r,
           buf' = [buf EXCEPT ![a][b] = r],
           Unlent(a, b) \/ r.data = buf[a][b].data
    PROVE  DataChange
  <1>1. \A c \in Instances, d \in Slots :
            buf'[c][d] = IF c = a /\ d = b THEN r ELSE buf[c][d]
    BY DEF TypeOK
  <1> QED  BY <1>1 DEF DataChange

\* Nothing happens to the buffers.
LEMMA NoBufferChange ==
    ASSUME UNCHANGED buf
    PROVE  DataChange
  <1>1. 0 \in Instances /\ 0 \in Slots
    BY MemoryAssumption DEF Instances, Slots
  <1> QED  BY <1>1 DEF DataChange

\* A write through an owner that is not lent.
LEMMA OwnerStore ==
    ASSUME IInv, NEW a \in Instances, NEW b \in Slots, NEW d, Idle(a, b), Store(a, b, d)
    PROVE  DataChange
  <1>1. Unlent(a, b)
    BY IdleMeansUnlent DEF IInv, Unlent
  <1>2. buf' = [buf EXCEPT ![a][b] = [buf[a][b] EXCEPT !.data = d]]
    BY DEF Store
  <1> QED  BY <1>1, <1>2, OneBuffer DEF IInv

\* A write through an exclusive lease, inside its view.
LEMMA LeaseStore ==
    ASSUME IInv, NEW a \in Instances, NEW l \in LiveLeases(a), lease[a][l].mutable,
           NEW d, Store(a, lease[a][l].buffer, d),
           DOMAIN d = DOMAIN buf[a][lease[a][l].buffer].data,
           \A x \in DOMAIN d :
               \/ d[x] = buf[a][lease[a][l].buffer].data[x]
               \/ x \in lease[a][l].offset .. lease[a][l].offset + lease[a][l].length - 1
    PROVE  DataChange
  <1> DEFINE v == lease[a][l]
             b == v.buffer
             r == [buf[a][b] EXCEPT !.data = d]
  <1>1. b \in Slots /\ l \in ExclusiveOn(a, b)
    BY DEF IInv, TypeOK, LiveLeases, LeaseRecord, ExclusiveOn
  <1>r. buf[a][b] \in BufferRecord
    BY <1>1 DEF IInv, TypeOK
  <1>2. r.data = d
    <2> HIDE DEF b
    <2> QED  BY <1>r DEF BufferRecord
  <1>3. buf' = [buf EXCEPT ![a][b] = r]
    BY DEF Store
  <1>4. /\ DOMAIN d = DOMAIN buf[a][b].data
        /\ \A x \in DOMAIN d : d[x] = buf[a][b].data[x] \/ x \in v.offset .. v.offset + v.length - 1
    OBVIOUS
  <1>5. TypeOK
    BY DEF IInv
  <1> HIDE DEF r, b, v
  <1>6. \A c \in Instances, e \in Slots :
            buf'[c][e] = IF c = a /\ e = b THEN r ELSE buf[c][e]
    BY <1>1, <1>3, <1>5 DEF TypeOK
  <1>7. WrittenInView(v, a, b)
    BY <1>1, <1>2, <1>4, <1>6 DEF WrittenInView
  <1>8. \A c \in Instances, e \in Slots :
            c # a \/ e # b => buf'[c][e].data = buf[c][e].data
    BY <1>6
  <1>9. \E h \in ExclusiveOn(a, b) : WrittenInView(lease[a][h], a, b)
    BY <1>1, <1>7 DEF v
  <1> QED  BY <1>1, <1>8, <1>9 DEF DataChange

\* The calls that make, move or drop a buffer.
LEMMA BufferCallsData ==
    ASSUME IInv, NEW a \in Instances,
           \/ \E length \in Sizes : cm_new(a, length)
           \/ \E o : o.slot \in Slots /\ (cm_move(a, o) \/ cm_drop(a, o))
    PROVE  DataChange
  <1>t. TypeOK
    BY DEF IInv
  <1>1. ASSUME NEW length \in Sizes, cm_new(a, length) PROVE DataChange
    <2>1. PICK b \in Slots, t \in Tokens :
              /\ buf[a][b].token = 0
              /\ buf' = [buf EXCEPT ![a][b] = [token |-> t, size |-> length,
                                               data |-> Blank(length), readers |-> 0,
                                               writers |-> 0]]
      BY <1>1 DEF cm_new, First
    <2>2. Unlent(a, b)
      BY <2>1 DEF IInv, LeasesBacked, Unlent
    <2> QED  BY <1>t, <2>1, <2>2, OneBuffer
  <1>2. ASSUME NEW o, o.slot \in Slots, cm_move(a, o) \/ cm_drop(a, o) PROVE DataChange
    <2>1. Unlent(a, o.slot)
      BY <1>2, IdleMeansUnlent DEF IInv, Unlent, cm_move, cm_drop
    <2>2. \E r : buf' = [buf EXCEPT ![a][o.slot] = r]
      BY <1>2 DEF cm_move, cm_drop
    <2> QED  BY <1>t, <1>2, <2>1, <2>2, OneBuffer
  <1> QED  BY <1>1, <1>2

\* Lending and returning leave the bytes.
LEMMA CountsKeepData ==
    ASSUME TypeOK, NEW a \in Instances, NEW b \in Slots, NEW w \in BOOLEAN,
           \/ buf' = [buf EXCEPT ![a][b] = Lent(buf[a][b], w)]
           \/ buf' = [buf EXCEPT ![a][b] = Returned(buf[a][b], w)]
    PROVE  DataChange
  <1>1. buf[a][b] \in BufferRecord
    BY DEF TypeOK
  <1>2. Lent(buf[a][b], w).data = buf[a][b].data /\ Returned(buf[a][b], w).data = buf[a][b].data
    BY <1>1 DEF BufferRecord, Lent, Returned
  <1> QED  BY <1>2, OneBuffer

\* The calls on an owner.
LEMMA OwnerCallsData ==
    ASSUME IInv, NEW i \in Issued, NEW a \in Instances, InstanceIndex(i, a), OwnerCalls(i, a)
    PROVE  DataChange
  <1>1. PICK o \in Owners(i, a) :
            \/ cm_move(a, o)
            \/ cm_drop(a, o)
            \/ \E x \in Sizes, byte \in Byte : cm_write_byte(a, o, x, byte)
            \/ \E src \in Owners(i, a), to, from, n \in Sizes :
                   cm_copy_range(a, o, to, src, from, n)
            \/ \E to, n \in Sizes : \E bytes \in [0 .. n - 1 -> Byte] :
                   cm_unsafe_import(a, o, to, bytes, n)
            \/ \E x, n \in Sizes, writable \in BOOLEAN : cm_borrow(a, o, x, n, writable)
    BY DEF OwnerCalls
  <1>2. o.slot \in Slots /\ TypeOK
    BY OwnerFacts DEF IInv
  <1>3. CASE cm_move(a, o) \/ cm_drop(a, o)
    BY <1>2, <1>3, BufferCallsData
  <1>4. CASE \E x \in Sizes, byte \in Byte : cm_write_byte(a, o, x, byte)
    BY <1>2, <1>4, OwnerStore DEF cm_write_byte
  <1>5. CASE \E src \in Owners(i, a), to, from, n \in Sizes : cm_copy_range(a, o, to, src, from, n)
    BY <1>2, <1>5, OwnerStore DEF cm_copy_range
  <1>6. CASE \E to, n \in Sizes : \E bytes \in [0 .. n - 1 -> Byte] :
                 cm_unsafe_import(a, o, to, bytes, n)
    BY <1>2, <1>6, OwnerStore DEF cm_unsafe_import
  <1>7. ASSUME NEW x \in Sizes, NEW n \in Sizes, NEW writable \in BOOLEAN,
               cm_borrow(a, o, x, n, writable)
        PROVE  DataChange
    <2>1. buf' = [buf EXCEPT ![a][o.slot] = Lent(buf[a][o.slot], writable)]
      BY <1>7 DEF cm_borrow
    <2> QED  BY <1>2, <2>1, CountsKeepData
  <1> QED  BY <1>1, <1>3, <1>4, <1>5, <1>6, <1>7

\* The calls on a lease.
LEMMA LeaseCallsData ==
    ASSUME IInv, NEW i \in Issued, NEW a \in Instances, LeaseCalls(i, a)
    PROVE  DataChange
  <1>1. PICK h \in Leases(i, a) :
            \/ cm_release(a, h)
            \/ \E x \in Sizes, byte \in Byte : cm_lease_write_byte(a, h, x, byte)
            \/ \E src \in Leases(i, a), to, from, n \in Sizes :
                   cm_lease_copy_range(a, h, to, src, from, n)
    BY DEF LeaseCalls
  <1> DEFINE v == lease[a][h.slot]
             old == buf[a][v.buffer].data
  <1>2. h.slot \in LiveLeases(a)
    BY LeaseFacts
  <1>3. v \in LeaseRecord
    BY <1>2 DEF IInv, TypeOK, LiveLeases
  <1>4. v.buffer \in Slots /\ v.offset \in Nat /\ v.length \in Nat /\ v.mutable \in BOOLEAN
    BY <1>3 DEF LeaseRecord
  <1>5. /\ old \in [0 .. buf[a][v.buffer].size - 1 -> Byte] /\ buf[a][v.buffer].size \in Nat
        /\ v.offset + v.length <= buf[a][v.buffer].size
    BY <1>2, <1>4, BufferBytes DEF IInv, LeasesBacked
  <1>6. CASE cm_release(a, h)
    BY <1>4, <1>6, CountsKeepData DEF cm_release, IInv
  <1>7. ASSUME NEW x \in Sizes, NEW byte \in Byte, cm_lease_write_byte(a, h, x, byte)
        PROVE  DataChange
    <2> DEFINE d == [old EXCEPT ![v.offset + x] = byte]
    <2>a. x \in Nat
      BY MemoryAssumption DEF Sizes
    <2>1. v.mutable /\ x < v.length /\ x \in Nat /\ Store(a, v.buffer, d)
      BY <1>7, <2>a DEF cm_lease_write_byte
    <2>2. /\ DOMAIN d = DOMAIN old
          /\ \A y \in DOMAIN d : d[y] = old[y] \/ y = v.offset + x
      BY <1>5
    <2>3. v.offset + x \in v.offset .. v.offset + v.length - 1
      <3> HIDE DEF v
      <3> QED  BY <1>4, <2>1
    <2> HIDE DEF d
    <2>4. /\ DOMAIN d = DOMAIN buf[a][lease[a][h.slot].buffer].data
          /\ \A y \in DOMAIN d :
                 \/ d[y] = buf[a][lease[a][h.slot].buffer].data[y]
                 \/ y \in lease[a][h.slot].offset
                            .. lease[a][h.slot].offset + lease[a][h.slot].length - 1
      BY <2>2, <2>3
    <2> QED  BY <1>2, <2>1, <2>4, LeaseStore
  <1>8. ASSUME NEW src \in Leases(i, a), NEW to \in Sizes, NEW from \in Sizes, NEW n \in Sizes,
               cm_lease_copy_range(a, h, to, src, from, n)
        PROVE  DataChange
    <2> DEFINE w == lease[a][src.slot]
               d == Moved(buf[a][v.buffer].size, old, v.offset + to, buf[a][w.buffer].data,
                          w.offset + from, n)
    <2>a. to \in Nat /\ n \in Nat
      BY MemoryAssumption DEF Sizes
    <2>b. v.mutable /\ InRange(v.length, to, n) /\ Store(a, v.buffer, d)
      BY <1>8 DEF cm_lease_copy_range
    <2>1. /\ v.mutable /\ to <= v.length /\ n <= v.length - to
          /\ to \in Nat /\ n \in Nat
          /\ Store(a, v.buffer, d)
      BY <2>a, <2>b DEF InRange
    <2>2. /\ DOMAIN d = DOMAIN old
          /\ \A y \in DOMAIN d : d[y] = old[y] \/ y \in v.offset + to .. v.offset + to + n - 1
      BY <1>5 DEF Moved
    <2>3. \A y \in v.offset + to .. v.offset + to + n - 1 :
              y \in v.offset .. v.offset + v.length - 1
      <3> HIDE DEF v, d
      <3> QED  BY <1>4, <2>1
    <2> HIDE DEF d
    <2> QED  BY <1>2, <2>1, <2>2, <2>3, LeaseStore
  <1> QED  BY <1>1, <1>6, <1>7, <1>8

\* Every step changes the bytes of one buffer at most, and only as above.
LEMMA StepData == IInv /\ [Next]_vars => DataChange
  <1> SUFFICES ASSUME IInv, [Next]_vars PROVE DataChange
    OBVIOUS
  <1>1. CASE UNCHANGED vars
    BY <1>1, NoBufferChange DEF vars
  <1>2. CASE \E limit \in Sizes, buffers \in 1 .. MaxBuffers, leases \in 0 .. MaxLeases :
                 cm_create(limit, buffers, leases)
    BY <1>2, NoBufferChange DEF cm_create
  <1>3. ASSUME NEW i \in Issued, NEW a \in Instances, InstanceIndex(i, a),
               \/ cm_destroy(a)
               \/ \E length \in Sizes : cm_new(a, length)
               \/ OwnerCalls(i, a)
               \/ LeaseCalls(i, a)
        PROVE  DataChange
    <2>1. CASE cm_destroy(a)
      BY <2>1, NoBufferChange DEF cm_destroy
    <2>2. CASE \E length \in Sizes : cm_new(a, length)
      BY <2>2, BufferCallsData
    <2>3. CASE OwnerCalls(i, a)
      BY <1>3, <2>3, OwnerCallsData
    <2>4. CASE LeaseCalls(i, a)
      BY <2>4, LeaseCallsData
    <2> QED  BY <1>3, <2>1, <2>2, <2>3, <2>4
  <1> QED  BY <1>1, <1>2, <1>3 DEF Next

-----------------------------------------------------------------------------
(* The theorems.                                                           *)

\* What a shared borrower sees stays as it is while the buffer is shared.
THEOREM SharedViewsFrozen == Spec => SharedViewFrozen
  <1> DEFINE Frozen == \A a \in Instances, b \in Slots :
                           SharedOn(a, b) # {} => buf'[a][b].data = buf[a][b].data
  <1>1. IInv /\ [Next]_vars => Frozen
    <2> SUFFICES ASSUME IInv, [Next]_vars, NEW a \in Instances, NEW b \in Slots,
                        SharedOn(a, b) # {}
                 PROVE  buf'[a][b].data = buf[a][b].data
      OBVIOUS
    <2>1. ~Unlent(a, b) /\ ExclusiveOn(a, b) = {}
      BY ExclusiveAlone DEF Unlent, SharedOn
    <2> QED  BY <2>1, StepData DEF DataChange
  <1>2. IInv /\ [Next]_vars => [Frozen]_vars
    BY <1>1
  <1> QED  BY <1>2, AlwaysIInv, PTL DEF Spec, SharedViewFrozen

\* Whoever calls what, an exclusively lent buffer changes inside the view lent.
THEOREM ExclusiveWritesStayInView == Spec => ExclusiveWritesInView
  <1> DEFINE Inside ==
                 \A a \in Instances : \A l \in LiveLeases(a) :
                     LET v == lease[a][l] IN
                     v.mutable =>
                         /\ DOMAIN buf'[a][v.buffer].data = DOMAIN buf[a][v.buffer].data
                         /\ \A x \in DOMAIN buf[a][v.buffer].data :
                                \/ buf'[a][v.buffer].data[x] = buf[a][v.buffer].data[x]
                                \/ x \in v.offset .. v.offset + v.length - 1
  <1>1. IInv /\ [Next]_vars => Inside
    <2> SUFFICES ASSUME IInv, [Next]_vars, NEW a \in Instances, NEW l \in LiveLeases(a),
                        lease[a][l].mutable
                 PROVE  WrittenInView(lease[a][l], a, lease[a][l].buffer)
      BY DEF WrittenInView
    <2> DEFINE b == lease[a][l].buffer
    <2>1. b \in Slots /\ l \in ExclusiveOn(a, b)
      BY DEF IInv, TypeOK, LiveLeases, LeaseRecord, ExclusiveOn
    <2>2. ~Unlent(a, b) /\ \A h \in ExclusiveOn(a, b) : h = l
      BY <2>1, ExclusiveAlone DEF Unlent
    <2>3. \/ buf'[a][b].data = buf[a][b].data
          \/ WrittenInView(lease[a][l], a, b)
      BY <2>1, <2>2, StepData DEF DataChange
    <2> QED  BY <2>3 DEF WrittenInView
  <1>2. IInv /\ [Next]_vars => [Inside]_vars
    BY <1>1
  <1> QED  BY <1>2, AlwaysIInv, PTL DEF Spec, ExclusiveWritesInView

-----------------------------------------------------------------------------
(* The accounts: the inductive invariant.                                  *)

\* A slot without an owner holds no bytes, so the accounts may sum all slots.
FreeIsEmpty == \A a \in Instances, b \in Slots : buf[a][b].token = 0 => buf[a][b].size = 0

\* A table entry without an instance has no buffers, so cm_create may start
\* its accounts at zero.
ClosedIsEmpty == \A a \in Instances : inst[a].id = 0 => LiveBuffers(a) = {}

Accounts == FreeIsEmpty /\ ClosedIsEmpty /\ AccountsExact

OInv == IInv /\ TokensUnique /\ Accounts

-----------------------------------------------------------------------------
(* The accounts.                                                           *)

\* The tables are finite.
LEMMA TablesFinite ==
    /\ IsFiniteSet(Slots) /\ IsFiniteSet(Instances)
    /\ \A a \in Instances : IsFiniteSet(LiveBuffers(a))
  <1>1. IsFiniteSet(Slots) /\ IsFiniteSet(Instances)
    BY FS_Interval, MemoryAssumption DEF Slots, Instances
  <1>2. \A a \in Instances : LiveBuffers(a) \in SUBSET Slots
    BY DEF LiveBuffers
  <1> QED  BY <1>1, <1>2, FS_Subset

\* Bytes of one instance, as its buffers add up to.
Held(a) == SumFunctionOnSet([b \in Slots |-> buf[a][b].size], Slots)

\* Bytes of all instances, as their accounts add up to.
HeldByAll == SumFunctionOnSet([a \in Instances |-> inst[a].used], Instances)

\* The account of an instance and of the module, in these terms.
LEMMA AccountsAre ==
    AccountsExact <=>
        /\ \A a \in Instances :
               /\ inst[a].used = Held(a)
               /\ inst[a].used <= inst[a].limit
               /\ inst[a].owners = Cardinality(LiveBuffers(a))
               /\ inst[a].borrows = Cardinality(LiveLeases(a))
        /\ total = HeldByAll
        /\ total <= MaxBytes
  BY DEF AccountsExact, SumFunction, Held, HeldByAll

LEMMA AccountsAreThen ==
    AccountsExact' <=>
        /\ \A a \in Instances :
               /\ inst'[a].used = Held(a)'
               /\ inst'[a].used <= inst'[a].limit
               /\ inst'[a].owners = Cardinality(LiveBuffers(a)')
               /\ inst'[a].borrows = Cardinality(LiveLeases(a)')
        /\ total' = HeldByAll'
        /\ total' <= MaxBytes
  BY DEF AccountsExact, SumFunction, Held, HeldByAll

\* Sizes are natural numbers, and so are the accounts.
LEMMA SizesNatural ==
    ASSUME TypeOK, NEW a \in Instances, NEW b \in Slots
    PROVE  /\ buf[a][b].size \in Nat /\ buf[a][b].token \in Nat
           /\ inst[a].used \in Int /\ inst[a].limit \in Nat
  <1>1. buf[a][b] \in BufferRecord /\ inst[a] \in InstanceRecord
    BY DEF TypeOK
  <1>2. Sizes \subseteq Nat /\ 0 .. TokenEnd - 1 \subseteq Nat
    BY MemoryAssumption DEF Sizes
  <1>3. buf[a][b].size \in Sizes /\ buf[a][b].token \in 0 .. TokenEnd - 1
    BY <1>1 DEF BufferRecord
  <1>4. inst[a].used \in Int /\ inst[a].limit \in Sizes
    BY <1>1 DEF InstanceRecord
  <1> QED  BY <1>2, <1>3, <1>4

LEMMA HeldNatural ==
    ASSUME TypeOK, NEW a \in Instances
    PROVE  Held(a) \in Nat
  <1> DEFINE f == [b \in Slots |-> buf[a][b].size]
  <1>1. \A b \in Slots : f[b] \in Nat
    BY SizesNatural
  <1> HIDE DEF f
  <1>2. SumFunctionOnSet(f, Slots) \in Nat
    BY <1>1, TablesFinite, SumIsNatural
  <1> QED  BY <1>2 DEF Held, f

\* An instance without buffers has used nothing.
LEMMA NothingHeld ==
    ASSUME TypeOK, Accounts, NEW a \in Instances, LiveBuffers(a) = {}
    PROVE  inst[a].used = 0 /\ inst[a].owners = 0
  <1> DEFINE f == [b \in Slots |-> buf[a][b].size]
  <1>1. \A b \in Slots : f[b] = 0
    BY DEF LiveBuffers, Accounts, FreeIsEmpty
  <1> HIDE DEF f
  <1>2. SumFunctionOnSet(f, Slots) = 0
    BY <1>1, TablesFinite, SumZero
  <1>3. Held(a) = 0
    BY <1>2 DEF Held, f
  <1>4. Cardinality(LiveBuffers(a)) = 0
    BY FS_EmptySet
  <1> QED  BY <1>3, <1>4, AccountsAre DEF Accounts

\* A step that frees, takes and sizes no buffer keeps the accounts, whatever
\* else it does to an instance.
LEMMA AccountsKept ==
    ASSUME OInv, IInv',
           \A c \in Instances, e \in Slots :
               /\ buf'[c][e].size = buf[c][e].size
               /\ buf'[c][e].token = 0 <=> buf[c][e].token = 0,
           \A c \in Instances :
               /\ inst'[c].used = inst[c].used /\ inst'[c].owners = inst[c].owners
               /\ inst'[c].used <= inst'[c].limit
               /\ inst'[c].id = 0 => LiveBuffers(c) = {},
           total' = total
    PROVE  Accounts'
  <1>1. \A c \in Instances : LiveBuffers(c)' = LiveBuffers(c)
    BY DEF LiveBuffers
  <1>2. FreeIsEmpty' /\ ClosedIsEmpty'
    BY <1>1 DEF OInv, Accounts, FreeIsEmpty, ClosedIsEmpty
  <1>3. \A c \in Instances : Held(c)' = Held(c)
    <2> TAKE c \in Instances
    <2>1. [e \in Slots |-> buf'[c][e].size] = [e \in Slots |-> buf[c][e].size]
      OBVIOUS
    <2> QED  BY <2>1 DEF Held
  <1>4. HeldByAll' = HeldByAll
    <2>1. [c \in Instances |-> inst'[c].used] = [c \in Instances |-> inst[c].used]
      OBVIOUS
    <2> QED  BY <2>1 DEF HeldByAll
  <1>5. \A c \in Instances : inst'[c].borrows = Cardinality(LiveLeases(c)')
    BY DEF IInv, BorrowCount
  <1>6. AccountsExact'
    BY <1>1, <1>3, <1>4, <1>5, AccountsAre, AccountsAreThen DEF OInv, Accounts
  <1> QED  BY <1>2, <1>6 DEF Accounts

\* A step that changes the size of one buffer keeps the accounts if it books
\* the difference with the instance and with the module.
LEMMA AccountsBooked ==
    ASSUME OInv, IInv', NEW a \in Instances, NEW b \in Slots,
           NEW r \in BufferRecord, r.token = 0 => r.size = 0,
           buf' = [buf EXCEPT ![a][b] = r],
           \A c \in Instances :
               /\ inst'[c].id = inst[c].id /\ inst'[c].limit = inst[c].limit
               /\ c # a => inst'[c].used = inst[c].used /\ inst'[c].owners = inst[c].owners,
           inst[a].id # 0,
           inst'[a].used = inst[a].used - buf[a][b].size + r.size,
           inst'[a].used <= inst[a].limit,
           inst'[a].owners = Cardinality(LiveBuffers(a)'),
           total' = total - buf[a][b].size + r.size,
           total' <= MaxBytes
    PROVE  Accounts'
  <1>t. TypeOK /\ TypeOK'
    BY DEF OInv, IInv
  <1>1. \A c \in Instances, e \in Slots : buf'[c][e] = IF c = a /\ e = b THEN r ELSE buf[c][e]
    BY <1>t DEF TypeOK
  <1>2. \A c \in Instances : c # a => LiveBuffers(c)' = LiveBuffers(c)
    BY <1>1 DEF LiveBuffers
  <1>3. FreeIsEmpty' /\ ClosedIsEmpty'
    BY <1>1, <1>2 DEF OInv, Accounts, FreeIsEmpty, ClosedIsEmpty
  <1>4. \A c \in Instances : c # a => Held(c)' = Held(c)
    <2> SUFFICES ASSUME NEW c \in Instances, c # a PROVE Held(c)' = Held(c)
      OBVIOUS
    <2>1. [e \in Slots |-> buf'[c][e].size] = [e \in Slots |-> buf[c][e].size]
      BY <1>1
    <2> QED  BY <2>1 DEF Held
  <1>5. \A c \in Instances, e \in Slots : buf[c][e].size \in Nat
    BY <1>t, SizesNatural
  <1>6. r.size \in Nat
    BY MemoryAssumption DEF BufferRecord, Sizes
  <1>7. Held(a)' = Held(a) - buf[a][b].size + r.size
    <2> DEFINE f == [e \in Slots |-> buf[a][e].size]
               g == [e \in Slots |-> buf'[a][e].size]
    <2>1. \A e \in Slots : f[e] \in Nat /\ g[e] \in Nat
      BY <1>1, <1>5, <1>6
    <2>2. \A e \in Slots \ {b} : g[e] = f[e]
      BY <1>1
    <2>3. f[b] = buf[a][b].size /\ g[b] = r.size
      BY <1>1
    <2>4. Held(a) = SumFunctionOnSet(f, Slots) /\ Held(a)' = SumFunctionOnSet(g, Slots)
      BY DEF Held
    <2> HIDE DEF f, g
    <2>5. SumFunctionOnSet(g, Slots) = SumFunctionOnSet(f, Slots) - f[b] + g[b]
      BY <2>1, <2>2, TablesFinite, SumChange
    <2> QED  BY <2>3, <2>4, <2>5
  <1>8. \A c \in Instances : inst[c].used = Held(c) /\ Held(c) \in Nat
    BY <1>t, HeldNatural, AccountsAre DEF OInv, Accounts
  <1>9. inst'[a].used = Held(a)' /\ Held(a)' \in Nat
    <2>1. inst'[a].used = Held(a)'
      BY <1>7, <1>8
    <2>2. [e \in Slots |-> buf'[a][e].size] \in [Slots -> Nat]
      BY <1>1, <1>5, <1>6
    <2>3. SumFunctionOnSet([e \in Slots |-> buf'[a][e].size], Slots) \in Nat
      BY <2>2, TablesFinite, SumIsNatural
    <2> QED  BY <2>1, <2>3 DEF Held
  <1>10. HeldByAll' = HeldByAll - inst[a].used + inst'[a].used
    <2> DEFINE f == [c \in Instances |-> inst[c].used]
               g == [c \in Instances |-> inst'[c].used]
    <2>1. \A c \in Instances : f[c] \in Nat /\ g[c] \in Nat
      BY <1>8, <1>9
    <2>2. \A c \in Instances \ {a} : g[c] = f[c]
      OBVIOUS
    <2>3. f[a] = inst[a].used /\ g[a] = inst'[a].used
      OBVIOUS
    <2>4. HeldByAll = SumFunctionOnSet(f, Instances) /\ HeldByAll' = SumFunctionOnSet(g, Instances)
      BY DEF HeldByAll
    <2> HIDE DEF f, g
    <2>5. SumFunctionOnSet(g, Instances) = SumFunctionOnSet(f, Instances) - f[a] + g[a]
      BY <2>1, <2>2, TablesFinite, SumChange
    <2> QED  BY <2>3, <2>4, <2>5
  <1>11. total' = HeldByAll'
    <2>1. total = HeldByAll /\ total \in Int /\ inst[a].used \in Nat /\ buf[a][b].size \in Nat
      BY <1>t, <1>5, <1>8, AccountsAre DEF OInv, Accounts, TypeOK
    <2> QED  BY <2>1, <1>6, <1>10
  <1>12. \A c \in Instances : inst'[c].borrows = Cardinality(LiveLeases(c)')
    BY DEF IInv, BorrowCount
  <1>13. ASSUME NEW c \in Instances
         PROVE  /\ inst'[c].used = Held(c)'
                /\ inst'[c].used <= inst'[c].limit
                /\ inst'[c].owners = Cardinality(LiveBuffers(c)')
    <2>1. CASE c = a
      BY <2>1, <1>9
    <2>2. CASE c # a
      BY <2>2, <1>2, <1>4, AccountsAre DEF OInv, Accounts
    <2> QED  BY <2>1, <2>2
  <1>14. AccountsExact'
    BY <1>11, <1>12, <1>13, AccountsAreThen
  <1> QED  BY <1>3, <1>14 DEF Accounts

\* A change of one buffer that keeps its size and leaves it an owner books
\* nothing.
LEMMA SizeKept ==
    ASSUME OInv, IInv', NEW a \in Instances, NEW b \in Slots, NEW r,
           r.size = buf[a][b].size, r.token = 0 <=> buf[a][b].token = 0,
           buf' = [buf EXCEPT ![a][b] = r],
           \A c \in Instances :
               /\ inst'[c].used = inst[c].used /\ inst'[c].owners = inst[c].owners
               /\ inst'[c].limit = inst[c].limit /\ inst'[c].id = inst[c].id,
           total' = total
    PROVE  Accounts'
  <1>1. \A c \in Instances, e \in Slots : buf'[c][e] = IF c = a /\ e = b THEN r ELSE buf[c][e]
    BY DEF OInv, IInv, TypeOK
  <1>2. \A c \in Instances : inst[c].used <= inst[c].limit /\ (inst[c].id = 0 => LiveBuffers(c) = {})
    BY AccountsAre DEF OInv, Accounts, ClosedIsEmpty
  <1> QED  BY <1>1, <1>2, AccountsKept

\* A write of bytes books nothing.
LEMMA StoreAccounts ==
    ASSUME OInv, IInv', NEW a \in Instances, NEW b \in Slots, NEW d, Store(a, b, d)
    PROVE  Accounts'
  <1> DEFINE r == [buf[a][b] EXCEPT !.data = d]
  <1>1. r.token = buf[a][b].token /\ r.size = buf[a][b].size
    BY DEF OInv, IInv, TypeOK, BufferRecord
  <1>2. buf' = [buf EXCEPT ![a][b] = r] /\ UNCHANGED <<next, inst, lease, total>>
    BY DEF Store
  <1> HIDE DEF r
  <1> QED  BY <1>1, <1>2, SizeKept

\* Nor does another token for a buffer that has one.
LEMMA MoveAccounts ==
    ASSUME OInv, IInv', NEW a \in Instances, NEW o, NEW b \in Slots, o.slot = b,
           buf[a][b].token # 0, cm_move(a, o)
    PROVE  Accounts'
  <1>1. PICK t \in Tokens :
            /\ buf' = [buf EXCEPT ![a][b] = [buf[a][b] EXCEPT !.token = t]]
            /\ UNCHANGED <<inst, lease, total>>
    BY DEF cm_move
  <1> DEFINE r == [buf[a][b] EXCEPT !.token = t]
  <1>2. r.token = t /\ t # 0 /\ r.size = buf[a][b].size
    BY DEF OInv, IInv, TypeOK, BufferRecord, Tokens
  <1>3. buf' = [buf EXCEPT ![a][b] = r] /\ UNCHANGED <<inst, total>>
    BY <1>1
  <1> HIDE DEF r
  <1> QED  BY <1>2, <1>3, SizeKept

\* The borrow count is no part of the accounts of bytes and owners.
LEMMA BorrowsApart ==
    ASSUME TypeOK, NEW a \in Instances, NEW n, inst' = [inst EXCEPT ![a].borrows = n]
    PROVE  \A c \in Instances :
               /\ inst'[c].used = inst[c].used /\ inst'[c].owners = inst[c].owners
               /\ inst'[c].limit = inst[c].limit /\ inst'[c].id = inst[c].id
  <1> DEFINE q == [inst[a] EXCEPT !.borrows = n]
  <1>1. /\ q.used = inst[a].used /\ q.owners = inst[a].owners
        /\ q.limit = inst[a].limit /\ q.id = inst[a].id
    BY DEF TypeOK, InstanceRecord
  <1>2. inst' = [inst EXCEPT ![a] = q]
    OBVIOUS
  <1> HIDE DEF q
  <1> QED  BY <1>1, <1>2 DEF TypeOK

\* Nor does a lease, taken or given back.
LEMMA BorrowAccounts ==
    ASSUME OInv, IInv', NEW a \in Instances, NEW o, NEW b \in Slots, o.slot = b,
           NEW x, NEW n, NEW w \in BOOLEAN, cm_borrow(a, o, x, n, w)
    PROVE  Accounts'
  <1> DEFINE r == Lent(buf[a][b], w)
  <1>t. TypeOK
    BY DEF OInv, IInv
  <1>1. /\ buf' = [buf EXCEPT ![a][b] = r]
        /\ inst' = [inst EXCEPT ![a].borrows = inst[a].borrows + 1]
        /\ UNCHANGED total
    BY DEF cm_borrow
  <1>2. r.token = buf[a][b].token /\ r.size = buf[a][b].size
    BY <1>t, LentRecord DEF TypeOK
  <1> HIDE DEF r
  <1> QED  BY <1>t, <1>1, <1>2, BorrowsApart, SizeKept

LEMMA ReleaseAccounts ==
    ASSUME OInv, IInv', NEW a \in Instances, NEW h, h.slot \in LeaseSlots, cm_release(a, h)
    PROVE  Accounts'
  <1> DEFINE v == lease[a][h.slot]
  <1>t. TypeOK /\ v.mutable \in BOOLEAN
    BY DEF OInv, IInv, TypeOK, LeaseRecord
  <1>0. PICK b \in Slots : b = v.buffer
    BY DEF OInv, IInv, TypeOK, LeaseRecord
  <1> DEFINE r == Returned(buf[a][b], v.mutable)
  <1>1. /\ buf' = [buf EXCEPT ![a][b] = r]
        /\ inst' = [inst EXCEPT ![a].borrows = inst[a].borrows - 1]
        /\ UNCHANGED total
    BY <1>0 DEF cm_release
  <1>2. r.token = buf[a][b].token /\ r.size = buf[a][b].size
    BY <1>t, ReturnedRecord DEF TypeOK
  <1> HIDE DEF r
  <1> QED  BY <1>t, <1>1, <1>2, BorrowsApart, SizeKept

\* A new instance takes a table entry without buffers, so it starts at zero
\* because the sums of that entry are zero.
LEMMA CreateAccounts ==
    ASSUME OInv, IInv', NEW limit \in Sizes, NEW buffers \in 1 .. MaxBuffers,
           NEW leases \in 0 .. MaxLeases, cm_create(limit, buffers, leases)
    PROVE  Accounts'
  <1>1. PICK a \in Instances, t \in Tokens :
            /\ inst[a].id = 0
            /\ inst' = [inst EXCEPT ![a] = [id |-> t, limit |-> limit, buffers |-> buffers,
                                            leases |-> leases, used |-> 0, owners |-> 0,
                                            borrows |-> 0]]
            /\ UNCHANGED <<buf, lease, total>>
    BY DEF cm_create, First
  <1>t. TypeOK
    BY DEF OInv, IInv
  <1>2. inst[a].used = 0 /\ inst[a].owners = 0 /\ LiveBuffers(a) = {}
    BY <1>1, <1>t, NothingHeld DEF OInv, Accounts, ClosedIsEmpty
  <1>3. limit \in Nat
    BY MemoryAssumption DEF Sizes
  <1>4. \A c \in Instances : inst[c].used <= inst[c].limit /\ (inst[c].id = 0 => LiveBuffers(c) = {})
    BY AccountsAre DEF OInv, Accounts, ClosedIsEmpty
  <1>5. /\ inst'[a].used = 0 /\ inst'[a].owners = 0 /\ inst'[a].limit = limit
        /\ \A c \in Instances \ {a} : inst'[c] = inst[c]
    BY <1>1, <1>t DEF TypeOK
  <1>6. ASSUME NEW c \in Instances
        PROVE  /\ inst'[c].used = inst[c].used /\ inst'[c].owners = inst[c].owners
               /\ inst'[c].used <= inst'[c].limit
               /\ inst'[c].id = 0 => LiveBuffers(c) = {}
    <2>1. CASE c = a
      BY <2>1, <1>2, <1>3, <1>5
    <2>2. CASE c # a
      BY <2>2, <1>4, <1>5
    <2> QED  BY <2>1, <2>2
  <1> QED  BY <1>1, <1>6, AccountsKept

\* An instance may go when it owns nothing, so it takes no bytes along.
LEMMA DestroyAccounts ==
    ASSUME OInv, IInv', NEW a \in Instances, cm_destroy(a)
    PROVE  Accounts'
  <1>t. TypeOK /\ inst[a] \in InstanceRecord
    BY DEF OInv, IInv, TypeOK
  <1> DEFINE r == [inst[a] EXCEPT !.id = 0, !.limit = 0, !.buffers = 0, !.leases = 0]
  <1>1. inst[a].owners = 0 /\ UNCHANGED <<next, buf, lease, total>>
    BY DEF cm_destroy
  <1>2. inst' = [inst EXCEPT ![a] = r]
    BY <1>t DEF cm_destroy, TypeOK, InstanceRecord
  <1>3. r.id = 0 /\ r.limit = 0 /\ r.used = inst[a].used /\ r.owners = inst[a].owners
    BY <1>t DEF InstanceRecord
  <1> HIDE DEF r
  <1>4. LiveBuffers(a) = {}
    <2>1. Cardinality(LiveBuffers(a)) = 0
      BY <1>1, AccountsAre DEF OInv, Accounts
    <2> QED  BY <2>1, TablesFinite, FS_EmptySet
  <1>5. inst[a].used = 0
    BY <1>t, <1>4, NothingHeld DEF OInv
  <1>6. \A c \in Instances : inst[c].used <= inst[c].limit /\ (inst[c].id = 0 => LiveBuffers(c) = {})
    BY AccountsAre DEF OInv, Accounts, ClosedIsEmpty
  <1>7. \A c \in Instances : inst'[c] = IF c = a THEN r ELSE inst[c]
    BY <1>2, <1>t DEF TypeOK
  <1>8. ASSUME NEW c \in Instances
        PROVE  /\ inst'[c].used = inst[c].used /\ inst'[c].owners = inst[c].owners
               /\ inst'[c].used <= inst'[c].limit
               /\ inst'[c].id = 0 => LiveBuffers(c) = {}
    <2>1. CASE c = a
      BY <2>1, <1>3, <1>4, <1>5, <1>7
    <2>2. CASE c # a
      BY <2>2, <1>6, <1>7
    <2> QED  BY <2>1, <2>2
  <1> QED  BY <1>1, <1>8, AccountsKept

\* A new buffer is booked, within the quota of its instance and of the module.
LEMMA NewAccounts ==
    ASSUME OInv, IInv', NEW a \in Instances, inst[a].id # 0, NEW length \in Sizes,
           cm_new(a, length)
    PROVE  Accounts'
  <1>t. TypeOK /\ inst[a] \in InstanceRecord
    BY DEF OInv, IInv, TypeOK
  <1>1. PICK b \in Slots, t \in Tokens :
            /\ buf[a][b].token = 0
            /\ Fits(length, inst[a].limit, inst[a].used)
            /\ Fits(length, MaxBytes, total)
            /\ cm_issue(t)
            /\ buf' = [buf EXCEPT ![a][b] = [token |-> t, size |-> length, data |-> Blank(length),
                                             readers |-> 0, writers |-> 0]]
            /\ inst' = [inst EXCEPT ![a].used = inst[a].used + length,
                                    ![a].owners = inst[a].owners + 1]
            /\ total' = total + length
            /\ UNCHANGED lease
    BY <1>t DEF cm_new, First, TypeOK, InstanceRecord
  <1> DEFINE r == [token |-> t, size |-> length, data |-> Blank(length),
                   readers |-> 0, writers |-> 0]
  <1>2. r.token # 0 /\ r.token = t /\ r.size = length
    BY DEF Tokens
  <1>3. r = buf'[a][b]
    BY <1>1, <1>t DEF TypeOK
  <1>4. r \in BufferRecord
    BY <1>3 DEF IInv, TypeOK
  <1>5. buf' = [buf EXCEPT ![a][b] = r]
    BY <1>1
  <1> HIDE DEF r
  <1>6. /\ buf[a][b].size = 0 /\ length \in Nat
        /\ inst[a].used \in Int /\ inst[a].limit \in Nat /\ total \in Int /\ MaxBytes \in Nat
    BY <1>1, <1>t, SizesNatural, MemoryAssumption DEF OInv, Accounts, FreeIsEmpty, TypeOK, Sizes
  <1>7. /\ inst[a].used <= inst[a].limit /\ total <= MaxBytes
        /\ inst[a].owners = Cardinality(LiveBuffers(a))
    BY AccountsAre DEF OInv, Accounts
  <1>8. inst[a].used + length <= inst[a].limit /\ total + length <= MaxBytes
    BY <1>1, <1>6, <1>7 DEF Fits
  <1>9. /\ inst'[a].used = inst[a].used + length /\ inst'[a].owners = inst[a].owners + 1
        /\ \A c \in Instances : inst'[c].id = inst[c].id /\ inst'[c].limit = inst[c].limit
        /\ \A c \in Instances \ {a} : inst'[c] = inst[c]
    <2> DEFINE n == [inst[a] EXCEPT !.used = inst[a].used + length, !.owners = inst[a].owners + 1]
    <2>1. /\ n.used = inst[a].used + length /\ n.owners = inst[a].owners + 1
          /\ n.id = inst[a].id /\ n.limit = inst[a].limit
      BY <1>t DEF InstanceRecord
    <2>2. inst' = [inst EXCEPT ![a] = n]
      BY <1>1
    <2> HIDE DEF n
    <2> QED  BY <2>1, <2>2, <1>t DEF TypeOK
  <1>10. inst'[a].owners = Cardinality(LiveBuffers(a)')
    <2>1. b \notin LiveBuffers(a)
      BY <1>1 DEF LiveBuffers
    <2>2. LiveBuffers(a)' = LiveBuffers(a) \cup {b}
      BY <1>2, <1>5, <1>t DEF LiveBuffers, TypeOK
    <2>3. Cardinality(LiveBuffers(a)') = Cardinality(LiveBuffers(a)) + 1
      BY <2>1, <2>2, TablesFinite, OneMore
    <2> QED  BY <2>3, <1>7, <1>9
  <1>11. inst'[a].used = inst[a].used - buf[a][b].size + r.size /\ inst'[a].used <= inst[a].limit
    BY <1>2, <1>6, <1>8, <1>9
  <1>12. total' = total - buf[a][b].size + r.size /\ total' <= MaxBytes
    BY <1>1, <1>2, <1>6, <1>8
  <1> QED  BY <1>2, <1>4, <1>5, <1>9, <1>10, <1>11, <1>12, AccountsBooked

\* A dropped buffer is booked out, with the bytes it was booked in with.
LEMMA DropAccounts ==
    ASSUME OInv, IInv', NEW a \in Instances, inst[a].id # 0, NEW o, NEW b \in Slots,
           o.slot = b, buf[a][b].token # 0, cm_drop(a, o)
    PROVE  Accounts'
  <1> DEFINE r == [buf[a][b] EXCEPT !.token = 0, !.size = 0, !.data = Blank(0)]
             n == [inst[a] EXCEPT !.used = inst[a].used - buf[a][b].size,
                                  !.owners = inst[a].owners - 1]
  <1>t. TypeOK /\ inst[a] \in InstanceRecord
    BY DEF OInv, IInv, TypeOK
  <1>1. /\ buf' = [buf EXCEPT ![a][b] = r]
        /\ total' = total - buf[a][b].size
    BY DEF cm_drop
  <1>2. inst' = [inst EXCEPT ![a] = n]
    BY <1>t DEF cm_drop, TypeOK, InstanceRecord
  <1>3. r.token = 0 /\ r.size = 0
    BY <1>t DEF TypeOK, BufferRecord
  <1>4. r = buf'[a][b]
    BY <1>1, <1>t DEF TypeOK
  <1>5. r \in BufferRecord
    BY <1>4 DEF IInv, TypeOK
  <1>6. /\ n.used = inst[a].used - buf[a][b].size /\ n.owners = inst[a].owners - 1
        /\ n.id = inst[a].id /\ n.limit = inst[a].limit
    BY <1>t DEF InstanceRecord
  <1> HIDE DEF r, n
  <1>7. /\ buf[a][b].size \in Nat /\ inst[a].used \in Int /\ inst[a].limit \in Nat
        /\ total \in Int /\ MaxBytes \in Nat
    BY <1>t, SizesNatural, MemoryAssumption DEF TypeOK
  <1>8. /\ inst[a].used <= inst[a].limit /\ total <= MaxBytes
        /\ inst[a].owners = Cardinality(LiveBuffers(a))
    BY AccountsAre DEF OInv, Accounts
  <1>9. /\ inst'[a].used = inst[a].used - buf[a][b].size /\ inst'[a].owners = inst[a].owners - 1
        /\ \A c \in Instances : inst'[c].id = inst[c].id /\ inst'[c].limit = inst[c].limit
        /\ \A c \in Instances \ {a} : inst'[c] = inst[c]
    BY <1>2, <1>6, <1>t DEF TypeOK
  <1>10. inst'[a].owners = Cardinality(LiveBuffers(a)')
    <2>1. b \in LiveBuffers(a)
      BY DEF LiveBuffers
    <2>2. LiveBuffers(a)' = LiveBuffers(a) \ {b}
      BY <1>1, <1>3, <1>t DEF LiveBuffers, TypeOK
    <2>3. Cardinality(LiveBuffers(a)') = Cardinality(LiveBuffers(a)) - 1
      BY <2>1, <2>2, TablesFinite, FS_RemoveElement
    <2> QED  BY <2>3, <1>8, <1>9
  <1>11. inst'[a].used = inst[a].used - buf[a][b].size + r.size /\ inst'[a].used <= inst[a].limit
    BY <1>3, <1>7, <1>8, <1>9
  <1>12. total' = total - buf[a][b].size + r.size /\ total' <= MaxBytes
    BY <1>1, <1>3, <1>7, <1>8
  <1> QED  BY ZenonT(30), <1>1, <1>3, <1>5, <1>9, <1>10, <1>11, <1>12, AccountsBooked

\* A call on an owner keeps the accounts.
LEMMA OwnerCallsAccounts ==
    ASSUME OInv, IInv', NEW i \in Issued, NEW a \in Instances, InstanceIndex(i, a),
           OwnerCalls(i, a)
    PROVE  Accounts'
  <1>1. PICK o \in Owners(i, a) :
            \/ cm_move(a, o)
            \/ cm_drop(a, o)
            \/ \E x \in Sizes, byte \in Byte : cm_write_byte(a, o, x, byte)
            \/ \E src \in Owners(i, a), to, from, n \in Sizes :
                   cm_copy_range(a, o, to, src, from, n)
            \/ \E to, n \in Sizes : \E bytes \in [0 .. n - 1 -> Byte] :
                   cm_unsafe_import(a, o, to, bytes, n)
            \/ \E x, n \in Sizes, writable \in BOOLEAN : cm_borrow(a, o, x, n, writable)
    BY DEF OwnerCalls
  <1>t. TypeOK
    BY DEF OInv, IInv
  <1>2. PICK b \in Slots : b = o.slot /\ buf[a][b].token # 0 /\ inst[a].id # 0
    BY <1>t, OwnerFacts
  <1>3. CASE cm_move(a, o)
    BY <1>2, <1>3, MoveAccounts
  <1>4. CASE cm_drop(a, o)
    BY <1>2, <1>4, DropAccounts
  <1>5. CASE \E x \in Sizes, byte \in Byte : cm_write_byte(a, o, x, byte)
    BY <1>2, <1>5, StoreAccounts DEF cm_write_byte
  <1>6. CASE \E src \in Owners(i, a), to, from, n \in Sizes :
                 cm_copy_range(a, o, to, src, from, n)
    BY <1>2, <1>6, StoreAccounts DEF cm_copy_range
  <1>7. CASE \E to, n \in Sizes : \E bytes \in [0 .. n - 1 -> Byte] :
                 cm_unsafe_import(a, o, to, bytes, n)
    BY <1>2, <1>7, StoreAccounts DEF cm_unsafe_import
  <1>8. CASE \E x, n \in Sizes, writable \in BOOLEAN : cm_borrow(a, o, x, n, writable)
    BY <1>2, <1>8, BorrowAccounts
  <1> QED  BY <1>1, <1>3, <1>4, <1>5, <1>6, <1>7, <1>8

\* So does a call on a lease.
LEMMA LeaseCallsAccounts ==
    ASSUME OInv, IInv', NEW i \in Issued, NEW a \in Instances, LeaseCalls(i, a)
    PROVE  Accounts'
  <1>1. PICK h \in Leases(i, a) :
            \/ cm_release(a, h)
            \/ \E x \in Sizes, byte \in Byte : cm_lease_write_byte(a, h, x, byte)
            \/ \E src \in Leases(i, a), to, from, n \in Sizes :
                   cm_lease_copy_range(a, h, to, src, from, n)
    BY DEF LeaseCalls
  <1>2. h.slot \in LeaseSlots /\ lease[a][h.slot].buffer \in Slots
    BY LeaseFacts DEF OInv, IInv, LiveLeases, TypeOK, LeaseRecord
  <1>3. CASE cm_release(a, h)
    BY <1>2, <1>3, ReleaseAccounts
  <1>4. CASE \E x \in Sizes, byte \in Byte : cm_lease_write_byte(a, h, x, byte)
    BY <1>2, <1>4, StoreAccounts DEF cm_lease_write_byte
  <1>5. CASE \E src \in Leases(i, a), to, from, n \in Sizes :
                 cm_lease_copy_range(a, h, to, src, from, n)
    BY <1>2, <1>5, StoreAccounts DEF cm_lease_copy_range
  <1> QED  BY <1>1, <1>3, <1>4, <1>5

\* Every step keeps the accounts.
LEMMA StepAccounts == OInv /\ [Next]_vars => Accounts'
  <1> SUFFICES ASSUME OInv, [Next]_vars PROVE Accounts'
    OBVIOUS
  <1>i. IInv'
    BY StepIInv DEF OInv
  <1>1. CASE UNCHANGED vars
    <2>1. UNCHANGED <<inst, buf, total>>
      BY <1>1 DEF vars
    <2>2. \A c \in Instances : inst[c].used <= inst[c].limit /\ (inst[c].id = 0 => LiveBuffers(c) = {})
      BY AccountsAre DEF OInv, Accounts, ClosedIsEmpty
    <2> QED  BY <1>i, <2>1, <2>2, AccountsKept
  <1>2. CASE \E limit \in Sizes, buffers \in 1 .. MaxBuffers, leases \in 0 .. MaxLeases :
                 cm_create(limit, buffers, leases)
    BY <1>i, <1>2, CreateAccounts
  <1>3. ASSUME NEW i \in Issued, NEW a \in Instances, InstanceIndex(i, a),
               \/ cm_destroy(a)
               \/ \E length \in Sizes : cm_new(a, length)
               \/ OwnerCalls(i, a)
               \/ LeaseCalls(i, a)
        PROVE  Accounts'
    <2>1. inst[a].id # 0
      BY <1>3 DEF InstanceIndex
    <2>2. CASE cm_destroy(a)
      BY <1>i, <2>2, DestroyAccounts
    <2>3. CASE \E length \in Sizes : cm_new(a, length)
      BY <1>i, <2>1, <2>3, NewAccounts
    <2>4. CASE OwnerCalls(i, a)
      BY <1>i, <1>3, <2>4, OwnerCallsAccounts
    <2>5. CASE LeaseCalls(i, a)
      BY <1>i, <2>5, LeaseCallsAccounts
    <2> QED  BY <1>3, <2>2, <2>3, <2>4, <2>5
  <1> QED  BY <1>1, <1>2, <1>3 DEF Next

\* The tables start empty, and so do the accounts.
LEMMA InitAccounts == Init => Accounts
  <1> SUFFICES ASSUME Init PROVE Accounts
    OBVIOUS
  <1>1. \A a \in Instances :
            /\ inst[a].id = 0 /\ inst[a].used = 0 /\ inst[a].limit = 0
            /\ inst[a].owners = 0 /\ inst[a].borrows = 0
            /\ \A b \in Slots : buf[a][b].token = 0 /\ buf[a][b].size = 0
            /\ \A l \in LeaseSlots : lease[a][l].token = 0
    BY DEF Init, NoInstance, NoBuffer, NoLease
  <1>2. \A a \in Instances : LiveBuffers(a) = {} /\ LiveLeases(a) = {}
    BY <1>1 DEF LiveBuffers, LiveLeases
  <1>3. \A a \in Instances : Held(a) = 0
    <2> TAKE a \in Instances
    <2> DEFINE f == [b \in Slots |-> buf[a][b].size]
    <2>1. \A b \in Slots : f[b] = 0
      BY <1>1
    <2> HIDE DEF f
    <2>2. SumFunctionOnSet(f, Slots) = 0
      BY <2>1, TablesFinite, SumZero
    <2> QED  BY <2>2 DEF Held, f
  <1>4. HeldByAll = 0
    <2> DEFINE f == [a \in Instances |-> inst[a].used]
    <2>1. \A a \in Instances : f[a] = 0
      BY <1>1
    <2> HIDE DEF f
    <2>2. SumFunctionOnSet(f, Instances) = 0
      BY <2>1, TablesFinite, SumZero
    <2> QED  BY <2>2 DEF HeldByAll, f
  <1>5. total = 0 /\ 0 <= MaxBytes
    BY MemoryAssumption DEF Init
  <1>6. \A a \in Instances : Cardinality(LiveBuffers(a)) = 0 /\ Cardinality(LiveLeases(a)) = 0
    BY <1>2, FS_EmptySet
  <1>7. AccountsExact
    BY <1>1, <1>3, <1>4, <1>5, <1>6, AccountsAre
  <1> QED  BY <1>1, <1>2, <1>7 DEF Accounts, FreeIsEmpty, ClosedIsEmpty

LEMMA AlwaysOInv == Spec => []OInv
  <1>1. Init => Accounts
    BY InitAccounts
  <1>2. IInv /\ TokensUnique /\ Accounts /\ [Next]_vars => Accounts'
    BY StepAccounts DEF OInv
  <1>3. OInv <=> IInv /\ TokensUnique /\ Accounts
    BY DEF OInv
  <1> QED  BY <1>1, <1>2, <1>3, AlwaysIInv, TokensAlwaysUnique, PTL DEF Spec

\* The byte, owner and borrow accounts cm_new and cm_destroy decide from are
\* exact and within the quotas, for all limits: no sequence of calls leaks
\* quota or gives it back twice.
THEOREM AccountsAlwaysExact == Spec => []AccountsExact
  <1>1. OInv => AccountsExact
    BY DEF OInv, Accounts
  <1> QED  BY <1>1, AlwaysOInv, PTL

-----------------------------------------------------------------------------
(* The capabilities of Ownership, read off the tables.                     *)

OwnersNow == UNION {{buf[a][b].token : b \in LiveBuffers(a)} : a \in Instances}
LoansNow == UNION {{LoanOf(lease[a][l]) : l \in LiveLeases(a)} : a \in Instances}

LEMMA OwnersNowAre ==
    ASSUME NEW t
    PROVE  /\ t \in OwnersNow <=>
                  \E a \in Instances, b \in Slots : buf[a][b].token # 0 /\ t = buf[a][b].token
           /\ t \in OwnersNow' <=>
                  \E a \in Instances, b \in Slots : buf'[a][b].token # 0 /\ t = buf'[a][b].token
  BY DEF OwnersNow, LiveBuffers

LEMMA LoansNowAre ==
    ASSUME NEW x
    PROVE  /\ x \in LoansNow <=>
                  \E a \in Instances, l \in LeaseSlots :
                      lease[a][l].token # 0 /\ x = LoanOf(lease[a][l])
           /\ x \in LoansNow' <=>
                  \E a \in Instances, l \in LeaseSlots :
                      lease'[a][l].token # 0 /\ x = LoanOf(lease'[a][l])
  BY DEF LoansNow, LiveLeases

\* An owner token names one buffer and a lease token one lease.
LEMMA OneOfEach ==
    ASSUME TokensUnique, NEW a \in Instances, NEW c \in Instances
    PROVE  /\ \A b, d \in Slots :
                  buf[a][b].token # 0 /\ buf[a][b].token = buf[c][d].token => a = c /\ b = d
           /\ \A l, k \in LeaseSlots :
                  lease[a][l].token # 0 /\ lease[a][l].token = lease[c][k].token => a = c /\ l = k
  <1>1. ASSUME NEW b \in Slots, NEW d \in Slots,
               buf[a][b].token # 0, buf[a][b].token = buf[c][d].token
        PROVE  a = c /\ b = d
    <2> DEFINE p == <<a, "buffer", b>>
               q == <<c, "buffer", d>>
    <2>1. p \in Places /\ q \in Places /\ TokenAt(p) = buf[a][b].token /\ TokenAt(q) = buf[c][d].token
      BY PlaceTokens
    <2> HIDE DEF p, q
    <2>2. p = q
      BY <1>1, <2>1 DEF TokensUnique
    <2> QED  BY <2>2 DEF p, q
  <1>2. ASSUME NEW l \in LeaseSlots, NEW k \in LeaseSlots,
               lease[a][l].token # 0, lease[a][l].token = lease[c][k].token
        PROVE  a = c /\ l = k
    <2> DEFINE p == <<a, "lease", l>>
               q == <<c, "lease", k>>
    <2>1. p \in Places /\ q \in Places /\ TokenAt(p) = lease[a][l].token /\ TokenAt(q) = lease[c][k].token
      BY PlaceTokens
    <2> HIDE DEF p, q
    <2>2. p = q
      BY <1>2, <2>1 DEF TokensUnique
    <2> QED  BY <2>2 DEF p, q
  <1> QED  BY <1>1, <1>2

\* A call that changes no owner token changes no owner.
LEMMA OwnersStay ==
    ASSUME \A c \in Instances, e \in Slots : buf'[c][e].token = buf[c][e].token
    PROVE  OwnersNow' = OwnersNow
  <1>1. ASSUME NEW t PROVE t \in OwnersNow <=> t \in OwnersNow'
    BY OwnersNowAre
  <1> QED  BY <1>1

LEMMA LoansStay ==
    ASSUME UNCHANGED lease
    PROVE  LoansNow' = LoansNow
  <1>1. ASSUME NEW x PROVE x \in LoansNow <=> x \in LoansNow'
    BY LoansNowAre
  <1> QED  BY <1>1

\* Giving one buffer another token exchanges these two owners and no other.
LEMMA OwnerReplaced ==
    ASSUME TypeOK, TokensUnique, NEW a \in Instances, NEW b \in Slots, NEW r,
           buf' = [buf EXCEPT ![a][b] = r]
    PROVE  OwnersNow' = (OwnersNow \ {buf[a][b].token}) \union ({r.token} \ {0})
  <1>1. \A c \in Instances, e \in Slots : buf'[c][e] = IF c = a /\ e = b THEN r ELSE buf[c][e]
    BY DEF TypeOK
  <1>2. ASSUME NEW t \in OwnersNow', t # r.token
        PROVE  t \in OwnersNow /\ t # buf[a][b].token
    <2>1. PICK c \in Instances, e \in Slots : buf'[c][e].token # 0 /\ t = buf'[c][e].token
      BY OwnersNowAre
    <2>2. ~(c = a /\ e = b) /\ buf'[c][e] = buf[c][e]
      BY <1>1, <1>2, <2>1
    <2>3. buf[c][e].token # buf[a][b].token
      BY <2>1, <2>2, OneOfEach
    <2> QED  BY <2>1, <2>2, <2>3, OwnersNowAre
  <1>3. ASSUME NEW t \in OwnersNow, t # buf[a][b].token
        PROVE  t \in OwnersNow'
    <2>1. PICK c \in Instances, e \in Slots : buf[c][e].token # 0 /\ t = buf[c][e].token
      BY OwnersNowAre
    <2>2. ~(c = a /\ e = b) /\ buf'[c][e] = buf[c][e]
      BY <1>1, <1>3, <2>1
    <2> QED  BY <2>1, <2>2, OwnersNowAre
  <1>4. r.token # 0 => r.token \in OwnersNow'
    BY <1>1, OwnersNowAre
  <1>5. 0 \notin OwnersNow'
    BY OwnersNowAre
  <1>6. ASSUME NEW t
        PROVE  t \in OwnersNow' <=> t \in (OwnersNow \ {buf[a][b].token}) \union ({r.token} \ {0})
    BY <1>2, <1>3, <1>4, <1>5
  <1> QED  BY <1>6

\* Filling a free lease slot is one loan more.
LEMMA LoanAdded ==
    ASSUME TypeOK, NEW a \in Instances, NEW l \in LeaseSlots, NEW v,
           lease[a][l].token = 0, v.token # 0, lease' = [lease EXCEPT ![a][l] = v]
    PROVE  LoansNow' = LoansNow \union {LoanOf(v)}
  <1>1. \A c \in Instances, k \in LeaseSlots : lease'[c][k] = IF c = a /\ k = l THEN v ELSE lease[c][k]
    BY DEF TypeOK
  <1>2. ASSUME NEW x PROVE x \in LoansNow' <=> x \in LoansNow \/ x = LoanOf(v)
    <2>1. ASSUME x \in LoansNow' PROVE x \in LoansNow \/ x = LoanOf(v)
      BY <1>1, <2>1, LoansNowAre
    <2>2. ASSUME x \in LoansNow PROVE x \in LoansNow'
      <3>1. PICK c \in Instances, k \in LeaseSlots :
                lease[c][k].token # 0 /\ x = LoanOf(lease[c][k])
        BY <2>2, LoansNowAre
      <3>2. lease'[c][k] = lease[c][k]
        BY <1>1, <3>1
      <3> QED  BY <3>1, <3>2, LoansNowAre
    <2>3. LoanOf(v) \in LoansNow'
      BY <1>1, LoansNowAre
    <2> QED  BY <2>1, <2>2, <2>3
  <1> QED  BY <1>2

\* Emptying one is one loan less: no other lease is the same loan.
LEMMA LoanRemoved ==
    ASSUME TypeOK, TokensUnique, NEW a \in Instances, NEW l \in LeaseSlots,
           lease[a][l].token # 0, lease' = [lease EXCEPT ![a][l] = NoLease]
    PROVE  LoanOf(lease[a][l]) \in LoansNow /\ LoansNow' = LoansNow \ {LoanOf(lease[a][l])}
  <1>1. \A c \in Instances, k \in LeaseSlots :
            lease'[c][k] = IF c = a /\ k = l THEN NoLease ELSE lease[c][k]
    BY DEF TypeOK
  <1>2. NoLease.token = 0
    BY DEF NoLease
  <1>3. LoanOf(lease[a][l]) \in LoansNow
    BY LoansNowAre
  <1>4. ASSUME NEW x \in LoansNow' PROVE x \in LoansNow /\ x # LoanOf(lease[a][l])
    <2>1. PICK c \in Instances, k \in LeaseSlots :
              lease'[c][k].token # 0 /\ x = LoanOf(lease'[c][k])
      BY LoansNowAre
    <2>2. ~(c = a /\ k = l) /\ lease'[c][k] = lease[c][k]
      BY <1>1, <1>2, <2>1
    <2>3. lease[c][k].token # lease[a][l].token
      BY <2>1, <2>2, OneOfEach
    <2>4. x.lease = lease[c][k].token /\ LoanOf(lease[a][l]).lease = lease[a][l].token
      BY <2>1, <2>2 DEF LoanOf
    <2> QED  BY <2>1, <2>2, <2>3, <2>4, LoansNowAre
  <1>5. ASSUME NEW x \in LoansNow, x # LoanOf(lease[a][l]) PROVE x \in LoansNow'
    <2>1. PICK c \in Instances, k \in LeaseSlots :
              lease[c][k].token # 0 /\ x = LoanOf(lease[c][k])
      BY LoansNowAre
    <2>2. ~(c = a /\ k = l) /\ lease'[c][k] = lease[c][k]
      BY <1>1, <1>5, <2>1
    <2> QED  BY <2>1, <2>2, LoansNowAre
  <1> QED  BY <1>3, <1>4, <1>5

\* The loans of a buffer's owner are its leases, in its instance and nowhere
\* else: a lease names the owner token its buffer has, which no other has.
LEMMA LoansOfOwner ==
    ASSUME OInv, NEW a \in Instances, NEW b \in Slots, NEW x \in LoansNow,
           x.owner = buf[a][b].token
    PROVE  \E l \in LiveLeases(a) : lease[a][l].buffer = b /\ x.exclusive = lease[a][l].mutable
  <1>1. PICK c \in Instances, l \in LeaseSlots :
            lease[c][l].token # 0 /\ x = LoanOf(lease[c][l])
    BY LoansNowAre
  <1>2. l \in LiveLeases(c)
    BY <1>1 DEF LiveLeases
  <1> DEFINE d == lease[c][l].buffer
  <1>3. /\ d \in Slots /\ lease[c][l].owner # 0
        /\ buf[c][d].token = lease[c][l].owner
    BY <1>2 DEF OInv, IInv, TypeOK, LeaseRecord, LeasesBacked
  <1>4. x.owner = lease[c][l].owner /\ x.exclusive = lease[c][l].mutable
    BY <1>1 DEF LoanOf
  <1> HIDE DEF d
  <1>5. c = a /\ d = b
    <2>1. TokensUnique /\ buf[c][d].token # 0 /\ buf[c][d].token = buf[a][b].token
      BY <1>3, <1>4 DEF OInv
    <2> QED  BY <1>3, <2>1, OneOfEach
  <1> QED  BY <1>2, <1>4, <1>5 DEF d

\* An issued token is fresh, and is one token more.
LEMMA FreshIssued ==
    ASSUME TypeOK, NEW t \in Tokens, cm_issue(t)
    PROVE  t \in Capabilities!Fresh /\ Issued' = Issued \union {t}
  <1>1. next \in Nat /\ t = next /\ next' = next + 1 /\ next >= 1
    BY MemoryAssumption DEF TypeOK, cm_issue
  <1> QED  BY <1>1 DEF Capabilities!Fresh, Issued

-----------------------------------------------------------------------------
(* Every call is one step of Ownership or none.                            *)

Simulated == Capabilities!Next \/ UNCHANGED Capabilities!vars

\* Nothing happens to the capabilities.
LEMMA NothingShown ==
    ASSUME next' = next, UNCHANGED lease,
           \A c \in Instances, e \in Slots : buf'[c][e].token = buf[c][e].token
    PROVE  Simulated
  <1>1. OwnersNow' = OwnersNow /\ LoansNow' = LoansNow /\ Issued' = Issued
    BY OwnersStay, LoansStay DEF Issued
  <1> QED  BY <1>1 DEF Simulated, Capabilities!vars, OwnersNow, LoansNow

\* A new instance opens a token.
LEMMA CreateShown ==
    ASSUME OInv, NEW limit, NEW buffers, NEW leases, cm_create(limit, buffers, leases)
    PROVE  Simulated
  <1>1. PICK t \in Tokens : cm_issue(t) /\ UNCHANGED <<buf, lease>>
    BY DEF cm_create
  <1>2. t \in Capabilities!Fresh /\ Issued' = Issued \union {t}
    BY <1>1, FreshIssued DEF OInv, IInv
  <1>3. OwnersNow' = OwnersNow /\ LoansNow' = LoansNow
    BY <1>1, OwnersStay, LoansStay
  <1>4. Capabilities!Open(t)
    BY <1>2, <1>3 DEF Capabilities!Open, OwnersNow, LoansNow
  <1> QED  BY <1>2, <1>4 DEF Simulated, Capabilities!Next

\* A new buffer allocates one.
LEMMA NewShown ==
    ASSUME OInv, NEW a \in Instances, NEW length, cm_new(a, length)
    PROVE  Simulated
  <1>1. PICK b \in Slots, t \in Tokens :
            /\ buf[a][b].token = 0
            /\ cm_issue(t)
            /\ buf' = [buf EXCEPT ![a][b] = [token |-> t, size |-> length, data |-> Blank(length),
                                             readers |-> 0, writers |-> 0]]
            /\ UNCHANGED lease
    BY DEF cm_new, First
  <1> DEFINE r == [token |-> t, size |-> length, data |-> Blank(length),
                   readers |-> 0, writers |-> 0]
  <1>2. r.token = t /\ t # 0 /\ buf' = [buf EXCEPT ![a][b] = r]
    BY <1>1 DEF Tokens
  <1> HIDE DEF r
  <1>3. t \in Capabilities!Fresh /\ Issued' = Issued \union {t}
    BY <1>1, FreshIssued DEF OInv, IInv
  <1>4. OwnersNow' = (OwnersNow \ {buf[a][b].token}) \union ({r.token} \ {0})
    BY <1>2, OwnerReplaced DEF OInv, IInv
  <1>5. 0 \notin OwnersNow
    BY OwnersNowAre
  <1>6. OwnersNow' = OwnersNow \union {t} /\ LoansNow' = LoansNow
    BY <1>1, <1>2, <1>4, <1>5, LoansStay
  <1>7. Capabilities!Allocate(t)
    BY <1>3, <1>6 DEF Capabilities!Allocate, OwnersNow, LoansNow
  <1> QED  BY <1>3, <1>7 DEF Simulated, Capabilities!Next

\* Nobody borrows from an idle buffer.
LEMMA NobodyBorrows ==
    ASSUME OInv, NEW a \in Instances, NEW b \in Slots, Idle(a, b)
    PROVE  Capabilities!On(buf[a][b].token) = {}
  <1>1. \A l \in LiveLeases(a) : lease[a][l].buffer # b
    BY IdleMeansUnlent DEF OInv, IInv
  <1>2. \A x \in LoansNow : x.owner # buf[a][b].token
    BY <1>1, LoansOfOwner
  <1> QED  BY <1>2 DEF Capabilities!On, LoansNow

\* The steps of Ownership an owner takes.
LEMMA OwnerStepForms ==
    ASSUME NEW old \in OwnersNow
    PROVE  /\ \A t \in Capabilities!Fresh : Capabilities!Transfer(old, t) => Capabilities!Next
           /\ Capabilities!Free(old) => Capabilities!Next
  <1>1. old \in UNION {{buf[a][b].token : b \in LiveBuffers(a)} : a \in Instances}
    BY DEF OwnersNow
  <1> QED  BY <1>1, Zenon DEF Capabilities!Next

\* Moving a buffer transfers it to the new token.
LEMMA MoveShown ==
    ASSUME OInv, NEW a \in Instances, NEW o, NEW b \in Slots, o.slot = b,
           buf[a][b].token # 0, cm_move(a, o)
    PROVE  Simulated
  <1>1. PICK t \in Tokens :
            /\ Idle(a, b)
            /\ cm_issue(t)
            /\ buf' = [buf EXCEPT ![a][b] = [buf[a][b] EXCEPT !.token = t]]
            /\ UNCHANGED lease
    BY DEF cm_move
  <1>old. PICK old : old = buf[a][b].token
    OBVIOUS
  <1> DEFINE r == [buf[a][b] EXCEPT !.token = t]
  <1>2. r.token = t /\ t # 0 /\ buf' = [buf EXCEPT ![a][b] = r]
    BY <1>1 DEF OInv, IInv, TypeOK, BufferRecord, Tokens
  <1> HIDE DEF r
  <1>3. t \in Capabilities!Fresh /\ Issued' = Issued \union {t}
    BY <1>1, FreshIssued DEF OInv, IInv
  <1>4. OwnersNow' = (OwnersNow \ {old}) \union ({r.token} \ {0})
    <2>1. TypeOK /\ TokensUnique
      BY DEF OInv, IInv
    <2> QED  BY <1>2, <2>1, <1>old, OwnerReplaced
  <1>5. OwnersNow' = (OwnersNow \ {old}) \union {t} /\ LoansNow' = LoansNow
    BY <1>1, <1>2, <1>4, LoansStay
  <1>6. old \in OwnersNow /\ Capabilities!On(old) = {}
    BY <1>1, <1>old, NobodyBorrows, OwnersNowAre
  <1>7. Capabilities!Transfer(old, t)
    BY <1>3, <1>5, <1>6 DEF Capabilities!Transfer, OwnersNow, LoansNow
  <1> QED  BY <1>3, <1>6, <1>7, OwnerStepForms DEF Simulated

\* Dropping it frees it.
LEMMA DropShown ==
    ASSUME OInv, NEW a \in Instances, NEW o, NEW b \in Slots, o.slot = b,
           buf[a][b].token # 0, cm_drop(a, o)
    PROVE  Simulated
  <1>old. PICK old : old = buf[a][b].token
    OBVIOUS
  <1> DEFINE r == [buf[a][b] EXCEPT !.token = 0, !.size = 0, !.data = Blank(0)]
  <1>1. Idle(a, b) /\ buf' = [buf EXCEPT ![a][b] = r] /\ UNCHANGED <<next, lease>>
    BY DEF cm_drop
  <1>2. r.token = 0
    BY DEF OInv, IInv, TypeOK, BufferRecord
  <1> HIDE DEF r
  <1>3. OwnersNow' = (OwnersNow \ {old}) \union ({r.token} \ {0})
    <2>1. TypeOK /\ TokensUnique
      BY DEF OInv, IInv
    <2> QED  BY <1>1, <2>1, <1>old, OwnerReplaced
  <1>4. OwnersNow' = OwnersNow \ {old} /\ LoansNow' = LoansNow /\ Issued' = Issued
    BY <1>1, <1>2, <1>3, LoansStay DEF Issued
  <1>5. old \in OwnersNow /\ Capabilities!On(old) = {}
    BY <1>1, <1>old, NobodyBorrows, OwnersNowAre
  <1>6. Capabilities!Free(old)
    BY <1>4, <1>5 DEF Capabilities!Free, OwnersNow, LoansNow
  <1> QED  BY <1>5, <1>6, OwnerStepForms DEF Simulated

\* A borrow lends it: alone when it is exclusive, beside shared ones when not.
LEMMA BorrowShown ==
    ASSUME OInv, NEW a \in Instances, NEW o, NEW b \in Slots, o.slot = b, o.token = buf[a][b].token,
           buf[a][b].token # 0, NEW x, NEW n, NEW w \in BOOLEAN, cm_borrow(a, o, x, n, w)
    PROVE  Simulated
  <1> DEFINE v(t) == [token |-> t, owner |-> o.token, buffer |-> b, offset |-> x,
                      length |-> n, mutable |-> w]
             old == buf[a][b].token
  <1>t. TypeOK /\ buf[a][b] \in BufferRecord
    BY DEF OInv, IInv, TypeOK
  <1>1. PICK l \in LeaseSlots, t \in Tokens :
            /\ Lendable(a, b, w)
            /\ lease[a][l].token = 0
            /\ cm_issue(t)
            /\ lease' = [lease EXCEPT ![a][l] = v(t)]
            /\ buf' = [buf EXCEPT ![a][b] = Lent(buf[a][b], w)]
    BY DEF cm_borrow, First
  <1>2. /\ v(t).token # 0
        /\ LoanOf(v(t)) = [lease |-> t, owner |-> old, exclusive |-> w]
    BY DEF LoanOf, Tokens
  <1> HIDE DEF v
  <1>3. LoansNow' = LoansNow \union {[lease |-> t, owner |-> old, exclusive |-> w]}
    BY <1>1, <1>2, <1>t, LoanAdded
  <1>4. OwnersNow' = OwnersNow
    <2>1. Lent(buf[a][b], w).token = buf[a][b].token
      BY <1>t, LentRecord
    <2>2. \A c \in Instances, e \in Slots : buf'[c][e].token = buf[c][e].token
      BY <1>1, <1>t, <2>1 DEF TypeOK
    <2> QED  BY <2>2, OwnersStay
  <1>5. t \in Capabilities!Fresh /\ Issued' = Issued \union {t}
    BY <1>1, <1>t, FreshIssued
  <1>6. old \in OwnersNow
    BY OwnersNowAre
  <1>7. IF w THEN Capabilities!On(old) = {} ELSE \A y \in Capabilities!On(old) : ~y.exclusive
    <2>1. CASE w
      <3>1. Idle(a, b)
        BY <1>1, <2>1 DEF Lendable, Idle
      <3> QED  BY <2>1, <3>1, NobodyBorrows
    <2>2. CASE ~w
      <3>1. Cardinality(ExclusiveOn(a, b)) = 0
        BY <1>1 DEF Lendable, OInv, IInv, BorrowsExact
      <3>2. ExclusiveOn(a, b) = {}
        BY <3>1, LeasesFinite, FS_EmptySet
      <3>3. ASSUME NEW y \in LoansNow, y.owner = old PROVE ~y.exclusive
        BY <3>2, <3>3, LoansOfOwner DEF ExclusiveOn
      <3> QED  BY <2>2, <3>3 DEF Capabilities!On, LoansNow
    <2> QED  BY <2>1, <2>2
  <1> HIDE DEF old
  <1>8. Capabilities!Lend(old, t, w)
    BY <1>3, <1>4, <1>5, <1>7 DEF Capabilities!Lend, OwnersNow, LoansNow
  <1> QED  BY <1>5, <1>6, <1>8 DEF Simulated, Capabilities!Next, OwnersNow

\* A release returns the loan.
LEMMA ReleaseShown ==
    ASSUME OInv, NEW a \in Instances, NEW h, h.slot \in LiveLeases(a), cm_release(a, h)
    PROVE  Simulated
  <1> DEFINE v == lease[a][h.slot]
             x == LoanOf(v)
  <1>t. TypeOK /\ TokensUnique
    BY DEF OInv, IInv
  <1>0. PICK l \in LeaseSlots : l = h.slot /\ lease[a][l].token # 0
    BY DEF LiveLeases
  <1>1. v.buffer \in Slots /\ v.mutable \in BOOLEAN
    BY <1>0, <1>t DEF TypeOK, LeaseRecord
  <1>2. /\ lease' = [lease EXCEPT ![a][l] = NoLease]
        /\ buf' = [buf EXCEPT ![a][v.buffer] = Returned(buf[a][v.buffer], v.mutable)]
        /\ next' = next
    BY <1>0 DEF cm_release
  <1>3. x \in LoansNow /\ LoansNow' = LoansNow \ {x}
    BY <1>0, <1>2, <1>t, LoanRemoved
  <1>4. OwnersNow' = OwnersNow /\ Issued' = Issued
    <2>1. \A c \in Instances, e \in Slots : buf'[c][e].token = buf[c][e].token
      BY <1>1, <1>2, <1>t, CountsKeepToken DEF TypeOK
    <2> QED  BY <1>2, <2>1, OwnersStay DEF Issued
  <1> HIDE DEF x
  <1>5. Capabilities!Return(x)
    BY <1>3, <1>4 DEF Capabilities!Return, OwnersNow, LoansNow
  <1> QED  BY <1>3, <1>5 DEF Simulated, Capabilities!Next, LoansNow

\* A write of bytes shows nothing.
LEMMA StoreShown ==
    ASSUME OInv, NEW a \in Instances, NEW b \in Slots, NEW d, Store(a, b, d)
    PROVE  Simulated
  <1> DEFINE r == [buf[a][b] EXCEPT !.data = d]
  <1>1. r.token = buf[a][b].token
    BY DEF OInv, IInv, TypeOK, BufferRecord
  <1>2. buf' = [buf EXCEPT ![a][b] = r] /\ UNCHANGED <<next, lease>>
    BY DEF Store
  <1> HIDE DEF r
  <1>3. \A c \in Instances, e \in Slots : buf'[c][e].token = buf[c][e].token
    BY <1>1, <1>2 DEF OInv, IInv, TypeOK
  <1> QED  BY <1>2, <1>3, NothingShown

\* The calls on an owner.
LEMMA OwnerCallsShown ==
    ASSUME OInv, NEW i \in Issued, NEW a \in Instances, InstanceIndex(i, a),
           OwnerCalls(i, a)
    PROVE  Simulated
  <1>1. PICK o \in Owners(i, a) :
            \/ cm_move(a, o)
            \/ cm_drop(a, o)
            \/ \E x \in Sizes, byte \in Byte : cm_write_byte(a, o, x, byte)
            \/ \E src \in Owners(i, a), to, from, n \in Sizes :
                   cm_copy_range(a, o, to, src, from, n)
            \/ \E to, n \in Sizes : \E bytes \in [0 .. n - 1 -> Byte] :
                   cm_unsafe_import(a, o, to, bytes, n)
            \/ \E x, n \in Sizes, writable \in BOOLEAN : cm_borrow(a, o, x, n, writable)
    BY DEF OwnerCalls
  <1>t. TypeOK
    BY DEF OInv, IInv
  <1>2. PICK b \in Slots : b = o.slot /\ o.token = buf[a][b].token /\ buf[a][b].token # 0
    BY <1>t, OwnerFacts
  <1>3. CASE cm_move(a, o)
    BY <1>2, <1>3, MoveShown
  <1>4. CASE cm_drop(a, o)
    BY <1>2, <1>4, DropShown
  <1>5. CASE \E x \in Sizes, byte \in Byte : cm_write_byte(a, o, x, byte)
    BY <1>2, <1>5, StoreShown DEF cm_write_byte
  <1>6. CASE \E src \in Owners(i, a), to, from, n \in Sizes :
                 cm_copy_range(a, o, to, src, from, n)
    BY <1>2, <1>6, StoreShown DEF cm_copy_range
  <1>7. CASE \E to, n \in Sizes : \E bytes \in [0 .. n - 1 -> Byte] :
                 cm_unsafe_import(a, o, to, bytes, n)
    BY <1>2, <1>7, StoreShown DEF cm_unsafe_import
  <1>8. CASE \E x, n \in Sizes, writable \in BOOLEAN : cm_borrow(a, o, x, n, writable)
    BY <1>2, <1>8, BorrowShown
  <1> QED  BY <1>1, <1>3, <1>4, <1>5, <1>6, <1>7, <1>8

\* The calls on a lease.
LEMMA LeaseCallsShown ==
    ASSUME OInv, NEW i \in Issued, NEW a \in Instances, LeaseCalls(i, a)
    PROVE  Simulated
  <1>1. PICK h \in Leases(i, a) :
            \/ cm_release(a, h)
            \/ \E x \in Sizes, byte \in Byte : cm_lease_write_byte(a, h, x, byte)
            \/ \E src \in Leases(i, a), to, from, n \in Sizes :
                   cm_lease_copy_range(a, h, to, src, from, n)
    BY DEF LeaseCalls
  <1>2. h.slot \in LiveLeases(a) /\ lease[a][h.slot].buffer \in Slots
    BY LeaseFacts DEF OInv, IInv, LiveLeases, TypeOK, LeaseRecord
  <1>3. CASE cm_release(a, h)
    BY <1>2, <1>3, ReleaseShown
  <1>4. CASE \E x \in Sizes, byte \in Byte : cm_lease_write_byte(a, h, x, byte)
    BY <1>2, <1>4, StoreShown DEF cm_lease_write_byte
  <1>5. CASE \E src \in Leases(i, a), to, from, n \in Sizes :
                 cm_lease_copy_range(a, h, to, src, from, n)
    BY <1>2, <1>5, StoreShown DEF cm_lease_copy_range
  <1> QED  BY <1>1, <1>3, <1>4, <1>5

\* Every step of the module.
LEMMA StepShown == OInv /\ [Next]_vars => Simulated
  <1> SUFFICES ASSUME OInv, [Next]_vars PROVE Simulated
    OBVIOUS
  <1>1. CASE UNCHANGED vars
    BY <1>1, NothingShown DEF vars
  <1>2. CASE \E limit \in Sizes, buffers \in 1 .. MaxBuffers, leases \in 0 .. MaxLeases :
                 cm_create(limit, buffers, leases)
    BY <1>2, CreateShown
  <1>3. ASSUME NEW i \in Issued, NEW a \in Instances, InstanceIndex(i, a),
               \/ cm_destroy(a)
               \/ \E length \in Sizes : cm_new(a, length)
               \/ OwnerCalls(i, a)
               \/ LeaseCalls(i, a)
        PROVE  Simulated
    <2>1. CASE cm_destroy(a)
      BY <2>1, NothingShown DEF cm_destroy
    <2>2. CASE \E length \in Sizes : cm_new(a, length)
      BY <2>2, NewShown
    <2>3. CASE OwnerCalls(i, a)
      BY <1>3, <2>3, OwnerCallsShown
    <2>4. CASE LeaseCalls(i, a)
      BY <2>4, LeaseCallsShown
    <2> QED  BY <1>3, <2>1, <2>2, <2>3, <2>4
  <1> QED  BY <1>1, <1>2, <1>3 DEF Next

\* No capability is out before the first call.
LEMMA InitShown == Init => Capabilities!Init
  <1> SUFFICES ASSUME Init PROVE Capabilities!Init
    OBVIOUS
  <1>1. Issued = {}
    BY DEF Init, Issued
  <1>2. \A a \in Instances :
            /\ \A b \in Slots : buf[a][b].token = 0
            /\ \A l \in LeaseSlots : lease[a][l].token = 0
    BY DEF Init, NoBuffer, NoLease
  <1>3. OwnersNow = {} /\ LoansNow = {}
    BY <1>2 DEF OwnersNow, LoansNow, LiveBuffers, LiveLeases
  <1> QED  BY <1>1, <1>3 DEF Capabilities!Init, OwnersNow, LoansNow

\* The slot tables, counts and limits implement the capabilities of Ownership:
\* whatever the callers do, with whatever handles, each call is one allocation,
\* transfer, loan, return or release that Ownership allows, or shows nothing.
THEOREM TablesImplementOwnership == Spec => ImplementsOwnership
  <1>1. Init => Capabilities!Init
    BY InitShown
  <1>2. OInv /\ [Next]_vars => [Capabilities!Next]_(Capabilities!vars)
    BY StepShown DEF Simulated
  <1> QED  BY <1>1, <1>2, AlwaysOInv, PTL DEF Spec, ImplementsOwnership, Capabilities!Spec

\* A loan comes from the lease of a buffer that still has its owner.
LEMMA LoanBacking ==
    ASSUME OInv, NEW x \in LoansNow
    PROVE  /\ x.owner \in OwnersNow /\ x.lease \in Issued
           /\ \E a \in Instances, b \in Slots : buf[a][b].token # 0 /\ x.owner = buf[a][b].token
  <1>1. PICK a \in Instances, l \in LeaseSlots :
            lease[a][l].token # 0 /\ x = LoanOf(lease[a][l])
    BY LoansNowAre
  <1>2. l \in LiveLeases(a)
    BY <1>1 DEF LiveLeases
  <1> DEFINE b == lease[a][l].buffer
  <1>3. b \in Slots /\ buf[a][b].token # 0 /\ x.owner = buf[a][b].token
    BY <1>1, <1>2 DEF OInv, IInv, TypeOK, LeaseRecord, LeasesBacked, LoanOf
  <1>4. x.lease \in Issued
    <2>1. /\ lease[a][l].token \in Nat /\ lease[a][l].token < next /\ next \in Int
          /\ x.lease = lease[a][l].token
      BY <1>1, MemoryAssumption DEF OInv, IInv, TypeOK, LeaseRecord, TokensIssued, LoanOf
    <2> QED  BY <1>1, <2>1 DEF Issued
  <1> HIDE DEF b
  <1> QED  BY <1>3, <1>4, OwnersNowAre

\* What Ownership adds up to holds of the tables: a buffer is lent to one
\* exclusive borrower or to shared ones, and only while it has an owner.
THEOREM LoansSharedXorExclusive ==
    Spec => [](Capabilities!SharedXorExclusive /\ Capabilities!LoansBacked)
  <1>1. ASSUME OInv, NEW x \in LoansNow, NEW y \in LoansNow, x.owner = y.owner, x.exclusive
        PROVE  x = y
    <2>1. PICK a \in Instances, b \in Slots : buf[a][b].token # 0 /\ x.owner = buf[a][b].token
      BY <1>1, LoanBacking
    <2>2. PICK c \in Instances, l \in LeaseSlots :
              lease[c][l].token # 0 /\ x = LoanOf(lease[c][l])
      BY LoansNowAre
    <2>3. PICK d \in Instances, k \in LeaseSlots :
              lease[d][k].token # 0 /\ y = LoanOf(lease[d][k])
      BY LoansNowAre
    <2>4. ASSUME NEW e \in Instances, NEW m \in LeaseSlots, lease[e][m].token # 0,
                 lease[e][m].owner = buf[a][b].token
          PROVE  e = a /\ lease[e][m].buffer = b
      <3>1. m \in LiveLeases(e)
        BY <2>4 DEF LiveLeases
      <3> DEFINE f == lease[e][m].buffer
      <3>2. f \in Slots /\ buf[e][f].token = buf[a][b].token
        BY <1>1, <2>4, <3>1 DEF OInv, IInv, TypeOK, LeaseRecord, LeasesBacked
      <3> HIDE DEF f
      <3>3. TokensUnique
        BY <1>1 DEF OInv
      <3>4. e = a /\ f = b
        BY <2>1, <3>2, <3>3, OneOfEach
      <3> QED  BY <3>4 DEF f
    <2>5. lease[c][l].owner = buf[a][b].token /\ lease[d][k].owner = buf[a][b].token
      BY <1>1, <2>1, <2>2, <2>3 DEF LoanOf
    <2>6. c = a /\ d = a /\ lease[a][l].buffer = b /\ lease[a][k].buffer = b
      BY <2>2, <2>3, <2>4, <2>5
    <2>7. l \in ExclusiveOn(a, b)
      BY <1>1, <2>2, <2>6 DEF LoanOf, ExclusiveOn, LiveLeases
    <2>8. k \in SharedOn(a, b) \/ k \in ExclusiveOn(a, b)
      BY <2>3, <2>6 DEF SharedOn, ExclusiveOn, LiveLeases
    <2>9. IInv
      BY <1>1 DEF OInv
    <2>10. k = l
      BY <2>7, <2>8, <2>9, ExclusiveAlone
    <2> QED  BY <2>2, <2>3, <2>6, <2>10
  <1>2. OInv => Capabilities!SharedXorExclusive
    BY <1>1 DEF Capabilities!SharedXorExclusive, LoansNow
  <1>3. OInv => Capabilities!LoansBacked
    BY LoanBacking DEF Capabilities!LoansBacked, LoansNow, OwnersNow
  <1> QED  BY <1>2, <1>3, AlwaysOInv, PTL
=============================================================================
