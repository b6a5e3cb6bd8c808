----------------------------- MODULE CoreProofs -----------------------------
(* Proofs about ModelMachine, ByteTables and SparseMemory, for every        *)
(* budget, model, input, host and hash.                                     *)
EXTENDS ModelMachine, ByteTables, SparseMemory, SumFacts

-----------------------------------------------------------------------------
(* What core_run holds while it runs.                                       *)

Alive == pc \in {"loop", "actions", "finish"}

\* What a frame may point at.
Place == {"input", "x", "xattr", "blob", "none"} \X Nat
Frame == [b : Place, at : Place, end : Nat]

MachineTypes ==
    /\ pc \in {"loop", "actions", "finish", "done", "dead"}
    /\ xn \in Nat /\ swaps \in Nat
    /\ buffers \in [Buffer -> Nat]
    /\ osel \in {"out", "err"}
    /\ blobs \in Seq(Nat)
    /\ frames \in Seq(Frame)

\* The input of the first pass is the caller's; every later pass has its own.
PassInput ==
    /\ x = IF swaps = 0 THEN Input ELSE <<"x", swaps>>
    /\ xattr = <<"xattr", swaps>>

BlobPlaces == {<<"blob", j - 1>> : j \in 1 .. Len(blobs)}

\* The allocations the machine always has, and those it makes when it needs
\* them.
Always == {Input, x, xattr, <<"regs", 0>>, <<"frames", 0>>} \union BlobPlaces
Sometimes == (Buffer \X {0, 1}) \union ({"stack", "memory", "strings", "resources"} \X {0})

\* There is nothing else on the heap, and the input of the pass and the blobs
\* are as long as the machine thinks.
HeapKnown ==
    /\ Always \subseteq DOMAIN heap
    /\ DOMAIN heap \subseteq Always \union Sometimes
    /\ heap[x] = xn /\ heap[xattr] = xn
    /\ \A j \in 1 .. Len(blobs) : heap[<<"blob", j - 1>>] = blobs[j]

\* A frame borrows from the input of this pass or from a blob.
Borrows(f) ==
    \/ f.b = x /\ f.at = xattr /\ f.end <= xn
    \/ \E j \in 1 .. Len(blobs) : f.b = <<"blob", j - 1>> /\ f.at = None /\ f.end = blobs[j]

FramesBorrow == frames # <<>> /\ \A j \in 1 .. Len(frames) : Borrows(frames[j])

MInv ==
    /\ MachineTypes
    /\ PassInput
    /\ Alive => HeapKnown /\ FramesBorrow
    /\ NothingLeaks

-----------------------------------------------------------------------------
(* Lemmas about the heap.                                                   *)

\* The places the machine always has are none of those it allocates late.
LEMMA PlacesApart ==
    ASSUME MachineTypes, PassInput
    PROVE  /\ Always \intersect Sometimes = {}
           /\ None \notin Always \union Sometimes
           /\ x # xattr
           /\ \A j \in Nat : <<"blob", j>> # x /\ <<"blob", j>> # xattr
           /\ <<"blob", Len(blobs)>> \notin Always \union Sometimes
  <1>1. Len(blobs) \in Nat /\ swaps \in Nat
    BY DEF MachineTypes
  <1>2. \A p \in Always : p[1] \in {"input", "x", "xattr", "regs", "frames", "blob"}
    BY DEF Always, PassInput, Input, BlobPlaces
  <1>3. \A p \in Sometimes : p[1] \in {"out", "err", "scratch", "stack", "memory", "strings", "resources"}
    BY DEF Sometimes, Buffer
  <1>4. \A p \in Always : p[1] = "blob" => p[2] < Len(blobs)
    BY <1>1 DEF Always, PassInput, Input, BlobPlaces
  <1>5. None[1] = "none"
    BY DEF None
  <1>6. x # xattr
    BY <1>1 DEF PassInput, Input
  <1>7. \A j \in Nat : <<"blob", j>> # x /\ <<"blob", j>> # xattr
    BY <1>1 DEF PassInput, Input
  <1>8. Always \intersect Sometimes = {}
    BY <1>2, <1>3
  <1>9. None \notin Always \union Sometimes
    BY <1>2, <1>3, <1>5
  <1>10. <<"blob", Len(blobs)>> \notin Always
    BY <1>1, <1>4
  <1>11. <<"blob", Len(blobs)>> \notin Sometimes
    BY <1>3
  <1> QED  BY <1>6, <1>7, <1>8, <1>9, <1>10, <1>11

-----------------------------------------------------------------------------
(* Every step keeps the invariant.                                          *)

Going == pc \in {"loop", "actions"} /\ pc' \in {"loop", "actions", "finish", "dead"}

\* What the machine always has may be kept while the rest changes.
LEMMA SameHeap ==
    ASSUME MInv, Going, UNCHANGED <<heap, badfree, frames, x, xattr, xn, swaps, blobs>>,
           buffers' \in [Buffer -> Nat], osel' \in {"out", "err"}
    PROVE  MInv'
  <1>1. MachineTypes' /\ PassInput'
    BY DEF MInv, MachineTypes, PassInput, Going
  <1>2. Alive
    BY DEF Alive, Going
  <1>3. HeapKnown'
    BY <1>2 DEF MInv, HeapKnown, Always, BlobPlaces
  <1>4. FramesBorrow'
    BY <1>2 DEF MInv, FramesBorrow, Borrows
  <1>5. NothingLeaks'
    BY DEF MInv, NothingLeaks, Going
  <1> QED  BY <1>1, <1>3, <1>4, <1>5 DEF MInv

\* An allocation made when it is needed is none a frame borrows from.
LEMMA LateAllocation ==
    ASSUME MInv, Going, NEW S \in SUBSET Sometimes, NEW n, heap' = Allocated(heap, S, n),
           UNCHANGED <<badfree, frames, x, xattr, xn, swaps, blobs>>,
           buffers' \in [Buffer -> Nat], osel' \in {"out", "err"}
    PROVE  MInv'
  <1>1. MachineTypes' /\ PassInput'
    BY DEF MInv, MachineTypes, PassInput, Going
  <1>2. Alive /\ HeapKnown /\ FramesBorrow
    BY DEF Alive, Going, MInv
  <1>3. /\ DOMAIN heap' = DOMAIN heap \union S
        /\ \A p \in DOMAIN heap \ S : heap'[p] = heap[p]
    BY DEF Allocated
  <1>4. Always' = Always /\ Sometimes' = Sometimes
    BY DEF Always, BlobPlaces, Sometimes
  <1>5. \A p \in Always : p \in DOMAIN heap \ S
    BY <1>2, PlacesApart DEF MInv, HeapKnown
  <1>6. x \in Always /\ xattr \in Always /\ \A j \in 1 .. Len(blobs) : <<"blob", j - 1>> \in Always
    BY DEF Always, BlobPlaces
  <1>7. HeapKnown'
    BY <1>2, <1>3, <1>4, <1>5, <1>6 DEF HeapKnown
  <1>8. FramesBorrow'
    BY <1>2 DEF FramesBorrow, Borrows
  <1>9. NothingLeaks'
    BY DEF MInv, NothingLeaks, Going
  <1> QED  BY <1>1, <1>7, <1>8, <1>9 DEF MInv

\* A new blob is a place of its own, and what was lent stays.
LEMMA NewBlob ==
    ASSUME MInv, Going, NEW n \in Nat, Blob(n),
           UNCHANGED <<badfree, frames, x, xattr, xn, swaps, osel>>, buffers' \in [Buffer -> Nat]
    PROVE  MInv'
  <1> DEFINE k == Len(blobs)
             new == <<"blob", k>>
  <1>t. MachineTypes /\ PassInput
    BY DEF MInv
  <1>0. /\ k \in Nat /\ blobs' \in Seq(Nat) /\ Len(blobs') = k + 1
        /\ blobs'[k + 1] = n /\ \A j \in 1 .. k : blobs'[j] = blobs[j]
    BY <1>t DEF MachineTypes, Blob
  <1>1. MachineTypes' /\ PassInput'
    BY <1>t, <1>0 DEF MachineTypes, PassInput, Going
  <1>2. Alive /\ HeapKnown /\ FramesBorrow
    BY DEF Alive, Going, MInv
  <1>3. /\ DOMAIN heap' = DOMAIN heap \union {new}
        /\ heap'[new] = n
        /\ \A p \in DOMAIN heap \ {new} : heap'[p] = heap[p]
    BY DEF Blob, Allocated
  <1>4. BlobPlaces' = BlobPlaces \union {new}
    <2>1. \A j \in 1 .. k + 1 : j \in 1 .. k \/ j = k + 1
      BY <1>0
    <2>2. \A j \in 1 .. k : j \in 1 .. k + 1
      BY <1>0
    <2>3. k + 1 \in 1 .. k + 1 /\ (k + 1) - 1 = k
      BY <1>0
    <2> QED  BY <1>0, <2>1, <2>2, <2>3 DEF BlobPlaces
  <1>5. Always' = Always \union {new} /\ Sometimes' = Sometimes
    BY <1>4 DEF Always, Sometimes
  <1>6. \A p \in Always : p \in DOMAIN heap \ {new}
    BY <1>2, <1>t, PlacesApart DEF HeapKnown
  <1>7. x \in Always /\ xattr \in Always /\ \A j \in 1 .. k : <<"blob", j - 1>> \in Always
    BY DEF Always, BlobPlaces
  <1>8. \A j \in 1 .. k + 1 : heap'[<<"blob", j - 1>>] = blobs'[j]
    <2> TAKE j \in 1 .. k + 1
    <2>1. CASE j \in 1 .. k
      BY <1>0, <1>2, <1>3, <1>6, <1>7, <2>1 DEF HeapKnown
    <2>2. CASE j = k + 1
      <3>1. j - 1 = k
        BY <1>0, <2>2
      <3> QED  BY <1>0, <1>3, <2>2, <3>1
    <2> QED  BY <1>0, <2>1, <2>2
  <1>9. HeapKnown'
    BY <1>0, <1>2, <1>3, <1>5, <1>6, <1>7, <1>8 DEF HeapKnown
  <1>10. \A f : Borrows(f) => Borrows(f)'
    BY <1>0 DEF Borrows
  <1>11. FramesBorrow'
    BY <1>2, <1>10 DEF FramesBorrow
  <1>12. NothingLeaks'
    BY DEF MInv, NothingLeaks, Going
  <1> QED  BY <1>1, <1>9, <1>11, <1>12 DEF MInv

\* Frames may come and go as long as one is left and each borrows.
LEMMA NewFrames ==
    ASSUME MInv, Going, UNCHANGED <<heap, badfree, tables, buffers>>,
           frames' \in Seq(Frame), frames' # <<>>,
           \A j \in 1 .. Len(frames') : Borrows(frames'[j])
    PROVE  MInv'
  <1>1. MachineTypes' /\ PassInput'
    BY DEF MInv, MachineTypes, PassInput, Going, tables
  <1>2. HeapKnown'
    BY DEF MInv, Alive, Going, HeapKnown, Always, BlobPlaces, tables
  <1>3. FramesBorrow'
    BY DEF FramesBorrow, Borrows, tables
  <1>4. NothingLeaks'
    BY DEF MInv, NothingLeaks, Going
  <1> QED  BY <1>1, <1>2, <1>3, <1>4 DEF MInv

LEMMA PushStep ==
    ASSUME MInv, NEW f \in Frame, Borrows(f), PushFrame(f)
    PROVE  MInv'
  <1>1. Going /\ UNCHANGED <<heap, badfree, tables, buffers>>
    BY DEF PushFrame, Acts, Going, control
  <1>2. frames \in Seq(Frame) /\ FramesBorrow
    BY DEF MInv, MachineTypes, Alive, PushFrame, Acts
  <1>3. /\ frames' \in Seq(Frame) /\ frames' # <<>>
        /\ Len(frames') = Len(frames) + 1
        /\ frames'[Len(frames) + 1] = f
        /\ \A j \in 1 .. Len(frames) : frames'[j] = frames[j]
    BY <1>2 DEF PushFrame
  <1>4. \A j \in 1 .. Len(frames') : Borrows(frames'[j])
    BY <1>2, <1>3 DEF FramesBorrow
  <1> QED  BY <1>1, <1>3, <1>4, NewFrames

\* INPUSH lends a blob, INPUSHX a part of the input.
LEMMA InPushStep ==
    ASSUME MInv, InPush
    PROVE  MInv'
  <1>t. MachineTypes /\ PassInput
    BY DEF MInv
  <1>1. ASSUME NEW j \in DOMAIN blobs,
               PushFrame([b |-> <<"blob", j - 1>>, at |-> None, end |-> blobs[j]])
        PROVE  MInv'
    <2> DEFINE f == [b |-> <<"blob", j - 1>>, at |-> None, end |-> blobs[j]]
    <2>1. j \in 1 .. Len(blobs) /\ j - 1 \in Nat /\ blobs[j] \in Nat
      BY <1>t DEF MachineTypes
    <2>2. f \in Frame
      BY <2>1 DEF Frame, Place, None
    <2>3. Borrows(f)
      BY <2>1 DEF Borrows
    <2> HIDE DEF f
    <2>4. PushFrame(f)
      BY <1>1 DEF f
    <2> QED  BY <2>2, <2>3, <2>4, PushStep
  <1>2. ASSUME NEW n \in 0 .. xn, PushFrame([b |-> x, at |-> xattr, end |-> n])
        PROVE  MInv'
    <2>0. PICK f : f = [b |-> x, at |-> xattr, end |-> n]
      OBVIOUS
    <2>1. n \in Nat /\ n <= xn /\ x \in Place /\ xattr \in Place
      BY <1>t DEF MachineTypes, PassInput, Place, Input
    <2>2. f \in Frame
      BY <2>0, <2>1 DEF Frame
    <2>3. Borrows(f)
      BY <2>0, <2>1 DEF Borrows
    <2>4. PushFrame(f)
      BY <1>2, <2>0
    <2> QED  BY <2>2, <2>3, <2>4, PushStep
  <1> QED  BY <1>1, <1>2 DEF InPush

\* core_frame_pop never pops the last frame.
LEMMA InPopStep ==
    ASSUME MInv, InPop
    PROVE  MInv'
  <1>1. Going /\ UNCHANGED <<heap, badfree, tables, buffers>>
    BY DEF InPop, Acts, Going, control
  <1>2. frames \in Seq(Frame) /\ FramesBorrow
    BY DEF MInv, MachineTypes, Alive, InPop, Acts
  <1>3. /\ frames' \in Seq(Frame) /\ frames' # <<>>
        /\ Len(frames') <= Len(frames) /\ Len(frames') \in Nat
        /\ \A j \in 1 .. Len(frames') : frames'[j] = frames[j]
    <2>1. CASE Len(frames) > 1
      <3>1. frames' = SubSeq(frames, 1, Len(frames) - 1)
        BY <2>1 DEF InPop, Front
      <3>2. Len(frames) \in Nat
        BY <1>2
      <3>3. /\ frames' \in Seq(Frame) /\ Len(frames') = Len(frames) - 1
            /\ \A j \in 1 .. Len(frames) - 1 : frames'[j] = frames[j]
        BY <1>2, <2>1, <3>1, <3>2
      <3> QED  BY <2>1, <3>2, <3>3
    <2>2. CASE ~(Len(frames) > 1)
      BY <1>2, <2>2 DEF InPop, FramesBorrow
    <2> QED  BY <2>1, <2>2
  <1>4. \A j \in 1 .. Len(frames') : Borrows(frames'[j])
    <2>1. Len(frames) \in Nat
      BY <1>2
    <2> QED  BY <1>2, <1>3, <2>1 DEF FramesBorrow
  <1> QED  BY <1>1, <1>3, <1>4, NewFrames

\* The old pass is freed and the new one takes its place: nothing else pointed
\* at it but the frames, which go with it.
LEMMA SwapStep ==
    ASSUME MInv, Swap
    PROVE  MInv'
  <1> DEFINE new == <<"x", swaps + 1>>
             newat == <<"xattr", swaps + 1>>
             n == buffers["out"]
             old == {x, xattr} \ {Input}
  <1>1. /\ pc \in {"loop", "actions"} /\ pc' = pc
        /\ heap' = Allocated([a \in DOMAIN heap \ old |-> heap[a]], {new, newat}, n)
        /\ badfree' = (badfree \/ ~(old \subseteq DOMAIN heap))
        /\ x' = new /\ xattr' = newat /\ xn' = n /\ swaps' = swaps + 1
        /\ frames' = <<[b |-> new, at |-> newat, end |-> n]>>
        /\ buffers' = [buffers EXCEPT !["out"] = 0]
        /\ UNCHANGED <<osel, blobs>>
    BY DEF Swap, Rebased
  <1>2. MachineTypes /\ PassInput /\ HeapKnown /\ ~badfree
    BY <1>1 DEF MInv, Alive, NothingLeaks
  <1>3. swaps \in Nat /\ n \in Nat /\ Len(blobs) \in Nat
    BY <1>2 DEF MachineTypes, Buffer
  <1>4. new \in Place /\ newat \in Place /\ new # newat /\ new # Input /\ newat # Input
    BY <1>3 DEF Place, Input
  <1> HIDE DEF new, newat
  <1>5. PassInput'
    BY <1>1, <1>3 DEF PassInput, new, newat
  <1>6. MachineTypes'
    <2>1. [b |-> new, at |-> newat, end |-> n] \in Frame
      BY <1>3, <1>4 DEF Frame
    <2>2. buffers' \in [Buffer -> Nat]
      BY <1>1, <1>2 DEF MachineTypes
    <2>3. swaps' \in Nat /\ xn' \in Nat
      BY <1>1, <1>3
    <2>4. frames' \in Seq(Frame)
      BY <1>1, <2>1
    <2> QED  BY <1>1, <1>2, <2>2, <2>3, <2>4 DEF MachineTypes
  <1>7. old \subseteq Always /\ old \subseteq DOMAIN heap
    BY <1>2 DEF HeapKnown, Always
  <1>8. DOMAIN heap' = (DOMAIN heap \ old) \union {new, newat}
    BY <1>1 DEF Allocated
  <1>9. Always' = {Input, new, newat, <<"regs", 0>>, <<"frames", 0>>} \union BlobPlaces
    BY <1>1 DEF Always, BlobPlaces
  <1>10. \A p \in BlobPlaces \union {<<"regs", 0>>, <<"frames", 0>>, Input} : p \notin old
    BY <1>2, <1>3 DEF BlobPlaces, PassInput, Input
  <1>11. Always' \subseteq DOMAIN heap'
    BY <1>2, <1>8, <1>9, <1>10 DEF HeapKnown, Always
  <1>12. DOMAIN heap' \subseteq Always' \union Sometimes'
    <2>1. ASSUME NEW p \in DOMAIN heap \ old PROVE p \in Always' \union Sometimes'
      BY <1>2, <1>9 DEF HeapKnown, Always, Sometimes
    <2> QED  BY <1>8, <1>9, <2>1
  <1>13. heap'[x'] = xn' /\ heap'[xattr'] = xn'
    BY <1>1 DEF Allocated
  <1>14. \A j \in 1 .. Len(blobs') : heap'[<<"blob", j - 1>>] = blobs'[j]
    <2> SUFFICES ASSUME NEW j \in 1 .. Len(blobs) PROVE heap'[<<"blob", j - 1>>] = blobs[j]
      BY <1>1
    <2> DEFINE p == <<"blob", j - 1>>
    <2>1. p \in BlobPlaces /\ p \notin {new, newat}
      BY DEF BlobPlaces, new, newat
    <2>2. p \in DOMAIN heap \ old
      BY <1>2, <1>10, <2>1 DEF HeapKnown, Always
    <2>3. heap[p] = blobs[j]
      BY <1>2 DEF HeapKnown
    <2> HIDE DEF p
    <2>4. heap'[p] = heap[p]
      BY <1>1, <2>1, <2>2 DEF Allocated
    <2> QED  BY <2>3, <2>4 DEF p
  <1>15. HeapKnown'
    BY <1>11, <1>12, <1>13, <1>14 DEF HeapKnown
  <1>16. FramesBorrow'
    <2>1. frames'[1] = [b |-> x', at |-> xattr', end |-> n] /\ Len(frames') = 1 /\ frames' # <<>>
      BY <1>1
    <2>2. \A j \in 1 .. Len(frames') : j = 1
      BY <2>1
    <2>3. Borrows(frames[1])'
      BY <1>1, <1>3, <2>1 DEF Borrows
    <2> QED  BY <2>1, <2>2, <2>3 DEF FramesBorrow
  <1>17. NothingLeaks'
    BY <1>1, <1>2, <1>7 DEF NothingLeaks
  <1> QED  BY <1>5, <1>6, <1>15, <1>16, <1>17 DEF MInv

\* At the end everything the machine has is in the result or freed, and was
\* there to be freed.
LEMMA FinishStep ==
    ASSUME MInv, Finish
    PROVE  MInv'
  <1> DEFINE H == {HandedOver.out, HandedOver.err}
             F == Freed(H)
             Blobs == {"blob"} \X (0 .. Len(blobs) - 1)
             Own == {xattr, <<"regs", 0>>, <<"frames", 0>>} \union ({x} \ {Input}) \union Blobs
  <1>1. /\ pc = "finish" /\ pc' = "done"
        /\ result' = HandedOver
        /\ heap' = [a \in DOMAIN heap \ F |-> heap[a]]
        /\ badfree' = (badfree \/ ~(F \subseteq DOMAIN heap))
        /\ UNCHANGED <<steps, left, frames, tables, buffers, status>>
    BY DEF Finish, Free
  <1>2. MachineTypes /\ PassInput /\ HeapKnown /\ ~badfree
    BY <1>1 DEF MInv, Alive, NothingLeaks
  <1>3. Len(blobs) \in Nat /\ swaps \in Nat
    BY <1>2 DEF MachineTypes
  <1>4. Blobs = BlobPlaces
    <2>1. ASSUME NEW j \in 1 .. Len(blobs) PROVE <<"blob", j - 1>> \in Blobs
      BY <1>3
    <2>2. ASSUME NEW j \in 0 .. Len(blobs) - 1 PROVE <<"blob", j>> \in BlobPlaces
      <3>1. j + 1 \in 1 .. Len(blobs) /\ (j + 1) - 1 = j
        BY <1>3
      <3> QED  BY <3>1 DEF BlobPlaces
    <2>3. \A p \in Blobs : \E j \in 0 .. Len(blobs) - 1 : p = <<"blob", j>>
      OBVIOUS
    <2> HIDE DEF Blobs
    <2> QED  BY <2>1, <2>2, <2>3 DEF BlobPlaces
  <1>5. F = (Sometimes \intersect (DOMAIN heap \ H)) \union Own
    BY DEF Freed, Sometimes
  <1> HIDE DEF Blobs
  <1>6. Always = Own \union {Input} /\ Input \notin Own
    BY <1>2, <1>3, <1>4 DEF Always, PassInput, Input, BlobPlaces
  <1> HIDE DEF F, Own
  <1>7. F \subseteq DOMAIN heap
    BY <1>2, <1>5, <1>6 DEF HeapKnown
  <1>8. /\ HandedOver.out # None => HandedOver.out \in Sometimes \intersect DOMAIN heap
        /\ HandedOver.err # None => HandedOver.err \in Sometimes \intersect DOMAIN heap
    BY DEF HandedOver, Sometimes, Buffer
  <1>9. None \notin DOMAIN heap
    BY <1>2, PlacesApart DEF HeapKnown
  <1>10. Input \in DOMAIN heap /\ Input \notin Sometimes
    BY <1>2, <1>6, PlacesApart DEF HeapKnown
  <1>11. DOMAIN heap \ F = ({Input} \union H) \ {None}
    BY <1>2, <1>5, <1>6, <1>8, <1>9, <1>10, PlacesApart DEF HeapKnown
  <1>12. DOMAIN heap' = ({Input, result'.out, result'.err} \ {None})
    BY <1>1, <1>11
  <1>13. NothingLeaks'
    BY <1>1, <1>2, <1>7, <1>12 DEF NothingLeaks
  <1>14. MachineTypes' /\ PassInput'
    BY <1>1, <1>2 DEF MachineTypes, PassInput, tables
  <1>15. ~Alive'
    BY <1>1 DEF Alive
  <1> QED  BY <1>13, <1>14, <1>15 DEF MInv

\* The buffers keep their lengths in the numbers.
LEMMA BuffersTyped ==
    ASSUME buffers \in [Buffer -> Nat], NEW o \in Buffer, NEW n \in Nat,
           buffers' = [buffers EXCEPT ![o] = n]
    PROVE  buffers' \in [Buffer -> Nat]
  OBVIOUS

LEMMA BytesNatural == MaxLength \in Nat /\ MaxActions \in Nat
  BY MachineAssumption

\* Writes allocate both arrays of a buffer at most.
LEMMA PutStep ==
    ASSUME MInv, NEW o \in Buffer, NEW n \in 1 .. MaxLength, Put(o, n)
    PROVE  MInv'
  <1>1. Going /\ UNCHANGED <<badfree, frames, x, xattr, xn, swaps, blobs, osel>>
    BY DEF Put, Acts, Going, control, tables
  <1>2. /\ heap' = Allocated(heap, {<<o, 0>>, <<o, 1>>}, MaxLength)
        /\ {<<o, 0>>, <<o, 1>>} \in SUBSET Sometimes
    BY DEF Put, Sometimes
  <1>3. buffers' \in [Buffer -> Nat]
    <2>1. buffers \in [Buffer -> Nat] /\ buffers[o] + n \in Nat
      BY BytesNatural DEF MInv, MachineTypes
    <2> QED  BY <2>1 DEF Put
  <1>4. osel' \in {"out", "err"}
    BY <1>1 DEF MInv, MachineTypes
  <1> QED  BY <1>1, <1>2, <1>3, <1>4, LateAllocation

\* The rest only reads, counts or selects.
LEMMA QuietStep ==
    ASSUME MInv,
           Transition \/ Timeout \/ Sequenced \/ Compute \/ Shorten \/ Select \/ Pop
               \/ Accept \/ Reject \/ BadFill
    PROVE  MInv'
  <1>t. buffers \in [Buffer -> Nat] /\ osel \in {"out", "err"}
    BY DEF MInv, MachineTypes
  <1>1. CASE Transition \/ Timeout \/ Sequenced \/ Compute \/ Accept \/ Reject \/ BadFill
    <2>1. Going /\ UNCHANGED <<heap, badfree, frames, x, xattr, xn, swaps, blobs, buffers, osel>>
      BY <1>1 DEF Transition, Timeout, Sequenced, Compute, Accept, Reject, BadFill, Ends, Dies,
                  Acts, Going, control, tables
    <2> QED  BY <1>t, <2>1, SameHeap
  <1>2. CASE Shorten
    <2>1. Going /\ UNCHANGED <<heap, badfree, frames, x, xattr, xn, swaps, blobs, osel>>
      BY <1>2 DEF Shorten, Acts, Going, control, tables
    <2>2. buffers' \in [Buffer -> Nat]
      BY <1>2, <1>t DEF Shorten
    <2> QED  BY <1>t, <2>1, <2>2, SameHeap
  <1>3. CASE Select
    <2>1. Going /\ UNCHANGED <<heap, badfree, frames, x, xattr, xn, swaps, blobs, buffers>>
      BY <1>3 DEF Select, Acts, Going, control
    <2>2. osel' \in {"out", "err"}
      BY <1>3 DEF Select
    <2> QED  BY <1>t, <2>1, <2>2, SameHeap
  <1>4. CASE Pop
    <2>1. Going /\ UNCHANGED <<heap, badfree, frames, x, xattr, xn, swaps, blobs, buffers, osel>>
      BY <1>4 DEF Pop, Dies, Acts, Going, control, tables
    <2> QED  BY <1>t, <2>1, SameHeap
  <1> QED  BY <1>1, <1>2, <1>3, <1>4

\* OCUT and the saves make a blob, STX, INTERN and PUSH a table.
LEMMA GrowStep ==
    ASSUME MInv, Cut \/ Save \/ Push \/ Record
    PROVE  MInv'
  <1>t. buffers \in [Buffer -> Nat] /\ osel \in {"out", "err"} /\ buffers["out"] \in Nat
    BY DEF MInv, MachineTypes, Buffer
  <1>1. CASE Cut
    <2>1. PICK n \in 0 .. buffers["out"] :
              Blob(n) /\ buffers' = [buffers EXCEPT !["out"] = buffers["out"] - n]
      BY <1>1 DEF Cut
    <2>2. Going /\ UNCHANGED <<badfree, frames, x, xattr, xn, swaps, osel>>
      BY <1>1 DEF Cut, Acts, Going, control
    <2>3. n \in Nat /\ buffers["out"] - n \in Nat /\ "out" \in Buffer
      BY <1>t DEF Buffer
    <2>4. buffers' \in [Buffer -> Nat]
      BY <1>t, <2>1, <2>3, BuffersTyped
    <2> QED  BY <2>1, <2>2, <2>3, <2>4, NewBlob
  <1>2. CASE Save
    <2>1. PICK n \in 0 .. MaxLength : Blob(n)
      BY <1>2 DEF Save
    <2>2. Going /\ UNCHANGED <<badfree, frames, x, xattr, xn, swaps, osel, buffers>>
      BY <1>2 DEF Save, Acts, Going, control
    <2>3. n \in Nat
      BY <2>1, BytesNatural
    <2> QED  BY <1>t, <2>1, <2>2, <2>3, NewBlob
  <1>3. CASE Push
    <2>1. Going /\ UNCHANGED <<badfree, frames, x, xattr, xn, swaps, osel, blobs, buffers>>
      BY <1>3 DEF Push, Acts, Going, control
    <2>2. heap' = Allocated(heap, {<<"stack", 0>>}, 0) /\ {<<"stack", 0>>} \in SUBSET Sometimes
      BY <1>3 DEF Push, Sometimes
    <2> QED  BY <1>t, <2>1, <2>2, LateAllocation
  <1>4. CASE Record
    <2>1. Going /\ UNCHANGED <<badfree, frames, x, xattr, xn, swaps, osel, blobs, buffers>>
      BY <1>4 DEF Record, Acts, Going, control, tables
    <2>2. PICK t \in {"memory", "strings", "resources"} : heap' = Allocated(heap, {<<t, 0>>}, 0)
      BY <1>4 DEF Record
    <2>3. {<<t, 0>>} \in SUBSET Sometimes
      BY DEF Sometimes
    <2> QED  BY <1>t, <2>1, <2>2, <2>3, LateAllocation
  <1> QED  BY <1>1, <1>2, <1>3, <1>4

LEMMA StepMInv == MInv /\ [MachineNext]_machinevars => MInv'
  <1> SUFFICES ASSUME MInv, [MachineNext]_machinevars PROVE MInv'
    OBVIOUS
  <1>1. CASE UNCHANGED machinevars
    BY <1>1 DEF machinevars, MInv, MachineTypes, PassInput, Alive, HeapKnown, Always, BlobPlaces,
                FramesBorrow, Borrows, NothingLeaks
  <1>2. CASE Out \/ Reserve \/ Scratch
    <2>1. osel \in Buffer
      BY DEF MInv, MachineTypes, Buffer
    <2> QED  BY <1>2, <2>1, PutStep DEF Out, Reserve, Scratch, Buffer
  <1>3. CASE Transition \/ Timeout \/ Sequenced \/ Compute \/ Shorten \/ Select \/ Pop
                 \/ Accept \/ Reject \/ BadFill
    BY <1>3, QuietStep
  <1>4. CASE Cut \/ Save \/ Push \/ Record
    BY <1>4, GrowStep
  <1>5. CASE InPush \/ InPop
    BY <1>5, InPushStep, InPopStep
  <1> QED  BY <1>1, <1>2, <1>3, <1>4, <1>5, SwapStep, FinishStep DEF MachineNext

\* core_run starts with the frame of its input and what it always has.
LEMMA InitMInv == MachineInit => MInv
  <1> SUFFICES ASSUME MachineInit PROVE MInv
    OBVIOUS
  <1>1. PICK n \in 0 .. MaxLength :
            /\ pc = "loop"
            /\ heap = [a \in {Input, <<"xattr", 0>>, <<"regs", 0>>, <<"frames", 0>>,
                              <<"blob", 0>>, <<"blob", 1>>} |->
                          IF a \in {Input, <<"xattr", 0>>} THEN n ELSE 0]
            /\ badfree = FALSE
            /\ frames = <<[b |-> Input, at |-> <<"xattr", 0>>, end |-> n]>>
            /\ x = Input /\ xattr = <<"xattr", 0>> /\ xn = n /\ swaps = 0
            /\ buffers = [o \in Buffer |-> 0]
            /\ osel = "out"
            /\ blobs = <<0, 0>>
    BY DEF MachineInit
  <1>2. n \in Nat
    BY BytesNatural
  <1>3. MachineTypes
    <2>1. [b |-> Input, at |-> <<"xattr", 0>>, end |-> n] \in Frame
      BY <1>2 DEF Frame, Place, Input
    <2> QED  BY <1>1, <1>2, <2>1 DEF MachineTypes
  <1>4. PassInput
    BY <1>1 DEF PassInput
  <1>5. Len(blobs) = 2 /\ blobs[1] = 0 /\ blobs[2] = 0 /\ \A j \in 1 .. 2 : j = 1 \/ j = 2
    BY <1>1
  <1>6. BlobPlaces = {<<"blob", 0>>, <<"blob", 1>>}
    <2>1. 1 - 1 = 0 /\ 2 - 1 = 1 /\ 1 \in 1 .. 2 /\ 2 \in 1 .. 2
      OBVIOUS
    <2> QED  BY <1>5, <2>1 DEF BlobPlaces
  <1>7. HeapKnown
    <2>1. DOMAIN heap = Always
      BY <1>1, <1>6 DEF Always
    <2>2. heap[x] = xn /\ heap[xattr] = xn
      BY <1>1
    <2>3. heap[<<"blob", 0>>] = 0 /\ heap[<<"blob", 1>>] = 0
      BY <1>1 DEF Input
    <2>4. \A j \in 1 .. Len(blobs) : heap[<<"blob", j - 1>>] = blobs[j]
      BY <1>5, <2>3
    <2> QED  BY <2>1, <2>2, <2>4 DEF HeapKnown
  <1>8. FramesBorrow
    <2>1. frames # <<>> /\ Len(frames) = 1 /\ frames[1].b = x /\ frames[1].at = xattr
          /\ frames[1].end <= xn
      BY <1>1, <1>2
    <2> QED  BY <2>1 DEF FramesBorrow, Borrows
  <1>9. NothingLeaks
    BY <1>1 DEF NothingLeaks
  <1> QED  BY <1>3, <1>4, <1>7, <1>8, <1>9 DEF MInv

LEMMA AlwaysMInv == MachineSpec => []MInv
  BY InitMInv, StepMInv, PTL DEF MachineSpec

\* Whatever model runs, every frame on the stack borrows bytes and attributes
\* that are live and as long as the frame.
THEOREM FramesAlwaysBacked == MachineSpec => []FramesBacked
  <1>1. MInv => FramesBacked
    <2> SUFFICES ASSUME MInv, Running PROVE FramesBacked
      BY DEF FramesBacked
    <2>1. MachineTypes /\ PassInput /\ HeapKnown /\ FramesBorrow
      BY DEF MInv, Running, Alive
    <2>2. ASSUME NEW j \in DOMAIN frames
          PROVE  LET f == frames[j] IN
                 /\ f.b \in DOMAIN heap /\ f.end <= heap[f.b]
                 /\ f.at # None => f.at \in DOMAIN heap /\ f.end <= heap[f.at]
      <3>1. frames[j] \in Frame /\ Borrows(frames[j])
        BY <2>1 DEF MachineTypes, FramesBorrow
      <3>2. frames[j].end \in Nat
        BY <3>1 DEF Frame
      <3>3. Always \subseteq DOMAIN heap
        BY <2>1 DEF HeapKnown
      <3>4. CASE frames[j].b = x /\ frames[j].at = xattr /\ frames[j].end <= xn
        BY <2>1, <3>2, <3>3, <3>4 DEF HeapKnown, Always
      <3>5. ASSUME NEW k \in 1 .. Len(blobs),
                   frames[j].b = <<"blob", k - 1>>, frames[j].at = None, frames[j].end = blobs[k]
            PROVE  /\ frames[j].b \in DOMAIN heap /\ frames[j].end <= heap[frames[j].b]
                   /\ frames[j].at = None
        <4>1. <<"blob", k - 1>> \in Always
          BY DEF Always, BlobPlaces
        <4>2. heap[<<"blob", k - 1>>] = blobs[k]
          BY <2>1 DEF HeapKnown
        <4> QED  BY <3>2, <3>3, <3>5, <4>1, <4>2
      <3> QED  BY <3>1, <3>4, <3>5 DEF Borrows
    <2> QED  BY <2>1, <2>2 DEF FramesBacked, FramesBorrow
  <1> QED  BY <1>1, AlwaysMInv, PTL

\* However a run ends, after any number of passes, what it allocated is freed
\* once or is in the result.
THEOREM NothingEverLeaks == MachineSpec => []NothingLeaks
  <1>1. MInv => NothingLeaks
    BY DEF MInv
  <1> QED  BY <1>1, AlwaysMInv, PTL

-----------------------------------------------------------------------------
(* Resources.                                                               *)

Resource == [p : Name, id : Nat]

\* A name is remembered once, and every answer given is one that is remembered.
FindsKnown ==
    /\ resources \in Seq(Resource)
    /\ blobtable \in Seq(Bytes \union {Absent})
    /\ \A j, k \in 1 .. Len(resources) : resources[j].p = resources[k].p => j = k
    /\ \A a \in Answers("find") :
           \E j \in 1 .. Len(resources) : a[2] = resources[j].p /\ a[3] = resources[j].id

LEMMA InitFinds == TablesInit => FindsKnown
  <1> SUFFICES ASSUME TablesInit PROVE FindsKnown
    OBVIOUS
  <1>1. resources = <<>> /\ answers = {} /\ Len(resources) = 0
    BY DEF TablesInit
  <1>2. blobtable \in Seq(Bytes \union {Absent})
    BY TablesAssumption DEF TablesInit
  <1> QED  BY <1>1, <1>2 DEF FindsKnown, Answers

\* The host is asked for a name that is not remembered, and then it is.
LEMMA FindStep ==
    ASSUME FindsKnown, NEW p \in Name, host[p] \in Bytes \union {Absent}, core_resource_find(p)
    PROVE  FindsKnown'
  <1> DEFINE known == {j \in DOMAIN resources : resources[j].p = p}
             id == IF known # {} THEN resources[CHOOSE j \in known : TRUE].id
                   ELSE IF host[p] = Absent THEN 0 ELSE Len(blobtable)
             n == Len(resources)
  <1>1. answers' = answers \union {<<"find", p, id>>}
    BY DEF core_resource_find
  <1>2. Answers("find")' = Answers("find") \union {<<"find", p, id>>}
    BY <1>1 DEF Answers
  <1>3. n \in Nat /\ Len(blobtable) \in Nat /\ DOMAIN resources = 1 .. n
    BY DEF FindsKnown
  <1>4. CASE known # {}
    <2>1. UNCHANGED <<blobtable, resources>>
      BY <1>4 DEF core_resource_find
    <2>2. PICK j \in known : id = resources[j].id
      BY <1>4
    <2>3. j \in 1 .. n /\ resources[j].p = p
      BY <1>3
    <2> HIDE DEF id
    <2>4. \A a \in Answers("find")' :
              \E k \in 1 .. n : a[2] = resources[k].p /\ a[3] = resources[k].id
      BY <1>2, <2>2, <2>3 DEF FindsKnown
    <2> QED  BY <2>1, <2>4 DEF FindsKnown
  <1>5. CASE known = {}
    <2> DEFINE r == [p |-> p, id |-> id]
    <2>1. resources' = Append(resources, r)
      BY <1>5 DEF core_resource_find
    <2>2. id \in Nat
      BY <1>3, <1>5
    <2>3. blobtable' \in Seq(Bytes \union {Absent})
      <3>1. blobtable' = blobtable \/ blobtable' = Append(blobtable, host[p])
        BY <1>5 DEF core_resource_find, Add
      <3>2. blobtable \in Seq(Bytes \union {Absent})
        BY DEF FindsKnown
      <3> QED  BY <3>1, <3>2
    <2>4. r \in Resource /\ r.p = p /\ r.id = id
      BY <2>2 DEF Resource
    <2>5. \A j \in 1 .. n : resources[j].p # p
      BY <1>3, <1>5
    <2> HIDE DEF id, r, known
    <2>6. /\ resources' \in Seq(Resource)
          /\ Len(resources') = n + 1
          /\ resources'[n + 1] = r
          /\ \A j \in 1 .. n : resources'[j] = resources[j]
      BY <2>1, <2>4 DEF FindsKnown
    <2>7. \A j \in 1 .. n + 1 : j \in 1 .. n \/ j = n + 1
      BY <1>3
    <2>8. \A j, k \in 1 .. n + 1 : resources'[j].p = resources'[k].p => j = k
      <3>1. ASSUME NEW j \in 1 .. n + 1, NEW k \in 1 .. n + 1, resources'[j].p = resources'[k].p
            PROVE  j = k
        <4>1. CASE j \in 1 .. n /\ k \in 1 .. n
          BY <2>6, <3>1, <4>1 DEF FindsKnown
        <4>2. CASE j = n + 1 /\ k \in 1 .. n
          BY <2>4, <2>5, <2>6, <3>1, <4>2
        <4>3. CASE j \in 1 .. n /\ k = n + 1
          BY <2>4, <2>5, <2>6, <3>1, <4>3
        <4>4. CASE j = n + 1 /\ k = n + 1
          BY <4>4
        <4> QED  BY <2>7, <4>1, <4>2, <4>3, <4>4
      <3> QED  BY <3>1
    <2>9. \A a \in Answers("find")' :
              \E j \in 1 .. n + 1 : a[2] = resources'[j].p /\ a[3] = resources'[j].id
      <3> TAKE a \in Answers("find")'
      <3>1. CASE a = <<"find", p, id>>
        <4>1. n + 1 \in 1 .. n + 1
          BY <1>3
        <4> QED  BY <3>1, <4>1, <2>4, <2>6
      <3>2. CASE a \in Answers("find")
        <4>1. PICK j \in 1 .. n : a[2] = resources[j].p /\ a[3] = resources[j].id
          BY <3>2 DEF FindsKnown
        <4>2. j \in 1 .. n + 1
          BY <1>3
        <4> QED  BY <4>1, <4>2, <2>6
      <3> QED  BY <1>2, <3>1, <3>2
    <2> QED  BY <2>3, <2>6, <2>8, <2>9 DEF FindsKnown
  <1> QED  BY <1>4, <1>5

\* The host gives bytes, or nothing.
HostKnown == host \in [Name -> Bytes \union {Absent}]

LEMMA StepFinds == HostKnown /\ FindsKnown /\ [TablesNext]_tablevars => HostKnown' /\ FindsKnown'
  <1> SUFFICES ASSUME HostKnown, FindsKnown, [TablesNext]_tablevars
               PROVE  HostKnown' /\ FindsKnown'
    OBVIOUS
  <1>1. CASE UNCHANGED tablevars
    BY <1>1 DEF tablevars, HostKnown, FindsKnown, Answers
  <1>2. ASSUME NEW b \in Bytes, core_blob_add(b) PROVE HostKnown' /\ FindsKnown'
    BY <1>2 DEF core_blob_add, Add, HostKnown, FindsKnown, Answers
  <1>3. ASSUME NEW b \in Bytes, core_string_intern(b) PROVE HostKnown' /\ FindsKnown'
    <2>1. \E v : answers' = answers \union {<<"intern", b, v>>}
      BY <1>3 DEF core_string_intern
    <2>2. Answers("find")' = Answers("find")
      BY <2>1 DEF Answers
    <2>3. UNCHANGED <<blobtable, resources, host>>
      BY <1>3 DEF core_string_intern
    <2> QED  BY <2>2, <2>3 DEF HostKnown, FindsKnown
  <1>4. ASSUME NEW p \in Name, core_resource_find(p) PROVE HostKnown' /\ FindsKnown'
    <2>1. host' = host
      BY <1>4 DEF core_resource_find
    <2>2. host[p] \in Bytes \union {Absent}
      BY DEF HostKnown
    <2> QED  BY <1>4, <2>1, <2>2, FindStep DEF HostKnown
  <1>5. ASSUME NEW p \in Name, HostChanges(p) PROVE HostKnown' /\ FindsKnown'
    BY <1>5 DEF HostChanges, HostKnown, FindsKnown, Answers
  <1> QED  BY <1>1, <1>2, <1>3, <1>4, <1>5 DEF TablesNext

\* A model always gets the same answer for a name, whatever becomes of the
\* file behind it.
THEOREM FindsAlwaysStable == TablesSpec => []FindStable
  <1>1. TablesInit => HostKnown /\ FindsKnown
    BY InitFinds DEF TablesInit, HostKnown
  <1>2. FindsKnown => FindStable
    <2> SUFFICES ASSUME FindsKnown, NEW a \in Answers("find"), NEW b \in Answers("find"), a[2] = b[2]
                 PROVE  a[3] = b[3]
      BY DEF FindStable
    <2>1. PICK j \in 1 .. Len(resources) : a[2] = resources[j].p /\ a[3] = resources[j].id
      BY DEF FindsKnown
    <2>2. PICK k \in 1 .. Len(resources) : b[2] = resources[k].p /\ b[3] = resources[k].id
      BY DEF FindsKnown
    <2>3. j = k
      BY <2>1, <2>2 DEF FindsKnown
    <2> QED  BY <2>1, <2>2, <2>3
  <1> QED  BY <1>1, <1>2, StepFinds, PTL DEF TablesSpec

-----------------------------------------------------------------------------
(* Open addressing: the slots from a hash on, around the end.               *)

LEMMA Division ==
    \A h \in Nat, c \in Nat \ {0} :
        h % c \in 0 .. c - 1 /\ h \div c \in Nat /\ h = c * (h \div c) + (h % c)
  <1>1. \A h \in Nat, c \in Nat \ {0} : h % c \in 0 .. c - 1
    OBVIOUS
  <1>2. \A h \in Nat, c \in Nat \ {0} : h = c * (h \div c) + (h % c) /\ (h \div c) \in Nat
    OBVIOUS
  <1> QED  BY <1>1, <1>2

LEMMA Remainder ==
    ASSUME NEW h \in Nat, NEW q \in Nat, NEW r \in Nat, NEW c \in Nat \ {0}, h = c * q + r, r < c
    PROVE  h % c = r
  OBVIOUS

LEMMA AroundTheEnd ==
    ASSUME NEW h \in Nat, NEW c \in Nat \ {0}, NEW d \in 0 .. c - 1
    PROVE  (h + d) % c = IF (h % c) + d < c THEN (h % c) + d ELSE (h % c) + d - c
  <1>1. PICK q : q = h \div c
    OBVIOUS
  <1>2. PICK r : r = h % c
    OBVIOUS
  <1>3. q \in Nat /\ r \in 0 .. c - 1 /\ h = c * q + r
    BY <1>1, <1>2, Division
  <1>4. PICK y \in Nat : y = h + d
    OBVIOUS
  <1>5. CASE r + d < c
    <2>1. PICK s \in Nat : s = r + d
      BY <1>3
    <2>2. h + d = c * q + (r + d)
      BY <1>3
    <2>3. y = c * q + s
      BY <1>4, <2>1, <2>2
    <2>4. y % c = s
      BY <1>3, <1>5, <2>1, <2>3, Remainder
    <2> QED  BY <1>2, <1>4, <1>5, <2>1, <2>4
  <1>6. CASE ~(r + d < c)
    <2>1. PICK s \in Nat : s = r + d - c
      BY <1>3, <1>6
    <2>2. PICK p \in Nat : p = q + 1
      BY <1>3
    <2>3. c * p = c * q + c
      BY <1>3, <2>2
    <2>4. y = c * p + s
      BY <1>3, <1>4, <2>1, <2>3
    <2>5. s < c
      BY <1>3, <2>1
    <2>6. y % c = s
      BY <2>1, <2>4, <2>5, Remainder
    <2> QED  BY <1>2, <1>4, <1>6, <2>1, <2>6
  <1> QED  BY <1>5, <1>6

\* A search that goes on comes to every slot.
LEMMA EverySlotReached ==
    ASSUME NEW h \in Nat, NEW c \in Nat \ {0}, NEW k \in 0 .. c - 1
    PROVE  \E d \in 0 .. c - 1 : (h + d) % c = k
  <1>1. PICK r \in 0 .. c - 1 : r = h % c
    BY Division
  <1>2. CASE r <= k
    <2>1. k - r \in 0 .. c - 1 /\ r + (k - r) < c /\ r + (k - r) = k
      BY <1>2
    <2>2. (h + (k - r)) % c = k
      BY <1>1, <2>1, AroundTheEnd
    <2> QED  BY <2>1, <2>2
  <1>3. CASE ~(r <= k)
    <2>1. k - r + c \in 0 .. c - 1 /\ ~(r + (k - r + c) < c) /\ r + (k - r + c) - c = k
      BY <1>3
    <2>2. (h + (k - r + c)) % c = k
      BY <1>1, <2>1, AroundTheEnd
    <2> QED  BY <2>1, <2>2
  <1> QED  BY <1>2, <1>3

\* The first slot of a kind that there is at all.
LEMMA FirstReached ==
    ASSUME NEW h \in Nat, NEW c \in Nat \ {0}, NEW K \in SUBSET (0 .. c - 1), K # {}
    PROVE  \E d \in 0 .. c - 1 : /\ (h + d) % c \in K
                                 /\ \A f \in 0 .. d - 1 : (h + f) % c \notin K
  <1> DEFINE D == {d \in 0 .. c - 1 : (h + d) % c \in K}
  <1>1. D \in SUBSET Nat /\ D # {}
    <2>1. PICK k \in K : TRUE
      OBVIOUS
    <2>2. PICK d \in 0 .. c - 1 : (h + d) % c = k
      BY EverySlotReached
    <2>3. d \in D
      BY <2>2
    <2>4. D \in SUBSET Nat
      OBVIOUS
    <2> QED  BY <2>3, <2>4
  <1>2. PICK d \in D : \A e \in D : d <= e
    BY <1>1, LeastNatural
  <1>3. ASSUME NEW f \in 0 .. d - 1 PROVE (h + f) % c \notin K
    <2>1. f \in 0 .. c - 1 /\ ~(d <= f)
      BY <1>2
    <2> QED  BY <1>2, <2>1
  <1> QED  BY <1>2, <1>3

\* A table that is not full has a slot to stop at.
LEMMA SomeSlotFree ==
    ASSUME NEW c \in Nat, NEW U \in SUBSET (0 .. c - 1), Cardinality(U) < c
    PROVE  (0 .. c - 1) \ U # {}
  <1>1. Cardinality(0 .. c - 1) = c
    BY FS_Interval
  <1>2. ASSUME U = 0 .. c - 1 PROVE FALSE
    <2>1. Cardinality(U) = c
      BY <1>1, <1>2
    <2> QED  BY <2>1
  <1> QED  BY <1>2

-----------------------------------------------------------------------------
(* The recursion of FoldLeft over 1 .. n.                                   *)

LEMMA MaxIsIn ==
    ASSUME NEW n \in Nat, NEW s \in SUBSET (1 .. n), s # {}
    PROVE  Max(s) \in s /\ \A y \in s : Max(s) >= y
  <1> DEFINE R == {n - i : i \in s}
  <1>1. R \in SUBSET Nat /\ R # {}
    <2>1. \A i \in s : n - i \in Nat
      OBVIOUS
    <2> QED  BY <2>1
  <1>2. PICK r \in R : \A y \in R : r <= y
    BY <1>1, LeastNatural
  <1>3. PICK i \in s : r = n - i
    BY <1>2
  <1>4. ASSUME NEW y \in s PROVE i >= y
    <2>1. n - y \in R
      OBVIOUS
    <2>2. n - i <= n - y
      BY <1>2, <1>3, <2>1
    <2> QED  BY <2>2
  <1>5. \E z \in s : \A y \in s : z >= y
    BY <1>4
  <1> QED  BY <1>5 DEF Max

LEMMA MaxUpTo ==
    ASSUME NEW n \in Nat, NEW j \in 1 .. n
    PROVE  Max(1 .. j) = j /\ (1 .. j) \ {j} = 1 .. j - 1 /\ 1 .. j # {}
  <1>1. j \in 1 .. j /\ (1 .. j) \in SUBSET (1 .. n)
    OBVIOUS
  <1>2. Max(1 .. j) \in 1 .. j /\ \A y \in 1 .. j : Max(1 .. j) >= y
    BY <1>1, MaxIsIn
  <1>3. Max(1 .. j) >= j /\ Max(1 .. j) <= j
    BY <1>1, <1>2
  <1>4. Max(1 .. j) = j
    BY <1>2, <1>3
  <1> QED  BY <1>1, <1>4

Solves(g, n, base, F) ==
    \A s \in SUBSET (1 .. n) : g[s] = IF s = {} THEN base ELSE F[<<g[s \ {Max(s)}], Max(s)>>]

\* Whatever the step F makes of a result so far and the next place, the
\* recursion has a solution.
LEMMA FoldExists ==
    ASSUME NEW n \in Nat, NEW V, NEW base \in V, NEW F \in [V \X (1 .. n) -> V]
    PROVE  \E g \in [SUBSET (1 .. n) -> V] : Solves(g, n, base, F)
  <1> DEFINE S == 1 .. n
             Part(g, s) == IF s = {} THEN base ELSE F[<<g[s \ {Max(s)}], Max(s)>>]
             Upto(g, k) == \A s \in SUBSET S : Cardinality(s) <= k => g[s] = Part(g, s)
             Bad == {k \in Nat : ~ \E g \in [SUBSET S -> V] : Upto(g, k)}
  <1>0. IsFiniteSet(S)
    BY FS_Interval
  <1>1. ASSUME NEW g \in [SUBSET S -> V], NEW s \in SUBSET S
        PROVE  Part(g, s) \in V
    <2>1. CASE s = {}
      BY <2>1
    <2>2. CASE s # {}
      <3>1. Max(s) \in S /\ s \ {Max(s)} \in SUBSET S
        BY <2>2, MaxIsIn
      <3>2. <<g[s \ {Max(s)}], Max(s)>> \in V \X S
        BY <3>1
      <3> QED  BY <2>2, <3>2
    <2> QED  BY <2>1, <2>2
  <1>2. Bad = {}
    <2> SUFFICES ASSUME Bad # {} PROVE FALSE
      OBVIOUS
    <2>1. PICK k \in Bad : \A j \in Bad : k <= j
      BY LeastNatural
    <2>2. k \in Nat /\ ~ \E g \in [SUBSET S -> V] : Upto(g, k)
      BY <2>1
    <2>3. PICK g \in [SUBSET S -> V] : k = 0 \/ Upto(g, k - 1)
      <3>1. CASE k = 0
        <4>1. [s \in SUBSET S |-> base] \in [SUBSET S -> V]
          OBVIOUS
        <4> QED  BY <3>1, <4>1
      <3>2. CASE k # 0
        <4>1. k - 1 \in Nat /\ ~(k <= k - 1)
          BY <3>2, <2>2
        <4>2. k - 1 \notin Bad
          BY <4>1, <2>1
        <4> QED  BY <4>1, <4>2
      <3> QED  BY <3>1, <3>2
    <2> DEFINE h == [s \in SUBSET S |-> Part(g, s)]
    <2>4. h \in [SUBSET S -> V]
      BY <1>1
    <2>5. Upto(h, k)
      <3> SUFFICES ASSUME NEW s \in SUBSET S, Cardinality(s) <= k
                   PROVE  Part(g, s) = Part(h, s)
        OBVIOUS
      <3>1. CASE s = {}
        BY <3>1
      <3>2. CASE s # {}
        <4> DEFINE u == s \ {Max(s)}
        <4>1. Max(s) \in s /\ u \in SUBSET S
          BY <3>2, MaxIsIn
        <4>2. Cardinality(s) \in Nat \ {0} /\ Cardinality(u) = Cardinality(s) - 1
          BY <1>0, <3>2, <4>1, SmallerSet
        <4>3. k # 0 /\ Cardinality(u) <= k - 1
          BY <4>2, <2>2
        <4>4. g[u] = Part(g, u)
          BY <4>1, <4>3, <2>3
        <4>5. h[u] = g[u]
          BY <4>1, <4>4
        <4> QED  BY <3>2, <4>5
      <3> QED  BY <3>1, <3>2
    <2> QED  BY <2>2, <2>4, <2>5
  <1>3. Cardinality(S) \in Nat /\ \A s \in SUBSET S : Cardinality(s) <= Cardinality(S)
    BY <1>0, FS_CardinalityType, FS_Subset
  <1>4. PICK g \in [SUBSET S -> V] : Upto(g, Cardinality(S))
    BY <1>2, <1>3
  <1>5. \A s \in SUBSET S : g[s] = Part(g, s)
    BY <1>3, <1>4
  <1> QED  BY <1>5 DEF Solves

-----------------------------------------------------------------------------
(* The sparse memory.                                                       *)

Slots(c) == [cap : {c}, n : Nat, used : [0 .. c - 1 -> BOOLEAN],
             keys : [0 .. c - 1 -> Key], values : [0 .. c - 1 -> Value]]
UsedSlots(t) == {s \in 0 .. t.cap - 1 : t.used[s]}
SlotAt(t, k, d) == (slot(t, k) + d) % t.cap

\* No unused slot lies between the slot a key hashes to and the one it is in.
Unbroken(t) ==
    \A s \in UsedSlots(t) : \E d \in 0 .. t.cap - 1 :
        SlotAt(t, t.keys[s], d) = s /\ \A f \in 0 .. d - 1 : t.used[SlotAt(t, t.keys[s], f)]
OneSlotEach(t) == \A r, s \in UsedSlots(t) : t.keys[r] = t.keys[s] => r = s

Table(t, c) ==
    /\ t \in Slots(c) /\ Unbroken(t) /\ OneSlotEach(t)
    /\ Cardinality(UsedSlots(t)) = t.n

\* The table maps key k to v.
Maps(t, k, v) == \E s \in UsedSlots(t) : t.keys[s] = k /\ t.values[s] = v

LEMMA SlotAtType ==
    ASSUME NEW c \in Nat \ {0}, NEW t, t.cap = c, NEW k \in Key, NEW d \in Nat
    PROVE  slot(t, k) \in 0 .. c - 1 /\ SlotAt(t, k, d) \in 0 .. c - 1
  <1>1. PICK h : h = slot(t, k)
    OBVIOUS
  <1>2. h \in 0 .. c - 1
    BY <1>1, SparseAssumption, Division DEF slot
  <1>3. (h + d) % c \in 0 .. c - 1
    <2>1. PICK y \in Nat : y = h + d
      BY <1>2
    <2> QED  BY <2>1, Division
  <1> QED  BY <1>1, <1>2, <1>3 DEF SlotAt

\* The loop of get and set stops, at the first slot it may stop at.
LEMMA ProbeStops ==
    ASSUME NEW c \in Nat \ {0}, NEW t \in Slots(c), Cardinality(UsedSlots(t)) < c, NEW k \in Key
    PROVE  \E d \in 0 .. c - 1 :
               /\ Probe(t, k) = SlotAt(t, k, d)
               /\ ~t.used[SlotAt(t, k, d)] \/ t.keys[SlotAt(t, k, d)] = k
               /\ \A f \in 0 .. d - 1 : t.used[SlotAt(t, k, f)] /\ t.keys[SlotAt(t, k, f)] # k
  <1>1. t.cap = c
    BY DEF Slots
  <1> DEFINE K == {s \in 0 .. c - 1 : ~t.used[s] \/ t.keys[s] = k}
             E == {e \in 0 .. c - 1 : ~t.used[SlotAt(t, k, e)] \/ t.keys[SlotAt(t, k, e)] = k}
  <1>2. (0 .. c - 1) \ UsedSlots(t) # {}
    BY <1>1, SomeSlotFree DEF UsedSlots
  <1>3. K # {} /\ K \in SUBSET (0 .. c - 1)
    BY <1>1, <1>2 DEF UsedSlots
  <1>4. PICK h \in Nat : h = slot(t, k)
    BY <1>1, SlotAtType
  <1>5. PICK d \in 0 .. c - 1 : (h + d) % c \in K /\ \A f \in 0 .. d - 1 : (h + f) % c \notin K
    <2>1. PICK L \in SUBSET (0 .. c - 1) : L = K
      BY <1>3
    <2>2. L # {}
      BY <1>3, <2>1
    <2>3. \E d \in 0 .. c - 1 : (h + d) % c \in L /\ \A f \in 0 .. d - 1 : (h + f) % c \notin L
      BY <2>2, FirstReached
    <2> QED  BY <2>1, <2>3
  <1>6. \A f \in Nat : SlotAt(t, k, f) = (h + f) % c /\ SlotAt(t, k, f) \in 0 .. c - 1
    BY <1>1, <1>4, SlotAtType DEF SlotAt
  <1>7. d \in E
    BY <1>5, <1>6
  <1>8. ASSUME NEW f \in 0 .. d - 1 PROVE f \notin E /\ f \in 0 .. c - 1
    <2>1. f \in Nat /\ f \in 0 .. c - 1
      BY <1>5
    <2>2. SlotAt(t, k, f) \in 0 .. c - 1 /\ SlotAt(t, k, f) \notin K
      BY <1>5, <1>6, <2>1
    <2> QED  BY <2>1, <2>2
  <1>9. ASSUME NEW e \in E PROVE d =< e
    <2>1. e \in 0 .. c - 1 /\ e \notin 0 .. d - 1
      BY <1>8
    <2> HIDE DEF E
    <2> QED  BY <2>1
  <1>10. Min(E) = d
    <2>1. \A z \in E : (\A y \in E : z =< y) => z = d
      BY <1>7, <1>9
    <2> QED  BY <1>7, <1>9, <2>1 DEF Min
  <1>11. Probe(t, k) = SlotAt(t, k, d)
    BY <1>1, <1>10 DEF Probe, SlotAt
  <1> QED  BY <1>7, <1>8, <1>11

\* A key that is in the table is found; for another an unused slot is.
LEMMA ProbeFinds ==
    ASSUME NEW c \in Nat \ {0}, NEW t, Table(t, c), t.n < c, NEW k \in Key
    PROVE  /\ Probe(t, k) \in 0 .. c - 1
           /\ \A s \in UsedSlots(t) : t.keys[s] = k => Probe(t, k) = s
           /\ t.used[Probe(t, k)] => t.keys[Probe(t, k)] = k
           /\ \E d \in 0 .. c - 1 : /\ Probe(t, k) = SlotAt(t, k, d)
                                    /\ \A f \in 0 .. d - 1 : t.used[SlotAt(t, k, f)]
  <1>1. t \in Slots(c) /\ t.cap = c
    BY DEF Table, Slots
  <1>2. PICK d \in 0 .. c - 1 :
            /\ Probe(t, k) = SlotAt(t, k, d)
            /\ ~t.used[SlotAt(t, k, d)] \/ t.keys[SlotAt(t, k, d)] = k
            /\ \A f \in 0 .. d - 1 : t.used[SlotAt(t, k, f)] /\ t.keys[SlotAt(t, k, f)] # k
    BY <1>1, ProbeStops DEF Table
  <1>3. Probe(t, k) \in 0 .. c - 1
    BY <1>1, <1>2, SlotAtType
  <1>4. ASSUME NEW s \in UsedSlots(t), t.keys[s] = k PROVE Probe(t, k) = s
    <2>1. PICK e \in 0 .. c - 1 :
              SlotAt(t, k, e) = s /\ \A f \in 0 .. e - 1 : t.used[SlotAt(t, k, f)]
      BY <1>1, <1>4 DEF Table, Unbroken
    <2>2. ~(e < d)
      BY <1>2, <1>4, <2>1
    <2>3. CASE d < e
      <3>1. t.used[SlotAt(t, k, d)]
        BY <2>1, <2>3
      <3>2. Probe(t, k) \in UsedSlots(t) /\ t.keys[Probe(t, k)] = k
        BY <1>1, <1>2, <1>3, <3>1 DEF UsedSlots
      <3> QED  BY <1>4, <3>2 DEF Table, OneSlotEach
    <2>4. CASE d = e
      BY <1>2, <2>1, <2>4
    <2> QED  BY <2>2, <2>3, <2>4
  <1> QED  BY <1>2, <1>3, <1>4

LEMMA GetMapped ==
    ASSUME NEW c \in Nat, NEW t, Table(t, c), c = 0 \/ t.n < c, NEW k \in Key
    PROVE  /\ \A v : Maps(t, k, v) => core_memory_get(t, k) = v
           /\ (\A v \in Value : ~Maps(t, k, v)) => core_memory_get(t, k) = 0
  <1>1. t \in Slots(c) /\ t.cap = c
    BY DEF Table, Slots
  <1>2. CASE c = 0
    BY <1>1, <1>2 DEF Maps, UsedSlots, core_memory_get
  <1>3. CASE c # 0
    <2>1. /\ Probe(t, k) \in 0 .. c - 1
          /\ \A s \in UsedSlots(t) : t.keys[s] = k => Probe(t, k) = s
          /\ t.used[Probe(t, k)] => t.keys[Probe(t, k)] = k
      BY <1>3, ProbeFinds
    <2>2. ASSUME NEW v, Maps(t, k, v) PROVE core_memory_get(t, k) = v
      BY <1>1, <1>3, <2>1, <2>2 DEF Maps, UsedSlots, core_memory_get
    <2>3. ASSUME \A v \in Value : ~Maps(t, k, v) PROVE core_memory_get(t, k) = 0
      <3>1. CASE t.used[Probe(t, k)]
        <4>1. t.values[Probe(t, k)] \in Value
          BY <1>1, <2>1 DEF Slots
        <4>2. Maps(t, k, t.values[Probe(t, k)])
          BY <1>1, <2>1, <3>1 DEF Maps, UsedSlots
        <4> QED  BY <2>3, <4>1, <4>2
      <3>2. CASE ~t.used[Probe(t, k)]
        BY <1>1, <1>3, <3>2 DEF core_memory_get
      <3> QED  BY <3>1, <3>2
    <2> QED  BY <2>2, <2>3
  <1> QED  BY <1>2, <1>3

\* What the last lines of set do to a table that is not full.
LEMMA PutKeeps ==
    ASSUME NEW c \in Nat \ {0}, NEW t, Table(t, c), t.n < c, NEW k \in Key, NEW v \in Value,
           NEW u, u = PutSlot(t, k, v)
    PROVE  /\ Table(u, c)
           /\ \A key \in Key : \A w : Maps(u, key, w) <=> IF key = k THEN w = v ELSE Maps(t, key, w)
           /\ u.n = t.n \/ u.n = t.n + 1
           /\ (\A w \in Value : ~Maps(t, k, w)) => u.n = t.n + 1
  <1>1. /\ t \in Slots(c) /\ t.cap = c /\ t.n \in Nat /\ t.used \in [0 .. c - 1 -> BOOLEAN]
        /\ t.keys \in [0 .. c - 1 -> Key] /\ t.values \in [0 .. c - 1 -> Value]
    BY DEF Table, Slots
  <1>2. PICK p : p = Probe(t, k)
    OBVIOUS
  <1>3. /\ p \in 0 .. c - 1
        /\ \A s \in UsedSlots(t) : t.keys[s] = k => p = s
        /\ t.used[p] => t.keys[p] = k
        /\ \E d \in 0 .. c - 1 : p = SlotAt(t, k, d) /\ \A f \in 0 .. d - 1 : t.used[SlotAt(t, k, f)]
    BY <1>2, ProbeFinds
  <1>4. u = [t EXCEPT !.used[p] = TRUE, !.keys[p] = k, !.values[p] = v,
                      !.n = IF t.used[p] THEN @ ELSE @ + 1]
    BY <1>2 DEF PutSlot
  <1>5. /\ u.cap = c /\ u.n = (IF t.used[p] THEN t.n ELSE t.n + 1)
        /\ u.used = [t.used EXCEPT ![p] = TRUE] /\ u.keys = [t.keys EXCEPT ![p] = k]
        /\ u.values = [t.values EXCEPT ![p] = v]
    BY <1>1, <1>4 DEF Slots
  <1>6. u \in Slots(c)
    <2>1. u.used \in [0 .. c - 1 -> BOOLEAN] /\ u.keys \in [0 .. c - 1 -> Key]
          /\ u.values \in [0 .. c - 1 -> Value] /\ u.n \in Nat
      BY <1>1, <1>3, <1>5
    <2>2. u = [cap |-> u.cap, n |-> u.n, used |-> u.used, keys |-> u.keys, values |-> u.values]
      BY <1>1, <1>4 DEF Slots
    <2> QED  BY <1>5, <2>1, <2>2 DEF Slots
  <1>7. UsedSlots(u) = UsedSlots(t) \union {p}
    BY <1>1, <1>3, <1>5 DEF UsedSlots
  <1>8. /\ u.keys[p] = k /\ u.values[p] = v
        /\ \A s \in UsedSlots(u) \ {p} : /\ s \in UsedSlots(t) /\ u.keys[s] = t.keys[s]
                                         /\ u.values[s] = t.values[s]
    BY <1>1, <1>3, <1>5, <1>7 DEF UsedSlots
  <1>9. p \in UsedSlots(t) <=> t.used[p]
    BY <1>1, <1>3 DEF UsedSlots
  <1>10. \A s \in UsedSlots(u) \ {p} : u.keys[s] # k
    BY <1>3, <1>8
  <1>11. Unbroken(u)
    <2>1. \A key, d : SlotAt(u, key, d) = SlotAt(t, key, d)
      BY <1>1, <1>5 DEF SlotAt, slot
    <2>2. \A s \in 0 .. c - 1 : t.used[s] => u.used[s]
      BY <1>1, <1>5
    <2>3. ASSUME NEW key \in Key, NEW f \in Nat, t.used[SlotAt(t, key, f)] PROVE u.used[SlotAt(u, key, f)]
      BY <1>1, <2>1, <2>2, <2>3, SlotAtType
    <2>4. ASSUME NEW s \in UsedSlots(u)
          PROVE  \E d \in 0 .. c - 1 : SlotAt(u, u.keys[s], d) = s
                     /\ \A f \in 0 .. d - 1 : u.used[SlotAt(u, u.keys[s], f)]
      <3>1. CASE s = p
        BY <1>3, <1>8, <2>1, <2>3, <3>1
      <3>2. CASE s # p
        <4>1. s \in UsedSlots(t) /\ u.keys[s] = t.keys[s] /\ t.keys[s] \in Key
          BY <1>1, <1>8, <2>4, <3>2 DEF UsedSlots
        <4>2. PICK d \in 0 .. c - 1 : SlotAt(t, t.keys[s], d) = s
                     /\ \A f \in 0 .. d - 1 : t.used[SlotAt(t, t.keys[s], f)]
          BY <1>1, <4>1 DEF Table, Unbroken
        <4> QED  BY <2>1, <2>3, <4>1, <4>2
      <3> QED  BY <3>1, <3>2
    <2> QED  BY <1>5, <2>4 DEF Unbroken
  <1>12. OneSlotEach(u)
    <2>1. ASSUME NEW r \in UsedSlots(u), NEW s \in UsedSlots(u), u.keys[r] = u.keys[s] PROVE r = s
      <3>1. CASE r = p \/ s = p
        BY <1>8, <1>10, <2>1, <3>1
      <3>2. CASE r # p /\ s # p
        BY <1>8, <2>1, <3>2 DEF Table, OneSlotEach
      <3> QED  BY <3>1, <3>2
    <2> QED  BY <2>1 DEF OneSlotEach
  <1>13. Cardinality(UsedSlots(u)) = u.n
    <2>1. IsFiniteSet(UsedSlots(t))
      <3>1. IsFiniteSet(0 .. c - 1)
        BY FS_Interval
      <3> QED  BY <1>1, <3>1, FS_Subset DEF UsedSlots
    <2>2. Cardinality(UsedSlots(t)) = t.n
      BY DEF Table
    <2>3. CASE t.used[p]
      <3>1. UsedSlots(u) = UsedSlots(t) /\ u.n = t.n
        BY <1>5, <1>7, <1>9, <2>3
      <3> QED  BY <2>2, <3>1
    <2>4. CASE ~t.used[p]
      <3>1. p \notin UsedSlots(t) /\ u.n = t.n + 1
        BY <1>5, <1>9, <2>4
      <3>2. Cardinality(UsedSlots(t) \union {p}) = Cardinality(UsedSlots(t)) + 1
        BY <2>1, <3>1, FS_AddElement
      <3> QED  BY <1>7, <2>2, <3>1, <3>2
    <2> QED  BY <2>3, <2>4
  <1>14. ASSUME NEW key \in Key, NEW w
         PROVE  Maps(u, key, w) <=> IF key = k THEN w = v ELSE Maps(t, key, w)
    <2>1. p \in UsedSlots(u)
      BY <1>7
    <2>2. CASE key = k
      BY <1>8, <1>10, <2>1, <2>2 DEF Maps
    <2>3. CASE key # k
      <3>1. ASSUME Maps(u, key, w) PROVE Maps(t, key, w)
        BY <1>8, <2>3, <3>1 DEF Maps
      <3>2. ASSUME Maps(t, key, w) PROVE Maps(u, key, w)
        <4>1. PICK s \in UsedSlots(t) : t.keys[s] = key /\ t.values[s] = w
          BY <3>2 DEF Maps
        <4>2. s # p
          BY <1>3, <1>9, <2>3, <4>1
        <4>3. s \in UsedSlots(u) \ {p}
          BY <1>7, <4>1, <4>2
        <4> QED  BY <1>8, <4>1, <4>3 DEF Maps
      <3> QED  BY <2>3, <3>1, <3>2
    <2> QED  BY <2>2, <2>3
  <1>15. (\A w \in Value : ~Maps(t, k, w)) => u.n = t.n + 1
    <2>1. t.used[p] => Maps(t, k, t.values[p]) /\ t.values[p] \in Value
      BY <1>1, <1>3, <1>9 DEF Maps
    <2> QED  BY <1>5, <2>1
  <1> QED  BY <1>5, <1>6, <1>11, <1>12, <1>13, <1>14, <1>15 DEF Table

-----------------------------------------------------------------------------
(* Its growth.                                                              *)

NewCap(t) == IF t.cap = 0 THEN SparseFirstCap ELSE 2 * t.cap
SlotNumbers(t) == [j \in 1 .. t.cap |-> j - 1]
MovedSlot(t, new, s) == IF t.used[s] THEN PutSlot(new, t.keys[s], t.values[s]) ELSE new

\* The function the library folds with.
Moves(t) ==
    CHOOSE g : g = [s \in SUBSET DOMAIN SlotNumbers(t) |->
                       IF s = {} THEN ZeroedSlots(NewCap(t))
                       ELSE MovedSlot(t, g[s \ {Max(s)}], SlotNumbers(t)[Max(s)])]

LEMMA GrownIsMoves ==
    ASSUME NEW t
    PROVE  GrownSlots(t) = Moves(t)[DOMAIN SlotNumbers(t)]
  BY DEF GrownSlots, FoldLeft, MapThenFoldSet, Moves, MovedSlot, SlotNumbers, NewCap

LEMMA ZeroedTable ==
    ASSUME NEW c \in Nat
    PROVE  /\ Table(ZeroedSlots(c), c) /\ ZeroedSlots(c).n = 0
           /\ \A key, w : ~Maps(ZeroedSlots(c), key, w)
  <1>1. PICK t : t = ZeroedSlots(c)
    OBVIOUS
  <1>2. t \in Slots(c) /\ t.cap = c /\ t.n = 0 /\ UsedSlots(t) = {}
    BY <1>1, SparseAssumption DEF ZeroedSlots, Slots, UsedSlots
  <1>3. Cardinality({}) = 0
    BY FS_EmptySet
  <1> QED  BY <1>1, <1>2, <1>3 DEF Table, Unbroken, OneSlotEach, Maps

LEMMA MovedSlotType ==
    ASSUME NEW c \in Nat, NEW t \in Slots(c), NEW a \in Nat, NEW new \in Slots(a), NEW s \in 0 .. c - 1
    PROVE  MovedSlot(t, new, s) \in Slots(a)
  <1>1. t.keys[s] \in Key /\ t.values[s] \in Value
    BY DEF Slots
  <1>2. PICK k \in Key, v \in Value : k = t.keys[s] /\ v = t.values[s]
    BY <1>1
  <1>3. PutSlot(new, k, v) \in Slots(a)
    <2>1. PICK p : p = Probe(new, k)
      OBVIOUS
    <2>2. PICK n \in Nat : n = IF new.used[p] THEN new.n ELSE new.n + 1
      BY DEF Slots
    <2>3. PutSlot(new, k, v) = [new EXCEPT !.used[p] = TRUE, !.keys[p] = k, !.values[p] = v, !.n = n]
      BY <2>1, <2>2 DEF PutSlot, Slots
    <2>4. /\ [new.used EXCEPT ![p] = TRUE] \in [0 .. a - 1 -> BOOLEAN]
          /\ [new.keys EXCEPT ![p] = k] \in [0 .. a - 1 -> Key]
          /\ [new.values EXCEPT ![p] = v] \in [0 .. a - 1 -> Value]
      BY DEF Slots
    <2>5. PutSlot(new, k, v) = [cap |-> a, n |-> n, used |-> [new.used EXCEPT ![p] = TRUE],
                                keys |-> [new.keys EXCEPT ![p] = k],
                                values |-> [new.values EXCEPT ![p] = v]]
      BY <2>3 DEF Slots
    <2> QED  BY <2>4, <2>5 DEF Slots
  <1> QED  BY <1>2, <1>3 DEF MovedSlot

LEMMA MovesUnfold ==
    ASSUME NEW c \in Nat, NEW t \in Slots(c)
    PROVE  /\ Moves(t)[1 .. 0] = ZeroedSlots(NewCap(t))
           /\ \A j \in 1 .. c : Moves(t)[1 .. j] = MovedSlot(t, Moves(t)[1 .. j - 1], j - 1)
           /\ GrownSlots(t) = Moves(t)[1 .. c]
  <1>1. t.cap = c /\ DOMAIN SlotNumbers(t) = 1 .. c /\ \A j \in 1 .. c : SlotNumbers(t)[j] = j - 1
    BY DEF Slots, SlotNumbers
  <1>2. PICK a \in Nat : a = NewCap(t)
    BY <1>1, SparseAssumption DEF NewCap
  <1>3. PICK V : V = Slots(a)
    OBVIOUS
  <1>4. PICK base \in V : base = ZeroedSlots(a)
    BY <1>3, ZeroedTable DEF Table
  <1> DEFINE G == [arg \in V \X (1 .. c) |-> MovedSlot(t, arg[1], arg[2] - 1)]
  <1>5. PICK F \in [V \X (1 .. c) -> V] : F = G
    <2>1. ASSUME NEW arg \in V \X (1 .. c) PROVE MovedSlot(t, arg[1], arg[2] - 1) \in V
      <3>1. arg[1] \in Slots(a) /\ arg[2] - 1 \in 0 .. c - 1
        BY <1>3
      <3> QED  BY <1>3, <3>1, MovedSlotType
    <2>2. G \in [V \X (1 .. c) -> V]
      BY <2>1
    <2> QED  BY <2>2
  <1>6. PICK g \in [SUBSET (1 .. c) -> V] : Solves(g, c, base, F)
    <2>1. base \in V /\ F \in [V \X (1 .. c) -> V]
      BY <1>4, <1>5
    <2> HIDE DEF G
    <2> QED  BY <2>1, FoldExists
  <1>7. ASSUME NEW s \in SUBSET (1 .. c), s # {}
        PROVE  F[<<g[s \ {Max(s)}], Max(s)>>] = MovedSlot(t, g[s \ {Max(s)}], SlotNumbers(t)[Max(s)])
    <2>1. Max(s) \in 1 .. c /\ s \ {Max(s)} \in SUBSET (1 .. c)
      BY <1>7, MaxIsIn
    <2>2. g[s \ {Max(s)}] \in V
      BY <2>1
    <2> QED  BY <1>1, <1>5, <2>1, <2>2
  <1>8. g = [s \in SUBSET DOMAIN SlotNumbers(t) |->
                 IF s = {} THEN ZeroedSlots(NewCap(t))
                 ELSE MovedSlot(t, g[s \ {Max(s)}], SlotNumbers(t)[Max(s)])]
    BY <1>1, <1>2, <1>4, <1>6, <1>7 DEF Solves
  <1>9. Moves(t) = [s \in SUBSET DOMAIN SlotNumbers(t) |->
                       IF s = {} THEN ZeroedSlots(NewCap(t))
                       ELSE MovedSlot(t, Moves(t)[s \ {Max(s)}], SlotNumbers(t)[Max(s)])]
    BY <1>8 DEF Moves
  <1>10. 1 .. 0 = {}
    OBVIOUS
  <1>11. Moves(t)[1 .. 0] = ZeroedSlots(NewCap(t))
    BY <1>9, <1>10
  <1>12. ASSUME NEW j \in 1 .. c PROVE Moves(t)[1 .. j] = MovedSlot(t, Moves(t)[1 .. j - 1], j - 1)
    <2>1. Max(1 .. j) = j /\ (1 .. j) \ {j} = 1 .. j - 1 /\ 1 .. j # {}
      BY MaxUpTo
    <2>2. 1 .. j \in SUBSET DOMAIN SlotNumbers(t)
      BY <1>1
    <2>3. Moves(t)[1 .. j] = MovedSlot(t, Moves(t)[(1 .. j) \ {Max(1 .. j)}], SlotNumbers(t)[Max(1 .. j)])
      BY <1>9, <2>1, <2>2
    <2> QED  BY <1>1, <2>1, <2>3
  <1> QED  BY <1>1, <1>11, <1>12, GrownIsMoves

\* The slots below j are moved.
Before(t, j) == {s \in UsedSlots(t) : s < j}
MovedUpTo(t, u, c, j) ==
    /\ Table(u, c)
    /\ u.n = Cardinality(Before(t, j))
    /\ \A arg \in Key : \A w : Maps(u, arg, w) <=> \E s \in Before(t, j) : t.keys[s] = arg /\ t.values[s] = w

LEMMA BeforeNext ==
    ASSUME NEW c \in Nat, NEW t \in Slots(c), NEW j \in 1 .. c
    PROVE  /\ Before(t, j) = Before(t, j - 1) \union (IF t.used[j - 1] THEN {j - 1} ELSE {})
           /\ j - 1 \notin Before(t, j - 1) /\ IsFiniteSet(Before(t, j - 1))
           /\ Cardinality(Before(t, j - 1)) \in Nat
           /\ Cardinality(Before(t, j - 1)) <= Cardinality(UsedSlots(t))
  <1>1. t.cap = c /\ UsedSlots(t) = {s \in 0 .. c - 1 : t.used[s]}
    BY DEF Slots, UsedSlots
  <1>2. Before(t, j) = Before(t, j - 1) \union (IF t.used[j - 1] THEN {j - 1} ELSE {})
    <2>1. \A s \in 0 .. c - 1 : s < j <=> s < j - 1 \/ s = j - 1
      OBVIOUS
    <2>2. j - 1 \in 0 .. c - 1
      OBVIOUS
    <2>3. j - 1 \in UsedSlots(t) <=> t.used[j - 1]
      BY <1>1, <2>2
    <2>4. \A s \in UsedSlots(t) : s < j <=> s < j - 1 \/ s = j - 1
      BY <1>1, <2>1
    <2>5. j - 1 < j
      OBVIOUS
    <2> QED  BY <2>3, <2>4, <2>5 DEF Before
  <1>3. j - 1 \notin Before(t, j - 1)
    BY DEF Before
  <1>4. IsFiniteSet(UsedSlots(t))
    <2>1. IsFiniteSet(0 .. c - 1) /\ UsedSlots(t) \in SUBSET (0 .. c - 1)
      BY <1>1, FS_Interval
    <2> QED  BY <2>1, FS_Subset
  <1>5. Before(t, j - 1) \in SUBSET UsedSlots(t)
    BY DEF Before
  <1>6. /\ IsFiniteSet(Before(t, j - 1)) /\ Cardinality(Before(t, j - 1)) \in Nat
        /\ Cardinality(Before(t, j - 1)) <= Cardinality(UsedSlots(t))
    BY <1>4, <1>5, FS_Subset, FS_CardinalityType
  <1> QED  BY <1>2, <1>3, <1>6

\* One slot more.
LEMMA MoveOne ==
    ASSUME NEW c \in Nat, NEW t, Table(t, c), NEW a \in Nat \ {0}, t.n < a, NEW j \in 1 .. c,
           NEW u, MovedUpTo(t, u, a, j - 1)
    PROVE  MovedUpTo(t, MovedSlot(t, u, j - 1), a, j)
  <1>1. t \in Slots(c) /\ t.cap = c /\ Cardinality(UsedSlots(t)) = t.n /\ t.n \in Nat
    BY DEF Table, Slots
  <1>2. /\ Before(t, j) = Before(t, j - 1) \union (IF t.used[j - 1] THEN {j - 1} ELSE {})
        /\ j - 1 \notin Before(t, j - 1) /\ IsFiniteSet(Before(t, j - 1))
        /\ Cardinality(Before(t, j - 1)) \in Nat
        /\ Cardinality(Before(t, j - 1)) <= Cardinality(UsedSlots(t))
    BY <1>1, BeforeNext
  <1>3. CASE ~t.used[j - 1]
    BY <1>2, <1>3 DEF MovedUpTo, MovedSlot
  <1>4. CASE t.used[j - 1]
    <2>1. j - 1 \in 0 .. c - 1 /\ j - 1 \in UsedSlots(t)
      <3>1. j - 1 \in 0 .. c - 1
        OBVIOUS
      <3> QED  BY <1>1, <1>4, <3>1 DEF UsedSlots
    <2>2. PICK k \in Key, v \in Value : k = t.keys[j - 1] /\ v = t.values[j - 1]
      BY <1>1, <2>1 DEF Slots
    <2>3. PICK b : b = Before(t, j - 1)
      OBVIOUS
    <2>4. /\ Before(t, j) = b \union {j - 1} /\ j - 1 \notin b /\ IsFiniteSet(b)
          /\ Cardinality(b) \in Nat /\ Cardinality(b) <= t.n
      BY <1>1, <1>2, <1>4, <2>3
    <2>5. /\ Table(u, a) /\ u.n = Cardinality(b)
          /\ \A key \in Key : \A w : Maps(u, key, w) <=> \E s \in b : t.keys[s] = key /\ t.values[s] = w
      BY <2>3 DEF MovedUpTo
    <2>6. u.n < a
      BY <1>1, <2>4, <2>5
    <2>7. PICK z : z = PutSlot(u, k, v)
      OBVIOUS
    <2>8. /\ Table(z, a)
          /\ \A key \in Key : \A w : Maps(z, key, w) <=> IF key = k THEN w = v ELSE Maps(u, key, w)
          /\ (\A w \in Value : ~Maps(u, k, w)) => z.n = u.n + 1
      BY <2>5, <2>6, <2>7, PutKeeps
    <2>9. \A s \in b : s \in UsedSlots(t) /\ s # j - 1
      BY <2>3, <2>4 DEF Before
    <2>10. \A s \in b : t.keys[s] # k
      BY <2>1, <2>2, <2>9 DEF Table, OneSlotEach
    <2>11. z.n = Cardinality(b \union {j - 1})
      <3>1. z.n = u.n + 1
        BY <2>5, <2>8, <2>10
      <3>2. Cardinality(b \union {j - 1}) = Cardinality(b) + 1
        <4>1. PICK i : i = j - 1
          OBVIOUS
        <4>2. i \notin b /\ IsFiniteSet(b)
          BY <2>4, <4>1
        <4>3. Cardinality(b \union {i}) = Cardinality(b) + 1
          BY <4>2, FS_AddElement
        <4> QED  BY <4>1, <4>3
      <3> QED  BY <2>5, <3>1, <3>2
    <2>12. ASSUME NEW key \in Key, NEW w
           PROVE  Maps(z, key, w) <=> \E s \in b \union {j - 1} : t.keys[s] = key /\ t.values[s] = w
      <3>1. CASE key = k
        BY <2>2, <2>8, <2>10, <3>1
      <3>2. CASE key # k
        <4>1. Maps(z, key, w) <=> \E s \in b : t.keys[s] = key /\ t.values[s] = w
          BY <2>5, <2>8, <3>2
        <4> QED  BY <2>2, <3>2, <4>1
      <3> QED  BY <3>1, <3>2
    <2>13. MovedSlot(t, u, j - 1) = z
      BY <1>4, <2>2, <2>7 DEF MovedSlot
    <2> QED  BY <2>4, <2>8, <2>11, <2>12, <2>13 DEF MovedUpTo
  <1> QED  BY <1>3, <1>4

\* Growing a table keeps what it maps, whatever collides in either of them.
LEMMA GrownKeeps ==
    ASSUME NEW c \in Nat, NEW t, Table(t, c), NEW a \in Nat \ {0}, a = NewCap(t), t.n < a
    PROVE  /\ Table(GrownSlots(t), a) /\ GrownSlots(t).n = t.n
           /\ \A key \in Key : \A w : Maps(GrownSlots(t), key, w) <=> Maps(t, key, w)
  <1>1. t \in Slots(c) /\ t.cap = c /\ Cardinality(UsedSlots(t)) = t.n
    BY DEF Table, Slots
  <1>2. /\ Moves(t)[1 .. 0] = ZeroedSlots(a)
        /\ \A j \in 1 .. c : Moves(t)[1 .. j] = MovedSlot(t, Moves(t)[1 .. j - 1], j - 1)
        /\ GrownSlots(t) = Moves(t)[1 .. c]
    BY <1>1, MovesUnfold
  <1>3. UsedSlots(t) = {s \in 0 .. c - 1 : t.used[s]}
    BY <1>1 DEF UsedSlots
  <1>4. MovedUpTo(t, Moves(t)[1 .. 0], a, 0)
    <2>1. Before(t, 0) = {}
      BY <1>3 DEF Before
    <2>2. Cardinality({}) = 0
      BY FS_EmptySet
    <2>3. PICK u : u = ZeroedSlots(a)
      OBVIOUS
    <2>4. Table(u, a) /\ u.n = 0 /\ \A key, w : ~Maps(u, key, w)
      BY <2>3, ZeroedTable
    <2>5. MovedUpTo(t, u, a, 0)
      BY <2>1, <2>2, <2>4 DEF MovedUpTo
    <2> QED  BY <1>2, <2>3, <2>5
  <1> DEFINE Bad == {j \in 0 .. c : ~MovedUpTo(t, Moves(t)[1 .. j], a, j)}
  <1>5. Bad = {}
    <2> SUFFICES ASSUME Bad # {} PROVE FALSE
      OBVIOUS
    <2>1. PICK j \in Bad : \A i \in Bad : j <= i
      <3>1. Bad \in SUBSET Nat
        OBVIOUS
      <3> QED  BY <3>1, LeastNatural
    <2>2. j # 0
      BY <1>4, <2>1
    <2>3. j \in 1 .. c /\ j - 1 \in 0 .. c /\ ~(j <= j - 1)
      BY <2>1, <2>2
    <2>4. j - 1 \notin Bad
      BY <2>1, <2>3
    <2>5. MovedUpTo(t, Moves(t)[1 .. j - 1], a, j - 1)
      BY <2>3, <2>4
    <2>6. MovedUpTo(t, MovedSlot(t, Moves(t)[1 .. j - 1], j - 1), a, j)
      BY <2>3, <2>5, MoveOne
    <2>7. MovedUpTo(t, Moves(t)[1 .. j], a, j)
      BY <1>2, <2>3, <2>6
    <2> QED  BY <2>1, <2>7
  <1>6. MovedUpTo(t, GrownSlots(t), a, c)
    <2>1. c \in 0 .. c
      OBVIOUS
    <2> QED  BY <1>2, <1>5, <2>1
  <1>7. Before(t, c) = UsedSlots(t)
    BY <1>3 DEF Before
  <1> QED  BY <1>1, <1>6, <1>7 DEF MovedUpTo, Maps

-----------------------------------------------------------------------------
(* The memory over a run.                                                   *)

\* At most half of the table is used.
HalfFree(t, c) == Table(t, c) /\ (c = 0 \/ c >= 2) /\ 2 * t.n <= c
MemoryInv == \E c \in Nat : HalfFree(m, c)

\* Tables that map the same answer the same.
LEMMA SameMapSameGet ==
    ASSUME NEW c \in Nat, NEW t, Table(t, c), c = 0 \/ t.n < c,
           NEW d \in Nat, NEW u, Table(u, d), d = 0 \/ u.n < d,
           NEW key \in Key, \A w : Maps(u, key, w) <=> Maps(t, key, w)
    PROVE  core_memory_get(u, key) = core_memory_get(t, key)
  <1>1. CASE \E w \in Value : Maps(t, key, w)
    <2>1. PICK w \in Value : Maps(t, key, w)
      BY <1>1
    <2>2. core_memory_get(t, key) = w
      BY <2>1, GetMapped
    <2>3. Maps(u, key, w)
      BY <2>1
    <2>4. core_memory_get(u, key) = w
      BY <2>3, GetMapped
    <2> QED  BY <2>2, <2>4
  <1>2. CASE \A w \in Value : ~Maps(t, key, w)
    <2>1. core_memory_get(t, key) = 0
      BY <1>2, GetMapped
    <2>2. \A w \in Value : ~Maps(u, key, w)
      BY <1>2
    <2>3. core_memory_get(u, key) = 0
      BY <2>2, GetMapped
    <2> QED  BY <2>1, <2>3
  <1> QED  BY <1>1, <1>2

\* What set makes sure of before it looks for the slot.
LEMMA RoomMade ==
    ASSUME NEW c \in Nat, NEW t, HalfFree(t, c), NEW room, room = IF Full(t) THEN GrownSlots(t) ELSE t
    PROVE  \E a \in Nat : /\ a >= 2 /\ Table(room, a) /\ 2 * (room.n + 1) <= a
                          /\ \A key \in Key : \A w : Maps(room, key, w) <=> Maps(t, key, w)
  <1>1. t.cap = c /\ t.n \in Nat /\ Table(t, c) /\ 2 * t.n <= c /\ (c = 0 \/ c >= 2)
    BY DEF HalfFree, Table, Slots
  <1>2. CASE Full(t)
    <2>1. PICK a : a = NewCap(t)
      OBVIOUS
    <2>2. a = IF c = 0 THEN SparseFirstCap ELSE 2 * c
      BY <1>1, <2>1 DEF NewCap
    <2>3. a \in Nat /\ a >= 2 /\ t.n < a /\ 2 * (t.n + 1) <= a
      <3>1. CASE c = 0
        BY <1>1, <2>2, <3>1, SparseAssumption
      <3>2. CASE c # 0
        BY <1>1, <2>2, <3>2
      <3> QED  BY <3>1, <3>2
    <2>4. /\ Table(GrownSlots(t), a) /\ GrownSlots(t).n = t.n
          /\ \A key \in Key : \A w : Maps(GrownSlots(t), key, w) <=> Maps(t, key, w)
      BY <1>1, <2>1, <2>3, GrownKeeps
    <2> QED  BY <1>2, <2>3, <2>4
  <1>3. CASE ~Full(t)
    <2>1. 2 * (t.n + 1) <= c /\ c >= 2
      BY <1>1, <1>3 DEF Full
    <2> QED  BY <1>1, <1>3, <2>1
  <1> QED  BY <1>2, <1>3

LEMMA SetStep ==
    ASSUME MemoryInv, NEW k \in Key, NEW v \in Value, core_memory_set(k, v)
    PROVE  /\ MemoryInv'
           /\ \A key \in Key : core_memory_get(m', key) = IF key = k THEN v ELSE core_memory_get(m, key)
  <1>1. PICK c \in Nat : HalfFree(m, c)
    BY DEF MemoryInv
  <1>2. PICK room : room = IF Full(m) THEN GrownSlots(m) ELSE m
    OBVIOUS
  <1>3. m' = PutSlot(room, k, v)
    BY <1>2 DEF core_memory_set
  <1>4. PICK a \in Nat : /\ a >= 2 /\ Table(room, a) /\ 2 * (room.n + 1) <= a
                         /\ \A key \in Key : \A w : Maps(room, key, w) <=> Maps(m, key, w)
    BY <1>1, <1>2, RoomMade
  <1>5. room.n \in Nat /\ room.n < a /\ a # 0
    <2>1. room.n \in Nat
      BY <1>4 DEF Table, Slots
    <2> QED  BY <1>4, <2>1
  <1>6. PICK u : u = PutSlot(room, k, v)
    OBVIOUS
  <1>7. /\ Table(u, a)
        /\ \A key \in Key : \A w : Maps(u, key, w) <=> IF key = k THEN w = v ELSE Maps(room, key, w)
        /\ u.n = room.n \/ u.n = room.n + 1
    BY <1>4, <1>5, <1>6, PutKeeps
  <1>8. HalfFree(u, a) /\ u.n < a
    <2>1. 2 * u.n <= a /\ u.n < a
      BY <1>4, <1>5, <1>7
    <2> QED  BY <1>4, <1>7, <2>1 DEF HalfFree
  <1>9. ASSUME NEW key \in Key
        PROVE  core_memory_get(u, key) = IF key = k THEN v ELSE core_memory_get(m, key)
    <2>1. CASE key = k
      <3>1. Maps(u, k, v)
        BY <1>7
      <3> QED  BY <1>7, <1>8, <2>1, <3>1, GetMapped
    <2>2. CASE key # k
      <3>1. \A w : Maps(u, key, w) <=> Maps(m, key, w)
        BY <1>4, <1>7, <2>2
      <3>2. Table(m, c) /\ (c = 0 \/ m.n < c)
        <4>1. m.n \in Nat
          BY <1>1 DEF HalfFree, Table, Slots
        <4> QED  BY <1>1, <4>1 DEF HalfFree
      <3>3. core_memory_get(u, key) = core_memory_get(m, key)
        BY <1>7, <1>8, <3>1, <3>2, SameMapSameGet
      <3> QED  BY <2>2, <3>3
    <2> QED  BY <2>1, <2>2
  <1>10. MemoryInv'
    BY <1>3, <1>6, <1>8 DEF MemoryInv
  <1> QED  BY <1>3, <1>6, <1>9, <1>10

\* The table of the indexed memory (core_memory_get and core_memory_set of
\* cx/core/sparse.cx) is a memory of words that is zero at the start and that
\* a set changes at its key only, whatever keys collide and however often it
\* grows.
THEOREM SparseImplementsWords == SparseSpec => ImplementsWords
  <1>1. SparseInit => MemoryInv /\ Word!Init
    <2> SUFFICES ASSUME SparseInit PROVE MemoryInv /\ Word!Init
      OBVIOUS
    <2>1. Table(m, 0) /\ m.n = 0 /\ m.cap = 0
      BY ZeroedTable DEF SparseInit, ZeroedSlots
    <2>2. MemoryInv
      BY <2>1 DEF MemoryInv, HalfFree
    <2>3. \A key \in Key : core_memory_get(m, key) = 0
      BY <2>1 DEF core_memory_get
    <2> QED  BY <2>2, <2>3 DEF Word!Init
  <1>2. MemoryInv /\ [SparseNext]_m =>
            MemoryInv' /\ [\E k \in Key, v \in Value : Word!Set(k, v)]_([k \in Key |-> core_memory_get(m, k)])
    <2> SUFFICES ASSUME MemoryInv, [SparseNext]_m
                 PROVE  /\ MemoryInv'
                        /\ [\E k \in Key, v \in Value : Word!Set(k, v)]_([k \in Key |-> core_memory_get(m, k)])
      OBVIOUS
    <2>1. CASE SparseNext
      <3>1. PICK k \in Key, v \in Value : core_memory_set(k, v)
        BY <2>1 DEF SparseNext
      <3>2. /\ MemoryInv'
            /\ \A key \in Key : core_memory_get(m', key) = IF key = k THEN v ELSE core_memory_get(m, key)
        BY <3>1, SetStep
      <3>3. [key \in Key |-> core_memory_get(m', key)]
                = [[key \in Key |-> core_memory_get(m, key)] EXCEPT ![k] = v]
        BY <3>2
      <3>4. Word!Set(k, v)
        BY <3>3 DEF Word!Set
      <3> QED  BY <3>2, <3>4
    <2>2. CASE UNCHANGED m
      BY <2>2 DEF MemoryInv
    <2> QED  BY <2>1, <2>2
  <1> QED  BY <1>1, <1>2, PTL DEF SparseSpec, ImplementsWords, Word!Spec

-----------------------------------------------------------------------------
(* The table of strings.                                                    *)

Cells(c) == [cap : {c}, n : Nat, b : [0 .. c - 1 -> Bytes \union {Absent}], v : [0 .. c - 1 -> Nat]]
Held(t) == {s \in 0 .. t.cap - 1 : t.b[s] # Absent}
Reached(t, str, d) == (Hash[str] + d) % t.cap

\* No free slot lies between the slot a string hashes to and the one it is in,
\* and it is in one only.
Strings(t, c) ==
    /\ t \in Cells(c)
    /\ \A s \in Held(t) : \E d \in 0 .. t.cap - 1 :
           Reached(t, t.b[s], d) = s /\ \A f \in 0 .. d - 1 : t.b[Reached(t, t.b[s], f)] # Absent
    /\ \A r, s \in Held(t) : t.b[r] = t.b[s] => r = s

\* The table gives string str number w.
Numbers(t, str, w) == \E s \in Held(t) : t.b[s] = str /\ t.v[s] = w

LEMMA ReachedType ==
    ASSUME NEW c \in Nat \ {0}, NEW t, t.cap = c, NEW str \in Bytes, NEW d \in Nat
    PROVE  Reached(t, str, d) \in 0 .. c - 1
  <1>1. PICK h \in Nat : h = Hash[str]
    BY TablesAssumption
  <1>2. PICK y \in Nat : y = h + d
    OBVIOUS
  <1>3. y % c \in 0 .. c - 1
    BY Division
  <1> QED  BY <1>1, <1>2, <1>3 DEF Reached

\* The search for a string that is held, or for a place for one that is not.
LEMMA SearchFinds ==
    ASSUME NEW c \in Nat \ {0}, NEW t, Strings(t, c), Cardinality(Held(t)) < c, NEW str \in Bytes,
           NEW stops, stops = {Absent, str} \/ (stops = {Absent} /\ \A s \in Held(t) : t.b[s] # str)
    PROVE  /\ Search(t, str, stops) \in 0 .. c - 1
           /\ \A s \in Held(t) : t.b[s] = str => Search(t, str, stops) = s
           /\ t.b[Search(t, str, stops)] \in {Absent, str}
           /\ \E d \in 0 .. c - 1 : /\ Search(t, str, stops) = Reached(t, str, d)
                                    /\ \A f \in 0 .. d - 1 : t.b[Reached(t, str, f)] # Absent
  <1>1. t \in Cells(c) /\ t.cap = c /\ t.b \in [0 .. c - 1 -> Bytes \union {Absent}]
    BY DEF Strings, Cells
  <1> DEFINE K == {s \in 0 .. c - 1 : t.b[s] \in stops}
             Stops(e) == t.b[Reached(t, str, e)] \in stops
  <1>2. K # {} /\ K \in SUBSET (0 .. c - 1)
    <2>1. Held(t) \in SUBSET (0 .. c - 1)
      BY <1>1 DEF Held
    <2>2. (0 .. c - 1) \ Held(t) # {}
      BY <2>1, SomeSlotFree
    <2> QED  BY <1>1, <2>2 DEF Held
  <1>3. PICK h \in Nat : h = Hash[str]
    BY TablesAssumption
  <1>4. \A e : Reached(t, str, e) = (h + e) % c
    BY <1>1, <1>3 DEF Reached
  <1>5. \E d \in 0 .. c - 1 : Stops(d) /\ \A f \in 0 .. d - 1 : ~Stops(f)
    <2>1. PICK L \in SUBSET (0 .. c - 1) : L = K
      BY <1>2
    <2>2. L # {}
      BY <1>2, <2>1
    <2>3. PICK d \in 0 .. c - 1 : (h + d) % c \in L /\ \A f \in 0 .. d - 1 : (h + f) % c \notin L
      BY <2>2, FirstReached
    <2>4. Stops(d)
      BY <1>4, <2>1, <2>3
    <2>5. ASSUME NEW f \in 0 .. d - 1 PROVE ~Stops(f)
      <3>1. Reached(t, str, f) \in 0 .. c - 1
        BY <1>1, ReachedType
      <3> QED  BY <1>4, <2>1, <2>3, <3>1
    <2> QED  BY <2>4, <2>5
  <1>6. PICK d : d = CHOOSE e \in 0 .. t.cap - 1 :
                         t.b[(Hash[str] + e) % t.cap] \in stops
                         /\ \A f \in 0 .. e - 1 : t.b[(Hash[str] + f) % t.cap] \notin stops
    OBVIOUS
  <1>7. d \in 0 .. c - 1 /\ Stops(d) /\ \A f \in 0 .. d - 1 : ~Stops(f)
    BY <1>1, <1>5, <1>6 DEF Reached
  <1>8. Search(t, str, stops) = Reached(t, str, d)
    BY <1>6 DEF Search, Reached
  <1>9. Reached(t, str, d) \in 0 .. c - 1
    BY <1>1, <1>7, ReachedType
  <1>10. \A f \in 0 .. d - 1 : t.b[Reached(t, str, f)] # Absent
    BY <1>7
  <1>11. ASSUME NEW s \in Held(t), t.b[s] = str PROVE Reached(t, str, d) = s
    <2>1. PICK e \in 0 .. c - 1 : Reached(t, str, e) = s /\ \A f \in 0 .. e - 1 : t.b[Reached(t, str, f)] # Absent
      BY <1>1, <1>11 DEF Strings
    <2>2. stops = {Absent, str}
      BY <1>11
    <2>3. Stops(e)
      BY <1>11, <2>1, <2>2
    <2>4. ~(e < d)
      BY <1>7, <2>1, <2>3
    <2>5. CASE d < e
      <3>1. t.b[Reached(t, str, d)] # Absent
        BY <1>7, <2>1, <2>5
      <3>2. t.b[Reached(t, str, d)] = str
        BY <1>7, <2>2, <3>1
      <3>3. Reached(t, str, d) \in Held(t)
        BY <1>1, <1>9, <3>1 DEF Held
      <3> QED  BY <1>11, <3>2, <3>3 DEF Strings
    <2>6. CASE d = e
      BY <2>1, <2>6
    <2> QED  BY <1>7, <2>1, <2>4, <2>5, <2>6
  <1> QED  BY <1>7, <1>8, <1>9, <1>10, <1>11

\* A string is written where the search for it ends.
LEMMA Written ==
    ASSUME NEW c \in Nat \ {0}, NEW t, Strings(t, c), Cardinality(Held(t)) < c, NEW str \in Bytes,
           NEW stops, stops = {Absent, str} \/ (stops = {Absent} /\ \A s \in Held(t) : t.b[s] # str),
           NEW p, p = Search(t, str, stops), NEW w \in Nat,
           NEW u \in Cells(c), u.b = [t.b EXCEPT ![p] = str], u.v = [t.v EXCEPT ![p] = w]
    PROVE  /\ Strings(u, c)
           /\ Held(u) = Held(t) \union {p}
           /\ \A y \in Bytes : \A z : Numbers(u, y, z) <=> IF y = str THEN z = w ELSE Numbers(t, y, z)
  <1>1. /\ t \in Cells(c) /\ t.cap = c /\ t.b \in [0 .. c - 1 -> Bytes \union {Absent}]
        /\ t.v \in [0 .. c - 1 -> Nat]
    BY DEF Strings, Cells
  <1>2. u.cap = c
    BY DEF Cells
  <1>3. /\ p \in 0 .. c - 1
        /\ \A s \in Held(t) : t.b[s] = str => p = s
        /\ t.b[p] \in {Absent, str}
        /\ \E d \in 0 .. c - 1 : p = Reached(t, str, d) /\ \A f \in 0 .. d - 1 : t.b[Reached(t, str, f)] # Absent
    BY SearchFinds
  <1>4. str # Absent
    BY TablesAssumption
  <1>5. Held(u) = Held(t) \union {p}
    BY <1>1, <1>2, <1>3, <1>4 DEF Held
  <1>6. /\ u.b[p] = str /\ u.v[p] = w
        /\ \A s \in Held(u) \ {p} : s \in Held(t) /\ u.b[s] = t.b[s] /\ u.v[s] = t.v[s] /\ u.b[s] # str
    <2>1. u.b[p] = str /\ u.v[p] = w
      BY <1>1, <1>3
    <2>2. ASSUME NEW s \in Held(u) \ {p}
          PROVE  s \in Held(t) /\ s \in 0 .. c - 1 /\ u.b[s] = t.b[s] /\ u.v[s] = t.v[s]
      BY <1>1, <1>5 DEF Held
    <2>3. \A s \in Held(u) \ {p} : u.b[s] # str
      BY <1>3, <2>2
    <2> QED  BY <2>1, <2>2, <2>3
  <1>7. \A s \in Held(t) : t.b[s] # str => s # p
    BY <1>3 DEF Held
  <1>8. ASSUME NEW s \in Held(u)
        PROVE  \E d \in 0 .. u.cap - 1 :
                   Reached(u, u.b[s], d) = s /\ \A f \in 0 .. d - 1 : u.b[Reached(u, u.b[s], f)] # Absent
    <2>1. \A y, d : Reached(u, y, d) = Reached(t, y, d)
      BY <1>1, <1>2 DEF Reached
    <2>2. ASSUME NEW y \in Bytes, NEW f \in Nat, t.b[Reached(t, y, f)] # Absent
          PROVE  u.b[Reached(u, y, f)] # Absent
      <3>1. Reached(t, y, f) \in 0 .. c - 1
        BY <1>1, ReachedType
      <3> QED  BY <1>1, <1>4, <2>1, <2>2, <3>1
    <2>3. CASE s = p
      <3>1. PICK d \in 0 .. c - 1 : p = Reached(t, str, d) /\ \A f \in 0 .. d - 1 : t.b[Reached(t, str, f)] # Absent
        BY <1>3
      <3>2. Reached(u, u.b[s], d) = s
        BY <1>6, <2>1, <2>3, <3>1
      <3>3. \A f \in 0 .. d - 1 : u.b[Reached(u, str, f)] # Absent
        BY <2>2, <3>1
      <3> QED  BY <1>2, <1>6, <2>3, <3>2, <3>3
    <2>4. CASE s # p
      <3>1. s \in Held(t) /\ u.b[s] = t.b[s] /\ t.b[s] \in Bytes
        BY <1>1, <1>6, <2>4 DEF Held
      <3>2. PICK d \in 0 .. c - 1 :
                Reached(t, t.b[s], d) = s /\ \A f \in 0 .. d - 1 : t.b[Reached(t, t.b[s], f)] # Absent
        BY <1>1, <3>1 DEF Strings
      <3> QED  BY <1>2, <2>1, <2>2, <3>1, <3>2
    <2> QED  BY <2>3, <2>4
  <1>9. ASSUME NEW r \in Held(u), NEW s \in Held(u), u.b[r] = u.b[s] PROVE r = s
    <2>1. CASE r = p \/ s = p
      BY <1>6, <1>9, <2>1
    <2>2. CASE r # p /\ s # p
      BY <1>6, <1>9, <2>2 DEF Strings
    <2> QED  BY <2>1, <2>2
  <1>10. ASSUME NEW y \in Bytes, NEW z
         PROVE  Numbers(u, y, z) <=> IF y = str THEN z = w ELSE Numbers(t, y, z)
    <2>1. p \in Held(u)
      BY <1>5
    <2>2. CASE y = str
      BY <1>6, <2>1, <2>2 DEF Numbers
    <2>3. CASE y # str
      <3>1. ASSUME Numbers(u, y, z) PROVE Numbers(t, y, z)
        BY <1>6, <2>3, <3>1 DEF Numbers
      <3>2. ASSUME Numbers(t, y, z) PROVE Numbers(u, y, z)
        <4>1. PICK s \in Held(t) : t.b[s] = y /\ t.v[s] = z
          BY <3>2 DEF Numbers
        <4>2. s \in Held(u) \ {p}
          BY <1>5, <1>7, <2>3, <4>1
        <4> QED  BY <1>6, <4>1, <4>2 DEF Numbers
      <3> QED  BY <2>3, <3>1, <3>2
    <2> QED  BY <2>2, <2>3
  <1> QED  BY <1>5, <1>8, <1>9, <1>10 DEF Strings

-----------------------------------------------------------------------------
(* Its growth.                                                              *)

GrownCap(t) == IF t.cap = 0 THEN FirstCap ELSE 2 * t.cap
StringSlots(t) == [j \in 1 .. t.cap |-> j - 1]
NoneMoved(t) == [EmptyTable(GrownCap(t)) EXCEPT !.n = t.n]
MovedString(t, new, k) ==
    IF t.b[k] = Absent THEN new
    ELSE LET to == Search(new, t.b[k], {Absent}) IN [new EXCEPT !.b[to] = t.b[k], !.v[to] = t.v[k]]

\* The function the library folds with.
StringMoves(t) ==
    CHOOSE g : g = [s \in SUBSET DOMAIN StringSlots(t) |->
                       IF s = {} THEN NoneMoved(t)
                       ELSE MovedString(t, g[s \ {Max(s)}], StringSlots(t)[Max(s)])]

LEMMA GrownIsStringMoves ==
    ASSUME NEW t
    PROVE  Grown(t) = StringMoves(t)[DOMAIN StringSlots(t)]
  BY DEF Grown, FoldLeft, MapThenFoldSet, StringMoves, MovedString, StringSlots, NoneMoved, GrownCap

LEMMA NoneMovedStrings ==
    ASSUME NEW t, NEW a \in Nat, a = GrownCap(t), t.n \in Nat
    PROVE  /\ Strings(NoneMoved(t), a) /\ NoneMoved(t).n = t.n /\ Held(NoneMoved(t)) = {}
           /\ \A str, w : ~Numbers(NoneMoved(t), str, w)
  <1>1. PICK u : u = NoneMoved(t)
    OBVIOUS
  <1>2. u = [cap |-> a, n |-> t.n, b |-> [k \in 0 .. a - 1 |-> Absent], v |-> [k \in 0 .. a - 1 |-> 0]]
    BY <1>1 DEF NoneMoved, EmptyTable
  <1>3. u \in Cells(a) /\ u.n = t.n /\ Held(u) = {}
    BY <1>2 DEF Cells, Held
  <1> QED  BY <1>1, <1>3 DEF Strings, Numbers

\* z has string str with number w in slot to, and is like new elsewhere.
Placed(z, new, to, str, w) == z.b = [new.b EXCEPT ![to] = str] /\ z.v = [new.v EXCEPT ![to] = w]

LEMMA MovedStringType ==
    ASSUME NEW c \in Nat, NEW t \in Cells(c), NEW a \in Nat, NEW new \in Cells(a), NEW k \in 0 .. c - 1,
           NEW to, to = Search(new, t.b[k], {Absent})
    PROVE  /\ MovedString(t, new, k) \in Cells(a) /\ MovedString(t, new, k).n = new.n
           /\ t.b[k] # Absent => Placed(MovedString(t, new, k), new, to, t.b[k], t.v[k])
  <1>1. PICK str \in Bytes \union {Absent}, w \in Nat : str = t.b[k] /\ w = t.v[k]
    BY DEF Cells
  <1>2. CASE str = Absent
    BY <1>1, <1>2 DEF MovedString
  <1>3. CASE str # Absent
    <2>1. to = Search(new, str, {Absent})
      BY <1>1
    <2>2. MovedString(t, new, k) = [new EXCEPT !.b[to] = str, !.v[to] = w]
      BY <1>1, <1>3, <2>1 DEF MovedString
    <2>3. /\ new = [cap |-> a, n |-> new.n, b |-> new.b, v |-> new.v] /\ new.n \in Nat
          /\ new.b \in [0 .. a - 1 -> Bytes \union {Absent}] /\ new.v \in [0 .. a - 1 -> Nat]
      BY DEF Cells
    <2>4. MovedString(t, new, k) = [cap |-> a, n |-> new.n, b |-> [new.b EXCEPT ![to] = str],
                                    v |-> [new.v EXCEPT ![to] = w]]
      BY <2>2 DEF Cells
    <2>5. /\ [new.b EXCEPT ![to] = str] \in [0 .. a - 1 -> Bytes \union {Absent}]
          /\ [new.v EXCEPT ![to] = w] \in [0 .. a - 1 -> Nat]
      BY <2>3
    <2>6. MovedString(t, new, k) \in Cells(a) /\ MovedString(t, new, k).n = new.n
      BY <2>3, <2>4, <2>5 DEF Cells
    <2>7. Placed(MovedString(t, new, k), new, to, str, w)
      BY <2>4 DEF Placed
    <2> QED  BY <1>1, <2>1, <2>6, <2>7
  <1> QED  BY <1>2, <1>3

LEMMA StringMovesUnfold ==
    ASSUME NEW c \in Nat, NEW t \in Cells(c)
    PROVE  /\ StringMoves(t)[1 .. 0] = NoneMoved(t)
           /\ \A j \in 1 .. c : StringMoves(t)[1 .. j] = MovedString(t, StringMoves(t)[1 .. j - 1], j - 1)
           /\ Grown(t) = StringMoves(t)[1 .. c]
  <1>1. /\ t.cap = c /\ t.n \in Nat /\ DOMAIN StringSlots(t) = 1 .. c
        /\ \A j \in 1 .. c : StringSlots(t)[j] = j - 1
    BY DEF Cells, StringSlots
  <1>2. PICK a \in Nat : a = GrownCap(t)
    BY <1>1, TablesAssumption DEF GrownCap
  <1>3. PICK V : V = Cells(a)
    OBVIOUS
  <1>4. PICK base \in V : base = NoneMoved(t)
    BY <1>1, <1>2, <1>3, NoneMovedStrings DEF Strings
  <1> DEFINE G == [arg \in V \X (1 .. c) |-> MovedString(t, arg[1], arg[2] - 1)]
  <1>5. PICK F \in [V \X (1 .. c) -> V] : F = G
    <2>1. ASSUME NEW arg \in V \X (1 .. c) PROVE MovedString(t, arg[1], arg[2] - 1) \in V
      <3>1. arg[1] \in Cells(a) /\ arg[2] - 1 \in 0 .. c - 1
        BY <1>3
      <3>2. PICK to : to = Search(arg[1], t.b[arg[2] - 1], {Absent})
        OBVIOUS
      <3> QED  BY <1>3, <3>1, <3>2, MovedStringType
    <2>2. G \in [V \X (1 .. c) -> V]
      BY <2>1
    <2> QED  BY <2>2
  <1>6. PICK g \in [SUBSET (1 .. c) -> V] : Solves(g, c, base, F)
    <2>1. base \in V /\ F \in [V \X (1 .. c) -> V]
      BY <1>4, <1>5
    <2> HIDE DEF G
    <2> QED  BY <2>1, FoldExists
  <1>7. ASSUME NEW s \in SUBSET (1 .. c), s # {}
        PROVE  F[<<g[s \ {Max(s)}], Max(s)>>] = MovedString(t, g[s \ {Max(s)}], StringSlots(t)[Max(s)])
    <2>1. Max(s) \in 1 .. c /\ s \ {Max(s)} \in SUBSET (1 .. c)
      BY <1>7, MaxIsIn
    <2>2. g[s \ {Max(s)}] \in V
      BY <2>1
    <2> QED  BY <1>1, <1>5, <2>1, <2>2
  <1>8. g = [s \in SUBSET DOMAIN StringSlots(t) |->
                 IF s = {} THEN NoneMoved(t)
                 ELSE MovedString(t, g[s \ {Max(s)}], StringSlots(t)[Max(s)])]
    BY <1>1, <1>4, <1>6, <1>7 DEF Solves
  <1>9. StringMoves(t) = [s \in SUBSET DOMAIN StringSlots(t) |->
                             IF s = {} THEN NoneMoved(t)
                             ELSE MovedString(t, StringMoves(t)[s \ {Max(s)}], StringSlots(t)[Max(s)])]
    BY <1>8 DEF StringMoves
  <1>10. 1 .. 0 = {}
    OBVIOUS
  <1>11. StringMoves(t)[1 .. 0] = NoneMoved(t)
    BY <1>9, <1>10
  <1>12. ASSUME NEW j \in 1 .. c
         PROVE  StringMoves(t)[1 .. j] = MovedString(t, StringMoves(t)[1 .. j - 1], j - 1)
    <2>1. Max(1 .. j) = j /\ (1 .. j) \ {j} = 1 .. j - 1 /\ 1 .. j # {}
      BY MaxUpTo
    <2>2. 1 .. j \in SUBSET DOMAIN StringSlots(t)
      BY <1>1
    <2>3. StringMoves(t)[1 .. j]
              = MovedString(t, StringMoves(t)[(1 .. j) \ {Max(1 .. j)}], StringSlots(t)[Max(1 .. j)])
      BY <1>9, <2>1, <2>2
    <2> QED  BY <1>1, <2>1, <2>3
  <1> QED  BY <1>1, <1>11, <1>12, GrownIsStringMoves

\* The strings below slot j are moved.
HeldBefore(t, j) == {s \in Held(t) : s < j}
StringsMoved(t, u, c, j) ==
    /\ Strings(u, c) /\ u.n = t.n
    /\ IsFiniteSet(Held(u)) /\ Cardinality(Held(u)) = Cardinality(HeldBefore(t, j))
    /\ \A arg \in Bytes : \A w : Numbers(u, arg, w) <=> \E s \in HeldBefore(t, j) : t.b[s] = arg /\ t.v[s] = w

LEMMA HeldBeforeNext ==
    ASSUME NEW c \in Nat, NEW t \in Cells(c), NEW j \in 1 .. c
    PROVE  /\ HeldBefore(t, j) = HeldBefore(t, j - 1) \union (IF t.b[j - 1] # Absent THEN {j - 1} ELSE {})
           /\ j - 1 \notin HeldBefore(t, j - 1) /\ IsFiniteSet(HeldBefore(t, j - 1))
           /\ Cardinality(HeldBefore(t, j - 1)) \in Nat
           /\ Cardinality(HeldBefore(t, j - 1)) <= Cardinality(Held(t))
  <1>1. t.cap = c /\ Held(t) = {s \in 0 .. c - 1 : t.b[s] # Absent}
    BY DEF Cells, Held
  <1>2. HeldBefore(t, j) = HeldBefore(t, j - 1) \union (IF t.b[j - 1] # Absent THEN {j - 1} ELSE {})
    <2>1. \A s \in 0 .. c - 1 : s < j <=> s < j - 1 \/ s = j - 1
      OBVIOUS
    <2>2. j - 1 \in 0 .. c - 1
      OBVIOUS
    <2>3. j - 1 \in Held(t) <=> t.b[j - 1] # Absent
      BY <1>1, <2>2
    <2>4. \A s \in Held(t) : s < j <=> s < j - 1 \/ s = j - 1
      BY <1>1, <2>1
    <2>5. j - 1 < j
      OBVIOUS
    <2> QED  BY <2>3, <2>4, <2>5 DEF HeldBefore
  <1>3. j - 1 \notin HeldBefore(t, j - 1)
    BY DEF HeldBefore
  <1>4. IsFiniteSet(Held(t))
    <2>1. IsFiniteSet(0 .. c - 1) /\ Held(t) \in SUBSET (0 .. c - 1)
      BY <1>1, FS_Interval
    <2> QED  BY <2>1, FS_Subset
  <1>5. HeldBefore(t, j - 1) \in SUBSET Held(t)
    BY DEF HeldBefore
  <1>6. /\ IsFiniteSet(HeldBefore(t, j - 1)) /\ Cardinality(HeldBefore(t, j - 1)) \in Nat
        /\ Cardinality(HeldBefore(t, j - 1)) <= Cardinality(Held(t))
    BY <1>4, <1>5, FS_Subset, FS_CardinalityType
  <1> QED  BY <1>2, <1>3, <1>6

\* One slot more: a string that is not in the new table yet takes the first
\* free slot, and keeps its number.
LEMMA MoveString ==
    ASSUME NEW c \in Nat, NEW t, Strings(t, c), NEW a \in Nat \ {0}, Cardinality(Held(t)) < a,
           Cardinality(Held(t)) \in Nat, NEW j \in 1 .. c, NEW u, StringsMoved(t, u, a, j - 1)
    PROVE  StringsMoved(t, MovedString(t, u, j - 1), a, j)
  <1>1. t \in Cells(c) /\ t.cap = c
    BY DEF Strings, Cells
  <1>2. /\ HeldBefore(t, j) = HeldBefore(t, j - 1) \union (IF t.b[j - 1] # Absent THEN {j - 1} ELSE {})
        /\ j - 1 \notin HeldBefore(t, j - 1) /\ IsFiniteSet(HeldBefore(t, j - 1))
        /\ Cardinality(HeldBefore(t, j - 1)) \in Nat
        /\ Cardinality(HeldBefore(t, j - 1)) <= Cardinality(Held(t))
    BY <1>1, HeldBeforeNext
  <1>3. CASE t.b[j - 1] = Absent
    BY <1>2, <1>3 DEF StringsMoved, MovedString
  <1>4. CASE t.b[j - 1] # Absent
    <2>1. j - 1 \in 0 .. c - 1 /\ j - 1 \in Held(t)
      <3>1. j - 1 \in 0 .. c - 1
        OBVIOUS
      <3> QED  BY <1>1, <1>4, <3>1 DEF Held
    <2>2. PICK str \in Bytes, w \in Nat : str = t.b[j - 1] /\ w = t.v[j - 1]
      BY <1>1, <1>4, <2>1 DEF Cells
    <2>3. PICK b : b = HeldBefore(t, j - 1)
      OBVIOUS
    <2>4. /\ HeldBefore(t, j) = b \union {j - 1} /\ j - 1 \notin b /\ IsFiniteSet(b)
          /\ Cardinality(b) \in Nat /\ Cardinality(b) < a
      BY <1>2, <1>4, <2>3
    <2>5. /\ Strings(u, a) /\ u.n = t.n /\ u \in Cells(a)
          /\ IsFiniteSet(Held(u)) /\ Cardinality(Held(u)) = Cardinality(b)
          /\ \A y \in Bytes : \A z : Numbers(u, y, z) <=> \E s \in b : t.b[s] = y /\ t.v[s] = z
      BY <2>3 DEF StringsMoved, Strings
    <2>6. \A s \in b : s \in Held(t) /\ s # j - 1
      BY <2>3, <2>4 DEF HeldBefore
    <2>7. \A s \in b : t.b[s] # str
      BY <2>1, <2>2, <2>6 DEF Strings
    <2>8. \A s \in Held(u) : u.b[s] # str
      <3>1. \A z : ~Numbers(u, str, z)
        BY <2>5, <2>7
      <3> QED  BY <3>1 DEF Numbers
    <2>9. PICK z : z = MovedString(t, u, j - 1)
      OBVIOUS
    <2>10. PICK to : to = Search(u, str, {Absent})
      OBVIOUS
    <2>11. z \in Cells(a) /\ z.n = u.n /\ z.b = [u.b EXCEPT ![to] = str] /\ z.v = [u.v EXCEPT ![to] = w]
      <3>1. PICK i \in 0 .. c - 1 : i = j - 1
        BY <2>1
      <3>2. t.b[i] # Absent /\ str = t.b[i] /\ w = t.v[i] /\ z = MovedString(t, u, i)
        BY <1>4, <2>2, <2>9, <3>1
      <3>3. to = Search(u, t.b[i], {Absent})
        BY <2>10, <3>2
      <3>4. /\ MovedString(t, u, i) \in Cells(a) /\ MovedString(t, u, i).n = u.n
            /\ t.b[i] # Absent => Placed(MovedString(t, u, i), u, to, t.b[i], t.v[i])
        <4>1. t \in Cells(c) /\ u \in Cells(a) /\ a \in Nat /\ i \in 0 .. c - 1
          BY <1>1, <2>5, <3>1
        <4>2. MovedString(t, u, i) \in Cells(a)
          BY <3>3, <4>1, MovedStringType
        <4>3. MovedString(t, u, i).n = u.n
          BY <3>3, <4>1, MovedStringType
        <4>4. t.b[i] # Absent => Placed(MovedString(t, u, i), u, to, t.b[i], t.v[i])
          BY <3>3, <4>1, MovedStringType
        <4> QED  BY <4>2, <4>3, <4>4
      <3> QED  BY <3>2, <3>4 DEF Placed
    <2>12. Cardinality(Held(u)) < a
      BY <2>4, <2>5
    <2>13. /\ Strings(z, a) /\ Held(z) = Held(u) \union {to}
           /\ \A y \in Bytes : \A q : Numbers(z, y, q) <=> IF y = str THEN q = w ELSE Numbers(u, y, q)
      <3>1. PICK stops : stops = {Absent}
        OBVIOUS
      <3>2. /\ stops = {Absent, str} \/ (stops = {Absent} /\ \A s \in Held(u) : u.b[s] # str)
            /\ to = Search(u, str, stops)
        BY <2>8, <2>10, <3>1
      <3>3. Strings(u, a) /\ z \in Cells(a) /\ z.b = [u.b EXCEPT ![to] = str] /\ z.v = [u.v EXCEPT ![to] = w]
        BY <2>5, <2>11
      <3> QED  BY <2>12, <3>2, <3>3, Written
    <2>14. to \notin Held(u)
      <3>1. Search(u, str, {Absent}) \in 0 .. a - 1 /\ u.b[Search(u, str, {Absent})] \in {Absent, str}
        <4>1. PICK stops : stops = {Absent}
          OBVIOUS
        <4> QED  BY <2>5, <2>8, <2>12, <4>1, SearchFinds
      <3> QED  BY <2>8, <2>10, <3>1 DEF Held
    <2>15. IsFiniteSet(Held(z)) /\ Cardinality(Held(z)) = Cardinality(b \union {j - 1})
      <3>1. IsFiniteSet(Held(z)) /\ Cardinality(Held(z)) = Cardinality(b) + 1
        BY <2>5, <2>13, <2>14, FS_AddElement
      <3>2. PICK i : i = j - 1
        OBVIOUS
      <3>3. i \notin b /\ IsFiniteSet(b)
        BY <2>4, <3>2
      <3>4. Cardinality(b \union {i}) = Cardinality(b) + 1
        BY <3>3, FS_AddElement
      <3> QED  BY <3>1, <3>2, <3>4
    <2>16. ASSUME NEW y \in Bytes, NEW q
           PROVE  Numbers(z, y, q) <=> \E s \in b \union {j - 1} : t.b[s] = y /\ t.v[s] = q
      <3>1. CASE y = str
        BY <2>2, <2>7, <2>13, <3>1
      <3>2. CASE y # str
        <4>1. Numbers(z, y, q) <=> \E s \in b : t.b[s] = y /\ t.v[s] = q
          BY <2>5, <2>13, <3>2
        <4> QED  BY <2>2, <3>2, <4>1
      <3> QED  BY <3>1, <3>2
    <2> QED  BY <2>4, <2>5, <2>9, <2>11, <2>13, <2>15, <2>16 DEF StringsMoved
  <1> QED  BY <1>3, <1>4

\* Growing the table keeps every string and its number.
LEMMA GrownKeepsStrings ==
    ASSUME NEW c \in Nat, NEW t, Strings(t, c), NEW a \in Nat \ {0}, a = GrownCap(t),
           Cardinality(Held(t)) \in Nat, Cardinality(Held(t)) < a
    PROVE  /\ Strings(Grown(t), a) /\ Grown(t).n = t.n
           /\ IsFiniteSet(Held(Grown(t))) /\ Cardinality(Held(Grown(t))) = Cardinality(Held(t))
           /\ \A str \in Bytes : \A w : Numbers(Grown(t), str, w) <=> Numbers(t, str, w)
  <1>1. t \in Cells(c) /\ t.cap = c /\ t.n \in Nat
    BY DEF Strings, Cells
  <1>2. /\ StringMoves(t)[1 .. 0] = NoneMoved(t)
        /\ \A j \in 1 .. c : StringMoves(t)[1 .. j] = MovedString(t, StringMoves(t)[1 .. j - 1], j - 1)
        /\ Grown(t) = StringMoves(t)[1 .. c]
    BY <1>1, StringMovesUnfold
  <1>3. Held(t) = {s \in 0 .. c - 1 : t.b[s] # Absent}
    BY <1>1 DEF Held
  <1>4. StringsMoved(t, StringMoves(t)[1 .. 0], a, 0)
    <2>1. HeldBefore(t, 0) = {}
      BY <1>3 DEF HeldBefore
    <2>2. Cardinality({}) = 0 /\ IsFiniteSet({})
      BY FS_EmptySet
    <2>3. PICK u : u = NoneMoved(t)
      OBVIOUS
    <2>4. Strings(u, a) /\ u.n = t.n /\ Held(u) = {} /\ \A str, w : ~Numbers(u, str, w)
      BY <1>1, <2>3, NoneMovedStrings
    <2>5. StringsMoved(t, u, a, 0)
      BY <2>1, <2>2, <2>4 DEF StringsMoved
    <2> QED  BY <1>2, <2>3, <2>5
  <1> DEFINE Bad == {j \in 0 .. c : ~StringsMoved(t, StringMoves(t)[1 .. j], a, j)}
  <1>5. Bad = {}
    <2> SUFFICES ASSUME Bad # {} PROVE FALSE
      OBVIOUS
    <2>1. PICK j \in Bad : \A i \in Bad : j <= i
      <3>1. Bad \in SUBSET Nat
        OBVIOUS
      <3> QED  BY <3>1, LeastNatural
    <2>2. j # 0
      BY <1>4, <2>1
    <2>3. j \in 1 .. c /\ j - 1 \in 0 .. c /\ ~(j <= j - 1)
      BY <2>1, <2>2
    <2>4. j - 1 \notin Bad
      BY <2>1, <2>3
    <2>5. StringsMoved(t, StringMoves(t)[1 .. j - 1], a, j - 1)
      BY <2>3, <2>4
    <2>6. StringsMoved(t, MovedString(t, StringMoves(t)[1 .. j - 1], j - 1), a, j)
      BY <2>3, <2>5, MoveString
    <2>7. StringsMoved(t, StringMoves(t)[1 .. j], a, j)
      BY <1>2, <2>3, <2>6
    <2> QED  BY <2>1, <2>7
  <1>6. StringsMoved(t, Grown(t), a, c)
    <2>1. c \in 0 .. c
      OBVIOUS
    <2> QED  BY <1>2, <1>5, <2>1
  <1>7. HeldBefore(t, c) = Held(t)
    BY <1>3 DEF HeldBefore
  <1> QED  BY <1>6, <1>7 DEF StringsMoved, Numbers

-----------------------------------------------------------------------------
(* The strings over a run.                                                  *)

\* The table is at most half full; its strings have numbers up to n, one each.
InternTable(t, c) ==
    /\ Strings(t, c) /\ (c = 0 \/ c >= 2) /\ 2 * t.n <= c /\ Cardinality(Held(t)) = t.n
    /\ IsFiniteSet(Held(t))
    /\ \A str \in Bytes : \A w : Numbers(t, str, w) => w \in 1 .. t.n
    /\ \A str, y \in Bytes : \A w : Numbers(t, str, w) /\ Numbers(t, y, w) => str = y

\* Every number given is still the number of the string.
InternInv ==
    /\ \E c \in Nat : InternTable(strings, c)
    /\ \A a \in Answers("intern") : a[2] \in Bytes /\ Numbers(strings, a[2], a[3])

LEMMA OneNumberEach ==
    ASSUME NEW c \in Nat, NEW t, Strings(t, c), NEW str, NEW w, NEW z, Numbers(t, str, w), Numbers(t, str, z)
    PROVE  w = z
  BY DEF Strings, Numbers

LEMMA RoomForString ==
    ASSUME NEW c \in Nat, NEW s, InternTable(s, c), NEW t, t = Roomy(s)
    PROVE  \E a \in Nat : /\ a >= 2 /\ Strings(t, a) /\ t.n = s.n /\ 2 * (t.n + 1) <= a
                          /\ IsFiniteSet(Held(t)) /\ Cardinality(Held(t)) = t.n
                          /\ \A str \in Bytes : \A w : Numbers(t, str, w) <=> Numbers(s, str, w)
  <1>1. /\ s.cap = c /\ s.n \in Nat /\ Strings(s, c) /\ 2 * s.n <= c /\ (c = 0 \/ c >= 2)
        /\ Cardinality(Held(s)) = s.n /\ IsFiniteSet(Held(s))
    BY DEF InternTable, Strings, Cells
  <1>2. CASE (s.n + 1) * 2 > c
    <2>1. PICK a : a = GrownCap(s)
      OBVIOUS
    <2>2. a = IF c = 0 THEN FirstCap ELSE 2 * c
      BY <1>1, <2>1 DEF GrownCap
    <2>3. a \in Nat /\ a >= 2 /\ s.n < a /\ 2 * (s.n + 1) <= a
      <3>1. CASE c = 0
        BY <1>1, <2>2, <3>1, TablesAssumption
      <3>2. CASE c # 0
        BY <1>1, <2>2, <3>2
      <3> QED  BY <3>1, <3>2
    <2>4. t = Grown(s)
      BY <1>1, <1>2 DEF Roomy
    <2>5. /\ Strings(t, a) /\ t.n = s.n
          /\ IsFiniteSet(Held(t)) /\ Cardinality(Held(t)) = Cardinality(Held(s))
          /\ \A str \in Bytes : \A w : Numbers(t, str, w) <=> Numbers(s, str, w)
      BY <1>1, <2>1, <2>3, <2>4, GrownKeepsStrings
    <2> QED  BY <1>1, <2>3, <2>5
  <1>3. CASE ~((s.n + 1) * 2 > c)
    <2>1. 2 * (s.n + 1) <= c /\ c >= 2
      BY <1>1, <1>3
    <2>2. t = s
      BY <1>1, <1>3 DEF Roomy
    <2> QED  BY <1>1, <2>1, <2>2
  <1> QED  BY <1>2, <1>3

\* A string gets the number it has, or the next one.
LEMMA InternStep ==
    ASSUME NEW c \in Nat, InternTable(strings, c), NEW str \in Bytes, core_string_intern(str)
    PROVE  \E v : /\ answers' = answers \union {<<"intern", str, v>>}
                  /\ \E a \in Nat : InternTable(strings', a)
                  /\ Numbers(strings', str, v)
                  /\ \A y \in Bytes : \A w : Numbers(strings, y, w) => Numbers(strings', y, w)
  <1>1. PICK t : t = Roomy(strings)
    OBVIOUS
  <1>2. PICK stops : stops = {Absent, str}
    OBVIOUS
  <1>3. PICK k : k = Search(t, str, stops)
    OBVIOUS
  <1>4. PICK v : v = IF t.b[k] = str THEN t.v[k] ELSE t.n + 1
    OBVIOUS
  <1>5. PICK n : n = IF t.b[k] = str THEN t.n ELSE t.n + 1
    OBVIOUS
  <1>6. PICK a \in Nat : /\ a >= 2 /\ Strings(t, a) /\ t.n = strings.n /\ 2 * (t.n + 1) <= a
                         /\ IsFiniteSet(Held(t)) /\ Cardinality(Held(t)) = t.n
                         /\ \A y \in Bytes : \A w : Numbers(t, y, w) <=> Numbers(strings, y, w)
    BY <1>1, RoomForString
  <1>7. /\ t \in Cells(a) /\ t.cap = a /\ t.n \in Nat /\ t.v \in [0 .. a - 1 -> Nat]
        /\ t.b \in [0 .. a - 1 -> Bytes \union {Absent}]
    BY <1>6 DEF Strings, Cells
  <1>8. a \in Nat \ {0} /\ Cardinality(Held(t)) < a
    BY <1>6, <1>7
  <1>9. /\ k \in 0 .. a - 1
        /\ \A s \in Held(t) : t.b[s] = str => k = s
        /\ t.b[k] \in {Absent, str}
    BY <1>2, <1>3, <1>6, <1>8, SearchFinds
  <1>10. v \in Nat /\ n \in Nat
    BY <1>4, <1>5, <1>7, <1>9
  <1>11. answers' = answers \union {<<"intern", str, v>>}
    BY <1>1, <1>2, <1>3, <1>4 DEF core_string_intern
  <1>12. strings' = [t EXCEPT !.b[k] = str, !.v[k] = v, !.n = n]
    BY <1>1, <1>2, <1>3, <1>4, <1>5, <1>7 DEF core_string_intern, Cells
  <1>13. PICK u : u = [cap |-> a, n |-> n, b |-> [t.b EXCEPT ![k] = str], v |-> [t.v EXCEPT ![k] = v]]
    OBVIOUS
  <1>14. strings' = u
    <2>1. strings' = [cap |-> a, n |-> n, b |-> [t.b EXCEPT ![k] = str], v |-> [t.v EXCEPT ![k] = v]]
      BY <1>7, <1>12 DEF Cells
    <2> QED  BY <1>13, <2>1
  <1>15. u \in Cells(a) /\ u.n = n /\ u.b = [t.b EXCEPT ![k] = str] /\ u.v = [t.v EXCEPT ![k] = v]
    <2>1. [t.b EXCEPT ![k] = str] \in [0 .. a - 1 -> Bytes \union {Absent}]
          /\ [t.v EXCEPT ![k] = v] \in [0 .. a - 1 -> Nat]
      BY <1>7, <1>10
    <2> QED  BY <1>10, <1>13, <2>1 DEF Cells
  <1>16. /\ Strings(u, a) /\ Held(u) = Held(t) \union {k}
         /\ \A y \in Bytes : \A z : Numbers(u, y, z) <=> IF y = str THEN z = v ELSE Numbers(t, y, z)
    <2>1. stops = {Absent, str} \/ (stops = {Absent} /\ \A s \in Held(t) : t.b[s] # str)
      BY <1>2
    <2>2. Strings(t, a) /\ v \in Nat
      BY <1>6, <1>10
    <2> QED  BY <1>3, <1>8, <1>15, <2>1, <2>2, Written
  <1>17. k \in Held(t) <=> t.b[k] = str
    BY <1>7, <1>9, TablesAssumption DEF Held
  <1>18. /\ \A y \in Bytes : \A w : Numbers(t, y, w) => w \in 1 .. t.n
         /\ \A y, z \in Bytes : \A w : Numbers(t, y, w) /\ Numbers(t, z, w) => y = z
    BY <1>6 DEF InternTable
  <1>19. ASSUME NEW w, Numbers(t, str, w) PROVE w = v
    <2>1. PICK s \in Held(t) : t.b[s] = str /\ t.v[s] = w
      BY <1>19 DEF Numbers
    <2> QED  BY <1>4, <1>9, <2>1
  <1>20. CASE t.b[k] = str
    <2>1. Numbers(t, str, v) /\ n = t.n
      BY <1>4, <1>5, <1>17, <1>20 DEF Numbers
    <2>2. \A y \in Bytes : \A z : Numbers(u, y, z) <=> Numbers(t, y, z)
      BY <1>16, <1>19, <2>1
    <2>3. Held(u) = Held(t)
      BY <1>16, <1>17, <1>20
    <2>a. 2 * n <= a /\ a >= 2
      BY <1>6, <1>7, <2>1
    <2>4. Strings(u, a) /\ (a = 0 \/ a >= 2) /\ 2 * u.n <= a /\ Cardinality(Held(u)) = u.n /\ IsFiniteSet(Held(u))
      BY <1>6, <1>15, <1>16, <2>1, <2>3, <2>a
    <2>5. /\ \A y \in Bytes : \A w : Numbers(u, y, w) => w \in 1 .. u.n
          /\ \A y, z \in Bytes : \A w : Numbers(u, y, w) /\ Numbers(u, z, w) => y = z
      BY <1>15, <1>18, <2>1, <2>2
    <2>6. InternTable(u, a)
      BY <2>4, <2>5 DEF InternTable
    <2> QED  BY <1>6, <1>11, <1>14, <2>1, <2>2, <2>6
  <1>21. CASE t.b[k] # str
    <2>1. v = t.n + 1 /\ n = t.n + 1
      BY <1>4, <1>5, <1>21
    <2>2. \A w : ~Numbers(t, str, w)
      BY <1>9, <1>21 DEF Numbers
    <2>3. IsFiniteSet(Held(u)) /\ Cardinality(Held(u)) = t.n + 1
      BY <1>6, <1>16, <1>17, <1>21, FS_AddElement
    <2>4. Strings(u, a) /\ (a = 0 \/ a >= 2) /\ 2 * u.n <= a /\ Cardinality(Held(u)) = u.n /\ IsFiniteSet(Held(u))
      BY <1>6, <1>7, <1>15, <1>16, <2>1, <2>3
    <2>5. v \in 1 .. u.n /\ v \notin 1 .. t.n /\ \A w \in 1 .. t.n : w \in 1 .. u.n
      BY <1>7, <1>15, <2>1
    <2>6. ASSUME NEW y \in Bytes, NEW w, Numbers(u, y, w) PROVE w \in 1 .. u.n
      BY <1>16, <1>18, <2>5, <2>6
    <2>7. ASSUME NEW y \in Bytes, NEW z \in Bytes, NEW w, Numbers(u, y, w), Numbers(u, z, w) PROVE y = z
      <3>1. y # str => Numbers(t, y, w) /\ w # v
        BY <1>16, <1>18, <2>5, <2>7
      <3>2. z # str => Numbers(t, z, w) /\ w # v
        BY <1>16, <1>18, <2>5, <2>7
      <3>3. y = str => w = v
        BY <1>16, <2>7
      <3>4. z = str => w = v
        BY <1>16, <2>7
      <3> QED  BY <1>18, <3>1, <3>2, <3>3, <3>4
    <2>8. InternTable(u, a)
      BY <2>4, <2>6, <2>7 DEF InternTable
    <2>9. Numbers(u, str, v)
      BY <1>16
    <2>10. \A y \in Bytes : \A w : Numbers(strings, y, w) => Numbers(u, y, w)
      BY <1>6, <1>16, <2>2
    <2> QED  BY <1>11, <1>14, <2>8, <2>9, <2>10
  <1> QED  BY <1>20, <1>21

LEMMA StepIntern == InternInv /\ [TablesNext]_tablevars => InternInv'
  <1> SUFFICES ASSUME InternInv, [TablesNext]_tablevars PROVE InternInv'
    OBVIOUS
  <1>1. CASE UNCHANGED tablevars
    BY <1>1 DEF tablevars, InternInv, Answers
  <1>2. ASSUME NEW str \in Bytes, core_blob_add(str) PROVE InternInv'
    BY <1>2 DEF core_blob_add, InternInv, Answers
  <1>3. ASSUME NEW str \in Bytes, core_string_intern(str) PROVE InternInv'
    <2>1. PICK c \in Nat : InternTable(strings, c)
      BY DEF InternInv
    <2>2. PICK v : /\ answers' = answers \union {<<"intern", str, v>>}
                   /\ \E a \in Nat : InternTable(strings', a)
                   /\ Numbers(strings', str, v)
                   /\ \A y \in Bytes : \A w : Numbers(strings, y, w) => Numbers(strings', y, w)
      BY <1>3, <2>1, InternStep
    <2>3. Answers("intern")' = Answers("intern") \union {<<"intern", str, v>>}
      BY <2>2 DEF Answers
    <2>4. ASSUME NEW a \in Answers("intern")' PROVE a[2] \in Bytes /\ Numbers(strings', a[2], a[3])
      <3>1. CASE a = <<"intern", str, v>>
        BY <2>2, <3>1
      <3>2. CASE a \in Answers("intern")
        BY <2>2, <3>2 DEF InternInv
      <3> QED  BY <2>3, <3>1, <3>2
    <2> QED  BY <2>2, <2>4 DEF InternInv
  <1>4. ASSUME NEW p \in Name, core_resource_find(p) PROVE InternInv'
    <2>1. \E id : answers' = answers \union {<<"find", p, id>>}
      BY <1>4 DEF core_resource_find
    <2>2. Answers("intern")' = Answers("intern")
      BY <2>1 DEF Answers
    <2>3. strings' = strings
      BY <1>4 DEF core_resource_find
    <2> QED  BY <2>2, <2>3 DEF InternInv
  <1>5. ASSUME NEW p \in Name, HostChanges(p) PROVE InternInv'
    BY <1>5 DEF HostChanges, InternInv, Answers
  <1> QED  BY <1>1, <1>2, <1>3, <1>4, <1>5 DEF TablesNext

\* Two strings have the same number exactly when they are the same, over a
\* whole run and every growth of the table (core_string_intern and its callers
\* INTERN and SBINTERN, which compare names by these numbers).
THEOREM InternAlwaysExact == TablesSpec => []InternExact
  <1>1. TablesInit => InternInv
    <2> SUFFICES ASSUME TablesInit PROVE InternInv
      OBVIOUS
    <2>1. strings = EmptyTable(0) /\ answers = {}
      BY DEF TablesInit
    <2>2. /\ strings \in Cells(0) /\ strings.n = 0 /\ Held(strings) = {}
      BY <2>1 DEF EmptyTable, Cells, Held
    <2>3. Cardinality({}) = 0 /\ IsFiniteSet({})
      BY FS_EmptySet
    <2>4. InternTable(strings, 0)
      BY <2>2, <2>3 DEF InternTable, Strings, Numbers
    <2> QED  BY <2>1, <2>4 DEF InternInv, Answers
  <1>2. InternInv => InternExact
    <2> SUFFICES ASSUME InternInv, NEW a \in Answers("intern"), NEW b \in Answers("intern")
                 PROVE  a[2] = b[2] <=> a[3] = b[3]
      BY DEF InternExact
    <2>1. PICK c \in Nat : InternTable(strings, c)
      BY DEF InternInv
    <2>2. /\ a[2] \in Bytes /\ Numbers(strings, a[2], a[3])
          /\ b[2] \in Bytes /\ Numbers(strings, b[2], b[3])
      BY DEF InternInv
    <2>3. a[2] = b[2] => a[3] = b[3]
      BY <2>1, <2>2, OneNumberEach DEF InternTable
    <2>4. a[3] = b[3] => a[2] = b[2]
      BY <2>1, <2>2 DEF InternTable
    <2> QED  BY <2>3, <2>4
  <1> QED  BY <1>1, <1>2, StepIntern, PTL DEF TablesSpec
=============================================================================
