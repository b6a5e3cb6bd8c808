---------------------------- MODULE StdioProofs ----------------------------
(* Proofs about Stdio, for any descriptors, files and programs that          *)
(* StdioAssumption allows and any size of the buffers and of the table.      *)
(* Every helper of the library is shown to keep one invariant of the record  *)
(* w it works on, and to leave alone what belongs to other streams.  Then,   *)
(* until the device fails, what a program sees of a stream is followed       *)
(* through the helpers and the calls: each call is a step of CStream.        *)
EXTENDS Stdio, SumFacts

-----------------------------------------------------------------------------
(* The invariant.                                                            *)

Slot ==
    [fd : Fd, eof : BOOLEAN, err : BOOLEAN, ung : Byte \union {None}, buf : Seq(Byte),
     bpos : Nat, blen : Nat, wlen : Nat, ro : BOOLEAN]

Library ==
    [disk : [File -> Seq(Byte)], open : [Fd -> OpenFile \union {None}],
     slots : Seq(Slot), lost : SUBSET Fd]

\* A buffer holds unread bytes or unwritten ones.
SlotFit(t) ==
    /\ t.bpos <= t.blen /\ t.blen <= Len(t.buf) /\ t.wlen <= Len(t.buf)
    /\ t.wlen > 0 => t.bpos = t.blen /\ t.ung = None

\* The descriptors of X are on the way to be closed or to get another file.
Fit(w, X) ==
    /\ w \in Library
    /\ Len(w.slots) <= scope.NST
    /\ \A i, j \in DOMAIN w.slots : w.slots[i].fd = w.slots[j].fd => i = j
    /\ \A i \in DOMAIN w.slots :
           /\ SlotFit(w.slots[i])
           /\ w.open[w.slots[i].fd] # None \/ w.slots[i].fd \in X
    /\ \A x \in Fd \ X : w.open[x] # None => w.open[x].off <= Len(w.disk[w.open[x].file])

\* Two streams are never open on one file.
Apart(w) ==
    \A x, y \in Fd : w.open[x] # None /\ w.open[y] # None /\ w.open[x].file = w.open[y].file => x = y

StdioInv == scope \in Scopes /\ Fit(Lib, {}) /\ Apart(Lib)

-----------------------------------------------------------------------------
(* What a slot is found by, and the changes the helpers are made of.         *)

WithSlot(w, i, t) == [w EXCEPT !.slots[i] = t]
WithOff(w, fd, n) == [w EXCEPT !.open[fd].off = n]
WithDisk(w, f, c) == [w EXCEPT !.disk[f] = c]

\* The slots of the streams of S are what they were.
SameSlots(w, v, S) == \A x \in S : InSlot(v, x) = InSlot(w, x)
SamePlaces(w, v) == \A x : Index(v, x) = Index(w, x)
SameOpen(w, v, S) == \A x \in S : v.open[x] = w.open[x]
SameFiles(w, v, S) == \A f \in S : v.disk[f] = w.disk[f]
SameTable(w, v) == v.slots = w.slots /\ SamePlaces(w, v) /\ SameSlots(w, v, Fd)

LEMMA LibraryParts ==
    ASSUME NEW w \in Library
    PROVE  /\ w = [disk |-> w.disk, open |-> w.open, slots |-> w.slots, lost |-> w.lost]
           /\ w.disk \in [File -> Seq(Byte)] /\ w.open \in [Fd -> OpenFile \union {None}]
           /\ w.slots \in Seq(Slot) /\ w.lost \in SUBSET Fd
           /\ Len(w.slots) \in Nat /\ DOMAIN w.slots = 1 .. Len(w.slots)
           /\ \A i \in DOMAIN w.slots : w.slots[i] \in Slot
  BY DEF Library

\* A slot is the only one of its descriptor.
LEMMA IndexFacts ==
    ASSUME NEW w, NEW X, Fit(w, X), NEW fd
    PROVE  /\ Index(w, fd) = 0 \/ Index(w, fd) \in DOMAIN w.slots
           /\ Index(w, fd) = 0 <=> \A i \in DOMAIN w.slots : w.slots[i].fd # fd
           /\ \A i \in DOMAIN w.slots : w.slots[i].fd = fd <=> Index(w, fd) = i
           /\ Index(w, fd) = 0 => InSlot(w, fd) = Blank(fd)
           /\ Index(w, fd) # 0 => InSlot(w, fd) = w.slots[Index(w, fd)] /\ InSlot(w, fd).fd = fd
  <1>1. 0 \notin DOMAIN w.slots
    BY LibraryParts DEF Fit
  <1>2. CASE \E i \in DOMAIN w.slots : w.slots[i].fd = fd
    <2>1. Index(w, fd) = CHOOSE i \in DOMAIN w.slots : w.slots[i].fd = fd
      BY <1>2 DEF Index
    <2>2. Index(w, fd) \in DOMAIN w.slots /\ w.slots[Index(w, fd)].fd = fd
      BY <1>2, <2>1
    <2>3. \A i \in DOMAIN w.slots : w.slots[i].fd = fd => i = Index(w, fd)
      BY <2>2 DEF Fit
    <2> QED  BY <1>1, <2>2, <2>3 DEF InSlot
  <1>3. CASE ~ \E i \in DOMAIN w.slots : w.slots[i].fd = fd
    <2>1. Index(w, fd) = 0
      BY <1>3 DEF Index
    <2> QED  BY <1>1, <1>3, <2>1 DEF InSlot
  <1> QED  BY <1>2, <1>3

\* The slots are found at the places of their descriptors.
LEMMA SameIndex ==
    ASSUME NEW w, NEW v, DOMAIN v.slots = DOMAIN w.slots,
           \A i \in DOMAIN w.slots : v.slots[i].fd = w.slots[i].fd
    PROVE  SamePlaces(w, v)
  <1> SUFFICES ASSUME NEW x PROVE Index(v, x) = Index(w, x)
    BY DEF SamePlaces
  <1>1. {i \in DOMAIN v.slots : v.slots[i].fd = x} = {i \in DOMAIN w.slots : w.slots[i].fd = x}
    OBVIOUS
  <1> DEFINE s == {i \in DOMAIN w.slots : w.slots[i].fd = x}
  <1>2. (CHOOSE i \in DOMAIN v.slots : v.slots[i].fd = x) = CHOOSE i \in DOMAIN w.slots : w.slots[i].fd = x
    OBVIOUS
  <1> QED  BY <1>1, <1>2 DEF Index

LEMMA BlankSlot ==
    ASSUME NEW fd \in Fd
    PROVE  Blank(fd) \in Slot /\ SlotFit(Blank(fd)) /\ Blank(fd).fd = fd
  <1>1. <<>> \in Seq(Byte) /\ Len(<<>>) = 0
    OBVIOUS
  <1> QED  BY <1>1 DEF Blank, Slot, SlotFit

\* A stream's slot gets other contents.
SlotStep(w, v, X, i, t) ==
    /\ Fit(v, X) /\ v.disk = w.disk /\ v.open = w.open /\ v.lost = w.lost
    /\ v.slots = [w.slots EXCEPT ![i] = t] /\ Len(v.slots) = Len(w.slots)
    /\ SamePlaces(w, v)
    /\ InSlot(v, t.fd) = t /\ SameSlots(w, v, Fd \ {t.fd})

LEMMA SlotChanged ==
    ASSUME NEW w, NEW X, Fit(w, X), NEW i \in DOMAIN w.slots,
           NEW t \in Slot, t.fd = w.slots[i].fd, SlotFit(t)
    PROVE  SlotStep(w, WithSlot(w, i, t), X, i, t)
  <1> USE LibraryParts
  <1> PICK v : v = WithSlot(w, i, t)
    OBVIOUS
  <1>0. w \in Library
    BY DEF Fit
  <1>1. v = [disk |-> w.disk, open |-> w.open, slots |-> [w.slots EXCEPT ![i] = t], lost |-> w.lost]
    BY <1>0 DEF WithSlot, Library
  <1>2. v.slots = [w.slots EXCEPT ![i] = t] /\ v.disk = w.disk /\ v.open = w.open /\ v.lost = w.lost
    BY <1>1
  <1>3. v.slots \in Seq(Slot) /\ Len(v.slots) = Len(w.slots) /\ DOMAIN v.slots = DOMAIN w.slots
    BY <1>0, <1>2
  <1>4. v \in Library
    BY <1>0, <1>1, <1>3 DEF Library
  <1>5. \A j \in DOMAIN w.slots : v.slots[j] = IF j = i THEN t ELSE w.slots[j]
    BY <1>0, <1>2
  <1>6. \A j \in DOMAIN w.slots : v.slots[j].fd = w.slots[j].fd
    BY <1>5
  <1>7. Fit(v, X)
    <2>1. Len(v.slots) <= scope.NST
      BY <1>3 DEF Fit
    <2>2. \A j, k \in DOMAIN v.slots : v.slots[j].fd = v.slots[k].fd => j = k
      BY <1>3, <1>6 DEF Fit
    <2>3. \A j \in DOMAIN v.slots :
              SlotFit(v.slots[j]) /\ (v.open[v.slots[j].fd] # None \/ v.slots[j].fd \in X)
      BY <1>2, <1>3, <1>5, <1>6 DEF Fit
    <2> QED  BY <1>2, <1>4, <2>1, <2>2, <2>3 DEF Fit
  <1>8. SamePlaces(w, v)
    BY <1>3, <1>6, SameIndex
  <1>9. InSlot(v, t.fd) = t
    BY <1>3, <1>5, <1>7, IndexFacts
  <1>10. ASSUME NEW x \in Fd \ {t.fd} PROVE InSlot(v, x) = InSlot(w, x)
    <2>1. Index(w, x) # i
      BY IndexFacts
    <2> QED  BY <1>3, <1>5, <1>8, <2>1, IndexFacts DEF InSlot, SamePlaces
  <1> QED  BY <1>2, <1>3, <1>7, <1>8, <1>9, <1>10 DEF SameSlots, SlotStep

LEMMA SameTableFacts ==
    ASSUME NEW w, NEW v, v.slots = w.slots
    PROVE  SameTable(w, v)
  BY DEF Index, InSlot, SameTable, SamePlaces, SameSlots

LEMMA OpenFileParts ==
    ASSUME NEW o \in OpenFile
    PROVE  /\ o = [file |-> o.file, how |-> o.how, off |-> o.off] /\ o # None
           /\ o.file \in File /\ o.off \in Nat
           /\ o.how.rd \in BOOLEAN /\ o.how.wr \in BOOLEAN /\ o.how.append \in BOOLEAN
           /\ o.how \in [rd : BOOLEAN, wr : BOOLEAN, append : BOOLEAN, empties : BOOLEAN]
  BY StdioAssumption DEF OpenFile, Modes

\* The offset of a descriptor moves within its file.
OffStep(w, v, X, fd, n) ==
    /\ Fit(v, X) /\ v.disk = w.disk /\ v.lost = w.lost /\ SameTable(w, v)
    /\ v.open[fd] = [file |-> w.open[fd].file, how |-> w.open[fd].how, off |-> n]
    /\ v.open[fd] # None /\ SameOpen(w, v, Fd \ {fd})

LEMMA OffsetMoved ==
    ASSUME NEW w, NEW X, Fit(w, X), NEW fd \in Fd, w.open[fd] # None, NEW n \in Nat,
           n <= Len(w.disk[w.open[fd].file]) \/ fd \in X
    PROVE  OffStep(w, WithOff(w, fd, n), X, fd, n)
  <1> PICK v : v = WithOff(w, fd, n)
    OBVIOUS
  <1>1. w \in Library
    BY DEF Fit
  <1>2. w.open[fd] \in OpenFile
    BY <1>1, LibraryParts
  <1> DEFINE o == [w.open[fd] EXCEPT !.off = n]
  <1>3. o = [file |-> w.open[fd].file, how |-> w.open[fd].how, off |-> n] /\ o \in OpenFile
    BY <1>2 DEF OpenFile, Modes
  <1>4. o # None /\ o.file = w.open[fd].file /\ o.off = n
    BY <1>3, OpenFileParts
  <1>5. v = [disk |-> w.disk, open |-> [w.open EXCEPT ![fd] = o], slots |-> w.slots, lost |-> w.lost]
    BY <1>1 DEF WithOff, Library
  <1> HIDE DEF o
  <1>6. v.disk = w.disk /\ v.slots = w.slots /\ v.lost = w.lost /\ v.open = [w.open EXCEPT ![fd] = o]
    BY <1>5
  <1>7. \A x \in Fd : v.open[x] = IF x = fd THEN o ELSE w.open[x]
    BY <1>1, <1>6, LibraryParts
  <1>8. v \in Library
    <2>1. v.open \in [Fd -> OpenFile \union {None}]
      BY <1>1, <1>3, <1>6, LibraryParts
    <2> QED  BY <1>1, <1>5, <2>1, LibraryParts DEF Library
  <1>9. Fit(v, X)
    <2>1. \A i \in DOMAIN v.slots : v.slots[i].fd \in Fd
      BY <1>8, LibraryParts DEF Slot
    <2>2. \A i \in DOMAIN v.slots : v.open[v.slots[i].fd] # None \/ v.slots[i].fd \in X
      BY <1>4, <1>6, <1>7, <2>1 DEF Fit
    <2>3. \A x \in Fd \ X : v.open[x] # None => v.open[x].off <= Len(v.disk[v.open[x].file])
      BY <1>4, <1>6, <1>7 DEF Fit
    <2> QED  BY <1>6, <1>8, <2>2, <2>3 DEF Fit
  <1>10. SameTable(w, v)
    BY <1>6, SameTableFacts
  <1>11. SameOpen(w, v, Fd \ {fd})
    BY <1>7 DEF SameOpen
  <1> QED  BY <1>3, <1>4, <1>6, <1>7, <1>9, <1>10, <1>11 DEF OffStep

\* A file grows, or it is open nowhere and is emptied.
FileStep(w, v, X, f, c) ==
    /\ Fit(v, X) /\ v.open = w.open /\ v.lost = w.lost /\ SameTable(w, v)
    /\ v.disk[f] = c /\ SameFiles(w, v, File \ {f})

LEMMA FileChanged ==
    ASSUME NEW w, NEW X, Fit(w, X), NEW f \in File, NEW c \in Seq(Byte),
           \/ Len(c) >= Len(w.disk[f])
           \/ \A x \in Fd \ X : w.open[x] # None => w.open[x].file # f
    PROVE  FileStep(w, WithDisk(w, f, c), X, f, c)
  <1> PICK v : v = WithDisk(w, f, c)
    OBVIOUS
  <1>1. w \in Library
    BY DEF Fit
  <1>2. v = [disk |-> [w.disk EXCEPT ![f] = c], open |-> w.open, slots |-> w.slots, lost |-> w.lost]
    BY <1>1 DEF WithDisk, Library
  <1>3. v.open = w.open /\ v.slots = w.slots /\ v.lost = w.lost /\ v.disk = [w.disk EXCEPT ![f] = c]
    BY <1>2
  <1>4. \A g \in File : v.disk[g] = IF g = f THEN c ELSE w.disk[g]
    BY <1>1, <1>3, LibraryParts
  <1>5. v \in Library
    <2>1. v.disk \in [File -> Seq(Byte)]
      BY <1>1, <1>3, LibraryParts
    <2> QED  BY <1>1, <1>2, <2>1, LibraryParts DEF Library
  <1>6. \A x \in Fd \ X : v.open[x] # None => v.open[x].off <= Len(v.disk[v.open[x].file])
    <2> SUFFICES ASSUME NEW x \in Fd \ X, w.open[x] # None
                 PROVE  w.open[x].off <= Len(v.disk[w.open[x].file])
      BY <1>3
    <2>1. w.open[x] \in OpenFile
      BY <1>1, LibraryParts
    <2>2. w.open[x].off \in Nat /\ w.open[x].file \in File
      BY <2>1, OpenFileParts
    <2>3. Len(c) \in Nat /\ Len(w.disk[f]) \in Nat
      BY <1>1, LibraryParts
    <2>4. w.open[x].off <= Len(w.disk[w.open[x].file])
      BY DEF Fit
    <2> QED  BY <1>4, <2>2, <2>3, <2>4, SMTT(30)
  <1>7. Fit(v, X)
    BY <1>3, <1>5, <1>6 DEF Fit
  <1>8. SameTable(w, v)
    BY <1>3, SameTableFacts
  <1>9. SameFiles(w, v, File \ {f})
    BY <1>4 DEF SameFiles
  <1> QED  BY <1>3, <1>4, <1>7, <1>8, <1>9 DEF FileStep

\* Taking a slot is seen by nobody.
LEMMA SlotTaken ==
    ASSUME NEW w, NEW X, Fit(w, X), NEW fd \in Fd, w.open[fd] # None \/ fd \in X,
           scope.NST \in Nat
    PROVE  LET v == u_st_slot(w, fd) IN
           /\ Fit(v, X) /\ v.disk = w.disk /\ v.open = w.open /\ v.lost = w.lost
           /\ SameSlots(w, v, Fd)
           /\ Index(v, fd) = 0 => v = w /\ Len(w.slots) >= scope.NST
           /\ Index(w, fd) # 0 => v = w
           /\ \A x : x # fd => Index(v, x) = Index(w, x)
  <1> PICK v : v = u_st_slot(w, fd)
    OBVIOUS
  <1>0. w \in Library
    BY DEF Fit
  <1>a. Len(w.slots) \in Nat
    BY <1>0, LibraryParts
  <1>1. CASE ~(Index(w, fd) = 0 /\ Len(w.slots) < scope.NST)
    <2>1. v = w
      BY <1>1 DEF u_st_slot
    <2> QED  BY <1>1, <1>a, <2>1 DEF SameSlots
  <1>2. CASE Index(w, fd) = 0 /\ Len(w.slots) < scope.NST
    <2>1. v = [disk |-> w.disk, open |-> w.open, slots |-> Append(w.slots, Blank(fd)), lost |-> w.lost]
      BY <1>0, <1>2 DEF u_st_slot, Library
    <2>2. v.disk = w.disk /\ v.open = w.open /\ v.lost = w.lost /\ v.slots = Append(w.slots, Blank(fd))
      BY <2>1
    <2> DEFINE n == Len(w.slots)
    <2>3. /\ v.slots \in Seq(Slot) /\ Len(v.slots) = n + 1 /\ DOMAIN v.slots = 1 .. n + 1
          /\ DOMAIN w.slots = 1 .. n
          /\ \A i \in 1 .. n : v.slots[i] = w.slots[i]
          /\ v.slots[n + 1] = Blank(fd)
      BY <1>0, <1>a, <2>2, LibraryParts, BlankSlot
    <2> HIDE DEF n
    <2>b. n \in Nat /\ n < scope.NST
      BY <1>2, <1>a DEF n
    <2>4. v \in Library
      BY <1>0, <2>1, <2>2, <2>3 DEF Library
    <2>5. \A i \in 1 .. n : w.slots[i].fd # fd
      BY <1>2, <2>3, IndexFacts
    <2>6. \A i \in DOMAIN v.slots : IF i = n + 1 THEN v.slots[i] = Blank(fd)
                                    ELSE i \in 1 .. n /\ v.slots[i] = w.slots[i]
      BY <2>3, <2>b
    <2>7. \A i, j \in DOMAIN v.slots : v.slots[i].fd = v.slots[j].fd => i = j
      BY <2>3, <2>5, <2>6, BlankSlot DEF Fit
    <2>8. \A i \in DOMAIN v.slots :
              SlotFit(v.slots[i]) /\ (v.open[v.slots[i].fd] # None \/ v.slots[i].fd \in X)
      BY <2>2, <2>3, <2>6, BlankSlot DEF Fit
    <2>9. Fit(v, X)
      BY <2>2, <2>3, <2>4, <2>7, <2>8, <2>b DEF Fit
    <2>10. Index(v, fd) = n + 1 /\ InSlot(v, fd) = Blank(fd) /\ InSlot(w, fd) = Blank(fd)
      BY <1>2, <2>3, <2>9, <2>b, IndexFacts, BlankSlot
    <2>11. ASSUME NEW x, x # fd PROVE Index(v, x) = Index(w, x) /\ InSlot(v, x) = InSlot(w, x)
      <3>1. CASE Index(w, x) = 0
        <4>0. \A i \in 1 .. n : w.slots[i].fd # x
          BY <2>3, <3>1, IndexFacts
        <4>1. \A i \in DOMAIN v.slots : v.slots[i].fd # x
          BY <2>6, <2>11, <4>0, BlankSlot
        <4>2. Index(v, x) = 0
          BY <2>9, <4>1, IndexFacts
        <4> QED  BY <3>1, <4>2, IndexFacts DEF InSlot
      <3>2. CASE Index(w, x) # 0
        <4>0. Index(w, x) \in DOMAIN w.slots
          BY <3>2, IndexFacts
        <4>1. Index(w, x) \in 1 .. n /\ w.slots[Index(w, x)].fd = x
          BY <2>3, <4>0, IndexFacts
        <4>2. Index(w, x) \in DOMAIN v.slots /\ v.slots[Index(w, x)] = w.slots[Index(w, x)]
          BY <2>3, <2>b, <4>1
        <4>3. Index(v, x) = Index(w, x)
          BY <2>9, <4>1, <4>2, IndexFacts
        <4> QED  BY <3>2, <4>2, <4>3 DEF InSlot
      <3> QED  BY <3>1, <3>2
    <2> QED  BY <1>2, <2>2, <2>9, <2>10, <2>11, <2>b DEF SameSlots
  <1> QED  BY <1>1, <1>2

-----------------------------------------------------------------------------
(* Writing.                                                                  *)

\* From w to v nothing but the stream fd, its file and its slot changes.
OnlyFor(w, v, fd) ==
    /\ v.open[fd] # None /\ v.open[fd].file = w.open[fd].file /\ v.open[fd].how = w.open[fd].how
    /\ SameOpen(w, v, Fd \ {fd}) /\ SameSlots(w, v, Fd \ {fd})
    /\ SameFiles(w, v, File \ {w.open[fd].file})

LEMMA OnlyForTransitive ==
    ASSUME NEW u, NEW v, NEW w, NEW fd, OnlyFor(u, v, fd), OnlyFor(v, w, fd)
    PROVE  OnlyFor(u, w, fd)
  BY DEF OnlyFor, SameOpen, SameSlots, SameFiles

LEMMA OnlyForReflexive ==
    ASSUME NEW w, NEW fd, w.open[fd] # None
    PROVE  OnlyFor(w, w, fd)
  BY DEF OnlyFor, SameOpen, SameSlots, SameFiles

\* Bytes laid over a file from an offset in it or at its end.
LEMMA OverlaidType ==
    ASSUME NEW c \in Seq(Byte), NEW p \in Seq(Byte), NEW at \in Nat, at <= Len(c)
    PROVE  /\ Overlaid(c, at, p) \in Seq(Byte)
           /\ Len(Overlaid(c, at, p)) >= Len(c) /\ Len(Overlaid(c, at, p)) >= at + Len(p)
           /\ Len(Overlaid(c, at, p)) = IF at + Len(p) > Len(c) THEN at + Len(p) ELSE Len(c)
           /\ DOMAIN Overlaid(c, at, p) = 1 .. Len(Overlaid(c, at, p))
  <1> DEFINE n == IF at + Len(p) > Len(c) THEN at + Len(p) ELSE Len(c)
  <1>1. n \in Nat /\ n >= Len(c) /\ n >= at + Len(p) /\ Len(c) \in Nat /\ Len(p) \in Nat
    OBVIOUS
  <1>2. \A i \in 1 .. n : (IF i > at /\ i <= at + Len(p) THEN p[i - at] ELSE c[i]) \in Byte
    <2> SUFFICES ASSUME NEW i \in 1 .. n
                 PROVE  (IF i > at /\ i <= at + Len(p) THEN p[i - at] ELSE c[i]) \in Byte
      OBVIOUS
    <2>1. CASE i > at /\ i <= at + Len(p)
      <3>1. i - at \in 1 .. Len(p)
        BY <1>1, <2>1
      <3> QED  BY <2>1, <3>1
    <2>2. CASE ~(i > at /\ i <= at + Len(p))
      <3>1. i \in 1 .. Len(c)
        BY <1>1, <2>2
      <3> QED  BY <2>2, <3>1
    <2> QED  BY <2>1, <2>2
  <1>3. Overlaid(c, at, p) = [i \in 1 .. n |-> IF i > at /\ i <= at + Len(p) THEN p[i - at] ELSE c[i]]
    BY DEF Overlaid
  <1> HIDE DEF n
  <1>4. Overlaid(c, at, p) \in [1 .. n -> Byte]
    BY <1>2, <1>3
  <1>5. Overlaid(c, at, p) \in Seq(Byte) /\ Len(Overlaid(c, at, p)) = n /\ DOMAIN Overlaid(c, at, p) = 1 .. n
    BY <1>1, <1>4
  <1>6. Len(Overlaid(c, at, p)) = IF at + Len(p) > Len(c) THEN at + Len(p) ELSE Len(c)
    BY <1>5 DEF n
  <1>7. Len(Overlaid(c, at, p)) >= Len(c) /\ Len(Overlaid(c, at, p)) >= at + Len(p)
    BY <1>1, <1>5
  <1>8. DOMAIN Overlaid(c, at, p) = 1 .. Len(Overlaid(c, at, p))
    BY <1>5
  <1> QED  BY <1>5, <1>6, <1>7, <1>8

At(w, fd) == IF w.open[fd].how.append THEN Len(w.disk[w.open[fd].file]) ELSE w.open[fd].off

LEMMA AtFits ==
    ASSUME NEW w, NEW X, Fit(w, X), NEW fd \in Fd \ X, w.open[fd] # None
    PROVE  /\ At(w, fd) \in Nat /\ At(w, fd) <= Len(w.disk[w.open[fd].file])
           /\ w.disk[w.open[fd].file] \in Seq(Byte) /\ w.open[fd] \in OpenFile
           /\ w.open[fd].file \in File
  <1>1. w.open[fd] \in OpenFile /\ w.disk \in [File -> Seq(Byte)]
    BY LibraryParts DEF Fit
  <1>2. w.open[fd].file \in File /\ w.open[fd].off \in Nat /\ w.open[fd].off <= Len(w.disk[w.open[fd].file])
    BY <1>1, OpenFileParts DEF Fit
  <1>3. w.disk[w.open[fd].file] \in Seq(Byte)
    BY <1>1, <1>2
  <1> QED  BY <1>1, <1>2, <1>3 DEF At

\* p is written through fd.
Wrote(w, fd, p) ==
    WithOff(WithDisk(w, w.open[fd].file, Overlaid(w.disk[w.open[fd].file], At(w, fd), p)), fd,
            At(w, fd) + Len(p))

LEMMA WroteKeeps ==
    ASSUME NEW w, NEW X, Fit(w, X), NEW fd \in Fd \ X, w.open[fd] # None, NEW p \in Seq(Byte)
    PROVE  LET v == Wrote(w, fd, p) IN
           /\ Fit(v, X) /\ OnlyFor(w, v, fd) /\ SameTable(w, v) /\ v.lost = w.lost
           /\ v.disk[w.open[fd].file] = Overlaid(w.disk[w.open[fd].file], At(w, fd), p)
           /\ v.open[fd].off = At(w, fd) + Len(p)
  <1>f. PICK f : f = w.open[fd].file
    OBVIOUS
  <1>a. PICK at : at = At(w, fd)
    OBVIOUS
  <1>1. /\ at \in Nat /\ at <= Len(w.disk[f]) /\ w.disk[f] \in Seq(Byte) /\ f \in File
    BY <1>f, <1>a, AtFits
  <1>c. PICK c : c = Overlaid(w.disk[f], at, p)
    OBVIOUS
  <1>2. c \in Seq(Byte) /\ Len(c) >= Len(w.disk[f]) /\ Len(c) >= at + Len(p)
    BY <1>1, <1>c, OverlaidType
  <1>u. PICK u : u = WithDisk(w, f, c)
    OBVIOUS
  <1>3. FileStep(w, u, X, f, c)
    BY <1>1, <1>2, <1>u, FileChanged
  <1>n. PICK n : n = at + Len(p)
    OBVIOUS
  <1>v. PICK v : v = WithOff(u, fd, n)
    OBVIOUS
  <1>4. n \in Nat /\ n <= Len(c) /\ u.open[fd] # None /\ u.open[fd].file = f
    BY <1>1, <1>2, <1>3, <1>f, <1>n DEF FileStep
  <1>5. Fit(u, X) /\ u.disk[f] = c
    BY <1>3 DEF FileStep
  <1>6. OffStep(u, v, X, fd, n)
    BY <1>4, <1>5, <1>v, OffsetMoved
  <1>7. v = Wrote(w, fd, p)
    BY <1>f, <1>a, <1>c, <1>u, <1>n, <1>v DEF Wrote
  <1>8. SameTable(w, v)
    BY <1>3, <1>6 DEF FileStep, OffStep, SameTable, SamePlaces, SameSlots
  <1>9. SameOpen(w, v, Fd \ {fd}) /\ SameSlots(w, v, Fd \ {fd}) /\ SameFiles(w, v, File \ {f})
    BY <1>3, <1>6, <1>8 DEF FileStep, OffStep, SameTable, SameOpen, SameSlots, SameFiles
  <1>10. OnlyFor(w, v, fd)
    BY <1>f, <1>3, <1>6, <1>9 DEF FileStep, OffStep, OnlyFor
  <1>11. Fit(v, X) /\ v.lost = w.lost /\ v.disk[f] = c /\ v.open[fd].off = n
    BY <1>3, <1>6 DEF FileStep, OffStep
  <1> QED  BY <1>f, <1>a, <1>c, <1>n, <1>7, <1>8, <1>10, <1>11

\* The error bit of a stream that has a slot.
Flagged(w, fd) == IF Index(w, fd) = 0 THEN w ELSE [w EXCEPT !.slots[Index(w, fd)].err = TRUE]

LEMMA SlotIsSlot ==
    ASSUME NEW w, NEW X, Fit(w, X), NEW i \in DOMAIN w.slots
    PROVE  w.slots[i] \in Slot /\ SlotFit(w.slots[i]) /\ w.slots[i].fd \in Fd
  BY LibraryParts DEF Fit, Slot

LEMMA FlaggedKeeps ==
    ASSUME NEW w, NEW X, Fit(w, X), NEW fd \in Fd, w.open[fd] # None
    PROVE  LET v == Flagged(w, fd) IN
           /\ Fit(v, X) /\ OnlyFor(w, v, fd) /\ v.disk = w.disk /\ v.open = w.open /\ v.lost = w.lost
           /\ SamePlaces(w, v) /\ Len(v.slots) = Len(w.slots)
           /\ InSlot(v, fd) = IF Index(w, fd) = 0 THEN InSlot(w, fd) ELSE [InSlot(w, fd) EXCEPT !.err = TRUE]
  <1>1. CASE Index(w, fd) = 0
    BY <1>1, OnlyForReflexive DEF Flagged, SamePlaces
  <1>2. CASE Index(w, fd) # 0
    <2>i. PICK i : i = Index(w, fd)
      OBVIOUS
    <2>1. i \in DOMAIN w.slots /\ w.slots[i] = InSlot(w, fd) /\ w.slots[i].fd = fd
      BY <1>2, <2>i, IndexFacts
    <2>t. PICK t : t = [w.slots[i] EXCEPT !.err = TRUE]
      OBVIOUS
    <2>2. t \in Slot /\ t.fd = fd /\ SlotFit(t)
      BY <2>1, <2>t, SlotIsSlot DEF Slot, SlotFit
    <2>v. PICK v : v = WithSlot(w, i, t)
      OBVIOUS
    <2>3. SlotStep(w, v, X, i, t)
      BY <2>1, <2>2, <2>v, SlotChanged
    <2>4. v = Flagged(w, fd)
      BY <1>2, <2>i, <2>t, <2>v DEF Flagged, WithSlot
    <2>5. OnlyFor(w, v, fd)
      BY <2>2, <2>3 DEF SlotStep, OnlyFor, SameOpen, SameFiles
    <2> QED  BY <1>2, <2>i, <2>t, <2>1, <2>2, <2>3, <2>4, <2>5 DEF SlotStep
  <1> QED  BY <1>1, <1>2

\* k bytes of p, or none.
Written(w, fd, p, k) == IF k = 0 THEN w ELSE Wrote(w, fd, SubSeq(p, 1, k))

LEMMA PrefixType ==
    ASSUME NEW p \in Seq(Byte), NEW k \in 0 .. Len(p)
    PROVE  SubSeq(p, 1, k) \in Seq(Byte) /\ Len(SubSeq(p, 1, k)) = k
  OBVIOUS

LEMMA RawForm ==
    ASSUME NEW w \in Library, NEW fd, NEW p \in Seq(Byte), NEW r \in u_st_raw(w, fd, p)
    PROVE  /\ r.n \in 0 .. Len(p)
           /\ \/ /\ w.open[fd].how.wr /\ ~full /\ r.n = Len(p)
                 /\ r.w = Written(w, fd, p, r.n)
              \/ /\ ~(w.open[fd].how.wr /\ ~full) /\ (r.n = Len(p) => p = <<>>)
                 /\ r.w = Flagged(Written(w, fd, p, r.n), fd)
  <1> DEFINE o == w.open[fd]
             at == IF o.how.append THEN Len(w.disk[o.file]) ELSE o.off
             W(k) == IF k = 0 THEN w
                     ELSE [w EXCEPT !.disk[o.file] = Overlaid(@, at, SubSeq(p, 1, k)),
                                    !.open[fd].off = at + k]
             F(v) == IF Index(v, fd) = 0 THEN v ELSE [v EXCEPT !.slots[Index(v, fd)].err = TRUE]
  <1>1. u_st_raw(w, fd, p) =
            IF o.how.wr /\ ~full THEN {[w |-> W(Len(p)), n |-> Len(p)]}
            ELSE {[w |-> F(W(k)), n |-> k] : k \in IF o.how.wr THEN 0 .. Len(p) - 1 ELSE {0}}
    BY DEF u_st_raw
  <1>2. \A k \in 0 .. Len(p) : W(k) = Written(w, fd, p, k)
    <2> SUFFICES ASSUME NEW k \in 0 .. Len(p), k # 0 PROVE W(k) = Written(w, fd, p, k)
      BY DEF Written
    <2>1. Len(SubSeq(p, 1, k)) = k
      BY PrefixType
    <2>2. W(k) = Wrote(w, fd, SubSeq(p, 1, k))
      BY <2>1 DEF Wrote, WithOff, WithDisk, At, Library
    <2> QED  BY <2>2 DEF Written
  <1>3. \A v : F(v) = Flagged(v, fd)
    BY DEF Flagged
  <1>4. Len(p) \in Nat /\ (Len(p) = 0 => p = <<>>)
    OBVIOUS
  <1> HIDE DEF o, W, F
  <1>5. CASE o.how.wr /\ ~full
    <2>1. r = [w |-> W(Len(p)), n |-> Len(p)]
      BY <1>1, <1>5
    <2>2. r.n = Len(p) /\ r.w = W(Len(p))
      BY <2>1
    <2>3. r.n \in 0 .. Len(p) /\ r.w = Written(w, fd, p, r.n)
      BY <1>2, <1>4, <2>2
    <2> QED  BY <1>5, <2>2, <2>3 DEF o
  <1>6. CASE ~(o.how.wr /\ ~full)
    <2>1. PICK k \in IF o.how.wr THEN 0 .. Len(p) - 1 ELSE {0} : r = [w |-> F(W(k)), n |-> k]
      BY <1>1, <1>6
    <2>2. k \in 0 .. Len(p) /\ (k = Len(p) => Len(p) = 0)
      BY <1>4
    <2>3. r.n = k /\ r.w = F(W(k))
      BY <2>1
    <2>4. r.w = Flagged(Written(w, fd, p, r.n), fd)
      BY <1>2, <1>3, <2>2, <2>3
    <2> QED  BY <1>4, <1>6, <2>2, <2>3, <2>4 DEF o
  <1> QED  BY <1>5, <1>6

\* What u_st_raw does to the disk, the offset and the slot of its stream.
RawStep(w, r, X, fd, p) ==
    /\ Fit(r.w, X) /\ OnlyFor(w, r.w, fd) /\ SamePlaces(w, r.w)
    /\ Len(r.w.slots) = Len(w.slots) /\ r.w.lost = w.lost
    /\ r.n \in 0 .. Len(p)
    /\ r.w.disk[w.open[fd].file] =
           IF r.n = 0 THEN w.disk[w.open[fd].file]
           ELSE Overlaid(w.disk[w.open[fd].file], At(w, fd), SubSeq(p, 1, r.n))
    /\ r.w.open[fd].off = IF r.n = 0 THEN w.open[fd].off ELSE At(w, fd) + r.n
    /\ InSlot(r.w, fd) \in {InSlot(w, fd), [InSlot(w, fd) EXCEPT !.err = TRUE]}
    /\ w.open[fd].how.wr /\ ~full => r.n = Len(p) /\ InSlot(r.w, fd) = InSlot(w, fd)
    /\ r.n = Len(p) /\ p # <<>> => InSlot(r.w, fd) = InSlot(w, fd)

LEMMA RawKeeps ==
    ASSUME NEW w, NEW X, Fit(w, X), NEW fd \in Fd \ X, w.open[fd] # None, NEW p \in Seq(Byte),
           NEW r \in u_st_raw(w, fd, p)
    PROVE  RawStep(w, r, X, fd, p)
  <1>v. PICK v : v = Written(w, fd, p, r.n)
    OBVIOUS
  <1>0. w \in Library
    BY DEF Fit
  <1>1. /\ r.n \in 0 .. Len(p)
        /\ \/ w.open[fd].how.wr /\ ~full /\ r.n = Len(p) /\ r.w = v
           \/ ~(w.open[fd].how.wr /\ ~full) /\ (r.n = Len(p) => p = <<>>) /\ r.w = Flagged(v, fd)
    BY <1>0, <1>v, RawForm
  <1>2. /\ Fit(v, X) /\ OnlyFor(w, v, fd) /\ SameTable(w, v) /\ v.lost = w.lost
        /\ v.disk[w.open[fd].file] =
               IF r.n = 0 THEN w.disk[w.open[fd].file]
               ELSE Overlaid(w.disk[w.open[fd].file], At(w, fd), SubSeq(p, 1, r.n))
        /\ v.open[fd].off = IF r.n = 0 THEN w.open[fd].off ELSE At(w, fd) + r.n
    <2>1. CASE r.n = 0
      BY <1>v, <2>1, OnlyForReflexive DEF Written, SameTable, SamePlaces, SameSlots
    <2>2. CASE r.n # 0
      <3>q. PICK q : q = SubSeq(p, 1, r.n)
        OBVIOUS
      <3>1. q \in Seq(Byte) /\ Len(q) = r.n
        BY <1>1, <3>q, PrefixType
      <3>2. v = Wrote(w, fd, q)
        BY <1>v, <2>2, <3>q DEF Written
      <3>3. /\ Fit(v, X) /\ OnlyFor(w, v, fd) /\ SameTable(w, v) /\ v.lost = w.lost
            /\ v.disk[w.open[fd].file] = Overlaid(w.disk[w.open[fd].file], At(w, fd), q)
            /\ v.open[fd].off = At(w, fd) + Len(q)
        BY <3>1, <3>2, WroteKeeps
      <3> QED  BY <2>2, <3>1, <3>3, <3>q
    <2> QED  BY <2>1, <2>2
  <1>3. /\ SamePlaces(w, v) /\ Len(v.slots) = Len(w.slots) /\ InSlot(v, fd) = InSlot(w, fd)
        /\ v.open[fd] # None
    BY <1>2 DEF SameTable, SameSlots, OnlyFor
  <1>4. CASE r.w = v
    BY <1>1, <1>2, <1>3, <1>4 DEF RawStep
  <1>5. CASE ~(w.open[fd].how.wr /\ ~full) /\ (r.n = Len(p) => p = <<>>) /\ r.w = Flagged(v, fd)
    <2>u. PICK u : u = r.w
      OBVIOUS
    <2>1. /\ Fit(u, X) /\ OnlyFor(v, u, fd) /\ u.disk = v.disk /\ u.open = v.open /\ u.lost = v.lost
          /\ SamePlaces(v, u) /\ Len(u.slots) = Len(v.slots)
          /\ InSlot(u, fd) = IF Index(v, fd) = 0 THEN InSlot(v, fd) ELSE [InSlot(v, fd) EXCEPT !.err = TRUE]
      BY <1>2, <1>3, <1>5, <2>u, FlaggedKeeps
    <2>2. OnlyFor(w, u, fd)
      BY <1>2, <2>1, OnlyForTransitive
    <2>3. SamePlaces(w, u)
      BY <1>3, <2>1 DEF SamePlaces
    <2>4. InSlot(u, fd) \in {InSlot(w, fd), [InSlot(w, fd) EXCEPT !.err = TRUE]}
      BY <1>3, <2>1
    <2> QED  BY <1>1, <1>2, <1>3, <1>5, <2>1, <2>2, <2>3, <2>4, <2>u DEF RawStep
  <1> QED  BY <1>1, <1>4, <1>5

WithLost(w, s) == [w EXCEPT !.lost = s]

\* Nothing but the history differs.
LostStep(w, v, X) ==
    /\ Fit(v, X) /\ v.disk = w.disk /\ v.open = w.open /\ SameTable(w, v)

LEMMA LostChanged ==
    ASSUME NEW w, NEW X, Fit(w, X), NEW s \in SUBSET Fd
    PROVE  LostStep(w, WithLost(w, s), X) /\ WithLost(w, s).lost = s
  <1>v. PICK v : v = WithLost(w, s)
    OBVIOUS
  <1>1. w \in Library
    BY DEF Fit
  <1>2. v = [disk |-> w.disk, open |-> w.open, slots |-> w.slots, lost |-> s]
    BY <1>1, <1>v DEF WithLost, Library
  <1>3. v.disk = w.disk /\ v.open = w.open /\ v.slots = w.slots /\ v.lost = s
    BY <1>2
  <1>4. v \in Library
    BY <1>1, <1>2 DEF Library
  <1>5. Fit(v, X)
    BY <1>3, <1>4 DEF Fit
  <1> QED  BY <1>3, <1>5, <1>v, SameTableFacts DEF LostStep

\* What u_st_wflush does.
FlushStep(w, r, X, fd) ==
    /\ Fit(r.w, X) /\ OnlyFor(w, r.w, fd) /\ SamePlaces(w, r.w) /\ Len(r.w.slots) = Len(w.slots)
    /\ InSlot(r.w, fd).wlen = 0 /\ r.ok \in BOOLEAN
    /\ r.ok => /\ InSlot(r.w, fd) = [InSlot(w, fd) EXCEPT !.wlen = 0]
               /\ r.w.lost = w.lost
               /\ r.w.disk[w.open[fd].file] =
                      IF InSlot(w, fd).wlen = 0 THEN w.disk[w.open[fd].file]
                      ELSE Overlaid(w.disk[w.open[fd].file], At(w, fd),
                                    SubSeq(InSlot(w, fd).buf, 1, InSlot(w, fd).wlen))
               /\ r.w.open[fd].off = IF InSlot(w, fd).wlen = 0 THEN w.open[fd].off
                                     ELSE At(w, fd) + InSlot(w, fd).wlen
    /\ ~full /\ (InSlot(w, fd).wlen > 0 => w.open[fd].how.wr) => r.ok

\* The waiting bytes of slot i are taken out of the buffer.
Emptied(w, i) == WithSlot(w, i, [w.slots[i] EXCEPT !.wlen = 0])

LEMMA EmptiedKeeps ==
    ASSUME NEW w, NEW X, Fit(w, X), NEW fd \in Fd \ X, w.open[fd] # None, NEW i \in DOMAIN w.slots,
           w.slots[i].fd = fd
    PROVE  LET v == Emptied(w, i) IN
           /\ Fit(v, X) /\ OnlyFor(w, v, fd) /\ SamePlaces(w, v) /\ Len(v.slots) = Len(w.slots)
           /\ v.disk = w.disk /\ v.open = w.open /\ v.lost = w.lost
           /\ InSlot(v, fd) = [w.slots[i] EXCEPT !.wlen = 0] /\ InSlot(v, fd).wlen = 0
  <1>t. PICK t : t = [w.slots[i] EXCEPT !.wlen = 0]
    OBVIOUS
  <1>v. PICK v : v = Emptied(w, i)
    OBVIOUS
  <1>1. t \in Slot /\ t.fd = fd /\ SlotFit(t) /\ t.wlen = 0
    BY <1>t, SlotIsSlot, SMTT(30) DEF Slot, SlotFit
  <1>2. v = WithSlot(w, i, t)
    BY <1>t, <1>v DEF Emptied
  <1>3. SlotStep(w, v, X, i, t)
    BY <1>1, <1>2, SlotChanged
  <1>4. OnlyFor(w, v, fd)
    BY <1>1, <1>3 DEF SlotStep, OnlyFor, SameOpen, SameFiles
  <1>5. /\ Fit(v, X) /\ SamePlaces(w, v) /\ Len(v.slots) = Len(w.slots)
        /\ v.disk = w.disk /\ v.open = w.open /\ v.lost = w.lost /\ InSlot(v, fd) = t
    BY <1>1, <1>3 DEF SlotStep
  <1> QED  BY <1>1, <1>4, <1>5, <1>t, <1>v

LEMMA WflushKeeps ==
    ASSUME NEW w, NEW X, Fit(w, X), NEW fd \in Fd \ X, w.open[fd] # None,
           NEW r \in u_st_wflush(w, Index(w, fd))
    PROVE  FlushStep(w, r, X, fd)
  <1>i. PICK i : i = Index(w, fd)
    OBVIOUS
  <1>0. w \in Library
    BY DEF Fit
  <1>1. CASE i = 0 \/ w.slots[i].wlen = 0
    <2>1. r = [w |-> w, ok |-> TRUE]
      BY <1>i, <1>1 DEF u_st_wflush
    <2>2. r.w = w /\ r.ok = TRUE
      BY <2>1
    <2>3. InSlot(w, fd).wlen = 0 /\ InSlot(w, fd) = [InSlot(w, fd) EXCEPT !.wlen = 0]
      <3>1. CASE i = 0
        <4>0. Index(w, fd) = 0
          BY <1>i, <3>1
        <4>1. InSlot(w, fd) = Blank(fd)
          BY <4>0, IndexFacts DEF InSlot
        <4>2. Blank(fd) \in Slot /\ Blank(fd).wlen = 0
          BY BlankSlot DEF Blank
        <4> QED  BY <4>1, <4>2 DEF Slot
      <3>2. CASE i # 0
        <4>1. i \in DOMAIN w.slots /\ InSlot(w, fd) = w.slots[i]
          BY <1>i, <3>2, IndexFacts
        <4>2. w.slots[i] \in Slot
          BY <4>1, SlotIsSlot
        <4> QED  BY <1>1, <3>2, <4>1, <4>2 DEF Slot
      <3> QED  BY <3>1, <3>2
    <2> QED  BY <2>2, <2>3, OnlyForReflexive DEF FlushStep, SamePlaces
  <1>2. CASE i # 0 /\ w.slots[i].wlen # 0
    <2>t. PICK t : t = w.slots[i]
      OBVIOUS
    <2>p. PICK p : p = SubSeq(t.buf, 1, t.wlen)
      OBVIOUS
    <2>u. PICK u : u = Emptied(w, i)
      OBVIOUS
    <2>1. i \in DOMAIN w.slots /\ InSlot(w, fd) = t /\ t.fd = fd /\ w.slots[i].fd = fd
      BY <1>i, <1>2, <2>t, IndexFacts
    <2>2. t \in Slot /\ SlotFit(t)
      BY <2>t, <2>1, SlotIsSlot
    <2>3. t.buf \in Seq(Byte) /\ t.wlen \in 1 .. Len(t.buf) /\ t.wlen \in 0 .. Len(t.buf)
      BY <1>2, <2>t, <2>2 DEF Slot, SlotFit
    <2>4. p \in Seq(Byte) /\ Len(p) = t.wlen
      BY <2>3, <2>p, PrefixType
    <2>5. p # <<>>
      BY <2>3, <2>4
    <2>6. /\ Fit(u, X) /\ OnlyFor(w, u, fd) /\ SamePlaces(w, u) /\ Len(u.slots) = Len(w.slots)
          /\ u.disk = w.disk /\ u.open = w.open /\ u.lost = w.lost
          /\ InSlot(u, fd) = [t EXCEPT !.wlen = 0] /\ InSlot(u, fd).wlen = 0
      BY <2>t, <2>u, <2>1, EmptiedKeeps
    <2>7. u = [w EXCEPT !.slots[i].wlen = 0]
      BY <2>u DEF Emptied, WithSlot
    <2>8. PICK q \in u_st_raw(u, fd, p) :
              r = IF q.n = t.wlen THEN [w |-> q.w, ok |-> TRUE]
                  ELSE [w |-> [q.w EXCEPT !.slots[i].err = TRUE, !.lost = @ \union {t.fd}], ok |-> FALSE]
      <3>1. u_st_wflush(w, i) =
                {IF q.n = t.wlen THEN [w |-> q.w, ok |-> TRUE]
                 ELSE [w |-> [q.w EXCEPT !.slots[i].err = TRUE, !.lost = @ \union {t.fd}], ok |-> FALSE] :
                 q \in u_st_raw(u, fd, p)}
        BY <1>2, <2>t, <2>p, <2>7, <2>1 DEF u_st_wflush
      <3> QED  BY <1>i, <3>1
    <2>9. RawStep(u, q, X, fd, p)
      BY <2>4, <2>6, RawKeeps
    <2>10. /\ Fit(q.w, X) /\ OnlyFor(u, q.w, fd) /\ SamePlaces(u, q.w) /\ Len(q.w.slots) = Len(u.slots)
           /\ q.w.lost = u.lost
      BY <2>9 DEF RawStep
    <2>11. OnlyFor(w, q.w, fd)
      BY <2>6, <2>10, OnlyForTransitive
    <2>12. SamePlaces(w, q.w) /\ Len(q.w.slots) = Len(w.slots)
      BY <2>6, <2>10 DEF SamePlaces
    <2>13. InSlot(q.w, fd).wlen = 0
      <3>1. InSlot(u, fd) = [t EXCEPT !.wlen = 0]
        BY <2>6
      <3>2. [t EXCEPT !.wlen = 0].wlen = 0 /\ [[t EXCEPT !.wlen = 0] EXCEPT !.err = TRUE].wlen = 0
        BY <2>2 DEF Slot
      <3> QED  BY <2>9, <3>1, <3>2 DEF RawStep
    <2>14. CASE q.n = t.wlen
      <3>1. r.w = q.w /\ r.ok = TRUE
        BY <2>8, <2>14
      <3>2. /\ InSlot(q.w, fd) = InSlot(u, fd)
            /\ q.w.disk[u.open[fd].file] = Overlaid(u.disk[u.open[fd].file], At(u, fd), SubSeq(p, 1, q.n))
            /\ q.w.open[fd].off = At(u, fd) + q.n
        BY <2>3, <2>4, <2>5, <2>9, <2>14 DEF RawStep
      <3>3. SubSeq(p, 1, q.n) = p /\ At(u, fd) = At(w, fd)
        BY <2>4, <2>6, <2>14 DEF At
      <3>4. q.w.disk[w.open[fd].file] = Overlaid(w.disk[w.open[fd].file], At(w, fd), p)
        BY <2>6, <3>2, <3>3
      <3>5. q.w.lost = w.lost /\ InSlot(q.w, fd) = [InSlot(w, fd) EXCEPT !.wlen = 0]
        BY <2>1, <2>6, <2>10, <3>2
      <3>6. q.w.open[fd].off = At(w, fd) + InSlot(w, fd).wlen
        BY <2>1, <2>14, <3>2, <3>3
      <3>7. q.w.disk[w.open[fd].file] = Overlaid(w.disk[w.open[fd].file], At(w, fd),
                                                 SubSeq(InSlot(w, fd).buf, 1, InSlot(w, fd).wlen))
        BY <2>p, <2>1, <3>4
      <3>8. InSlot(w, fd).wlen # 0
        BY <1>2, <2>t, <2>1
      <3> QED  BY <2>10, <2>11, <2>12, <2>13, <3>1, <3>5, <3>6, <3>7, <3>8 DEF FlushStep
    <2>15. CASE q.n # t.wlen
      <3>e. PICK e : e = [q.w.slots[i] EXCEPT !.err = TRUE]
        OBVIOUS
      <3>v. PICK v : v = WithSlot(q.w, i, e)
        OBVIOUS
      <3>z. PICK z : z = WithLost(v, v.lost \union {t.fd})
        OBVIOUS
      <3>0. Index(q.w, fd) = i
        BY <1>i, <2>12 DEF SamePlaces
      <3>1. i \in DOMAIN q.w.slots /\ q.w.slots[i] = InSlot(q.w, fd) /\ q.w.slots[i].fd = fd
        BY <1>2, <2>10, <3>0, IndexFacts
      <3>a. q.w.slots[i] \in Slot /\ SlotFit(q.w.slots[i]) /\ q.w.slots[i].wlen = 0
        BY <2>10, <2>13, <3>1, SlotIsSlot
      <3>2. e \in Slot /\ e.fd = fd /\ SlotFit(e) /\ e.wlen = 0
        BY <3>a, <3>e, <3>1 DEF Slot, SlotFit
      <3>3. SlotStep(q.w, v, X, i, e)
        BY <2>10, <3>1, <3>2, <3>v, SlotChanged
      <3>4. Fit(v, X) /\ v.lost = q.w.lost /\ v.lost \in SUBSET Fd
        BY <3>3, LibraryParts DEF SlotStep, Fit
      <3>5. LostStep(v, z, X)
        BY <2>1, <3>4, <3>z, LostChanged
      <3>6. r.ok = FALSE /\ r.w = z
        <4>1. r = [w |-> [q.w EXCEPT !.slots[i].err = TRUE, !.lost = @ \union {t.fd}], ok |-> FALSE]
          BY <2>8, <2>15
        <4>2. q.w \in Library
          BY <2>10 DEF Fit
        <4>3. z = [q.w EXCEPT !.slots[i].err = TRUE, !.lost = @ \union {t.fd}]
          BY <4>2, <3>e, <3>v, <3>z DEF WithSlot, WithLost, Library
        <4> QED  BY <4>1, <4>3
      <3>7. OnlyFor(q.w, z, fd)
        <4>1. q.w.open[fd] # None
          BY <2>11 DEF OnlyFor
        <4>2. z.open = q.w.open /\ z.disk = q.w.disk
          BY <3>3, <3>5 DEF SlotStep, LostStep
        <4>3. SameSlots(q.w, z, Fd \ {fd})
          BY <3>2, <3>3, <3>5 DEF SlotStep, LostStep, SameTable, SameSlots
        <4> QED  BY <4>1, <4>2, <4>3 DEF OnlyFor, SameOpen, SameFiles
      <3>8. OnlyFor(w, z, fd)
        BY <2>11, <3>7, OnlyForTransitive
      <3>9. SamePlaces(w, z) /\ Len(z.slots) = Len(w.slots)
        BY <2>12, <3>3, <3>5 DEF SlotStep, LostStep, SameTable, SamePlaces
      <3>10. InSlot(z, fd).wlen = 0 /\ Fit(z, X)
        BY <3>2, <3>3, <3>5 DEF SlotStep, LostStep, SameTable, SameSlots
      <3>11. ~(~full /\ w.open[fd].how.wr)
        BY <2>4, <2>6, <2>9, <2>15 DEF RawStep
      <3>12. InSlot(w, fd).wlen > 0
        BY <2>1, <2>3
      <3> QED  BY <3>6, <3>8, <3>9, <3>10, <3>11, <3>12 DEF FlushStep
    <2> QED  BY <2>14, <2>15
  <1> QED  BY <1>1, <1>2

\* Where the program is in the file.
Stands(w, fd) == w.open[fd].off - Unread(InSlot(w, fd)) - Pushed(InSlot(w, fd))

BackStep(w, v, X, fd) ==
    /\ Fit(v, X) /\ OnlyFor(w, v, fd) /\ SamePlaces(w, v) /\ Len(v.slots) = Len(w.slots)
    /\ v.disk = w.disk /\ v.lost = w.lost
    /\ InSlot(v, fd) = Dropped(InSlot(w, fd))
    /\ v.open[fd].off = IF Stands(w, fd) < 0 THEN w.open[fd].off ELSE Stands(w, fd)

LEMMA SlotParts ==
    ASSUME NEW t \in Slot
    PROVE  /\ t.fd \in Fd /\ t.eof \in BOOLEAN /\ t.err \in BOOLEAN /\ t.ung \in Byte \union {None}
           /\ t.buf \in Seq(Byte) /\ t.bpos \in Nat /\ t.blen \in Nat /\ t.wlen \in Nat /\ t.ro \in BOOLEAN
           /\ Len(t.buf) \in Nat /\ Pushed(t) \in {0, 1}
  BY DEF Slot, Pushed

LEMMA DroppedSlot ==
    ASSUME NEW t \in Slot, SlotFit(t)
    PROVE  /\ Dropped(t) \in Slot /\ SlotFit(Dropped(t)) /\ Dropped(t).fd = t.fd
           /\ Dropped(t).bpos = 0 /\ Dropped(t).blen = 0 /\ Dropped(t).ung = None
           /\ Dropped(t).wlen = t.wlen /\ Dropped(t).buf = t.buf /\ Dropped(t).ro = t.ro
           /\ Dropped(t).eof = t.eof /\ Dropped(t).err = t.err
  <1>d. PICK d : d = Dropped(t)
    OBVIOUS
  <1>1. d = [fd |-> t.fd, eof |-> t.eof, err |-> t.err, ung |-> None, buf |-> t.buf,
             bpos |-> 0, blen |-> 0, wlen |-> t.wlen, ro |-> t.ro]
    BY <1>d DEF Dropped, Slot
  <1>2. d \in Slot
    BY <1>1, SlotParts DEF Slot
  <1>3. /\ d.fd = t.fd /\ d.bpos = 0 /\ d.blen = 0 /\ d.ung = None /\ d.wlen = t.wlen
        /\ d.buf = t.buf /\ d.ro = t.ro /\ d.eof = t.eof /\ d.err = t.err
    BY <1>1
  <1>4. SlotFit(d)
    BY <1>3, SlotParts DEF SlotFit
  <1> QED  BY <1>2, <1>3, <1>4, <1>d

LEMMA GivenBackKeeps ==
    ASSUME NEW w, NEW X, Fit(w, X), NEW fd \in Fd \ X, w.open[fd] # None, Index(w, fd) # 0
    PROVE  BackStep(w, GivenBack(w, Index(w, fd)), X, fd)
  <1>i. PICK i : i = Index(w, fd)
    OBVIOUS
  <1>t. PICK t : t = w.slots[i]
    OBVIOUS
  <1>0. w \in Library
    BY DEF Fit
  <1>1. i \in DOMAIN w.slots /\ InSlot(w, fd) = t /\ t.fd = fd
    BY <1>i, <1>t, IndexFacts
  <1>2. t \in Slot /\ SlotFit(t)
    BY <1>t, <1>1, SlotIsSlot
  <1>3. w.open[fd].off \in Nat /\ w.open[fd].off <= Len(w.disk[w.open[fd].file])
        /\ w.disk[w.open[fd].file] \in Seq(Byte)
    BY AtFits, OpenFileParts DEF Fit
  <1>n. PICK n : n = IF Stands(w, fd) < 0 THEN w.open[fd].off ELSE Stands(w, fd)
    OBVIOUS
  <1>4. n \in Nat /\ n <= Len(w.disk[w.open[fd].file])
    <2>1. Stands(w, fd) \in Int /\ Stands(w, fd) <= w.open[fd].off
      BY <1>1, <1>2, <1>3, SlotParts DEF Stands, Unread, SlotFit
    <2> QED  BY <1>3, <1>n, <2>1
  <1>d. PICK d : d = Dropped(t)
    OBVIOUS
  <1>5. d \in Slot /\ SlotFit(d) /\ d.fd = fd
    BY <1>1, <1>2, <1>d, DroppedSlot
  <1>u. PICK u : u = WithOff(w, fd, n)
    OBVIOUS
  <1>v. PICK v : v = WithSlot(u, i, d)
    OBVIOUS
  <1>6. OffStep(w, u, X, fd, n)
    BY <1>4, <1>u, OffsetMoved
  <1>7. Fit(u, X) /\ u.slots = w.slots
    BY <1>6 DEF OffStep, SameTable
  <1>8. SlotStep(u, v, X, i, d)
    BY <1>1, <1>5, <1>7, <1>t, <1>v, SlotChanged
  <1>9. v = GivenBack(w, i)
    <2>1. v = [[w EXCEPT !.open[fd].off = n] EXCEPT !.slots[i] = Dropped(w.slots[i])]
      BY <1>u, <1>v, <1>d, <1>t DEF WithOff, WithSlot
    <2>2. n = IF w.open[fd].off - Unread(t) - Pushed(t) < 0 THEN w.open[fd].off
              ELSE w.open[fd].off - Unread(t) - Pushed(t)
      BY <1>n, <1>1 DEF Stands
    <2> QED  BY <1>0, <1>1, <1>t, <2>1, <2>2 DEF GivenBack, Library
  <1>10. OnlyFor(w, v, fd)
    BY <1>5, <1>6, <1>8 DEF OffStep, SlotStep, OnlyFor, SameOpen, SameFiles, SameSlots, SameTable
  <1>11. SamePlaces(w, v) /\ Len(v.slots) = Len(w.slots)
    BY <1>6, <1>8 DEF OffStep, SlotStep, SameTable, SamePlaces
  <1>12. Fit(v, X) /\ v.disk = w.disk /\ v.lost = w.lost /\ InSlot(v, fd) = d /\ v.open[fd].off = n
    BY <1>5, <1>6, <1>8 DEF OffStep, SlotStep
  <1> QED  BY <1>1, <1>9, <1>10, <1>11, <1>12, <1>d, <1>i, <1>n DEF BackStep

\* p goes around the buffer, or into it.
Buffered(u, i, p) ==
    [u EXCEPT !.slots[i].buf = SubSeq(@, 1, u.slots[i].wlen) \o p, !.slots[i].wlen = @ + Len(p)]

PutIn(u, fd, i, p) ==
    IF Len(p) >= BufSize THEN u_st_raw(u, fd, p) ELSE {[w |-> Buffered(u, i, p), n |-> Len(p)]}

\* u_st_wput on the slot it finds, b being what GivenBack makes of it.
PutAt(v, i, b, fd, p) ==
    IF i = 0 THEN u_st_raw(v, fd, p)
    ELSE IF v.slots[i].ro THEN {[w |-> [v EXCEPT !.slots[i].err = TRUE], n |-> 0]}
    ELSE IF v.slots[i].wlen + Len(p) <= BufSize THEN PutIn(b, fd, i, p)
    ELSE UNION {IF q.ok THEN PutIn(q.w, fd, i, p) ELSE {[w |-> q.w, n |-> 0]} : q \in u_st_wflush(b, i)}

\* The ways of u_st_wput.
LEMMA WputForm ==
    ASSUME NEW w, NEW fd, NEW p, NEW r \in u_st_wput(w, fd, p), NEW v, v = u_st_slot(w, fd),
           NEW i, i = Index(v, fd), NEW b, b = GivenBack(v, i)
    PROVE  \/ i = 0 /\ r \in u_st_raw(v, fd, p)
           \/ /\ i # 0 /\ v.slots[i].ro
              /\ r = [w |-> [v EXCEPT !.slots[i].err = TRUE], n |-> 0]
           \/ /\ i # 0 /\ ~v.slots[i].ro
              /\ \E q : /\ IF v.slots[i].wlen + Len(p) <= BufSize THEN q = [w |-> b, ok |-> TRUE]
                           ELSE q \in u_st_wflush(b, i)
                        /\ IF q.ok THEN r \in PutIn(q.w, fd, i, p) ELSE r = [w |-> q.w, n |-> 0]
  <1>1. u_st_wput(w, fd, p) =
            PutAt(u_st_slot(w, fd), Index(u_st_slot(w, fd), fd),
                  GivenBack(u_st_slot(w, fd), Index(u_st_slot(w, fd), fd)), fd, p)
    BY Zenon DEF u_st_wput, PutAt, PutIn, Buffered
  <1>2. r \in PutAt(v, i, b, fd, p)
    BY <1>1
  <1>3. CASE i = 0
    BY <1>2, <1>3 DEF PutAt
  <1>4. CASE i # 0 /\ v.slots[i].ro
    BY <1>2, <1>4 DEF PutAt
  <1>5. CASE i # 0 /\ ~v.slots[i].ro /\ v.slots[i].wlen + Len(p) <= BufSize
    <2>q. PICK q : q = [w |-> b, ok |-> TRUE]
      OBVIOUS
    <2>1. q.w = b /\ q.ok = TRUE /\ r \in PutIn(b, fd, i, p)
      BY <1>2, <1>5, <2>q DEF PutAt
    <2> QED  BY <1>5, <2>q, <2>1
  <1>6. CASE i # 0 /\ ~v.slots[i].ro /\ ~(v.slots[i].wlen + Len(p) <= BufSize)
    <2>1. PICK q \in u_st_wflush(b, i) : r \in IF q.ok THEN PutIn(q.w, fd, i, p) ELSE {[w |-> q.w, n |-> 0]}
      BY <1>2, <1>6 DEF PutAt
    <2>2. IF q.ok THEN r \in PutIn(q.w, fd, i, p) ELSE r = [w |-> q.w, n |-> 0]
      BY <2>1
    <2> QED  BY <1>6, <2>1, <2>2
  <1> QED  BY <1>3, <1>4, <1>5, <1>6

\* A slot with nothing to read.
Clear(t) == t.bpos = 0 /\ t.blen = 0 /\ t.ung = None

\* The slot with p behind the waiting bytes.
Filled(t, p) == [t EXCEPT !.buf = SubSeq(@, 1, t.wlen) \o p, !.wlen = @ + Len(p)]

LEMMA FilledSlot ==
    ASSUME NEW t \in Slot, SlotFit(t), Clear(t), NEW p \in Seq(Byte)
    PROVE  /\ Filled(t, p) \in Slot /\ SlotFit(Filled(t, p)) /\ Filled(t, p).fd = t.fd
           /\ Clear(Filled(t, p)) /\ Filled(t, p).wlen = t.wlen + Len(p)
           /\ Filled(t, p).buf = SubSeq(t.buf, 1, t.wlen) \o p
           /\ Filled(t, p).ro = t.ro
  <1>d. PICK d : d = Filled(t, p)
    OBVIOUS
  <1>s. PICK s : s = SubSeq(t.buf, 1, t.wlen)
    OBVIOUS
  <1>1. t.buf \in Seq(Byte) /\ t.wlen \in 0 .. Len(t.buf)
    BY SlotParts DEF SlotFit
  <1>2. s \in Seq(Byte) /\ Len(s) = t.wlen
    BY <1>1, <1>s, PrefixType
  <1>3. s \o p \in Seq(Byte) /\ Len(s \o p) = t.wlen + Len(p) /\ Len(p) \in Nat
    BY <1>2
  <1>4. d = [fd |-> t.fd, eof |-> t.eof, err |-> t.err, ung |-> t.ung, buf |-> s \o p,
             bpos |-> t.bpos, blen |-> t.blen, wlen |-> t.wlen + Len(p), ro |-> t.ro]
    BY <1>d, <1>s DEF Filled, Slot
  <1>5. /\ d.fd = t.fd /\ d.ung = t.ung /\ d.buf = s \o p /\ d.bpos = t.bpos /\ d.blen = t.blen
        /\ d.wlen = t.wlen + Len(p) /\ d.ro = t.ro
    BY <1>4
  <1>6. d \in Slot
    <2>1. t.wlen + Len(p) \in Nat
      BY <1>1, <1>3
    <2> QED  BY <1>3, <1>4, <2>1, SlotParts DEF Slot
  <1>7. SlotFit(d) /\ Clear(d)
    BY <1>3, <1>5 DEF SlotFit, Clear
  <1> QED  BY <1>5, <1>6, <1>7, <1>d, <1>s

FillStep(u, v, X, fd, p) ==
    /\ Fit(v, X) /\ OnlyFor(u, v, fd) /\ SamePlaces(u, v)
    /\ v.disk = u.disk /\ v.open = u.open /\ v.lost = u.lost
    /\ InSlot(v, fd) = Filled(InSlot(u, fd), p)

LEMMA BufferedKeeps ==
    ASSUME NEW u, NEW X, Fit(u, X), NEW fd \in Fd \ X, u.open[fd] # None, Index(u, fd) # 0,
           Clear(InSlot(u, fd)), NEW p \in Seq(Byte)
    PROVE  FillStep(u, Buffered(u, Index(u, fd), p), X, fd, p)
  <1>i. PICK i : i = Index(u, fd)
    OBVIOUS
  <1>t. PICK t : t = u.slots[i]
    OBVIOUS
  <1>e. PICK e : e = Filled(t, p)
    OBVIOUS
  <1>v. PICK v : v = WithSlot(u, i, e)
    OBVIOUS
  <1>1. i \in DOMAIN u.slots /\ InSlot(u, fd) = t /\ t.fd = fd
    BY <1>i, <1>t, IndexFacts
  <1>2. t \in Slot /\ SlotFit(t) /\ Clear(t)
    BY <1>t, <1>1, SlotIsSlot
  <1>3. e \in Slot /\ SlotFit(e) /\ e.fd = fd
    BY <1>1, <1>2, <1>e, FilledSlot
  <1>4. SlotStep(u, v, X, i, e)
    BY <1>1, <1>3, <1>t, <1>v, SlotChanged
  <1>5. v = Buffered(u, i, p)
    <2>1. u \in Library
      BY DEF Fit
    <2> QED  BY <1>1, <1>e, <1>t, <1>v, <2>1 DEF Buffered, WithSlot, Filled, Library
  <1>6. OnlyFor(u, v, fd)
    BY <1>3, <1>4 DEF SlotStep, OnlyFor, SameOpen, SameFiles
  <1>7. /\ Fit(v, X) /\ SamePlaces(u, v) /\ InSlot(v, fd) = e
        /\ v.disk = u.disk /\ v.open = u.open /\ v.lost = u.lost
    BY <1>3, <1>4 DEF SlotStep
  <1> QED  BY <1>1, <1>5, <1>6, <1>7, <1>e, <1>i DEF FillStep

LEMMA SlotTakenOnly ==
    ASSUME NEW w, NEW X, Fit(w, X), NEW fd \in Fd, w.open[fd] # None, scope.NST \in Nat
    PROVE  LET v == u_st_slot(w, fd) IN
           /\ Fit(v, X) /\ OnlyFor(w, v, fd) /\ v.disk = w.disk /\ v.open = w.open /\ v.lost = w.lost
           /\ InSlot(v, fd) = InSlot(w, fd) /\ SameSlots(w, v, Fd)
           /\ v.open[fd] # None
  <1>v. PICK v : v = u_st_slot(w, fd)
    OBVIOUS
  <1>1. Fit(v, X) /\ v.disk = w.disk /\ v.open = w.open /\ v.lost = w.lost /\ SameSlots(w, v, Fd)
    BY <1>v, SlotTaken
  <1>2. OnlyFor(w, v, fd) /\ InSlot(v, fd) = InSlot(w, fd)
    BY <1>1 DEF OnlyFor, SameOpen, SameFiles, SameSlots
  <1> QED  BY <1>1, <1>2, <1>v

LEMMA WputKeeps ==
    ASSUME NEW w, NEW X, Fit(w, X), NEW fd \in Fd \ X, w.open[fd] # None, NEW p \in Seq(Byte),
           scope.NST \in Nat, NEW r \in u_st_wput(w, fd, p)
    PROVE  Fit(r.w, X) /\ OnlyFor(w, r.w, fd)
  <1>v. PICK v : v = u_st_slot(w, fd)
    OBVIOUS
  <1>i. PICK i : i = Index(v, fd)
    OBVIOUS
  <1>b. PICK b : b = GivenBack(v, i)
    OBVIOUS
  <1>1. Fit(v, X) /\ OnlyFor(w, v, fd) /\ v.open[fd] # None
    BY <1>v, SlotTakenOnly
  <1>2. CASE i = 0 /\ r \in u_st_raw(v, fd, p)
    <2>1. RawStep(v, r, X, fd, p)
      BY <1>1, <1>2, RawKeeps
    <2> QED  BY <1>1, <2>1, OnlyForTransitive DEF RawStep
  <1>3. CASE i # 0 /\ r = [w |-> [v EXCEPT !.slots[i].err = TRUE], n |-> 0]
    <2>1. r.w = Flagged(v, fd)
      BY <1>3, <1>i DEF Flagged
    <2>2. Fit(r.w, X) /\ OnlyFor(v, r.w, fd)
      BY <1>1, <2>1, FlaggedKeeps
    <2> QED  BY <1>1, <2>2, OnlyForTransitive
  <1>4. ASSUME i # 0, NEW q,
               IF v.slots[i].wlen + Len(p) <= BufSize THEN q = [w |-> b, ok |-> TRUE]
               ELSE q \in u_st_wflush(b, i),
               IF q.ok THEN r \in PutIn(q.w, fd, i, p) ELSE r = [w |-> q.w, n |-> 0]
        PROVE  Fit(r.w, X) /\ OnlyFor(w, r.w, fd)
    <2>1. BackStep(v, b, X, fd)
      BY <1>1, <1>4, <1>b, <1>i, GivenBackKeeps
    <2>2. Fit(b, X) /\ OnlyFor(v, b, fd) /\ Index(b, fd) = i /\ InSlot(b, fd) = Dropped(InSlot(v, fd))
      BY <1>i, <2>1 DEF BackStep, SamePlaces
    <2>3. b.open[fd] # None
      BY <2>2 DEF OnlyFor
    <2>4. Clear(InSlot(b, fd))
      <3>1. InSlot(v, fd) \in Slot /\ SlotFit(InSlot(v, fd))
        BY <1>1, <1>4, <1>i, IndexFacts, SlotIsSlot
      <3> QED  BY <2>2, <3>1, DroppedSlot DEF Clear
    <2>5. Fit(q.w, X) /\ OnlyFor(b, q.w, fd) /\ Index(q.w, fd) = i /\ (q.ok => Clear(InSlot(q.w, fd)))
      <3>1. CASE q = [w |-> b, ok |-> TRUE]
        BY <2>2, <2>3, <2>4, <3>1, OnlyForReflexive
      <3>2. CASE q \in u_st_wflush(b, i)
        <4>1. FlushStep(b, q, X, fd)
          BY <2>2, <2>3, <3>2, WflushKeeps
        <4>2. Index(q.w, fd) = i
          BY <2>2, <4>1 DEF FlushStep, SamePlaces
        <4>3. q.ok => InSlot(q.w, fd) = [InSlot(b, fd) EXCEPT !.wlen = 0]
          BY <4>1 DEF FlushStep
        <4>4. InSlot(b, fd) \in Slot
          BY <1>4, <2>2, IndexFacts, SlotIsSlot
        <4>5. q.ok => Clear(InSlot(q.w, fd))
          BY <2>4, <4>3, <4>4 DEF Clear, Slot
        <4> QED  BY <4>1, <4>2, <4>5 DEF FlushStep
      <3> QED  BY <1>4, <3>1, <3>2
    <2>6. OnlyFor(w, q.w, fd) /\ q.w.open[fd] # None
      BY <1>1, <2>2, <2>5, OnlyForTransitive DEF OnlyFor
    <2>7. CASE ~q.ok
      BY <1>4, <2>5, <2>6, <2>7
    <2>8. CASE q.ok /\ Len(p) >= BufSize
      <3>1. r \in u_st_raw(q.w, fd, p)
        BY <1>4, <2>8 DEF PutIn
      <3>2. RawStep(q.w, r, X, fd, p)
        BY <2>5, <2>6, <3>1, RawKeeps
      <3> QED  BY <2>6, <3>2, OnlyForTransitive DEF RawStep
    <2>9. CASE q.ok /\ ~(Len(p) >= BufSize)
      <3>1. r.w = Buffered(q.w, i, p)
        BY <1>4, <2>9 DEF PutIn
      <3>2. FillStep(q.w, r.w, X, fd, p)
        BY <1>4, <2>5, <2>6, <2>9, <3>1, BufferedKeeps
      <3> QED  BY <2>6, <3>2, OnlyForTransitive DEF FillStep
    <2> QED  BY <2>7, <2>8, <2>9
  <1> QED  BY <1>2, <1>3, <1>4, <1>v, <1>i, <1>b, WputForm

-----------------------------------------------------------------------------
(* Flushing all: what every flush of a slot keeps, flushing all keeps.       *)

AfterFlush(w, g, i) == IF i = 0 THEN {w} ELSE UNION {{r.w : r \in u_st_wflush(v, i)} : v \in g[i - 1]}
Flushes(w, g, n) == \A i \in 0 .. n : g[i] = AfterFlush(w, g, i)

LEMMA FlushesExist ==
    ASSUME NEW w, NEW n \in Nat
    PROVE  \E g : Flushes(w, g, n)
  <1> DEFINE Bad == {m \in Nat : ~\E g : Flushes(w, g, m)}
  <1> SUFFICES ASSUME Bad # {} PROVE FALSE
    OBVIOUS
  <1>1. PICK m \in Bad : \A y \in Bad : m <= y
    BY LeastNatural
  <1>2. CASE m = 0
    <2>g. PICK g : g = [i \in {0} |-> {w}]
      OBVIOUS
    <2>1. \A i \in 0 .. 0 : i = 0 /\ g[i] = {w}
      BY <2>g
    <2>2. Flushes(w, g, 0)
      BY <2>1 DEF Flushes, AfterFlush
    <2> QED  BY <1>1, <1>2, <2>2
  <1>3. CASE m # 0
    <2>1. m \in Nat /\ m - 1 \in Nat /\ m - 1 < m
      BY <1>1, <1>3
    <2>2. m - 1 \notin Bad
      BY <1>1, <2>1
    <2>3. PICK g : Flushes(w, g, m - 1)
      BY <2>1, <2>2
    <2>h. PICK h : h = [i \in 0 .. m |-> IF i = m THEN AfterFlush(w, g, m) ELSE g[i]]
      OBVIOUS
    <2>4. \A i \in 0 .. m : h[i] = IF i = m THEN AfterFlush(w, g, m) ELSE g[i]
      BY <2>h
    <2>5. \A i \in 0 .. m : i # 0 => i - 1 \in 0 .. m /\ i - 1 # m /\ h[i - 1] = g[i - 1]
      BY <2>1, <2>4
    <2>6. \A i \in 0 .. m : AfterFlush(w, h, i) = AfterFlush(w, g, i)
      BY <2>5 DEF AfterFlush
    <2>7. \A i \in 0 .. m : i # m => i \in 0 .. m - 1
      BY <2>1
    <2>8. Flushes(w, h, m)
      BY <2>3, <2>4, <2>6, <2>7 DEF Flushes
    <2> QED  BY <1>1, <2>8
  <1> QED  BY <1>2, <1>3

LEMMA FlushallFlushes ==
    ASSUME NEW w \in Library
    PROVE  \E g : Flushes(w, g, Len(w.slots)) /\ u_st_flushall(w) = g[Len(w.slots)]
  <1>n. PICK n : n = Len(w.slots)
    OBVIOUS
  <1>0. n \in Nat
    BY <1>n, LibraryParts
  <1>g. PICK g : Flushes(w, g, n)
    BY <1>0, FlushesExist
  <1>h. PICK h : h = [i \in 0 .. n |-> g[i]]
    OBVIOUS
  <1>1. \A i \in 0 .. n : h[i] = IF i = 0 THEN {w} ELSE UNION {{r.w : r \in u_st_wflush(v, i)} : v \in h[i - 1]}
    <2> SUFFICES ASSUME NEW i \in 0 .. n PROVE h[i] = AfterFlush(w, h, i)
      BY DEF AfterFlush
    <2>1. h[i] = g[i]
      BY <1>h
    <2>2. i # 0 => h[i - 1] = g[i - 1]
      <3>1. i # 0 => i - 1 \in 0 .. n
        BY <1>0
      <3> QED  BY <1>h, <3>1
    <2>3. AfterFlush(w, h, i) = AfterFlush(w, g, i)
      BY <2>2 DEF AfterFlush
    <2> QED  BY <1>g, <2>1, <2>3 DEF Flushes
  <1>2. h = [i \in 0 .. n |-> IF i = 0 THEN {w} ELSE UNION {{r.w : r \in u_st_wflush(v, i)} : v \in h[i - 1]}]
    BY <1>1, <1>h
  <1> DEFINE After == CHOOSE f : f = [i \in 0 .. n |->
                          IF i = 0 THEN {w} ELSE UNION {{r.w : r \in u_st_wflush(v, i)} : v \in f[i - 1]}]
  <1>3. After = [i \in 0 .. n |->
                    IF i = 0 THEN {w} ELSE UNION {{r.w : r \in u_st_wflush(v, i)} : v \in After[i - 1]}]
    BY <1>2
  <1>4. u_st_flushall(w) = After[n]
    BY <1>n DEF u_st_flushall
  <1> HIDE DEF After
  <1>5. \A i \in 0 .. n : After[i] = AfterFlush(w, After, i)
    BY <1>3 DEF AfterFlush
  <1>6. Flushes(w, After, n)
    BY <1>5 DEF Flushes
  <1> QED  BY <1>4, <1>6, <1>n

\* P[i] is what is kept when the first i slots are flushed.
LEMMA FlushallInduct ==
    ASSUME NEW w \in Library, NEW P, w \in P[0],
           \A i \in DOMAIN w.slots : \A v \in P[i - 1] : \A r \in u_st_wflush(v, i) : r.w \in P[i]
    PROVE  u_st_flushall(w) \subseteq P[Len(w.slots)]
  <1>n. PICK n : n = Len(w.slots)
    OBVIOUS
  <1>0. n \in Nat /\ DOMAIN w.slots = 1 .. n
    BY <1>n, LibraryParts
  <1>1. PICK g : Flushes(w, g, n) /\ u_st_flushall(w) = g[n]
    BY <1>n, FlushallFlushes
  <1> DEFINE Bad == {m \in 0 .. n : ~(g[m] \subseteq P[m])}
  <1>2. Bad = {}
    <2> SUFFICES ASSUME Bad # {} PROVE FALSE
      OBVIOUS
    <2>1. Bad \in SUBSET Nat
      BY <1>0
    <2>2. PICK m \in Bad : \A y \in Bad : m <= y
      BY <2>1, LeastNatural
    <2>3. g[m] = AfterFlush(w, g, m)
      BY <1>1 DEF Flushes
    <2>4. m # 0
      <3>0. 0 \in 0 .. n
        BY <1>0
      <3>1. g[0] = {w}
        BY <1>1, <3>0 DEF Flushes, AfterFlush
      <3>2. g[0] \subseteq P[0]
        BY <3>1
      <3> QED  BY <2>2, <3>2
    <2>5. m \in 1 .. n /\ m - 1 \in 0 .. n /\ m - 1 < m
      BY <1>0, <2>4
    <2>6. g[m - 1] \subseteq P[m - 1]
      <3>1. m - 1 \notin Bad
        BY <1>0, <2>2, <2>5
      <3> QED  BY <2>5, <3>1
    <2>7. g[m] = UNION {{r.w : r \in u_st_wflush(v, m)} : v \in g[m - 1]}
      BY <2>3, <2>4 DEF AfterFlush
    <2>8. \A v \in P[m - 1] : \A r \in u_st_wflush(v, m) : r.w \in P[m]
      BY <1>0, <2>5
    <2>9. g[m] \subseteq P[m]
      BY <2>6, <2>7, <2>8
    <2> QED  BY <2>2, <2>9
  <1>3. n \in 0 .. n
    BY <1>0
  <1> QED  BY <1>1, <1>2, <1>3, <1>n

\* The same descriptors are open on the same files.
Steady(w, v) ==
    \A x \in Fd : IF w.open[x] = None THEN v.open[x] = None
                  ELSE v.open[x] # None /\ v.open[x].file = w.open[x].file /\ v.open[x].how = w.open[x].how

LEMMA OnlyForSteady ==
    ASSUME NEW w, NEW v, NEW fd \in Fd, w.open[fd] # None, OnlyFor(w, v, fd)
    PROVE  Steady(w, v)
  BY DEF OnlyFor, SameOpen, Steady

LEMMA SteadyTransitive ==
    ASSUME NEW u, NEW v, NEW w, Steady(u, v), Steady(v, w)
    PROVE  Steady(u, w)
  BY DEF Steady

LEMMA SteadyApart ==
    ASSUME NEW w, NEW v, Steady(w, v), Apart(w)
    PROVE  Apart(v)
  BY DEF Steady, Apart

LEMMA FlushallKeeps ==
    ASSUME NEW w, Fit(w, {}), NEW v \in u_st_flushall(w)
    PROVE  Fit(v, {}) /\ Steady(w, v)
  <1>P. PICK P : P = {u \in Library : Fit(u, {}) /\ Steady(w, u) /\ Len(u.slots) = Len(w.slots)}
    OBVIOUS
  <1>1. w \in Library
    BY DEF Fit
  <1>2. w \in P
    BY <1>P, <1>1 DEF Steady
  <1>3. ASSUME NEW u \in P, NEW i \in DOMAIN w.slots, NEW r \in u_st_wflush(u, i)
        PROVE  r.w \in P
    <2>1. u \in Library /\ Fit(u, {}) /\ Steady(w, u) /\ Len(u.slots) = Len(w.slots)
      BY <1>P
    <2>2. i \in DOMAIN u.slots
      BY <1>1, <2>1, LibraryParts
    <2>x. PICK x : x = u.slots[i].fd
      OBVIOUS
    <2>3. x \in Fd /\ u.open[x] # None /\ Index(u, x) = i
      BY <2>1, <2>2, <2>x, IndexFacts, SlotIsSlot DEF Fit
    <2>4. FlushStep(u, r, {}, x)
      BY <2>1, <2>3, WflushKeeps
    <2>5. Steady(u, r.w)
      BY <2>3, <2>4, OnlyForSteady DEF FlushStep
    <2>6. Steady(w, r.w)
      BY <2>1, <2>5, SteadyTransitive
    <2> QED  BY <1>P, <2>1, <2>4, <2>6 DEF FlushStep, Fit
  <1>q. PICK Q : Q = [i \in 0 .. Len(w.slots) |-> P]
    OBVIOUS
  <1>0. Len(w.slots) \in Nat /\ DOMAIN w.slots = 1 .. Len(w.slots)
    BY <1>1, LibraryParts
  <1>4. Q[0] = P /\ Q[Len(w.slots)] = P /\ \A i \in DOMAIN w.slots : Q[i] = P /\ Q[i - 1] = P
    BY <1>0, <1>q
  <1>5. u_st_flushall(w) \subseteq Q[Len(w.slots)]
    BY <1>1, <1>2, <1>3, <1>4, FlushallInduct
  <1> QED  BY <1>P, <1>4, <1>5

-----------------------------------------------------------------------------
(* Slots that go.                                                            *)

FreeStep(w, v, X, x) ==
    /\ Fit(v, X) /\ v.disk = w.disk /\ v.open = w.open /\ v.lost = w.lost
    /\ Index(v, x) = 0 /\ SameSlots(w, v, Fd \ {x})

\* The slot that is moved is found at its new place.
LEMMA FreedKeeps ==
    ASSUME NEW w, NEW X, Fit(w, X), NEW i \in DOMAIN w.slots, scope.NST \in Nat
    PROVE  FreeStep(w, Freed(w, i), X, w.slots[i].fd)
  <1>v. PICK v : v = Freed(w, i)
    OBVIOUS
  <1>n. PICK n : n = Len(w.slots)
    OBVIOUS
  <1>x. PICK x : x = w.slots[i].fd
    OBVIOUS
  <1>s. PICK s : s = SubSeq([w.slots EXCEPT ![i] = w.slots[n]], 1, n - 1)
    OBVIOUS
  <1>1. w \in Library
    BY DEF Fit
  <1>2. n \in Nat /\ DOMAIN w.slots = 1 .. n /\ w.slots \in Seq(Slot) /\ i \in 1 .. n /\ n \in 1 .. n
    BY <1>1, <1>n, LibraryParts
  <1>3. v = [disk |-> w.disk, open |-> w.open, slots |-> s, lost |-> w.lost]
    BY <1>1, <1>n, <1>s, <1>v DEF Freed, Library
  <1>4. v.disk = w.disk /\ v.open = w.open /\ v.lost = w.lost /\ v.slots = s
    BY <1>3
  <1>5. /\ s \in Seq(Slot) /\ Len(s) = n - 1 /\ DOMAIN s = 1 .. n - 1
        /\ \A j \in 1 .. n - 1 : s[j] = IF j = i THEN w.slots[n] ELSE w.slots[j]
    <2>q. PICK q : q = [w.slots EXCEPT ![i] = w.slots[n]]
      OBVIOUS
    <2>1. q \in Seq(Slot) /\ Len(q) = n /\ \A j \in 1 .. n : q[j] = IF j = i THEN w.slots[n] ELSE w.slots[j]
      BY <1>2, <1>n, <2>q
    <2>2. s = SubSeq(q, 1, n - 1)
      BY <1>s, <2>q
    <2>3. s \in Seq(Slot) /\ Len(s) = n - 1 /\ \A j \in 1 .. n - 1 : s[j] = q[j]
      BY <1>2, <2>1, <2>2
    <2> QED  BY <1>2, <2>1, <2>3
  <1>6. v \in Library
    BY <1>1, <1>3, <1>5 DEF Library
  <1> DEFINE from(j) == IF j = i THEN n ELSE j
  <1>7. \A j \in 1 .. n - 1 : from(j) \in DOMAIN w.slots /\ s[j] = w.slots[from(j)]
    BY <1>2, <1>5
  <1>8. \A j, k \in 1 .. n - 1 : from(j) = from(k) => j = k
    BY <1>2
  <1>9. \A j \in 1 .. n - 1 : from(j) # i
    BY <1>2
  <1>10. \A j \in DOMAIN w.slots : j # i => \E k \in 1 .. n - 1 : from(k) = j
    <2> SUFFICES ASSUME NEW j \in DOMAIN w.slots, j # i PROVE \E k \in 1 .. n - 1 : from(k) = j
      OBVIOUS
    <2>1. CASE j = n
      BY <1>2, <2>1
    <2>2. CASE j # n
      BY <1>2, <2>2
    <2> QED  BY <2>1, <2>2
  <1> HIDE DEF from
  <1>11. Fit(v, X)
    <2>1. Len(v.slots) <= scope.NST
      <3>1. n <= scope.NST
        BY <1>n DEF Fit
      <3> QED  BY <1>2, <1>4, <1>5, <3>1
    <2>2. \A j, k \in DOMAIN v.slots : v.slots[j].fd = v.slots[k].fd => j = k
      BY <1>4, <1>5, <1>7, <1>8 DEF Fit
    <2>3. \A j \in DOMAIN v.slots :
              SlotFit(v.slots[j]) /\ (v.open[v.slots[j].fd] # None \/ v.slots[j].fd \in X)
      BY <1>4, <1>5, <1>7 DEF Fit
    <2> QED  BY <1>4, <1>6, <2>1, <2>2, <2>3 DEF Fit
  <1>12. Index(v, x) = 0
    <2>1. \A j \in DOMAIN v.slots : v.slots[j].fd # x
      BY <1>4, <1>5, <1>7, <1>9, <1>x DEF Fit
    <2> QED  BY <1>11, <2>1, IndexFacts
  <1>13. ASSUME NEW y \in Fd \ {x} PROVE InSlot(v, y) = InSlot(w, y)
    <2>1. CASE Index(w, y) = 0
      <3>1. \A j \in DOMAIN v.slots : v.slots[j].fd # y
        <4>1. \A j \in DOMAIN w.slots : w.slots[j].fd # y
          BY <2>1, IndexFacts
        <4> QED  BY <1>4, <1>5, <1>7, <4>1
      <3>2. Index(v, y) = 0
        BY <1>11, <3>1, IndexFacts
      <3> QED  BY <2>1, <3>2 DEF InSlot
    <2>2. CASE Index(w, y) # 0
      <3>j. PICK j : j = Index(w, y)
        OBVIOUS
      <3>1. j \in DOMAIN w.slots
        BY <2>2, <3>j, IndexFacts
      <3>2. w.slots[j].fd = y /\ InSlot(w, y) = w.slots[j]
        BY <2>2, <3>j, <3>1, IndexFacts
      <3>3. j # i
        BY <1>x, <3>2
      <3>4. PICK k \in 1 .. n - 1 : from(k) = j
        BY <1>10, <3>1, <3>3
      <3>5. k \in DOMAIN v.slots /\ v.slots[k] = w.slots[j]
        BY <1>4, <1>5, <1>7, <3>4
      <3>6. Index(v, y) = k
        BY <1>11, <3>2, <3>5, IndexFacts
      <3>7. k # 0
        BY <1>2, <3>4
      <3> QED  BY <3>2, <3>5, <3>6, <3>7 DEF InSlot
    <2> QED  BY <2>1, <2>2
  <1> QED  BY <1>4, <1>11, <1>12, <1>13, <1>v, <1>x DEF FreeStep, SameSlots

\* A descriptor without a slot is closed, or another file opened at it.
Reopened(w, fd, o, s) == [w EXCEPT !.open[fd] = o, !.lost = s]

LEMMA ClosedKeeps ==
    ASSUME NEW w, Fit(w, {}), NEW fd \in Fd, Index(w, fd) = 0, NEW s \in SUBSET Fd
    PROVE  LET v == Reopened(w, fd, None, s) IN
           /\ Fit(v, {}) /\ v.disk = w.disk /\ v.open = [w.open EXCEPT ![fd] = None]
           /\ SameTable(w, v)
  <1>v. PICK v : v = Reopened(w, fd, None, s)
    OBVIOUS
  <1>1. w \in Library
    BY DEF Fit
  <1>2. v = [disk |-> w.disk, open |-> [w.open EXCEPT ![fd] = None], slots |-> w.slots, lost |-> s]
    BY <1>1, <1>v DEF Reopened, Library
  <1>3. v.disk = w.disk /\ v.open = [w.open EXCEPT ![fd] = None] /\ v.slots = w.slots /\ v.lost = s
    BY <1>2
  <1>4. v.open \in [Fd -> OpenFile \union {None}]
        /\ \A x \in Fd : v.open[x] = IF x = fd THEN None ELSE w.open[x]
    BY <1>1, <1>3, LibraryParts
  <1>5. v \in Library
    BY <1>1, <1>2, <1>3, <1>4, LibraryParts DEF Library
  <1>6. \A i \in DOMAIN w.slots : w.slots[i].fd # fd /\ w.slots[i].fd \in Fd
    BY IndexFacts, SlotIsSlot
  <1>7. \A i \in DOMAIN v.slots : v.open[v.slots[i].fd] # None
    BY <1>3, <1>4, <1>6 DEF Fit
  <1>8. \A x \in Fd : v.open[x] # None => v.open[x].off <= Len(v.disk[v.open[x].file])
    BY <1>3, <1>4 DEF Fit
  <1>9. Fit(v, {})
    BY <1>3, <1>5, <1>7, <1>8 DEF Fit
  <1> QED  BY <1>3, <1>9, <1>v, SameTableFacts

\* A descriptor on the way to be closed is closed when its slot is gone.
LEMMA NoneLeft ==
    ASSUME NEW w, NEW x \in Fd, Fit(w, {x}), Index(w, x) = 0, w.open[x] = None
    PROVE  Fit(w, {})
  <1>1. \A i \in DOMAIN w.slots : w.slots[i].fd # x
    BY IndexFacts
  <1> QED  BY <1>1 DEF Fit

-----------------------------------------------------------------------------
(* The flags, and moves.                                                     *)

\* eof and err of a slot.
Flags(t, e, f) == [t EXCEPT !.eof = e, !.err = f]

LEMMA FlagsSlot ==
    ASSUME NEW t \in Slot, SlotFit(t), NEW e \in BOOLEAN, NEW f \in BOOLEAN
    PROVE  /\ Flags(t, e, f) \in Slot /\ SlotFit(Flags(t, e, f)) /\ Flags(t, e, f).fd = t.fd
           /\ Flags(t, e, f).wlen = t.wlen /\ Flags(t, e, f).ung = t.ung /\ Flags(t, e, f).buf = t.buf
           /\ Flags(t, e, f).bpos = t.bpos /\ Flags(t, e, f).blen = t.blen /\ Flags(t, e, f).ro = t.ro
  BY DEF Flags, Slot, SlotFit

\* Only the slot of fd changes.
LEMMA SlotOnly ==
    ASSUME NEW w, NEW X, Fit(w, X), NEW fd \in Fd, w.open[fd] # None, NEW i \in DOMAIN w.slots,
           w.slots[i].fd = fd, NEW t \in Slot, SlotFit(t), t.fd = fd
    PROVE  LET v == WithSlot(w, i, t) IN
           /\ Fit(v, X) /\ OnlyFor(w, v, fd) /\ SamePlaces(w, v) /\ Len(v.slots) = Len(w.slots)
           /\ v.disk = w.disk /\ v.open = w.open /\ v.lost = w.lost /\ InSlot(v, fd) = t
  <1>v. PICK v : v = WithSlot(w, i, t)
    OBVIOUS
  <1>1. SlotStep(w, v, X, i, t)
    BY <1>v, SlotChanged
  <1>2. OnlyFor(w, v, fd)
    BY <1>1 DEF SlotStep, OnlyFor, SameOpen, SameFiles
  <1> QED  BY <1>1, <1>2, <1>v DEF SlotStep

ClearStep(w, v, X, fd) ==
    /\ Fit(v, X) /\ OnlyFor(w, v, fd) /\ v.disk = w.disk /\ v.open = w.open
    /\ \/ InSlot(v, fd) = InSlot(w, fd)
       \/ InSlot(v, fd) = Flags(InSlot(w, fd), FALSE, FALSE)

LEMMA ClearedKeeps ==
    ASSUME NEW w, NEW X, Fit(w, X), NEW fd \in Fd, w.open[fd] # None, scope.NST \in Nat
    PROVE  ClearStep(w, Cleared(w, fd), X, fd)
  <1>v. PICK v : v = u_st_slot(w, fd)
    OBVIOUS
  <1>i. PICK i : i = Index(v, fd)
    OBVIOUS
  <1>z. PICK z : z = Cleared(w, fd)
    OBVIOUS
  <1>1. /\ Fit(v, X) /\ OnlyFor(w, v, fd) /\ v.disk = w.disk /\ v.open = w.open /\ v.lost = w.lost
        /\ InSlot(v, fd) = InSlot(w, fd) /\ v.open[fd] # None
    BY <1>v, SlotTakenOnly
  <1>2. CASE i = 0
    <2>1. z = v
      BY <1>2, <1>i, <1>v, <1>z DEF Cleared
    <2> QED  BY <1>1, <1>z, <2>1 DEF ClearStep
  <1>3. CASE i # 0
    <2>t. PICK t : t = v.slots[i]
      OBVIOUS
    <2>e. PICK e : e = Flags(t, FALSE, FALSE)
      OBVIOUS
    <2>u. PICK u : u = WithSlot(v, i, e)
      OBVIOUS
    <2>1. i \in DOMAIN v.slots /\ InSlot(v, fd) = t /\ t.fd = fd /\ v.slots[i].fd = fd
      BY <1>1, <1>3, <1>i, <2>t, IndexFacts
    <2>2. t \in Slot /\ SlotFit(t)
      BY <1>1, <2>t, <2>1, SlotIsSlot
    <2>3. e \in Slot /\ SlotFit(e) /\ e.fd = fd
      BY <2>e, <2>1, <2>2, FlagsSlot
    <2>4. /\ Fit(u, X) /\ OnlyFor(v, u, fd)
          /\ u.disk = v.disk /\ u.open = v.open /\ u.lost = v.lost /\ InSlot(u, fd) = e
      BY <1>1, <2>1, <2>3, <2>u, SlotOnly
    <2>5. LostStep(u, WithLost(u, u.lost \ {fd}), X)
      <3>1. u.lost \ {fd} \in SUBSET Fd
        BY <2>4, LibraryParts DEF Fit
      <3> QED  BY <2>4, <3>1, LostChanged
    <2>6. z = WithLost(u, u.lost \ {fd})
      <3>1. v \in Library
        BY <1>1 DEF Fit
      <3> QED  BY <1>3, <1>i, <1>v, <1>z, <2>1, <2>e, <2>t, <2>u, <3>1
               DEF Cleared, WithLost, WithSlot, Flags, Library
    <2>7. z.disk = u.disk /\ z.open = u.open /\ InSlot(z, fd) = e /\ Fit(z, X) /\ SameSlots(u, z, Fd)
      BY <2>4, <2>5, <2>6 DEF LostStep, SameTable, SameSlots
    <2>8. OnlyFor(u, z, fd)
      BY <2>4, <2>7 DEF OnlyFor, SameOpen, SameFiles, SameSlots
    <2>9. OnlyFor(w, z, fd)
      BY <1>1, <2>4, <2>8, OnlyForTransitive
    <2> QED  BY <1>1, <1>z, <2>1, <2>4, <2>7, <2>9, <2>e DEF ClearStep
  <1> QED  BY <1>2, <1>3

\* Where a seek leads.
Leads(w, fd, k) ==
    k[2] + (CASE k[1] = "set" -> 0
              [] k[1] = "cur" -> Stands(w, fd)
              [] k[1] = "end" -> Len(w.disk[w.open[fd].file]))

MoveStep(w, v, X, fd, to) ==
    /\ Fit(v, X) /\ OnlyFor(w, v, fd) /\ v.disk = w.disk
    /\ \/ InSlot(v, fd) = InSlot(w, fd) /\ Index(w, fd) = 0
       \/ InSlot(v, fd) = [Dropped(InSlot(w, fd)) EXCEPT !.eof = FALSE]
    /\ v.open[fd].off = IF to < 0 THEN w.open[fd].off ELSE to

LEMMA MovedKeeps ==
    ASSUME NEW w, NEW X, Fit(w, X), NEW fd \in Fd \ X, w.open[fd] # None,
           NEW k \in {"set", "cur", "end"} \X Int,
           Leads(w, fd, k) <= Len(w.disk[w.open[fd].file])
    PROVE  /\ Moved(w, fd, k).to = Leads(w, fd, k) /\ Leads(w, fd, k) \in Int
           /\ MoveStep(w, Moved(w, fd, k).w, X, fd, Leads(w, fd, k))
  <1>i. PICK i : i = Index(w, fd)
    OBVIOUS
  <1>t. PICK t : t = InSlot(w, fd)
    OBVIOUS
  <1>n. PICK n : n = Leads(w, fd, k)
    OBVIOUS
  <1>v. PICK v : v = IF i = 0 THEN w ELSE [w EXCEPT !.slots[i] = [Dropped(@) EXCEPT !.eof = FALSE]]
    OBVIOUS
  <1>z. PICK z : z = IF n < 0 THEN v ELSE WithOff(v, fd, n)
    OBVIOUS
  <1>1. Moved(w, fd, k) = [to |-> n, w |-> z]
    BY <1>i, <1>t, <1>n, <1>v, <1>z DEF Moved, Leads, Stands, WithOff
  <1>2. Moved(w, fd, k).to = n /\ Moved(w, fd, k).w = z
    BY <1>1
  <1>3. w.open[fd].off \in Nat /\ Len(w.disk[w.open[fd].file]) \in Nat
    BY AtFits, OpenFileParts
  <1>4. t \in Slot /\ SlotFit(t) /\ (i # 0 => i \in DOMAIN w.slots /\ t = w.slots[i] /\ t.fd = fd)
    <2>1. CASE i = 0
      BY <1>i, <1>t, <2>1, IndexFacts, BlankSlot DEF InSlot
    <2>2. CASE i # 0
      BY <1>i, <1>t, <2>2, IndexFacts, SlotIsSlot
    <2> QED  BY <2>1, <2>2
  <1>5. n \in Int
    <2>1. Stands(w, fd) \in Int
      BY <1>3, <1>4, <1>t, SlotParts, SMTT(30) DEF Stands, Unread
    <2> QED  BY <1>3, <1>n, <2>1 DEF Leads
  <1>6. /\ Fit(v, X) /\ OnlyFor(w, v, fd) /\ v.disk = w.disk /\ v.open = w.open
        /\ \/ InSlot(v, fd) = t /\ i = 0
           \/ InSlot(v, fd) = [Dropped(t) EXCEPT !.eof = FALSE]
    <2>1. CASE i = 0
      BY <1>t, <1>v, <2>1, OnlyForReflexive
    <2>2. CASE i # 0
      <3>e. PICK e : e = [Dropped(t) EXCEPT !.eof = FALSE]
        OBVIOUS
      <3>1. Dropped(t) \in Slot /\ SlotFit(Dropped(t)) /\ Dropped(t).fd = fd
        BY <1>4, <2>2, DroppedSlot
      <3>2. e \in Slot /\ SlotFit(e) /\ e.fd = fd
        BY <3>1, <3>e DEF Slot, SlotFit
      <3>3. v = WithSlot(w, i, e)
        BY <1>v, <1>4, <2>2, <3>e DEF WithSlot
      <3>4. /\ Fit(v, X) /\ OnlyFor(w, v, fd) /\ v.disk = w.disk /\ v.open = w.open
            /\ InSlot(v, fd) = e
        BY <1>4, <2>2, <3>2, <3>3, SlotOnly
      <3> QED  BY <3>4, <3>e
    <2> QED  BY <2>1, <2>2
  <1>7. CASE n < 0
    BY <1>2, <1>5, <1>6, <1>7, <1>i, <1>n, <1>t, <1>z DEF MoveStep
  <1>8. CASE ~(n < 0)
    <2>1. n \in Nat /\ n <= Len(v.disk[v.open[fd].file]) /\ v.open[fd] # None
      BY <1>5, <1>6, <1>8, <1>n
    <2>2. OffStep(v, z, X, fd, n)
      BY <1>6, <1>8, <1>z, <2>1, OffsetMoved
    <2>3. OnlyFor(v, z, fd)
      BY <2>2 DEF OffStep, OnlyFor, SameTable, SameSlots, SameFiles
    <2>4. OnlyFor(w, z, fd)
      BY <1>6, <2>3, OnlyForTransitive
    <2>5. /\ Fit(z, X) /\ z.disk = w.disk /\ InSlot(z, fd) = InSlot(v, fd) /\ z.open[fd].off = n
      BY <1>6, <2>2 DEF OffStep, SameTable, SameSlots
    <2> QED  BY <1>2, <1>5, <1>6, <1>8, <1>i, <1>n, <1>t, <2>4, <2>5 DEF MoveStep
  <1> QED  BY <1>7, <1>8

-----------------------------------------------------------------------------
(* Reading.                                                                  *)

Least(a, b) == IF a < b THEN a ELSE b

\* The part of the buffer a read takes, and what it still needs.
FromBuffer(t, n) == Least(Unread(t), n - Pushed(t))
Needed(t, n) == n - Pushed(t) - FromBuffer(t, n)
Had(t, n) == (IF t.ung = None THEN <<>> ELSE <<t.ung>>) \o SubSeq(t.buf, t.bpos + 1, t.bpos + FromBuffer(t, n))

LEMMA SliceType ==
    ASSUME NEW s \in Seq(Byte), NEW a \in Nat, NEW k \in Nat, a + k <= Len(s)
    PROVE  /\ SubSeq(s, a + 1, a + k) \in Seq(Byte) /\ Len(SubSeq(s, a + 1, a + k)) = k
           /\ \A j \in 1 .. k : SubSeq(s, a + 1, a + k)[j] = s[a + j]
  OBVIOUS

LEMMA ConcatType ==
    ASSUME NEW r \in Seq(Byte), NEW s \in Seq(Byte)
    PROVE  r \o s \in Seq(Byte) /\ Len(r \o s) = Len(r) + Len(s)
  OBVIOUS

LEMMA HadType ==
    ASSUME NEW t \in Slot, SlotFit(t), NEW n \in Nat \ {0}
    PROVE  /\ FromBuffer(t, n) \in Nat /\ FromBuffer(t, n) <= Unread(t) /\ Unread(t) \in Nat
           /\ Needed(t, n) \in Nat /\ (Needed(t, n) > 0 => FromBuffer(t, n) = Unread(t))
           /\ Had(t, n) \in Seq(Byte) /\ Len(Had(t, n)) = Pushed(t) + FromBuffer(t, n)
           /\ Needed(t, n) = n - Len(Had(t, n))
  <1>k. PICK k : k = FromBuffer(t, n)
    OBVIOUS
  <1>f. PICK f : f = IF t.ung = None THEN <<>> ELSE <<t.ung>>
    OBVIOUS
  <1>s. PICK s : s = SubSeq(t.buf, t.bpos + 1, t.bpos + k)
    OBVIOUS
  <1>1. Unread(t) \in Nat /\ Pushed(t) \in {0, 1}
    BY SlotParts DEF Unread, SlotFit
  <1>2. k \in Nat /\ k <= Unread(t) /\ k <= n - Pushed(t) /\ (k # n - Pushed(t) => k = Unread(t))
    BY <1>1, <1>k DEF FromBuffer, Least
  <1>3. f \in Seq(Byte) /\ Len(f) = Pushed(t)
    <2>1. CASE t.ung = None
      BY <1>f, <2>1 DEF Pushed
    <2>2. CASE t.ung # None
      <3>1. t.ung \in Byte
        BY <2>2, SlotParts
      <3> QED  BY <1>f, <2>2, <3>1 DEF Pushed
    <2> QED  BY <2>1, <2>2
  <1>4. s \in Seq(Byte) /\ Len(s) = k
    <2>1. t.bpos + k <= Len(t.buf) /\ t.bpos \in Nat /\ t.buf \in Seq(Byte) /\ Len(t.buf) \in Nat
      BY <1>2, SlotParts DEF SlotFit, Unread
    <2>2. SubSeq(t.buf, t.bpos + 1, t.bpos + k) \in Seq(Byte) /\ Len(SubSeq(t.buf, t.bpos + 1, t.bpos + k)) = k
      <3>1. k \in Nat
        BY <1>2
      <3> QED  BY <2>1, <3>1, SliceType
    <2> QED  BY <1>s, <2>2
  <1>5. Had(t, n) = f \o s
    BY <1>f, <1>k, <1>s DEF Had
  <1>6. Had(t, n) \in Seq(Byte) /\ Len(Had(t, n)) = Pushed(t) + k
    BY <1>3, <1>4, <1>5, ConcatType
  <1>7. Needed(t, n) = n - Pushed(t) - k
    BY <1>k DEF Needed
  <1> QED  BY <1>1, <1>2, <1>6, <1>7, <1>k

\* The bytes b of the file, from where the stream stands.
NextBytes(w, fd, b) ==
    LET c == w.disk[w.open[fd].file]
        off == w.open[fd].off
    IN /\ b \in Seq(Byte) /\ Len(b) \in Nat /\ off + Len(b) <= Len(c)
       /\ \A j \in 1 .. Len(b) : b[j] = c[off + j]

GivenLen(w, fd, m) ==
    IF w.open[fd].how.rd THEN Least(m, Len(w.disk[w.open[fd].file]) - w.open[fd].off) ELSE 0

\* What the descriptor gives: the next bytes of the file, as many as there are.
LEMMA GivenType ==
    ASSUME NEW w, NEW X, Fit(w, X), NEW fd \in Fd \ X, w.open[fd] # None, NEW m \in Nat
    PROVE  NextBytes(w, fd, Given(w, fd, m)) /\ Len(Given(w, fd, m)) = GivenLen(w, fd, m)
  <1>c. PICK c : c = w.disk[w.open[fd].file]
    OBVIOUS
  <1>o. PICK off : off = w.open[fd].off
    OBVIOUS
  <1>l. PICK l : l = IF w.open[fd].how.rd THEN Least(m, Len(c) - off) ELSE 0
    OBVIOUS
  <1>g. PICK g : g = Given(w, fd, m)
    OBVIOUS
  <1>1. c \in Seq(Byte) /\ off \in Nat /\ off <= Len(c) /\ Len(c) \in Nat
    <2>1. c \in Seq(Byte) /\ w.open[fd] \in OpenFile
      BY <1>c, AtFits
    <2>2. off \in Nat
      BY <1>o, <2>1, OpenFileParts
    <2>3. off <= Len(c)
      BY <1>c, <1>o DEF Fit
    <2> QED  BY <2>1, <2>2, <2>3
  <1>2. l \in Nat /\ off + l <= Len(c)
    BY <1>1, <1>l DEF Least
  <1>3. CASE w.open[fd].how.rd
    <2>1. off + l = IF off + m < Len(c) THEN off + m ELSE Len(c)
      BY <1>1, <1>3, <1>l DEF Least
    <2>2. g = SubSeq(c, off + 1, off + l)
      BY <1>3, <1>c, <1>g, <1>o, <2>1 DEF Given
    <2>3. g \in Seq(Byte) /\ Len(g) = l /\ \A j \in 1 .. l : g[j] = c[off + j]
      BY <1>1, <1>2, <2>2
    <2> QED  BY <1>2, <1>c, <1>o, <1>l, <1>g, <2>3 DEF NextBytes, GivenLen
  <1>4. CASE ~w.open[fd].how.rd
    <2>1. g = <<>> /\ l = 0
      BY <1>4, <1>g, <1>l DEF Given
    <2>2. g \in Seq(Byte) /\ Len(g) = l /\ \A j \in 1 .. l : g[j] = c[off + j]
      BY <2>1
    <2> QED  BY <1>2, <1>c, <1>o, <1>l, <1>g, <2>2 DEF NextBytes, GivenLen
  <1> QED  BY <1>3, <1>4

\* The one read of the descriptor.
Block(w, fd, n) ==
    LET need == Needed(InSlot(w, fd), n) IN
    IF need = 0 THEN <<>>
    ELSE Given(w, fd, IF Index(w, fd) # 0 /\ need < BufSize THEN BufSize ELSE need)

Prefix(s, n) == SubSeq(s, 1, Least(n, Len(s)))

\* The slot after the read.
ReadSlot(w, fd, n, t) ==
    LET need == Needed(t, n)
        block == Block(w, fd, n)
        refilled == Index(w, fd) # 0 /\ need < BufSize /\ need > 0
    IN [t EXCEPT !.ung = None,
                 !.eof = @ \/ Len(Had(t, n) \o Prefix(block, need)) < n,
                 !.err = @ \/ (need > 0 /\ ~w.open[fd].how.rd),
                 !.buf = IF refilled THEN block ELSE @,
                 !.bpos = IF refilled THEN Len(Prefix(block, need)) ELSE @ + FromBuffer(t, n),
                 !.blen = IF refilled THEN Len(block) ELSE @]

Reads(q, data, v, i, u) == q.data = data /\ q.w = IF i = 0 THEN v ELSE WithSlot(v, i, u)

LEMMA TakenForm ==
    ASSUME NEW w, NEW X, Fit(w, X), NEW fd \in Fd \ X, w.open[fd] # None, NEW n \in Nat \ {0},
           NEW t, t = InSlot(w, fd), NEW u, u = ReadSlot(w, fd, n, t), NEW block, block = Block(w, fd, n),
           NEW v, v = IF Needed(t, n) = 0 THEN w ELSE WithOff(w, fd, w.open[fd].off + Len(block))
    PROVE  Reads(Taken(w, fd, n), Had(t, n) \o Prefix(block, Needed(t, n)), v, Index(w, fd), u)
  <1>i. PICK i : i = Index(w, fd)
    OBVIOUS
  <1>1. t \in Slot /\ SlotFit(t)
    <2>1. CASE Index(w, fd) = 0
      BY <2>1, IndexFacts, BlankSlot DEF InSlot
    <2>2. CASE Index(w, fd) # 0
      BY <2>2, IndexFacts, SlotIsSlot
    <2> QED  BY <2>1, <2>2
  <1> DEFINE first == IF t.ung = None THEN <<>> ELSE <<t.ung>>
             k == IF Unread(t) < n - Len(first) THEN Unread(t) ELSE n - Len(first)
             had == first \o SubSeq(t.buf, t.bpos + 1, t.bpos + k)
             need == n - Len(had)
             refill == i # 0 /\ need < BufSize
             blk == IF need = 0 THEN <<>> ELSE Given(w, fd, IF refill THEN BufSize ELSE need)
             got == SubSeq(blk, 1, IF need < Len(blk) THEN need ELSE Len(blk))
             short == Len(had \o got) < n
             vv == IF need = 0 THEN w ELSE [w EXCEPT !.open[fd].off = @ + Len(blk)]
             uu == [t EXCEPT !.ung = None, !.eof = @ \/ short,
                       !.err = @ \/ (need > 0 /\ ~w.open[fd].how.rd),
                       !.buf = IF refill /\ need > 0 THEN blk ELSE @,
                       !.bpos = IF refill /\ need > 0 THEN Len(got) ELSE @ + k,
                       !.blen = IF refill /\ need > 0 THEN Len(blk) ELSE @]
  <1>2. Taken(w, fd, n) = [w |-> IF i = 0 THEN vv ELSE [vv EXCEPT !.slots[i] = uu], data |-> had \o got]
    BY <1>i DEF Taken
  <1>3. Len(first) = Pushed(t)
    BY DEF Pushed
  <1>4. k = FromBuffer(t, n)
    BY <1>3 DEF FromBuffer, Least
  <1>5. had = Had(t, n)
    BY <1>4 DEF Had
  <1> HIDE DEF first, k, had
  <1>6. need = Needed(t, n)
    BY <1>1, <1>5, HadType
  <1> HIDE DEF need
  <1>7. blk = block
    BY <1>6, <1>i DEF Block
  <1>8. got = Prefix(block, Needed(t, n))
    BY <1>6, <1>7 DEF Prefix, Least
  <1>9. vv = v
    BY <1>6, <1>7 DEF WithOff
  <1> HIDE DEF blk, got, vv
  <1>a. short <=> Len(Had(t, n) \o Prefix(block, Needed(t, n))) < n
    BY <1>5, <1>8
  <1>b. (refill /\ need > 0) <=> (Index(w, fd) # 0 /\ Needed(t, n) < BufSize /\ Needed(t, n) > 0)
    BY <1>6, <1>i
  <1> HIDE DEF short, refill
  <1>10. uu = u
    BY <1>4, <1>6, <1>7, <1>8, <1>a, <1>b DEF ReadSlot
  <1> HIDE DEF uu
  <1>11. Taken(w, fd, n).w = (IF i = 0 THEN vv ELSE [vv EXCEPT !.slots[i] = uu]) /\ Taken(w, fd, n).data = had \o got
    BY <1>2
  <1> QED  BY <1>5, <1>8, <1>9, <1>10, <1>11, <1>i DEF WithSlot, Reads

LEMMA BlockType ==
    ASSUME NEW w, NEW X, Fit(w, X), NEW fd \in Fd \ X, w.open[fd] # None, NEW n \in Nat \ {0},
           InSlot(w, fd) \in Slot, SlotFit(InSlot(w, fd))
    PROVE  NextBytes(w, fd, Block(w, fd, n))
  <1>c. PICK c : c = w.disk[w.open[fd].file]
    OBVIOUS
  <1>o. PICK off : off = w.open[fd].off
    OBVIOUS
  <1>b. PICK block : block = Block(w, fd, n)
    OBVIOUS
  <1>d. PICK need : need = Needed(InSlot(w, fd), n)
    OBVIOUS
  <1>1. off \in Nat /\ Len(c) \in Nat /\ off <= Len(c)
    <2>1. w.open[fd] \in OpenFile /\ c \in Seq(Byte)
      BY <1>c, AtFits
    <2>2. off \in Nat
      BY <1>o, <2>1, OpenFileParts
    <2>3. off <= Len(c)
      BY <1>c, <1>o DEF Fit
    <2> QED  BY <2>1, <2>2, <2>3
  <1>2. need \in Nat
    BY <1>d, HadType
  <1>3. CASE need = 0
    <2>1. block = <<>>
      BY <1>3, <1>b, <1>d DEF Block
    <2>2. block \in Seq(Byte) /\ Len(block) = 0
      BY <2>1
    <2>3. \A j \in 1 .. Len(block) : block[j] = c[off + j]
      BY <2>2
    <2> QED  BY <1>1, <1>b, <1>c, <1>o, <2>2, <2>3 DEF NextBytes
  <1>4. CASE need # 0
    <2>m. PICK m : m = IF Index(w, fd) # 0 /\ need < BufSize THEN BufSize ELSE need
      OBVIOUS
    <2>1. m \in Nat
      BY <1>2, <2>m, StdioAssumption
    <2>2. block = Given(w, fd, m)
      BY <1>4, <1>b, <1>d, <2>m DEF Block
    <2>3. NextBytes(w, fd, Given(w, fd, m))
      BY <2>1, GivenType
    <2> QED  BY <1>b, <2>2, <2>3
  <1> QED  BY <1>3, <1>4

LEMMA PrefixLen ==
    ASSUME NEW s \in Seq(Byte), NEW n \in Nat
    PROVE  /\ Prefix(s, n) \in Seq(Byte) /\ Len(Prefix(s, n)) = Least(n, Len(s))
           /\ Least(n, Len(s)) \in Nat /\ Least(n, Len(s)) <= Len(s) /\ Least(n, Len(s)) <= n
           /\ \A j \in 1 .. Least(n, Len(s)) : Prefix(s, n)[j] = s[j]
  <1>k. PICK k : k = Least(n, Len(s))
    OBVIOUS
  <1>1. k \in Nat /\ k <= Len(s) /\ k <= n
    BY <1>k DEF Least
  <1>2. SubSeq(s, 1, k) \in Seq(Byte) /\ Len(SubSeq(s, 1, k)) = k /\ \A j \in 1 .. k : SubSeq(s, 1, k)[j] = s[j]
    BY <1>1
  <1> QED  BY <1>1, <1>2, <1>k DEF Prefix

LEMMA ReadSlotType ==
    ASSUME NEW w, NEW X, Fit(w, X), NEW fd \in Fd \ X, w.open[fd] # None, NEW n \in Nat \ {0},
           NEW t, t = InSlot(w, fd), t \in Slot, SlotFit(t), t.wlen = 0
    PROVE  LET u == ReadSlot(w, fd, n, t)
               refilled == Index(w, fd) # 0 /\ Needed(t, n) < BufSize /\ Needed(t, n) > 0
           IN /\ u \in Slot /\ SlotFit(u) /\ u.fd = t.fd /\ u.wlen = 0 /\ u.ung = None /\ u.ro = t.ro
              /\ u.buf = IF refilled THEN Block(w, fd, n) ELSE t.buf
              /\ u.bpos = IF refilled THEN Least(Needed(t, n), Len(Block(w, fd, n))) ELSE t.bpos + FromBuffer(t, n)
              /\ u.blen = IF refilled THEN Len(Block(w, fd, n)) ELSE t.blen
  <1>b. PICK block : block = Block(w, fd, n)
    OBVIOUS
  <1>d. PICK need : need = Needed(t, n)
    OBVIOUS
  <1>k. PICK k : k = FromBuffer(t, n)
    OBVIOUS
  <1>r. PICK refilled : refilled = (Index(w, fd) # 0 /\ need < BufSize /\ need > 0)
    OBVIOUS
  <1>e. PICK e : e = (t.eof \/ Len(Had(t, n) \o Prefix(block, need)) < n)
    OBVIOUS
  <1>f. PICK f : f = (t.err \/ (need > 0 /\ ~w.open[fd].how.rd))
    OBVIOUS
  <1>g. PICK g : g = Prefix(block, need)
    OBVIOUS
  <1>1. block \in Seq(Byte) /\ Len(block) \in Nat
    BY <1>b, BlockType DEF NextBytes
  <1>2. need \in Nat /\ k \in Nat /\ k <= Unread(t)
    BY <1>d, <1>k, HadType
  <1>3. Len(g) = Least(need, Len(block)) /\ Len(g) \in Nat /\ Len(g) <= Len(block)
    <2>1. /\ Len(Prefix(block, need)) = Least(need, Len(block))
          /\ Least(need, Len(block)) \in Nat /\ Least(need, Len(block)) <= Len(block)
      <3>1. need \in Nat
        BY <1>2
      <3> QED  BY <1>1, <3>1, PrefixLen
    <2> QED  BY <1>g, <2>1
  <1>4. e \in BOOLEAN /\ f \in BOOLEAN
    BY <1>e, <1>f
  <1>buf. PICK buf : buf = IF refilled THEN block ELSE t.buf
    OBVIOUS
  <1>bpos. PICK bpos : bpos = IF refilled THEN Len(g) ELSE t.bpos + k
    OBVIOUS
  <1>blen. PICK blen : blen = IF refilled THEN Len(block) ELSE t.blen
    OBVIOUS
  <1>u. PICK u : u = ReadSlot(w, fd, n, t)
    OBVIOUS
  <1>5. u = [fd |-> t.fd, eof |-> e, err |-> f, ung |-> None, buf |-> buf,
             bpos |-> bpos, blen |-> blen, wlen |-> t.wlen, ro |-> t.ro]
    <2>1. u = [t EXCEPT !.ung = None, !.eof = e, !.err = f, !.buf = buf, !.bpos = bpos, !.blen = blen]
      BY <1>b, <1>d, <1>k, <1>r, <1>e, <1>f, <1>g, <1>buf, <1>bpos, <1>blen, <1>u DEF ReadSlot
    <2> QED  BY <2>1 DEF Slot
  <1>6. buf \in Seq(Byte) /\ bpos \in Nat /\ blen \in Nat /\ bpos <= blen /\ blen <= Len(buf)
    <2>1. /\ t.bpos \in Nat /\ t.blen \in Nat /\ t.buf \in Seq(Byte) /\ t.bpos <= t.blen
          /\ t.blen <= Len(t.buf) /\ Unread(t) = t.blen - t.bpos
      BY SlotParts DEF SlotFit, Unread
    <2>2. CASE refilled
      BY <1>1, <1>3, <1>buf, <1>bpos, <1>blen, <2>2
    <2>3. CASE ~refilled
      BY <1>2, <1>buf, <1>bpos, <1>blen, <2>1, <2>3
    <2> QED  BY <2>2, <2>3
  <1>7. u \in Slot
    BY <1>4, <1>5, <1>6, SlotParts DEF Slot
  <1>8. /\ u.fd = t.fd /\ u.wlen = 0 /\ u.ung = None /\ u.ro = t.ro
        /\ u.buf = buf /\ u.bpos = bpos /\ u.blen = blen
    BY <1>5
  <1>9. SlotFit(u)
    <2>1. Len(buf) \in Nat
      BY <1>6
    <2> QED  BY <1>6, <1>8, <2>1 DEF SlotFit
  <1> QED  BY <1>3, <1>7, <1>8, <1>9, <1>b, <1>d, <1>k, <1>r, <1>buf, <1>bpos, <1>blen, <1>u

ReadStep(w, q, X, fd, n) ==
    LET t == InSlot(w, fd) IN
    /\ Fit(q.w, X) /\ OnlyFor(w, q.w, fd) /\ q.w.disk = w.disk /\ q.w.lost = w.lost
    /\ SamePlaces(w, q.w)
    /\ q.w.open[fd].off = w.open[fd].off + Len(Block(w, fd, n))
    /\ InSlot(q.w, fd) = IF Index(w, fd) = 0 THEN t ELSE ReadSlot(w, fd, n, t)
    /\ q.data = Had(t, n) \o Prefix(Block(w, fd, n), Needed(t, n))

LEMMA TakenKeeps ==
    ASSUME NEW w, NEW X, Fit(w, X), NEW fd \in Fd \ X, w.open[fd] # None, NEW n \in Nat \ {0},
           InSlot(w, fd).wlen = 0
    PROVE  ReadStep(w, Taken(w, fd, n), X, fd, n)
  <1>t. PICK t : t = InSlot(w, fd)
    OBVIOUS
  <1>i. PICK i : i = Index(w, fd)
    OBVIOUS
  <1>b. PICK block : block = Block(w, fd, n)
    OBVIOUS
  <1>u. PICK u : u = ReadSlot(w, fd, n, t)
    OBVIOUS
  <1>m. PICK m : m = w.open[fd].off + Len(block)
    OBVIOUS
  <1>v. PICK v : v = IF Needed(t, n) = 0 THEN w ELSE WithOff(w, fd, m)
    OBVIOUS
  <1>q. PICK q : q = Taken(w, fd, n)
    OBVIOUS
  <1>1. t \in Slot /\ SlotFit(t) /\ (i # 0 => i \in DOMAIN w.slots /\ t = w.slots[i] /\ t.fd = fd)
    <2>1. CASE i = 0
      BY <1>i, <1>t, <2>1, IndexFacts, BlankSlot DEF InSlot
    <2>2. CASE i # 0
      BY <1>i, <1>t, <2>2, IndexFacts, SlotIsSlot
    <2> QED  BY <2>1, <2>2
  <1>2. block \in Seq(Byte) /\ Len(block) \in Nat /\ w.open[fd].off + Len(block) <= Len(w.disk[w.open[fd].file])
    BY <1>1, <1>b, <1>t, BlockType DEF NextBytes
  <1>3. u \in Slot /\ SlotFit(u) /\ u.fd = t.fd
    BY <1>1, <1>t, <1>u, ReadSlotType
  <1>4. q.data = Had(t, n) \o Prefix(block, Needed(t, n)) /\ (q.w = IF i = 0 THEN v ELSE WithSlot(v, i, u))
    <2>1. Reads(Taken(w, fd, n), Had(t, n) \o Prefix(block, Needed(t, n)), v, Index(w, fd), u)
      BY <1>t, <1>b, <1>u, <1>m, <1>v, TakenForm
    <2> QED  BY <2>1, <1>i, <1>q DEF Reads
  <1>5. w.open[fd].off \in Nat
    BY AtFits, OpenFileParts
  <1>6. /\ Fit(v, X) /\ OnlyFor(w, v, fd) /\ v.disk = w.disk /\ v.lost = w.lost /\ SameTable(w, v)
        /\ v.open[fd].off = m
    <2>1. CASE Needed(t, n) = 0
      <3>1. block = <<>>
        BY <1>b, <1>t, <2>1 DEF Block
      <3>2. m = w.open[fd].off
        BY <1>5, <1>m, <3>1
      <3> QED  BY <1>v, <2>1, <3>2, OnlyForReflexive, SameTableFacts
    <2>2. CASE Needed(t, n) # 0
      <3>1. m \in Nat /\ m <= Len(w.disk[w.open[fd].file])
        BY <1>2, <1>5, <1>m
      <3>2. OffStep(w, v, X, fd, m)
        BY <1>v, <2>2, <3>1, OffsetMoved
      <3>3. OnlyFor(w, v, fd)
        BY <3>2 DEF OffStep, OnlyFor, SameTable, SameSlots, SameFiles
      <3> QED  BY <3>2, <3>3 DEF OffStep
    <2> QED  BY <2>1, <2>2
  <1>7. CASE i = 0
    <2>1. q.w = v /\ InSlot(v, fd) = t /\ SamePlaces(w, v)
      BY <1>4, <1>6, <1>7, <1>t DEF SameTable, SameSlots
    <2> QED  BY <1>4, <1>6, <1>7, <2>1, <1>t, <1>i, <1>b, <1>m, <1>q DEF ReadStep
  <1>8. CASE i # 0
    <2>1. i \in DOMAIN v.slots /\ v.slots[i].fd = fd /\ v.open[fd] # None /\ u.fd = fd
      BY <1>1, <1>3, <1>6, <1>8 DEF SameTable, OnlyFor
    <2>z. PICK z : z = WithSlot(v, i, u)
      OBVIOUS
    <2>2. /\ Fit(z, X) /\ OnlyFor(v, z, fd) /\ SamePlaces(v, z)
          /\ z.disk = v.disk /\ z.open = v.open /\ z.lost = v.lost /\ InSlot(z, fd) = u
      BY <1>3, <1>6, <2>1, <2>z, SlotOnly
    <2>3. OnlyFor(w, z, fd)
      BY <1>6, <2>2, OnlyForTransitive
    <2>4. SamePlaces(w, z)
      BY <1>6, <2>2 DEF SameTable, SamePlaces
    <2>5. q.w = z
      BY <1>4, <1>8, <2>z
    <2> QED  BY <1>4, <1>6, <1>8, <2>2, <2>3, <2>4, <2>5, <1>t, <1>i, <1>b, <1>m, <1>q, <1>u DEF ReadStep
  <1> QED  BY <1>7, <1>8

-----------------------------------------------------------------------------
(* Opening.                                                                  *)

WithOpen(w, fd, o) == [w EXCEPT !.open[fd] = o]

PutStep(w, v, X, fd, o) ==
    /\ Fit(v, X) /\ v.disk = w.disk /\ v.lost = w.lost /\ SameTable(w, v)
    /\ v.open[fd] = o /\ SameOpen(w, v, Fd \ {fd})

\* A descriptor is closed, or gets another open file.
LEMMA OpenPut ==
    ASSUME NEW w, NEW X, Fit(w, X), NEW fd \in Fd, NEW o \in OpenFile \union {None},
           o # None => o.off <= Len(w.disk[o.file])
    PROVE  PutStep(w, WithOpen(w, fd, o), IF o = None THEN X \union {fd} ELSE X \ {fd}, fd, o)
  <1>v. PICK v : v = WithOpen(w, fd, o)
    OBVIOUS
  <1>Y. PICK Y : Y = IF o = None THEN X \union {fd} ELSE X \ {fd}
    OBVIOUS
  <1>1. w \in Library
    BY DEF Fit
  <1>2. v = [disk |-> w.disk, open |-> [w.open EXCEPT ![fd] = o], slots |-> w.slots, lost |-> w.lost]
    BY <1>1, <1>v DEF WithOpen, Library
  <1>3. v.disk = w.disk /\ v.open = [w.open EXCEPT ![fd] = o] /\ v.slots = w.slots /\ v.lost = w.lost
    BY <1>2
  <1>4. v.open \in [Fd -> OpenFile \union {None}]
        /\ \A x \in Fd : v.open[x] = IF x = fd THEN o ELSE w.open[x]
    BY <1>1, <1>3, LibraryParts
  <1>5. v \in Library
    BY <1>1, <1>2, <1>3, <1>4, LibraryParts DEF Library
  <1>6. \A i \in DOMAIN v.slots : v.open[v.slots[i].fd] # None \/ v.slots[i].fd \in Y
    <2> SUFFICES ASSUME NEW i \in DOMAIN v.slots
                 PROVE  v.open[v.slots[i].fd] # None \/ v.slots[i].fd \in Y
      OBVIOUS
    <2>1. v.slots[i].fd \in Fd /\ (w.open[v.slots[i].fd] # None \/ v.slots[i].fd \in X)
      BY <1>3, SlotIsSlot DEF Fit
    <2>2. CASE v.slots[i].fd = fd
      BY <1>4, <1>Y, <2>1, <2>2
    <2>3. CASE v.slots[i].fd # fd
      BY <1>4, <1>Y, <2>1, <2>3
    <2> QED  BY <2>2, <2>3
  <1>7. ASSUME NEW x \in Fd \ Y, v.open[x] # None
        PROVE  v.open[x].off <= Len(v.disk[v.open[x].file])
    <2>1. CASE x = fd
      BY <1>3, <1>4, <1>7, <2>1
    <2>2. CASE x # fd
      <3>1. x \notin X
        BY <1>7, <1>Y, <2>2
      <3> QED  BY <1>3, <1>4, <1>7, <2>2, <3>1 DEF Fit
    <2> QED  BY <2>1, <2>2
  <1>8. Fit(v, Y)
    BY <1>3, <1>5, <1>6, <1>7 DEF Fit
  <1>9. SameOpen(w, v, Fd \ {fd}) /\ v.open[fd] = o /\ SameTable(w, v)
    BY <1>3, <1>4, SameTableFacts DEF SameOpen
  <1> QED  BY <1>3, <1>8, <1>9, <1>v, <1>Y DEF PutStep

\* The descriptors that are free.
FreeFds(w) == {x \in Fd : w.open[x] = None}
Lowest(w) == CHOOSE x \in Fd : w.open[x] = None /\ \A y \in Fd : y < x => w.open[y] # None

LEMMA LowestFree ==
    ASSUME NEW w, FreeFds(w) # {}
    PROVE  Lowest(w) \in Fd /\ w.open[Lowest(w)] = None
  <1>1. FreeFds(w) \in SUBSET Nat
    BY StdioAssumption DEF FreeFds
  <1>2. PICK x \in FreeFds(w) : \A y \in FreeFds(w) : x <= y
    BY <1>1, LeastNatural
  <1>3. x \in Fd /\ w.open[x] = None
    BY <1>2 DEF FreeFds
  <1>4. ASSUME NEW y \in Fd, y < x PROVE w.open[y] # None
    <2>1. x \in Nat /\ y \in Nat
      BY <1>3, StdioAssumption
    <2>2. ~(x <= y)
      BY <1>4, <2>1
    <2> QED  BY <1>2, <2>2 DEF FreeFds
  <1>5. \E z \in Fd : w.open[z] = None /\ \A y \in Fd : y < z => w.open[y] # None
    BY <1>3, <1>4
  <1> QED  BY <1>5 DEF Lowest

OpenStep(w, o, X, f, mode) ==
    /\ o.fd \in Fd \ X /\ w.open[o.fd] = None /\ Fit(o.w, X) /\ o.w.lost = w.lost
    /\ o.w.open[o.fd] = [file |-> f, how |-> How(mode), off |-> 0] /\ o.w.open[o.fd] \in OpenFile
    /\ SameOpen(w, o.w, Fd \ {o.fd}) /\ SameSlots(w, o.w, Fd \ {o.fd})
    /\ o.w.disk[f] = IF How(mode).empties THEN <<>> ELSE w.disk[f]
    /\ SameFiles(w, o.w, File \ {f})
    /\ InSlot(o.w, o.fd) = IF Index(o.w, o.fd) = 0 THEN Blank(o.fd) ELSE [Blank(o.fd) EXCEPT !.ro = mode = "r"]
    /\ Index(o.w, o.fd) = 0 => Len(w.slots) >= scope.NST
    /\ \A x : x # o.fd => Index(o.w, x) = Index(w, x)

LEMMA OpenedKeeps ==
    ASSUME NEW w, NEW X, Fit(w, X), \A x \in X : w.open[x] # None, FreeFds(w) # {},
           NEW f \in File, \A x \in Fd \ X : w.open[x] # None => w.open[x].file # f,
           NEW mode, scope.NST \in Nat
    PROVE  OpenStep(w, Opened(w, f, mode), X, f, mode)
  <1>fd. PICK fd : fd = Lowest(w)
    OBVIOUS
  <1>q. PICK q : q = [file |-> f, how |-> How(mode), off |-> 0]
    OBVIOUS
  <1>c. PICK c : c = IF How(mode).empties THEN <<>> ELSE w.disk[f]
    OBVIOUS
  <1>1. fd \in Fd \ X /\ w.open[fd] = None
    BY <1>fd, LowestFree
  <1>2. w \in Library /\ w.disk[f] \in Seq(Byte)
    BY LibraryParts DEF Fit
  <1>3. c \in Seq(Byte) /\ Len(c) \in Nat
    BY <1>2, <1>c
  <1>4. q \in OpenFile /\ q # None /\ q.off = 0 /\ q.file = f
    <2>1. How(mode) \in [rd : BOOLEAN, wr : BOOLEAN, append : BOOLEAN, empties : BOOLEAN]
      BY DEF How
    <2>2. q \in OpenFile
      BY <1>q, <2>1 DEF OpenFile, Modes
    <2> QED  BY <1>q, <2>2, OpenFileParts
  <1>d. PICK d : d = WithDisk(w, f, c)
    OBVIOUS
  <1>5. FileStep(w, d, X, f, c)
    BY <1>3, <1>d, FileChanged
  <1>e. PICK e : e = WithOpen(d, fd, q)
    OBVIOUS
  <1>6. PutStep(d, e, X, fd, q)
    <2>1. q.off <= Len(d.disk[q.file])
      BY <1>3, <1>4, <1>5 DEF FileStep
    <2>2. PutStep(d, WithOpen(d, fd, q), IF q = None THEN X \union {fd} ELSE X \ {fd}, fd, q)
      BY <1>1, <1>4, <1>5, <2>1, OpenPut DEF FileStep
    <2>3. (IF q = None THEN X \union {fd} ELSE X \ {fd}) = X
      BY <1>1, <1>4
    <2> QED  BY <1>e, <2>2, <2>3
  <1>7. e = [w EXCEPT !.open[fd] = q, !.disk[f] = IF How(mode).empties THEN <<>> ELSE @]
    BY <1>2, <1>c, <1>d, <1>e DEF WithDisk, WithOpen, Library
  <1>v. PICK v : v = u_st_slot(e, fd)
    OBVIOUS
  <1>i. PICK i : i = Index(v, fd)
    OBVIOUS
  <1>z. PICK z : z = IF i = 0 THEN v ELSE [v EXCEPT !.slots[i].ro = mode = "r"]
    OBVIOUS
  <1>8. Opened(w, f, mode) = [fd |-> fd, w |-> z]
    <2> DEFINE x == CHOOSE x \in Fd : w.open[x] = None /\ \A y \in Fd : y < x => w.open[y] # None
               vv == u_st_slot([w EXCEPT !.open[x] = [file |-> f, how |-> How(mode), off |-> 0],
                                         !.disk[f] = IF How(mode).empties THEN <<>> ELSE @], x)
               ii == Index(vv, x)
    <2>1. Opened(w, f, mode) = [fd |-> x, w |-> IF ii = 0 THEN vv ELSE [vv EXCEPT !.slots[ii].ro = mode = "r"]]
      BY DEF Opened
    <2>2. x = fd
      BY <1>fd DEF Lowest
    <2> HIDE DEF x
    <2>3. vv = v
      BY <1>7, <1>q, <1>v, <2>2
    <2> HIDE DEF vv
    <2>4. ii = i
      BY <1>i, <2>2, <2>3
    <2> HIDE DEF ii
    <2> QED  BY <1>z, <2>1, <2>2, <2>3, <2>4
  <1>9. Fit(e, X) /\ e.open[fd] = q /\ e.lost = w.lost /\ SameOpen(w, e, Fd \ {fd}) /\ SameSlots(w, e, Fd)
        /\ e.disk[f] = c /\ SameFiles(w, e, File \ {f})
    BY <1>5, <1>6 DEF FileStep, PutStep, SameTable, SameOpen, SameSlots, SameFiles
  <1>17. e.slots = w.slots /\ SamePlaces(w, e)
    BY <1>5, <1>6 DEF FileStep, PutStep, SameTable, SamePlaces
  <1>10. /\ Fit(v, X) /\ v.disk = e.disk /\ v.open = e.open /\ v.lost = e.lost /\ SameSlots(e, v, Fd)
         /\ Index(v, fd) = 0 => Len(e.slots) >= scope.NST
         /\ \A x : x # fd => Index(v, x) = Index(e, x)
    BY <1>1, <1>4, <1>9, <1>v, SlotTaken
  <1>11. InSlot(w, fd) = Blank(fd)
    <2>1. \A j \in DOMAIN w.slots : w.slots[j].fd # fd
      BY <1>1 DEF Fit
    <2> QED  BY <2>1, IndexFacts
  <1>12. InSlot(v, fd) = Blank(fd)
    BY <1>1, <1>9, <1>10, <1>11 DEF SameSlots
  <1>13. /\ Fit(z, X) /\ z.disk = v.disk /\ z.open = v.open /\ z.lost = v.lost
         /\ SameSlots(v, z, Fd \ {fd})
         /\ InSlot(z, fd) = IF Index(z, fd) = 0 THEN Blank(fd) ELSE [Blank(fd) EXCEPT !.ro = mode = "r"]
         /\ SamePlaces(v, z)
    <2>1. CASE i = 0
      BY <1>10, <1>12, <1>i, <1>z, <2>1 DEF SamePlaces, SameSlots
    <2>2. CASE i # 0
      <3>t. PICK t : t = [Blank(fd) EXCEPT !.ro = mode = "r"]
        OBVIOUS
      <3>1. i \in DOMAIN v.slots /\ v.slots[i] = Blank(fd) /\ v.slots[i].fd = fd
        BY <1>1, <1>10, <1>12, <1>i, <2>2, IndexFacts, BlankSlot
      <3>2. t \in Slot /\ SlotFit(t) /\ t.fd = fd
        <4>1. PICK b \in BOOLEAN : b = (mode = "r")
          OBVIOUS
        <4>2. t = [Blank(fd) EXCEPT !.ro = b]
          BY <3>t, <4>1
        <4>3. Blank(fd) \in Slot /\ SlotFit(Blank(fd)) /\ Blank(fd).fd = fd
          BY <1>1, BlankSlot
        <4> QED  BY <4>2, <4>3 DEF Slot, SlotFit
      <3>3. z = WithSlot(v, i, t)
        BY <1>z, <2>2, <3>1, <3>t DEF WithSlot
      <3>4. v.open[fd] # None
        BY <1>4, <1>9, <1>10
      <3>5. /\ Fit(z, X) /\ OnlyFor(v, z, fd) /\ SamePlaces(v, z)
            /\ z.disk = v.disk /\ z.open = v.open /\ z.lost = v.lost /\ InSlot(z, fd) = t
        BY <1>1, <1>10, <3>1, <3>2, <3>3, <3>4, SlotOnly
      <3>6. Index(z, fd) # 0
        BY <1>i, <2>2, <3>5 DEF SamePlaces
      <3> QED  BY <3>5, <3>6, <3>t DEF OnlyFor
    <2> QED  BY <2>1, <2>2
  <1>14. SameSlots(w, z, Fd \ {fd})
    BY <1>9, <1>10, <1>13 DEF SameSlots
  <1>15. /\ z.lost = w.lost /\ z.open[fd] = q /\ SameOpen(w, z, Fd \ {fd})
         /\ z.disk[f] = c /\ SameFiles(w, z, File \ {f})
    BY <1>9, <1>10, <1>13 DEF SameOpen, SameFiles
  <1>o. PICK o : o = Opened(w, f, mode)
    OBVIOUS
  <1>16. o.fd = fd /\ o.w = z
    BY <1>8, <1>o
  <1>18. (Index(z, fd) = 0 => Len(w.slots) >= scope.NST) /\ \A x : x # fd => Index(z, x) = Index(w, x)
    BY <1>10, <1>13, <1>17 DEF SamePlaces
  <1> QED  BY <1>1, <1>4, <1>13, <1>14, <1>15, <1>16, <1>18, <1>c, <1>o, <1>q, ZenonT(60) DEF OpenStep

-----------------------------------------------------------------------------
(* The calls that neither open nor close.                                    *)

Quiet(w) == Fit(w, {}) /\ Apart(w) /\ Steady(Lib, w)

\* A call that the program may make of an open stream.
Quietly == \E w : Quiet(w) /\ Become(w) /\ scope' = scope /\ answer'[1] \notin {"close", "open"}

LEMMA ScopeParts ==
    ASSUME StdioInv
    PROVE  /\ scope.NST \in Nat /\ scope.files \subseteq File
           /\ scope.start \subseteq Seq(Byte)
           /\ scope.data \subseteq Seq(Byte) \ {<<>>}
           /\ scope.push \subseteq Byte /\ scope.counts \subseteq Nat \ {0}
           /\ scope.seeks \subseteq {"set", "cur", "end"} \X Int
  BY StdioAssumption DEF StdioInv

LEMMA StreamIsOpen ==
    ASSUME NEW fd \in Streams
    PROVE  fd \in Fd \ {} /\ fd \in Fd /\ Lib.open[fd] # None /\ open[fd] # None
  BY DEF Streams, Lib

LEMMA OnlyForQuiet ==
    ASSUME StdioInv, NEW fd \in Streams, NEW w, Fit(w, {}), OnlyFor(Lib, w, fd)
    PROVE  Quiet(w)
  <1>1. Steady(Lib, w)
    BY StreamIsOpen, OnlyForSteady
  <1> QED  BY <1>1, SteadyApart DEF Quiet, StdioInv

\* Most calls take a slot and flush it.
Ready(fd, w) == Fit(w, {}) /\ OnlyFor(Lib, w, fd) /\ InSlot(w, fd).wlen = 0 /\ w.open[fd] # None

LEMMA Taking ==
    ASSUME StdioInv, NEW fd \in Streams
    PROVE  /\ Fit(u_st_slot(Lib, fd), {}) /\ OnlyFor(Lib, u_st_slot(Lib, fd), fd)
           /\ u_st_slot(Lib, fd).open[fd] # None
           /\ InSlot(u_st_slot(Lib, fd), fd) = InSlot(Lib, fd)
  BY ScopeParts, SlotTakenOnly, StreamIsOpen DEF StdioInv

LEMMA Flushing ==
    ASSUME StdioInv, NEW fd \in Streams, NEW r \in u_st_wflush(u_st_slot(Lib, fd), Index(u_st_slot(Lib, fd), fd))
    PROVE  Ready(fd, r.w)
  <1>v. PICK v : v = u_st_slot(Lib, fd)
    OBVIOUS
  <1>1. Fit(v, {}) /\ OnlyFor(Lib, v, fd) /\ v.open[fd] # None
    BY <1>v, Taking
  <1>2. FlushStep(v, r, {}, fd)
    BY <1>1, <1>v, StreamIsOpen, WflushKeeps
  <1>3. OnlyFor(Lib, r.w, fd)
    BY <1>1, <1>2, OnlyForTransitive DEF FlushStep
  <1> QED  BY <1>2, <1>3 DEF FlushStep, OnlyFor, Ready

\* What follows on a flush concerns the stream only.
LEMMA ReadyThen ==
    ASSUME StdioInv, NEW fd \in Streams, NEW v, Ready(fd, v), NEW w, Fit(w, {}), OnlyFor(v, w, fd)
    PROVE  Quiet(w)
  BY OnlyForQuiet, OnlyForTransitive DEF Ready

LEMMA Answered ==
    ASSUME NEW w, Quiet(w), NEW a, Call(w, a), a[1] \notin {"close", "open"}
    PROVE  Quietly
  BY DEF Call, Keep, Quietly

LEMMA WriteQuiet ==
    ASSUME StdioInv, NEW fd \in Streams, NEW p \in scope.data, fwrite(fd, p)
    PROVE  Quietly
  <1>1. PICK r \in u_st_wput(Lib, fd, p) : Call(r.w, <<"write", r.n>>)
    BY DEF fwrite
  <1>2. p \in Seq(Byte) /\ Fit(Lib, {}) /\ scope.NST \in Nat
    BY ScopeParts DEF StdioInv
  <1>3. Fit(r.w, {}) /\ OnlyFor(Lib, r.w, fd)
    BY <1>2, StreamIsOpen, WputKeeps
  <1>4. Quiet(r.w)
    BY <1>3, OnlyForQuiet
  <1> QED  BY <1>1, <1>4, Answered

LEMMA ReadQuiet ==
    ASSUME StdioInv, NEW fd \in Streams, NEW n \in scope.counts, fread(fd, n)
    PROVE  Quietly
  <1>1. PICK r \in u_st_wflush(u_st_slot(Lib, fd), Index(u_st_slot(Lib, fd), fd)) :
            Call(Taken(r.w, fd, n).w, <<"read", Taken(r.w, fd, n).data>>)
    BY DEF fread
  <1>2. Ready(fd, r.w) /\ n \in Nat \ {0}
    BY Flushing, ScopeParts
  <1>3. ReadStep(r.w, Taken(r.w, fd, n), {}, fd, n)
    BY <1>2, StreamIsOpen, TakenKeeps DEF Ready
  <1>4. Quiet(Taken(r.w, fd, n).w)
    BY <1>2, <1>3, ReadyThen DEF ReadStep
  <1> QED  BY <1>1, <1>4, Answered

\* The byte pushed back is taken or given.
PushSlot(t, c, e) == [t EXCEPT !.ung = c, !.eof = e]

LEMMA PushKeeps ==
    ASSUME NEW w, Fit(w, {}), NEW fd \in Fd, w.open[fd] # None, Index(w, fd) # 0,
           NEW c \in Byte \union {None}, NEW e \in BOOLEAN, InSlot(w, fd).wlen = 0 \/ c = None
    PROVE  /\ Fit(WithSlot(w, Index(w, fd), PushSlot(InSlot(w, fd), c, e)), {})
           /\ OnlyFor(w, WithSlot(w, Index(w, fd), PushSlot(InSlot(w, fd), c, e)), fd)
  <1>i. PICK i : i = Index(w, fd)
    OBVIOUS
  <1>t. PICK t : t = InSlot(w, fd)
    OBVIOUS
  <1>u. PICK u : u = PushSlot(t, c, e)
    OBVIOUS
  <1>1. i \in DOMAIN w.slots /\ w.slots[i] = t /\ t.fd = fd
    BY <1>i, <1>t, IndexFacts
  <1>2. t \in Slot /\ SlotFit(t)
    BY <1>1, SlotIsSlot
  <1>3. u \in Slot /\ u.fd = fd
    BY <1>1, <1>2, <1>u DEF PushSlot, Slot
  <1>4. /\ u.bpos = t.bpos /\ u.blen = t.blen /\ u.buf = t.buf /\ u.wlen = t.wlen /\ u.ung = c
    BY <1>2, <1>u DEF PushSlot, Slot
  <1>5. t.wlen = 0 \/ c = None
    BY <1>t
  <1>6. SlotFit(u)
    BY <1>2, <1>4, <1>5 DEF SlotFit
  <1>7. Fit(WithSlot(w, i, u), {}) /\ OnlyFor(w, WithSlot(w, i, u), fd)
    BY <1>1, <1>3, <1>6, SlotOnly
  <1> QED  BY <1>7, <1>i, <1>t, <1>u

LEMMA GetQuiet ==
    ASSUME StdioInv, NEW fd \in Streams, fgetc(fd)
    PROVE  Quietly
  <1>v. PICK v : v = u_st_slot(Lib, fd)
    OBVIOUS
  <1>i. PICK i : i = Index(v, fd)
    OBVIOUS
  <1>0. Fit(v, {}) /\ OnlyFor(Lib, v, fd) /\ v.open[fd] # None
    BY <1>v, Taking
  <1>1. CASE i # 0 /\ InSlot(v, fd).ung # None
    <2>1. Call([v EXCEPT !.slots[i].ung = None], <<"read", <<v.slots[i].ung>>>>)
      BY <1>1, <1>i, <1>v DEF fgetc
    <2>2. i \in DOMAIN v.slots /\ v.slots[i] = InSlot(v, fd) /\ v.slots[i] \in Slot
      BY <1>0, <1>1, <1>i, IndexFacts, SlotIsSlot
    <2>e. PICK e \in BOOLEAN : e = v.slots[i].eof
      BY <2>2, SlotParts
    <2>t. PICK t : t = v.slots[i]
      OBVIOUS
    <2>3. [t EXCEPT !.ung = None] = PushSlot(t, None, e)
      BY <2>2, <2>e, <2>t DEF PushSlot, Slot
    <2>w. PICK w : w = WithSlot(v, i, PushSlot(t, None, e))
      OBVIOUS
    <2>4. w = [v EXCEPT !.slots[i].ung = None]
      BY <2>3, <2>t, <2>w DEF WithSlot
    <2>5. Fit(w, {}) /\ OnlyFor(v, w, fd)
      BY <1>0, <1>1, <1>i, <2>2, <2>t, <2>w, StreamIsOpen, PushKeeps
    <2>6. Quiet(w)
      BY <1>0, <2>5, OnlyForTransitive, OnlyForQuiet
    <2>7. Call(w, <<"read", <<v.slots[i].ung>>>>)
      BY <2>1, <2>4
    <2> QED  BY <2>6, <2>7, Answered
  <1>2. CASE ~(i # 0 /\ InSlot(v, fd).ung # None)
    <2>1. PICK r \in u_st_wflush(u_st_slot(Lib, fd), Index(u_st_slot(Lib, fd), fd)) :
              Call(IF i = 0 \/ Taken(r.w, fd, 1).data = <<>> THEN Taken(r.w, fd, 1).w
                   ELSE [Taken(r.w, fd, 1).w EXCEPT !.slots[i].eof = FALSE, !.slots[i].err = FALSE],
                   <<"read", Taken(r.w, fd, 1).data>>)
      BY <1>2, <1>i, <1>v DEF fgetc
    <2>2. Ready(fd, r.w)
      BY Flushing
    <2>q. PICK q : q = Taken(r.w, fd, 1)
      OBVIOUS
    <2>3. ReadStep(r.w, q, {}, fd, 1)
      BY <2>2, <2>q, StreamIsOpen, TakenKeeps DEF Ready
    <2>4. Fit(q.w, {}) /\ OnlyFor(r.w, q.w, fd) /\ SamePlaces(r.w, q.w) /\ q.w.open[fd] # None
      BY <2>3 DEF ReadStep, OnlyFor
    <2>5. CASE i = 0 \/ q.data = <<>>
      <3>1. Quiet(q.w)
        BY <2>2, <2>4, ReadyThen
      <3>2. Call(q.w, <<"read", q.data>>)
        BY <2>1, <2>5, <2>q
      <3> QED  BY <3>1, <3>2, Answered
    <2>6. CASE i # 0 /\ q.data # <<>>
      <3>1. Call([q.w EXCEPT !.slots[i].eof = FALSE, !.slots[i].err = FALSE], <<"read", q.data>>)
        BY <2>1, <2>6, <2>q
      <3>2. Index(q.w, fd) = i
        <4>1. FlushStep(v, r, {}, fd)
          BY <1>0, <1>v, StreamIsOpen, WflushKeeps
        <4> QED  BY <1>i, <2>4, <4>1 DEF FlushStep, SamePlaces
      <3>t. PICK t : t = q.w.slots[i]
        OBVIOUS
      <3>3. i \in DOMAIN q.w.slots /\ t \in Slot /\ SlotFit(t) /\ t.fd = fd
        BY <2>4, <2>6, <3>2, <3>t, IndexFacts, SlotIsSlot
      <3>w. PICK w : w = WithSlot(q.w, i, Flags(t, FALSE, FALSE))
        OBVIOUS
      <3>4. w = [q.w EXCEPT !.slots[i].eof = FALSE, !.slots[i].err = FALSE]
        <4>1. q.w \in Library
          BY <2>4 DEF Fit
        <4> QED  BY <3>3, <3>t, <3>w, <4>1 DEF WithSlot, Flags, Library
      <3>5. Fit(w, {}) /\ OnlyFor(q.w, w, fd)
        <4>1. Flags(t, FALSE, FALSE) \in Slot /\ SlotFit(Flags(t, FALSE, FALSE)) /\ Flags(t, FALSE, FALSE).fd = fd
          BY <3>3, FlagsSlot
        <4> QED  BY <2>4, <3>3, <3>t, <3>w, <4>1, StreamIsOpen, SlotOnly
      <3>6. Quiet(w)
        BY <2>2, <2>4, <3>5, OnlyForTransitive, ReadyThen
      <3>7. Call(w, <<"read", q.data>>)
        BY <3>1, <3>4
      <3> QED  BY <3>6, <3>7, Answered
    <2> QED  BY <2>5, <2>6
  <1> QED  BY <1>1, <1>2

LEMMA UngetQuiet ==
    ASSUME StdioInv, NEW fd \in Streams, NEW c \in scope.push, ungetc(fd, c)
    PROVE  Quietly
  <1>v. PICK v : v = u_st_slot(Lib, fd)
    OBVIOUS
  <1>i. PICK i : i = Index(v, fd)
    OBVIOUS
  <1>0. Fit(v, {}) /\ OnlyFor(Lib, v, fd) /\ v.open[fd] # None
    BY <1>v, Taking
  <1>1. /\ InSlot(v, fd).wlen = 0 /\ c \in Byte
        /\ IF i = 0 THEN Call(v, <<"ask">>)
           ELSE Call([v EXCEPT !.slots[i].ung = c, !.slots[i].eof = FALSE], <<"unget", c>>)
    BY <1>i, <1>v, ScopeParts DEF ungetc
  <1>2. CASE i = 0
    <2>1. Quiet(v)
      BY <1>0, OnlyForQuiet
    <2> QED  BY <1>1, <1>2, <2>1, Answered
  <1>3. CASE i # 0
    <2>t. PICK t : t = v.slots[i]
      OBVIOUS
    <2>1. i \in DOMAIN v.slots /\ t = InSlot(v, fd) /\ t \in Slot
      BY <1>0, <1>3, <1>i, <2>t, IndexFacts, SlotIsSlot
    <2>w. PICK w : w = WithSlot(v, i, PushSlot(t, c, FALSE))
      OBVIOUS
    <2>2. w = [v EXCEPT !.slots[i].ung = c, !.slots[i].eof = FALSE]
      <3>1. v \in Library
        BY <1>0 DEF Fit
      <3> QED  BY <2>1, <2>t, <2>w, <3>1 DEF WithSlot, PushSlot, Library
    <2>3. Fit(w, {}) /\ OnlyFor(v, w, fd)
      BY <1>0, <1>1, <1>3, <1>i, <2>1, <2>w, StreamIsOpen, PushKeeps
    <2>4. Quiet(w)
      BY <1>0, <2>3, OnlyForTransitive, OnlyForQuiet
    <2>5. Call(w, <<"unget", c>>)
      BY <1>1, <1>3, <2>2
    <2> QED  BY <2>4, <2>5, Answered
  <1> QED  BY <1>2, <1>3

LEMMA AskQuiet ==
    ASSUME StdioInv, NEW fd \in Streams, feof(fd) \/ clearerr(fd)
    PROVE  Quietly
  <1>1. CASE feof(fd)
    <2>1. Quiet(u_st_slot(Lib, fd))
      BY Taking, OnlyForQuiet
    <2> QED  BY <1>1, <2>1, Answered DEF feof
  <1>2. CASE clearerr(fd)
    <2>1. ClearStep(Lib, Cleared(Lib, fd), {}, fd)
      BY ScopeParts, StreamIsOpen, ClearedKeeps DEF StdioInv
    <2>2. Quiet(Cleared(Lib, fd))
      BY <2>1, OnlyForQuiet DEF ClearStep
    <2> QED  BY <1>2, <2>2, Answered DEF clearerr
  <1> QED  BY <1>1, <1>2

\* The guard of fseek is the condition of the moves.
LEMMA MovedTo ==
    ASSUME NEW w, Fit(w, {}), NEW fd \in Fd, w.open[fd] # None,
           NEW k \in {"set", "cur", "end"} \X Int
    PROVE  /\ Moved(w, fd, k).to = Leads(w, fd, k)
           /\ Moved(w, fd, k).w.disk = w.disk /\ Moved(w, fd, k).w.open[fd].file = w.open[fd].file
  <1>i. PICK i : i = Index(w, fd)
    OBVIOUS
  <1>n. PICK n : n = Leads(w, fd, k)
    OBVIOUS
  <1>v. PICK v : v = IF i = 0 THEN w ELSE [w EXCEPT !.slots[i] = [Dropped(@) EXCEPT !.eof = FALSE]]
    OBVIOUS
  <1>z. PICK z : z = IF n < 0 THEN v ELSE [v EXCEPT !.open[fd].off = n]
    OBVIOUS
  <1>1. Moved(w, fd, k) = [to |-> n, w |-> z]
    BY <1>i, <1>n, <1>v, <1>z DEF Moved, Leads, Stands
  <1>2. Moved(w, fd, k).to = n /\ Moved(w, fd, k).w = z
    BY <1>1
  <1>3. w \in Library /\ w.open[fd] \in OpenFile
    BY AtFits DEF Fit
  <1>4. v.disk = w.disk /\ v.open = w.open
    BY <1>3, <1>v DEF Library
  <1>o. PICK o : o = w.open[fd]
    OBVIOUS
  <1>5. [o EXCEPT !.off = n].file = o.file
    BY <1>3, <1>o DEF OpenFile, Modes
  <1>6. z.disk = w.disk /\ z.open = IF n < 0 THEN w.open ELSE [w.open EXCEPT ![fd] = [o EXCEPT !.off = n]]
    <2>1. DOMAIN v = {"disk", "open", "slots", "lost"}
      BY <1>3, <1>v DEF Library
    <2> QED  BY <1>4, <1>o, <1>z, <2>1
  <1>7. z.open[fd].file = w.open[fd].file
    BY <1>3, <1>5, <1>6, <1>o, LibraryParts
  <1> QED  BY <1>2, <1>6, <1>7, <1>n

LEMMA SeekQuiet ==
    ASSUME StdioInv, NEW fd \in Streams, NEW k \in scope.seeks, fseek(fd, k)
    PROVE  Quietly
  <1>1. PICK r \in u_st_wflush(u_st_slot(Lib, fd), Index(u_st_slot(Lib, fd), fd)) :
            /\ Moved(r.w, fd, k).to <= Len(Moved(r.w, fd, k).w.disk[Moved(r.w, fd, k).w.open[fd].file])
            /\ Call(Moved(r.w, fd, k).w, <<"seek", IF Moved(r.w, fd, k).to < 0 THEN -1 ELSE 0>>)
    BY DEF fseek
  <1>2. Ready(fd, r.w) /\ k \in {"set", "cur", "end"} \X Int
    BY Flushing, ScopeParts
  <1>3. Leads(r.w, fd, k) <= Len(r.w.disk[r.w.open[fd].file])
    <2>m. PICK m : m = Moved(r.w, fd, k)
      OBVIOUS
    <2>1. m.to = Leads(r.w, fd, k) /\ m.w.disk = r.w.disk /\ m.w.open[fd].file = r.w.open[fd].file
      BY <1>2, <2>m, StreamIsOpen, MovedTo DEF Ready
    <2>2. m.to <= Len(m.w.disk[m.w.open[fd].file])
      BY <1>1, <2>m
    <2> QED  BY <2>1, <2>2
  <1>4. MoveStep(r.w, Moved(r.w, fd, k).w, {}, fd, Leads(r.w, fd, k))
    BY <1>2, <1>3, StreamIsOpen, MovedKeeps DEF Ready
  <1>5. Quiet(Moved(r.w, fd, k).w)
    BY <1>2, <1>4, ReadyThen DEF MoveStep
  <1> QED  BY <1>1, <1>5, Answered

LEMMA RewindQuiet ==
    ASSUME StdioInv, NEW fd \in Streams, rewind(fd)
    PROVE  Quietly
  <1>k. PICK k : k = <<"set", 0>>
    OBVIOUS
  <1>1. PICK r \in u_st_wflush(u_st_slot(Lib, fd), Index(u_st_slot(Lib, fd), fd)) :
            Call(Cleared(Moved(r.w, fd, k).w, fd), <<"seek", 0>>)
    BY <1>k DEF rewind
  <1>2. Ready(fd, r.w) /\ k \in {"set", "cur", "end"} \X Int
    BY <1>k, Flushing
  <1>3. Leads(r.w, fd, k) <= Len(r.w.disk[r.w.open[fd].file])
    <2>1. Leads(r.w, fd, k) = 0
      BY <1>k DEF Leads
    <2>c. PICK c : c = r.w.disk[r.w.open[fd].file]
      OBVIOUS
    <2>2. c \in Seq(Byte)
      BY <1>2, <2>c, StreamIsOpen, AtFits DEF Ready
    <2>3. 0 <= Len(c)
      BY <2>2
    <2> QED  BY <2>1, <2>3, <2>c
  <1>m. PICK m : m = Moved(r.w, fd, k).w
    OBVIOUS
  <1>4. MoveStep(r.w, m, {}, fd, Leads(r.w, fd, k))
    BY <1>2, <1>3, <1>m, StreamIsOpen, MovedKeeps DEF Ready
  <1>5. Fit(m, {}) /\ OnlyFor(r.w, m, fd) /\ m.open[fd] # None
    BY <1>4 DEF MoveStep, OnlyFor
  <1>6. ClearStep(m, Cleared(m, fd), {}, fd)
    BY <1>5, ScopeParts, StreamIsOpen, ClearedKeeps
  <1>7. Quiet(Cleared(m, fd))
    BY <1>2, <1>5, <1>6, OnlyForTransitive, ReadyThen DEF ClearStep
  <1> QED  BY <1>1, <1>7, <1>m, Answered

LEMMA FlushQuiet ==
    ASSUME StdioInv, NEW fd \in Streams, ftell(fd) \/ fflush(fd)
    PROVE  Quietly
  <1>1. PICK r \in u_st_wflush(u_st_slot(Lib, fd), Index(u_st_slot(Lib, fd), fd)) :
            \/ Call(r.w, <<"ask">>)
            \/ Call(r.w, <<"tell", r.w.open[fd].off - Unread(InSlot(r.w, fd)) - Pushed(InSlot(r.w, fd))>>)
    BY DEF ftell, fflush
  <1>2. Quiet(r.w)
    BY Flushing, OnlyForQuiet DEF Ready
  <1> QED  BY <1>1, <1>2, Answered

LEMMA FlushallQuiet ==
    ASSUME StdioInv, fflush_all
    PROVE  Quietly
  <1>1. PICK w \in u_st_flushall(Lib) : Call(w, <<"ask">>)
    BY DEF fflush_all
  <1>2. Fit(w, {}) /\ Steady(Lib, w)
    BY FlushallKeeps DEF StdioInv
  <1>3. Quiet(w)
    BY <1>2, SteadyApart DEF Quiet, StdioInv
  <1> QED  BY <1>1, <1>3, Answered

-----------------------------------------------------------------------------
(* The calls that open and close.                                            *)

\* With no other stream on the file, what waits for it is in one buffer.
LEMMA LogicalIs ==
    ASSUME NEW w, Fit(w, {}), Apart(w), NEW fd \in Fd, w.open[fd] # None
    PROVE  Logical(w, w.open[fd].file) =
               IF InSlot(w, fd).wlen = 0 THEN w.disk[w.open[fd].file]
               ELSE Overlaid(w.disk[w.open[fd].file], At(w, fd),
                             SubSeq(InSlot(w, fd).buf, 1, InSlot(w, fd).wlen))
  <1>f. PICK f : f = w.open[fd].file
    OBVIOUS
  <1> DEFINE waiting == {x \in Fd : w.open[x] # None /\ w.open[x].file = f /\ InSlot(w, x).wlen > 0}
  <1>1. InSlot(w, fd).wlen \in Nat
    <2>1. CASE Index(w, fd) = 0
      BY <2>1, IndexFacts, BlankSlot, SlotParts
    <2>2. CASE Index(w, fd) # 0
      BY <2>2, IndexFacts, SlotIsSlot, SlotParts
    <2> QED  BY <2>1, <2>2
  <1>2. waiting \subseteq {fd}
    BY <1>f DEF Apart
  <1>3. fd \in waiting <=> InSlot(w, fd).wlen > 0
    BY <1>f
  <1>4. Logical(w, f) =
            IF waiting = {} THEN w.disk[f]
            ELSE LET x == CHOOSE x \in waiting : TRUE
                     o == w.open[x]
                     t == InSlot(w, x)
                 IN Overlaid(w.disk[f], IF o.how.append THEN Len(w.disk[f]) ELSE o.off, SubSeq(t.buf, 1, t.wlen))
    BY DEF Logical
  <1> HIDE DEF waiting
  <1>5. CASE InSlot(w, fd).wlen = 0
    <2>1. waiting = {}
      BY <1>2, <1>3, <1>5
    <2> QED  BY <1>4, <1>5, <1>f, <2>1
  <1>6. CASE InSlot(w, fd).wlen # 0
    <2>1. waiting = {fd}
      BY <1>1, <1>2, <1>3, <1>6
    <2>2. (CHOOSE x \in waiting : TRUE) = fd
      BY <2>1
    <2>3. Logical(w, f) = Overlaid(w.disk[f], IF w.open[fd].how.append THEN Len(w.disk[f]) ELSE w.open[fd].off,
                                   SubSeq(InSlot(w, fd).buf, 1, InSlot(w, fd).wlen))
      BY <1>4, <2>1, <2>2
    <2>4. At(w, fd) = IF w.open[fd].how.append THEN Len(w.disk[f]) ELSE w.open[fd].off
      BY <1>f DEF At
    <2> QED  BY <1>6, <1>f, <2>3, <2>4
  <1> QED  BY <1>5, <1>6

\* fclose leaves nothing of the stream, and the others as they are.
CloseStep(fd, w) ==
    /\ Fit(w, {}) /\ Apart(w) /\ w.open[fd] = None
    /\ SameOpen(Lib, w, Fd \ {fd}) /\ SameSlots(Lib, w, Fd \ {fd})
    /\ SameFiles(Lib, w, File \ {open[fd].file})
    /\ answer' = <<"close", 0>> => w.disk[open[fd].file] = Logical(Lib, open[fd].file)

LEMMA CloseKeeps ==
    ASSUME StdioInv, NEW fd \in Streams, fclose(fd)
    PROVE  \E w : CloseStep(fd, w) /\ Become(w) /\ scope' = scope /\ answer' \in {<<"close", 0>>, <<"close", -1>>}
  <1>v. PICK v : v = u_st_slot(Lib, fd)
    OBVIOUS
  <1>i. PICK i : i = Index(v, fd)
    OBVIOUS
  <1>0. /\ Fit(v, {}) /\ OnlyFor(Lib, v, fd) /\ v.open[fd] # None /\ v.disk = Lib.disk /\ v.open = Lib.open
        /\ InSlot(v, fd) = InSlot(Lib, fd)
    BY <1>v, ScopeParts, SlotTakenOnly, StreamIsOpen DEF StdioInv
  <1>1. PICK r \in u_st_wflush(v, i) :
            LET w == IF i = 0 THEN r.w ELSE Freed(r.w, i) IN
            Call([w EXCEPT !.open[fd] = None, !.lost = @ \ {fd}], <<"close", IF r.ok THEN 0 ELSE -1>>)
    BY <1>i, <1>v DEF fclose
  <1>2. FlushStep(v, r, {}, fd)
    BY <1>0, <1>1, <1>i, StreamIsOpen, WflushKeeps
  <1>z. PICK z : z = IF i = 0 THEN r.w ELSE Freed(r.w, i)
    OBVIOUS
  <1>3. /\ Fit(z, {}) /\ z.disk = r.w.disk /\ z.open = r.w.open /\ z.lost = r.w.lost
        /\ Index(z, fd) = 0 /\ SameSlots(r.w, z, Fd \ {fd})
    <2>1. Fit(r.w, {}) /\ Index(r.w, fd) = i
      BY <1>2, <1>i DEF FlushStep, SamePlaces
    <2>2. CASE i = 0
      BY <1>z, <2>1, <2>2 DEF SameSlots
    <2>3. CASE i # 0
      <3>1. i \in DOMAIN r.w.slots /\ r.w.slots[i].fd = fd
        BY <2>1, <2>3, IndexFacts
      <3>2. FreeStep(r.w, Freed(r.w, i), {}, r.w.slots[i].fd)
        BY <2>1, <3>1, ScopeParts, FreedKeeps
      <3> QED  BY <1>z, <2>3, <3>1, <3>2 DEF FreeStep
    <2> QED  BY <2>2, <2>3
  <1>s. PICK s : s = z.lost \ {fd}
    OBVIOUS
  <1>w. PICK w : w = Reopened(z, fd, None, s)
    OBVIOUS
  <1>4. Become(w) /\ scope' = scope /\ answer' = <<"close", IF r.ok THEN 0 ELSE -1>>
    <2>1. w = [z EXCEPT !.open[fd] = None, !.lost = @ \ {fd}]
      BY <1>s, <1>w DEF Reopened
    <2> QED  BY <1>1, <1>z, <2>1 DEF Call, Keep
  <1>5. Fit(w, {}) /\ w.disk = z.disk /\ w.open = [z.open EXCEPT ![fd] = None] /\ SameTable(z, w)
    <2>1. s \in SUBSET Fd
      BY <1>3, <1>s, LibraryParts DEF Fit
    <2> QED  BY <1>3, <1>w, <2>1, StreamIsOpen, ClosedKeeps
  <1>6. w.open[fd] = None /\ \A x \in Fd \ {fd} : w.open[x] = z.open[x]
    BY <1>3, <1>5, StreamIsOpen, LibraryParts DEF Fit
  <1>7. OnlyFor(Lib, r.w, fd)
    BY <1>0, <1>2, OnlyForTransitive DEF FlushStep
  <1>8. SameOpen(Lib, w, Fd \ {fd}) /\ SameSlots(Lib, w, Fd \ {fd}) /\ SameFiles(Lib, w, File \ {open[fd].file})
    <2>1. Lib.open = open
      BY DEF Lib
    <2> QED  BY <1>3, <1>5, <1>6, <1>7, <2>1 DEF OnlyFor, SameFiles, SameOpen, SameSlots, SameTable
  <1>9. Apart(w)
    BY <1>6, <1>8 DEF Apart, SameOpen, StdioInv
  <1>10. ASSUME answer' = <<"close", 0>> PROVE w.disk[open[fd].file] = Logical(Lib, open[fd].file)
    <2>1. r.ok
      BY <1>4, <1>10, <1>2 DEF FlushStep
    <2>f. PICK f : f = open[fd].file
      OBVIOUS
    <2>2. v.open[fd].file = f /\ Lib.open[fd].file = f
      BY <1>0, <2>f DEF Lib
    <2>3. At(v, fd) = At(Lib, fd)
      BY <1>0 DEF At
    <2>4. r.w.disk[f] = IF InSlot(Lib, fd).wlen = 0 THEN Lib.disk[f]
                        ELSE Overlaid(Lib.disk[f], At(Lib, fd), SubSeq(InSlot(Lib, fd).buf, 1, InSlot(Lib, fd).wlen))
      BY <1>0, <1>2, <2>1, <2>2, <2>3 DEF FlushStep
    <2>5. Logical(Lib, Lib.open[fd].file) =
              IF InSlot(Lib, fd).wlen = 0 THEN Lib.disk[Lib.open[fd].file]
              ELSE Overlaid(Lib.disk[Lib.open[fd].file], At(Lib, fd),
                            SubSeq(InSlot(Lib, fd).buf, 1, InSlot(Lib, fd).wlen))
      BY StreamIsOpen, LogicalIs DEF StdioInv
    <2>6. Logical(Lib, f) = r.w.disk[f]
      BY <2>2, <2>4, <2>5
    <2> QED  BY <1>3, <1>5, <2>6, <2>f
  <1>11. CloseStep(fd, w)
    BY <1>5, <1>6, <1>8, <1>9, <1>10 DEF CloseStep
  <1> QED  BY <1>4, <1>11

\* fopen gives a descriptor that was free, and leaves every stream as it is.
BirthStep(fd, w) ==
    /\ Fit(w, {}) /\ Apart(w) /\ Lib.open[fd] = None
    /\ SameOpen(Lib, w, Fd \ {fd}) /\ SameSlots(Lib, w, Fd \ {fd})

LEMMA OpenKeeps ==
    ASSUME StdioInv, NEW f \in scope.files, NEW mode, fopen(f, mode)
    PROVE  \E fd \in Fd : \E w : BirthStep(fd, w) /\ Become(w) /\ scope' = scope /\ answer' = <<"open", fd>>
  <1>o. PICK o : o = Opened(Lib, f, mode)
    OBVIOUS
  <1>1. Call(o.w, <<"open", o.fd>>) /\ SomeFd /\ Unused(f)
    BY <1>o DEF fopen
  <1>2. FreeFds(Lib) # {} /\ \A x \in Fd : Lib.open[x] # None => Lib.open[x].file # f
    BY <1>1 DEF FreeFds, Lib, SomeFd, Streams, Unused
  <1>3. OpenStep(Lib, o, {}, f, mode)
    <2>1. f \in File /\ Fit(Lib, {}) /\ scope.NST \in Nat
      BY ScopeParts DEF StdioInv
    <2> QED  BY <1>2, <1>o, <2>1, OpenedKeeps
  <1>4. o.w.open[o.fd].file = f
    BY <1>3, OpenFileParts DEF OpenStep
  <1>5. Apart(o.w)
    BY <1>2, <1>3, <1>4 DEF Apart, OpenStep, SameOpen, StdioInv
  <1>6. o.fd \in Fd /\ BirthStep(o.fd, o.w)
    BY <1>3, <1>5 DEF BirthStep, OpenStep
  <1>7. Become(o.w) /\ scope' = scope /\ answer' = <<"open", o.fd>>
    BY <1>1 DEF Call, Keep
  <1> QED  BY <1>6, <1>7

LEMMA FitMore ==
    ASSUME NEW w, NEW X, NEW Y, Fit(w, X), X \subseteq Y
    PROVE  Fit(w, Y)
  BY DEF Fit

\* What freopen does once the new file is open at a descriptor of its own:
\* it is made the stream's, its slot starts anew and the other slot is freed.
Anew(w, d, fd) ==
    LET u == u_st_slot(u_st_slot([w EXCEPT !.open[fd] = w.open[d], !.open[d] = None, !.lost = @ \ {fd}], d), fd)
        k == Index(u, d)
        i == Index(u, fd)
        new == IF i = 0 THEN u
               ELSE [u EXCEPT !.slots[i] = [Blank(fd) EXCEPT !.ro = IF k = 0 THEN u.slots[i].ro ELSE u.slots[k].ro]]
    IN IF k = 0 THEN new ELSE Freed(new, k)

AnewStep(w, z, d, fd) ==
    /\ Fit(z, {}) /\ z.disk = w.disk
    /\ z.open[fd] = w.open[d] /\ z.open[d] = None /\ SameOpen(w, z, Fd \ {d, fd})
    /\ SameSlots(w, z, Fd \ {d, fd})
    /\ InSlot(z, fd) \in {[Blank(fd) EXCEPT !.ro = e] : e \in BOOLEAN}

LEMMA AnewKeeps ==
    ASSUME NEW fd \in Fd, NEW w, Fit(w, {fd}), NEW d \in Fd, d # fd, w.open[d] # None, scope.NST \in Nat
    PROVE  AnewStep(w, Anew(w, d, fd), d, fd)
  <1>q. PICK q : q = w.open[d]
    OBVIOUS
  <1>1. w \in Library /\ q \in OpenFile /\ q # None /\ q.off <= Len(w.disk[q.file])
    BY <1>q, LibraryParts DEF Fit
  <1>a. PICK a : a = WithOpen(w, fd, q)
    OBVIOUS
  <1>2. PutStep(w, a, {}, fd, q)
    <2>1. PutStep(w, WithOpen(w, fd, q), IF q = None THEN {fd} \union {fd} ELSE {fd} \ {fd}, fd, q)
      BY <1>1, OpenPut
    <2>2. (IF q = None THEN {fd} \union {fd} ELSE {fd} \ {fd}) = {}
      BY <1>1
    <2> QED  BY <1>a, <2>1, <2>2
  <1>b. PICK b : b = WithOpen(a, d, None)
    OBVIOUS
  <1>3. PutStep(a, b, {d}, d, None)
    <2>1. Fit(a, {})
      BY <1>2 DEF PutStep
    <2>2. PutStep(a, WithOpen(a, d, None), IF None = None THEN {} \union {d} ELSE {} \ {d}, d, None)
      BY <2>1, OpenPut
    <2>3. (IF None = None THEN {} \union {d} ELSE {} \ {d}) = {d}
      OBVIOUS
    <2> QED  BY <1>b, <2>2, <2>3
  <1>s. PICK s : s = w.lost \ {fd}
    OBVIOUS
  <1>y. PICK y : y = WithLost(b, s)
    OBVIOUS
  <1>4. LostStep(b, y, {d})
    <2>1. s \in SUBSET Fd
      BY <1>1, <1>s, LibraryParts
    <2> QED  BY <1>3, <1>y, <2>1, LostChanged DEF PutStep
  <1>5. y = [w EXCEPT !.open[fd] = q, !.open[d] = None, !.lost = @ \ {fd}]
    BY <1>1, <1>a, <1>b, <1>s, <1>y DEF WithOpen, WithLost, Library
  <1>6. /\ Fit(y, {d}) /\ y.disk = w.disk /\ y.open[fd] = q /\ y.open[d] = None
        /\ SameOpen(w, y, Fd \ {d, fd}) /\ SameSlots(w, y, Fd) /\ SamePlaces(w, y)
    BY <1>2, <1>3, <1>4 DEF LostStep, PutStep, SameOpen, SamePlaces, SameSlots, SameTable
  <1>v. PICK v : v = u_st_slot(y, d)
    OBVIOUS
  <1>7. /\ Fit(v, {d}) /\ v.disk = y.disk /\ v.open = y.open /\ SameSlots(y, v, Fd)
        /\ (Index(y, d) # 0 => v = y) /\ \A x : x # d => Index(v, x) = Index(y, x)
    BY <1>6, <1>v, SlotTaken
  <1>u. PICK u : u = u_st_slot(v, fd)
    OBVIOUS
  <1>8. /\ Fit(u, {d}) /\ u.disk = v.disk /\ u.open = v.open /\ SameSlots(v, u, Fd)
        /\ (Index(v, fd) # 0 => u = v) /\ \A x : x # fd => Index(u, x) = Index(v, x)
    BY <1>1, <1>6, <1>7, <1>u, SlotTaken
  <1>9. /\ u.disk = w.disk /\ u.open[fd] = q /\ u.open[d] = None
        /\ SameOpen(w, u, Fd \ {d, fd}) /\ SameSlots(w, u, Fd)
    BY <1>6, <1>7, <1>8 DEF SameOpen, SameSlots
  <1>k. PICK k : k = Index(u, d)
    OBVIOUS
  <1>i. PICK i : i = Index(u, fd)
    OBVIOUS
  <1>ro. PICK ro : ro = IF k = 0 THEN u.slots[i].ro ELSE u.slots[k].ro
    OBVIOUS
  <1>t. PICK t : t = [Blank(fd) EXCEPT !.ro = ro]
    OBVIOUS
  <1>n. PICK n : n = IF i = 0 THEN u ELSE WithSlot(u, i, t)
    OBVIOUS
  <1>z. PICK z : z = IF k = 0 THEN n ELSE Freed(n, k)
    OBVIOUS
  <1>10. Anew(w, d, fd) = z
    <2> DEFINE uu == u_st_slot(u_st_slot([w EXCEPT !.open[fd] = w.open[d], !.open[d] = None, !.lost = @ \ {fd}], d), fd)
               kk == Index(uu, d)
               ii == Index(uu, fd)
               nn == IF ii = 0 THEN uu
                     ELSE [uu EXCEPT !.slots[ii] = [Blank(fd) EXCEPT !.ro = IF kk = 0 THEN uu.slots[ii].ro ELSE uu.slots[kk].ro]]
    <2>1. Anew(w, d, fd) = IF kk = 0 THEN nn ELSE Freed(nn, kk)
      BY DEF Anew
    <2>2. uu = u
      BY <1>5, <1>q, <1>u, <1>v
    <2> HIDE DEF uu
    <2>3. kk = k /\ ii = i
      BY <1>k, <1>i, <2>2
    <2> HIDE DEF kk, ii
    <2>4. nn = n
      BY <1>n, <1>ro, <1>t, <2>2, <2>3 DEF WithSlot
    <2> HIDE DEF nn
    <2> QED  BY <1>z, <2>1, <2>3, <2>4
  <1>11. /\ Fit(n, {d}) /\ n.disk = u.disk /\ n.open = u.open /\ SamePlaces(u, n)
         /\ SameSlots(u, n, Fd \ {fd}) /\ InSlot(n, fd) \in {[Blank(fd) EXCEPT !.ro = e] : e \in BOOLEAN}
    <2>1. CASE i = 0
      <3>0. Index(u, fd) = 0
        BY <1>i, <2>1
      <3>1. n = u /\ InSlot(u, fd) = Blank(fd)
        BY <1>n, <2>1, <3>0 DEF InSlot
      <3>b. PICK new : new = Blank(fd)
        OBVIOUS
      <3>r. new \in Slot /\ new.ro = FALSE
        BY <3>b, BlankSlot DEF Blank
      <3>2. new = [new EXCEPT !.ro = FALSE]
        BY <3>r DEF Slot
      <3> QED  BY <1>8, <3>1, <3>2, <3>b DEF SamePlaces, SameSlots
    <2>2. CASE i # 0
      <3>1. i \in DOMAIN u.slots /\ u.slots[i].fd = fd /\ u.slots[i] \in Slot
        BY <1>8, <1>i, <2>2, IndexFacts, SlotIsSlot
      <3>2. ro \in BOOLEAN
        <4>1. CASE k = 0
          BY <1>ro, <3>1, <4>1, SlotParts
        <4>2. CASE k # 0
          <5>1. k \in DOMAIN u.slots /\ u.slots[k] \in Slot
            BY <1>8, <1>k, <4>2, IndexFacts, SlotIsSlot
          <5> QED  BY <1>ro, <4>2, <5>1, SlotParts
        <4> QED  BY <4>1, <4>2
      <3>3. t \in Slot /\ SlotFit(t) /\ t.fd = fd
        <4>1. Blank(fd) \in Slot /\ SlotFit(Blank(fd)) /\ Blank(fd).fd = fd
          BY BlankSlot
        <4> QED  BY <1>t, <3>2, <4>1 DEF Slot, SlotFit
      <3>4. u.open[fd] # None
        BY <1>1, <1>9
      <3>5. /\ Fit(n, {d}) /\ OnlyFor(u, n, fd) /\ SamePlaces(u, n)
            /\ n.disk = u.disk /\ n.open = u.open /\ InSlot(n, fd) = t
        BY <1>8, <1>n, <2>2, <3>1, <3>3, <3>4, SlotOnly
      <3> QED  BY <1>t, <3>2, <3>5 DEF OnlyFor
    <2> QED  BY <2>1, <2>2
  <1>12. Index(n, d) = k
    BY <1>11, <1>k DEF SamePlaces
  <1>13. /\ Fit(z, {d}) /\ z.disk = n.disk /\ z.open = n.open /\ Index(z, d) = 0 /\ SameSlots(n, z, Fd \ {d})
    <2>1. CASE k = 0
      BY <1>11, <1>12, <1>z, <2>1 DEF SameSlots
    <2>2. CASE k # 0
      <3>1. k \in DOMAIN n.slots /\ n.slots[k].fd = d
        BY <1>11, <1>12, <2>2, IndexFacts
      <3>2. FreeStep(n, Freed(n, k), {d}, n.slots[k].fd)
        BY <1>11, <3>1, FreedKeeps
      <3> QED  BY <1>z, <2>2, <3>1, <3>2 DEF FreeStep
    <2> QED  BY <2>1, <2>2
  <1>14. z.open[fd] = q /\ z.open[d] = None /\ SameOpen(w, z, Fd \ {d, fd}) /\ z.disk = w.disk
    BY <1>9, <1>11, <1>13 DEF SameOpen
  <1>15. Fit(z, {})
    BY <1>13, <1>14, NoneLeft
  <1>16. SameSlots(w, z, Fd \ {d, fd}) /\ InSlot(z, fd) = InSlot(n, fd)
    BY <1>9, <1>11, <1>13 DEF SameSlots
  <1> QED  BY <1>10, <1>11, <1>14, <1>15, <1>16, <1>q DEF AnewStep

\* freopen gives the stream another file, and leaves the others as they are.
RenewStep(fd, w) ==
    /\ Fit(w, {}) /\ Apart(w) /\ w.open[fd] # None
    /\ SameOpen(Lib, w, Fd \ {fd})
    /\ SameSlots(Lib, w, Streams \ {fd})

\* From the flush to the answer: w is what the flush left, and z what the call leaves.
RenewsAs(w, z, fd, f, mode) ==
    /\ Fit(z, {}) /\ Apart(z)
    /\ z.open[fd] = [file |-> f, how |-> How(mode), off |-> 0] /\ z.open[fd] # None
    /\ SameOpen(w, z, Fd \ {fd})
    /\ \A x \in Fd \ {fd} : w.open[x] # None => InSlot(z, x) = InSlot(w, x) /\ w.open[x].file # f
    /\ z.disk[f] = IF How(mode).empties THEN <<>> ELSE w.disk[f]
    /\ SameFiles(w, z, File \ {f})
    /\ InSlot(z, fd) \in {[Blank(fd) EXCEPT !.ro = e] : e \in BOOLEAN}

LEMMA Reopening ==
    ASSUME StdioInv, NEW fd \in Streams, NEW w, Ready(fd, w), SomeFd, NEW f \in scope.files, NEW mode,
           Unused(f) \/ open[fd].file = f
    PROVE  RenewsAs(w, Anew(Opened(w, f, mode).w, Opened(w, f, mode).fd, fd), fd, f, mode)
  <1>o. PICK o : o = Opened(w, f, mode)
    OBVIOUS
  <1>z. PICK z : z = Anew(o.w, o.fd, fd)
    OBVIOUS
  <1>1. Quiet(w) /\ SameOpen(Lib, w, Fd \ {fd}) /\ Fit(w, {}) /\ w.open[fd] # None /\ fd \in Fd
    BY OnlyForQuiet, StreamIsOpen DEF Ready, OnlyFor
  <1>2. FreeFds(w) # {}
    BY <1>1 DEF FreeFds, Lib, Quiet, SomeFd, Steady, Streams
  <1>3. \A x \in Fd \ {fd} : w.open[x] # None => w.open[x].file # f
    <2>1. CASE Unused(f)
      BY <1>1, <2>1 DEF Lib, SameOpen, Streams, Unused
    <2>2. CASE open[fd].file = f
      BY <1>1, <2>2, StreamIsOpen DEF Apart, Lib, SameOpen, StdioInv
    <2> QED  BY <2>1, <2>2
  <1>4. OpenStep(w, o, {fd}, f, mode)
    <2>1. f \in File /\ scope.NST \in Nat
      BY ScopeParts
    <2>2. Fit(w, {fd}) /\ \A x \in {fd} : w.open[x] # None
      BY <1>1, FitMore
    <2> QED  BY <1>2, <1>3, <1>o, <2>1, <2>2, OpenedKeeps
  <1>5. /\ o.fd \in Fd /\ o.fd # fd /\ w.open[o.fd] = None /\ Fit(o.w, {fd}) /\ o.w.open[o.fd] # None
        /\ o.w.open[o.fd] = [file |-> f, how |-> How(mode), off |-> 0]
        /\ SameOpen(w, o.w, Fd \ {o.fd}) /\ SameSlots(w, o.w, Fd \ {o.fd})
        /\ o.w.disk[f] = (IF How(mode).empties THEN <<>> ELSE w.disk[f]) /\ SameFiles(w, o.w, File \ {f})
    BY <1>4, OpenFileParts DEF OpenStep
  <1>8. AnewStep(o.w, z, o.fd, fd)
    BY <1>1, <1>5, <1>z, ScopeParts, AnewKeeps
  <1>9. SameOpen(w, z, Fd \ {fd})
    <2> SUFFICES ASSUME NEW x \in Fd \ {fd} PROVE z.open[x] = w.open[x]
      BY DEF SameOpen
    <2>1. CASE x = o.fd
      BY <1>5, <1>8, <2>1 DEF AnewStep
    <2>2. CASE x # o.fd
      BY <1>5, <1>8, <2>2 DEF AnewStep, SameOpen
    <2> QED  BY <2>1, <2>2
  <1>10. ASSUME NEW x \in Fd \ {fd}, w.open[x] # None PROVE InSlot(z, x) = InSlot(w, x) /\ w.open[x].file # f
    <2>1. x # o.fd
      BY <1>5, <1>10
    <2> QED  BY <1>3, <1>5, <1>8, <1>10, <2>1 DEF AnewStep, SameSlots
  <1>11. z.open[fd] = [file |-> f, how |-> How(mode), off |-> 0] /\ z.open[fd] # None
    BY <1>5, <1>8 DEF AnewStep
  <1>12. z.disk[f] = (IF How(mode).empties THEN <<>> ELSE w.disk[f]) /\ SameFiles(w, z, File \ {f})
    BY <1>5, <1>8 DEF AnewStep, SameFiles
  <1>13. Apart(z)
    <2>1. \A x \in Fd \ {fd} : z.open[x] = w.open[x]
      BY <1>9 DEF SameOpen
    <2>2. z.open[fd].file = f
      BY <1>11
    <2> QED  BY <1>1, <1>3, <2>1, <2>2 DEF Apart, Quiet
  <1>15. Fit(z, {}) /\ InSlot(z, fd) \in {[Blank(fd) EXCEPT !.ro = e] : e \in BOOLEAN}
    BY <1>8 DEF AnewStep
  <1>16. RenewsAs(w, z, fd, f, mode)
    BY <1>9, <1>10, <1>11, <1>12, <1>13, <1>15 DEF RenewsAs
  <1> QED  BY <1>16, <1>o, <1>z

LEMMA ReopenKeeps ==
    ASSUME StdioInv, NEW fd \in Streams, NEW f \in scope.files, NEW mode, freopen(fd, f, mode)
    PROVE  \/ Quietly
           \/ \E w : RenewStep(fd, w) /\ Become(w) /\ scope' = scope /\ answer' = <<"open", fd>>
  <1>1. PICK r \in u_st_wflush(u_st_slot(Lib, fd), Index(u_st_slot(Lib, fd), fd)) :
            IF ~SomeFd THEN Call(r.w, <<"ask">>)
            ELSE Call(Anew(Opened(r.w, f, mode).w, Opened(r.w, f, mode).fd, fd), <<"open", fd>>)
    BY DEF freopen, Anew
  <1>2. Ready(fd, r.w)
    BY Flushing
  <1>3. CASE ~SomeFd
    <2>1. Quiet(r.w)
      BY <1>2, OnlyForQuiet DEF Ready
    <2> QED  BY <1>1, <1>3, <2>1, Answered
  <1>4. CASE SomeFd
    <2>z. PICK z : z = Anew(Opened(r.w, f, mode).w, Opened(r.w, f, mode).fd, fd)
      OBVIOUS
    <2>1. Call(z, <<"open", fd>>)
      BY <1>1, <1>4, <2>z
    <2>2. RenewsAs(r.w, z, fd, f, mode)
      BY <1>2, <1>4, <2>z, Reopening DEF freopen
    <2>3. SameOpen(Lib, r.w, Fd \ {fd}) /\ SameSlots(Lib, r.w, Fd \ {fd})
      BY <1>2 DEF Ready, OnlyFor
    <2>4. SameOpen(Lib, z, Fd \ {fd})
      BY <2>2, <2>3 DEF RenewsAs, SameOpen
    <2>5. SameSlots(Lib, z, Streams \ {fd})
      <3> SUFFICES ASSUME NEW x \in Streams \ {fd} PROVE InSlot(z, x) = InSlot(Lib, x)
        BY DEF SameSlots
      <3>1. x \in Fd \ {fd} /\ r.w.open[x] # None
        BY <2>3, StreamIsOpen DEF SameOpen
      <3> QED  BY <2>2, <2>3, <3>1 DEF RenewsAs, SameSlots
    <2>6. RenewStep(fd, z)
      BY <2>2, <2>4, <2>5 DEF RenewsAs, RenewStep
    <2>7. Become(z) /\ scope' = scope /\ answer' = <<"open", fd>>
      BY <2>1 DEF Call, Keep
    <2> QED  BY <2>6, <2>7
  <1> QED  BY <1>3, <1>4

-----------------------------------------------------------------------------
(* The steps, and what they preserve.                                        *)

\* What a step of the streams can be.
Steps ==
    \/ Quietly
    \/ \E fd \in Streams : \E w : CloseStep(fd, w) /\ Become(w) /\ scope' = scope
                              /\ answer' \in {<<"close", 0>>, <<"close", -1>>}
    \/ \E fd \in Fd : \E w : BirthStep(fd, w) /\ Become(w) /\ scope' = scope /\ answer' = <<"open", fd>>
    \/ \E fd \in Streams : \E w : RenewStep(fd, w) /\ Become(w) /\ scope' = scope /\ answer' = <<"open", fd>>
    \/ exit
    \/ UNCHANGED <<libvars, answer, scope>>

LEMMA StepsAre ==
    ASSUME StdioInv, [StdioNext]_vars
    PROVE  Steps
  <1>1. ASSUME NEW f \in scope.files, NEW mode \in scope.modes, fopen(f, mode) PROVE Steps
    BY <1>1, OpenKeeps DEF Steps
  <1>2. ASSUME NEW fd \in Streams, NEW p \in scope.data, fwrite(fd, p) PROVE Steps
    BY <1>2, WriteQuiet DEF Steps
  <1>3. ASSUME NEW fd \in Streams, NEW n \in scope.counts, fread(fd, n) PROVE Steps
    BY <1>3, ReadQuiet DEF Steps
  <1>4. ASSUME NEW fd \in Streams, fgetc(fd) PROVE Steps
    BY <1>4, GetQuiet DEF Steps
  <1>5. ASSUME NEW fd \in Streams, feof(fd) \/ clearerr(fd) PROVE Steps
    BY <1>5, AskQuiet DEF Steps
  <1>6. ASSUME NEW fd \in Streams, NEW c \in scope.push, ungetc(fd, c) PROVE Steps
    BY <1>6, UngetQuiet DEF Steps
  <1>7. ASSUME NEW fd \in Streams, NEW k \in scope.seeks, fseek(fd, k) PROVE Steps
    BY <1>7, SeekQuiet DEF Steps
  <1>8. ASSUME NEW fd \in Streams, rewind(fd) PROVE Steps
    BY <1>8, RewindQuiet DEF Steps
  <1>9. ASSUME NEW fd \in Streams, ftell(fd) \/ fflush(fd) PROVE Steps
    BY <1>9, FlushQuiet DEF Steps
  <1>10. ASSUME NEW fd \in Streams, fclose(fd) PROVE Steps
    BY <1>10, CloseKeeps DEF Steps
  <1>11. ASSUME NEW fd \in Streams, NEW f \in scope.files, NEW mode \in scope.modes, freopen(fd, f, mode)
         PROVE  Steps
    BY <1>11, ReopenKeeps DEF Steps
  <1>12. ASSUME fflush_all PROVE Steps
    BY <1>12, FlushallQuiet DEF Steps
  <1>13. ASSUME Device \/ UNCHANGED vars PROVE Steps
    BY <1>13 DEF Device, Steps, libvars, vars
  <1>14. ASSUME exit PROVE Steps
    BY <1>14 DEF Steps
  <1> QED
    BY <1>1, <1>2, <1>3, <1>4, <1>5, <1>6, <1>7, <1>8, <1>9, <1>10, <1>11, <1>12, <1>13, <1>14
    DEF StdioNext, StreamCalls

LEMMA BecomeLib ==
    ASSUME NEW w \in Library, Become(w)
    PROVE  Lib' = w
  BY LibraryParts DEF Become, Lib

LEMMA BecomeInv ==
    ASSUME StdioInv, NEW w, Fit(w, {}), Apart(w), Become(w), scope' = scope
    PROVE  StdioInv'
  <1>1. Lib' = w
    BY BecomeLib DEF Fit
  <1>2. Fit(Lib, {})'
    BY <1>1 DEF Fit
  <1>3. Apart(Lib)'
    BY <1>1 DEF Apart
  <1> QED  BY <1>2, <1>3 DEF StdioInv

\* The streams begin in the invariant.
LEMMA StdioInvInit ==
    ASSUME StdioInit
    PROVE  StdioInv
  <1>1. scope \in Scopes /\ scope.start \subseteq Seq(Byte) /\ scope.NST \in Nat
    BY StdioAssumption DEF StdioInit
  <1>2. disk \in [File -> Seq(Byte)] /\ open = [fd \in Fd |-> None] /\ slots = <<>> /\ lost = {}
    BY <1>1 DEF StdioInit
  <1>3. slots \in Seq(Slot) /\ Len(slots) = 0 /\ DOMAIN slots = {}
    BY <1>2
  <1>4. Lib.disk = disk /\ Lib.open = open /\ Lib.slots = slots /\ Lib.lost = lost
    BY DEF Lib
  <1>5. Lib \in Library
    BY <1>2, <1>3 DEF Lib, Library
  <1>6. Fit(Lib, {})
    BY <1>1, <1>2, <1>3, <1>4, <1>5 DEF Fit
  <1>7. Apart(Lib)
    BY <1>2, <1>4 DEF Apart
  <1> QED  BY <1>1, <1>6, <1>7 DEF StdioInv

LEMMA ExitInv ==
    ASSUME StdioInv, exit
    PROVE  StdioInv'
  <1>1. PICK w \in u_st_flushall(Lib) :
            disk' = w.disk /\ lost' = w.lost /\ slots' = <<>> /\ open' = [fd \in Fd |-> None]
    BY DEF exit
  <1>2. Fit(w, {}) /\ scope' = scope
    BY FlushallKeeps DEF StdioInv, exit
  <1>z. PICK z : z = [disk |-> w.disk, open |-> [fd \in Fd |-> None], slots |-> <<>>, lost |-> w.lost]
    OBVIOUS
  <1>3. z.disk = w.disk /\ z.open = [fd \in Fd |-> None] /\ z.slots = <<>> /\ z.lost = w.lost
    BY <1>z
  <1>4. z.slots \in Seq(Slot) /\ Len(z.slots) = 0 /\ DOMAIN z.slots = {}
    BY <1>3
  <1>5. z \in Library
    BY <1>2, <1>3, <1>4, <1>z, LibraryParts DEF Fit, Library
  <1>6. Fit(z, {})
    <2>1. scope.NST \in Nat
      BY ScopeParts
    <2> QED  BY <1>3, <1>4, <1>5, <2>1 DEF Fit
  <1>7. Apart(z) /\ Become(z)
    BY <1>1, <1>3 DEF Apart, Become
  <1> QED  BY <1>2, <1>6, <1>7, BecomeInv

LEMMA StdioInvStep ==
    ASSUME StdioInv, [StdioNext]_vars
    PROVE  StdioInv'
  <1>0. Steps
    BY StepsAre
  <1>1. CASE Quietly
    BY <1>1, BecomeInv DEF Quiet, Quietly
  <1>2. CASE \E fd \in Streams : \E w : CloseStep(fd, w) /\ Become(w) /\ scope' = scope
                                    /\ answer' \in {<<"close", 0>>, <<"close", -1>>}
    BY <1>2, BecomeInv DEF CloseStep
  <1>3. CASE \E fd \in Fd : \E w : BirthStep(fd, w) /\ Become(w) /\ scope' = scope /\ answer' = <<"open", fd>>
    BY <1>3, BecomeInv DEF BirthStep
  <1>4. CASE \E fd \in Streams : \E w : RenewStep(fd, w) /\ Become(w) /\ scope' = scope /\ answer' = <<"open", fd>>
    BY <1>4, BecomeInv DEF RenewStep
  <1>5. CASE exit
    BY <1>5, ExitInv
  <1>6. CASE UNCHANGED <<libvars, answer, scope>>
    <2>1. Lib \in Library /\ Become(Lib)
      BY <1>6 DEF Become, Fit, Lib, StdioInv, libvars
    <2> QED  BY <1>6, <2>1, BecomeInv DEF StdioInv
  <1> QED  BY <1>0, <1>1, <1>2, <1>3, <1>4, <1>5, <1>6 DEF Steps

\* In every behaviour the table, the buffers and the descriptors fit together.
THEOREM StdioInvHolds == StdioSpec => []StdioInv
  <1>1. StdioInit => StdioInv
    BY StdioInvInit
  <1>2. StdioInv /\ [StdioNext]_vars => StdioInv'
    BY StdioInvStep
  <1> QED  BY <1>1, <1>2, PTL DEF StdioSpec

\* The table has one slot for an open stream at most and none for a closed one,
\* and a buffer holds unread or unwritten bytes, whatever fails.
THEOREM SlotsHold == StdioSpec => []SlotsOfOpenStreams
  <1>1. ASSUME StdioInv PROVE SlotsOfOpenStreams
    <2>1. Lib.slots = slots /\ Lib.open = open /\ Fit(Lib, {})
      BY <1>1 DEF Lib, StdioInv
    <2>2. \A i \in DOMAIN slots : slots[i] \in Slot /\ SlotFit(slots[i])
      BY <2>1, SlotIsSlot
    <2>3. \A i \in DOMAIN slots : slots[i].wlen > 0 => Unread(slots[i]) = 0 /\ slots[i].ung = None
      BY <2>2, SlotParts DEF SlotFit, Unread
    <2> QED  BY <2>1, <2>3 DEF Fit, SlotsOfOpenStreams
  <1> QED  BY <1>1, StdioInvHolds, PTL

\* What a stream has of its own is in its slot.
OwnIn(t) == <<t.eof, t.err, t.ung, SubSeq(t.buf, t.bpos + 1, t.blen)>>

LEMMA OwnNext ==
    ASSUME StdioInv, NEW fd \in Streams, NEW w, Fit(w, {}), Become(w), InSlot(w, fd) = InSlot(Lib, fd)
    PROVE  Own(fd)' = Own(fd)
  <1>1. Lib' = w
    BY BecomeLib DEF Fit
  <1>2. InSlot(Lib, fd)' = InSlot(w, fd)
    BY <1>1 DEF InSlot, Index
  <1>3. Own(fd) = OwnIn(InSlot(Lib, fd)) /\ Own(fd)' = OwnIn(InSlot(Lib, fd)')
    BY DEF Own, OwnIn
  <1> QED  BY <1>2, <1>3

\* Closing or reopening one stream moves another's slot in the table, and
\* changes no other stream's flags, pushback or unread bytes.
THEOREM OthersAreKept == StdioSpec => OthersKept
  <1> DEFINE Others == answer'[1] \in {"close", "open"} =>
                 \A fd \in Streams : open'[fd] # None /\ answer' # <<"open", fd>> => Own(fd)' = Own(fd)
  <1>1. ASSUME StdioInv, [StdioNext]_vars PROVE [Others]_vars
    <2>0. Steps
      BY <1>1, StepsAre
    <2>1. CASE Quietly
      BY <2>1 DEF Quietly
    <2>2. ASSUME NEW x \in Streams, NEW w, CloseStep(x, w), Become(w) PROVE Others
      <3> SUFFICES ASSUME NEW fd \in Streams, open'[fd] # None PROVE Own(fd)' = Own(fd)
        OBVIOUS
      <3>1. fd \in Fd \ {x} /\ Fit(w, {})
        BY <2>2, StreamIsOpen DEF Become, CloseStep
      <3>2. InSlot(w, fd) = InSlot(Lib, fd)
        BY <2>2, <3>1 DEF CloseStep, SameSlots
      <3> QED  BY <1>1, <2>2, <3>1, <3>2, OwnNext
    <2>3. ASSUME NEW x \in Fd, NEW w, BirthStep(x, w), Become(w) PROVE Others
      <3> SUFFICES ASSUME NEW fd \in Streams PROVE Own(fd)' = Own(fd)
        OBVIOUS
      <3>1. fd \in Fd \ {x} /\ Fit(w, {})
        BY <2>3, StreamIsOpen DEF BirthStep
      <3>2. InSlot(w, fd) = InSlot(Lib, fd)
        BY <2>3, <3>1 DEF BirthStep, SameSlots
      <3> QED  BY <1>1, <2>3, <3>1, <3>2, OwnNext
    <2>4. ASSUME NEW x \in Streams, NEW w, RenewStep(x, w), Become(w), answer' = <<"open", x>> PROVE Others
      <3> SUFFICES ASSUME NEW fd \in Streams, answer' # <<"open", fd>> PROVE Own(fd)' = Own(fd)
        OBVIOUS
      <3>1. fd \in Streams \ {x} /\ Fit(w, {})
        BY <2>4 DEF RenewStep
      <3>2. InSlot(w, fd) = InSlot(Lib, fd)
        BY <2>4, <3>1 DEF RenewStep, SameSlots
      <3> QED  BY <1>1, <2>4, <3>1, <3>2, OwnNext
    <2>5. CASE exit
      <3>1. \A fd \in Streams : open'[fd] = None
        BY <2>5 DEF exit, Streams
      <3> QED  BY <3>1
    <2>6. CASE UNCHANGED <<libvars, answer, scope>>
      <3> SUFFICES ASSUME NEW fd \in Streams PROVE Own(fd)' = Own(fd)
        OBVIOUS
      <3>1. Fit(Lib, {}) /\ Become(Lib)
        BY <1>1, <2>6 DEF Become, Lib, StdioInv, libvars
      <3> QED  BY <1>1, <3>1, OwnNext
    <2> QED  BY <2>0, <2>1, <2>2, <2>3, <2>4, <2>5, <2>6 DEF Steps
  <1>2. StdioInv /\ [StdioNext]_vars => [Others]_vars
    BY <1>1
  <1>3. OthersKept <=> [][Others]_vars
    BY DEF OthersKept
  <1> HIDE DEF Others
  <1> QED  BY <1>2, <1>3, StdioInvHolds, PTL DEF StdioSpec

\* fclose that answers 0 has put on the disk what the program wrote.
THEOREM CloseIsExact == StdioSpec => CloseExact
  <1> DEFINE Exact == \A fd \in Streams : open'[fd] = None /\ answer' = <<"close", 0>> /\ ~ended' =>
                          disk'[open[fd].file] = Logical(Lib, open[fd].file)
  <1>1. ASSUME StdioInv, [StdioNext]_vars PROVE [Exact]_vars
    <2>0. Steps
      BY <1>1, StepsAre
    <2>1. CASE Quietly
      <3>1. answer' # <<"close", 0>>
        BY <2>1 DEF Quietly
      <3> QED  BY <3>1
    <2>2. ASSUME NEW x \in Streams, NEW w, CloseStep(x, w), Become(w) PROVE Exact
      <3> SUFFICES ASSUME NEW fd \in Streams, open'[fd] = None, answer' = <<"close", 0>>
                   PROVE  disk'[open[fd].file] = Logical(Lib, open[fd].file)
        OBVIOUS
      <3>1. fd = x
        BY <2>2, StreamIsOpen DEF Become, CloseStep, SameOpen
      <3> QED  BY <2>2, <3>1 DEF Become, CloseStep
    <2>3. ASSUME NEW x, answer' = <<"open", x>> PROVE Exact
      <3>1. answer' # <<"close", 0>>
        BY <2>3
      <3> QED  BY <3>1
    <2>4. CASE exit
      <3>1. ended'
        BY <2>4 DEF exit
      <3> QED  BY <3>1
    <2>5. CASE UNCHANGED <<libvars, answer, scope>>
      BY <2>5 DEF Streams, libvars
    <2> QED  BY <2>0, <2>1, <2>2, <2>3, <2>4, <2>5 DEF Steps
  <1>2. StdioInv /\ [StdioNext]_vars => [Exact]_vars
    BY <1>1
  <1>3. CloseExact <=> [][Exact]_vars
    BY DEF CloseExact
  <1> HIDE DEF Exact
  <1> QED  BY <1>2, <1>3, StdioInvHolds, PTL DEF StdioSpec

-----------------------------------------------------------------------------
(* What the program sees: the streams implement CStream.                     *)

PushOf(t) == IF t.ung = None THEN <<>> ELSE <<t.ung>>

StreamOf(w, x) ==
    IF w.open[x] = None THEN None
    ELSE [file |-> w.open[x].file, how |-> w.open[x].how, pos |-> Position(w, x), push |-> PushOf(InSlot(w, x))]

\* Until the device fails: the unread bytes are those of the file before the
\* offset, after at least one that was read, what waits may be written, and
\* the slot knows what the mode allows.
Truthful(c, o, t) ==
    /\ Unread(t) > 0 => o.how.rd /\ Unread(t) < o.off
    /\ \A j \in 1 .. Unread(t) : t.buf[t.bpos + j] = c[o.off - Unread(t) + j]
    /\ t.wlen > 0 => o.how.wr
    /\ t.ung # None => o.how.rd
    /\ t.ro = ~o.how.wr

MirrorAt(w, x) == Truthful(w.disk[w.open[x].file], w.open[x], InSlot(w, x))

LEMMA SeqEqual ==
    ASSUME NEW s \in Seq(Byte), NEW t \in Seq(Byte), Len(s) = Len(t),
           \A i \in 1 .. Len(s) : s[i] = t[i]
    PROVE  s = t
  OBVIOUS

\* The slot of an open stream, or the blank one.
LEMMA InSlotType ==
    ASSUME NEW w, NEW X, Fit(w, X), NEW fd \in Fd
    PROVE  InSlot(w, fd) \in Slot /\ SlotFit(InSlot(w, fd))
  <1>1. CASE Index(w, fd) = 0
    BY <1>1, IndexFacts, BlankSlot
  <1>2. CASE Index(w, fd) # 0
    BY <1>2, IndexFacts, SlotIsSlot
  <1> QED  BY <1>1, <1>2

\* A call on one stream is not seen through the others.
OthersSame(w, v, fd) ==
    /\ \A x \in Fd \ {fd} : StreamOf(v, x) = StreamOf(w, x)
    /\ \A g \in File \ {w.open[fd].file} : Logical(v, g) = Logical(w, g)
    /\ \A x \in Fd \ {fd} : w.open[x] # None /\ MirrorAt(w, x) => MirrorAt(v, x)

LEMMA OthersSeen ==
    ASSUME NEW w, Fit(w, {}), Apart(w), NEW v, NEW fd \in Fd, w.open[fd] # None, OnlyFor(w, v, fd)
    PROVE  OthersSame(w, v, fd)
  <1>1. ASSUME NEW x \in Fd \ {fd}
        PROVE  /\ v.open[x] = w.open[x] /\ InSlot(v, x) = InSlot(w, x)
               /\ w.open[x] # None => v.disk[w.open[x].file] = w.disk[w.open[x].file]
    <2>1. v.open[x] = w.open[x] /\ InSlot(v, x) = InSlot(w, x)
      BY DEF OnlyFor, SameOpen, SameSlots
    <2>2. ASSUME w.open[x] # None PROVE v.disk[w.open[x].file] = w.disk[w.open[x].file]
      <3>1. w.open[x].file # w.open[fd].file
        BY <2>2 DEF Apart
      <3>2. w.open[x].file \in File
        BY <2>2, AtFits
      <3> QED  BY <3>1, <3>2 DEF OnlyFor, SameFiles
    <2> QED  BY <2>1, <2>2
  <1>2. ASSUME NEW x \in Fd \ {fd} PROVE StreamOf(v, x) = StreamOf(w, x)
    BY <1>1 DEF StreamOf, Position
  <1>3. ASSUME NEW x \in Fd \ {fd}, w.open[x] # None, MirrorAt(w, x) PROVE MirrorAt(v, x)
    BY <1>1, <1>3 DEF MirrorAt
  <1>4. ASSUME NEW g \in File \ {w.open[fd].file} PROVE Logical(v, g) = Logical(w, g)
    <2> DEFINE W(u) == {x \in Fd : u.open[x] # None /\ u.open[x].file = g /\ InSlot(u, x).wlen > 0}
    <2>1. fd \notin W(v) /\ fd \notin W(w)
      BY DEF OnlyFor
    <2>2. W(v) = W(w)
      BY <1>1, <2>1
    <2>3. v.disk[g] = w.disk[g]
      BY DEF OnlyFor, SameFiles
    <2>4. CASE W(w) = {}
      BY <2>2, <2>3, <2>4 DEF Logical
    <2>5. CASE W(w) # {}
      <3>x. PICK x : x = CHOOSE y \in W(w) : TRUE
        OBVIOUS
      <3>1. x \in W(w)
        BY <2>5, <3>x
      <3>2. x \in Fd \ {fd}
        BY <2>1, <3>1
      <3>3. \A u : W(u) # {} /\ x = (CHOOSE y \in W(u) : TRUE) =>
                Logical(u, g) = Overlaid(u.disk[g], IF u.open[x].how.append THEN Len(u.disk[g]) ELSE u.open[x].off,
                                         SubSeq(InSlot(u, x).buf, 1, InSlot(u, x).wlen))
        BY DEF Logical
      <3>4. x = CHOOSE y \in W(v) : TRUE
        BY <2>2, <3>x
      <3>5. v.open[x] = w.open[x] /\ InSlot(v, x) = InSlot(w, x)
        BY <1>1, <3>2
      <3> HIDE DEF W
      <3> QED  BY <2>2, <2>3, <2>5, <3>x, <3>3, <3>4, <3>5
    <2> QED  BY <2>4, <2>5
  <1> QED  BY <1>2, <1>3, <1>4 DEF OthersSame

\* Writing twice in a row is writing once.
LEMMA OverlaidTwice ==
    ASSUME NEW c \in Seq(Byte), NEW b \in Seq(Byte), NEW p \in Seq(Byte), NEW at \in Nat, at <= Len(c)
    PROVE  Overlaid(Overlaid(c, at, b), at + Len(b), p) = Overlaid(c, at, b \o p)
  <1>d. PICK d : d = Overlaid(c, at, b)
    OBVIOUS
  <1>q. PICK q : q = b \o p
    OBVIOUS
  <1>l. PICK l : l = Overlaid(d, at + Len(b), p)
    OBVIOUS
  <1>r. PICK r : r = Overlaid(c, at, q)
    OBVIOUS
  <1>0. Len(b) \in Nat /\ Len(p) \in Nat /\ Len(c) \in Nat
    OBVIOUS
  <1>1. d \in Seq(Byte) /\ Len(d) = (IF at + Len(b) > Len(c) THEN at + Len(b) ELSE Len(c)) /\ at + Len(b) <= Len(d)
    BY <1>d, OverlaidType
  <1>2. q \in Seq(Byte) /\ Len(q) = Len(b) + Len(p)
        /\ \A i \in 1 .. Len(q) : q[i] = IF i <= Len(b) THEN b[i] ELSE p[i - Len(b)]
    BY <1>q
  <1>3. l \in Seq(Byte) /\ Len(l) = IF at + Len(b) + Len(p) > Len(d) THEN at + Len(b) + Len(p) ELSE Len(d)
    BY <1>0, <1>1, <1>l, OverlaidType
  <1>4. r \in Seq(Byte) /\ Len(r) = IF at + Len(q) > Len(c) THEN at + Len(q) ELSE Len(c)
    BY <1>2, <1>r, OverlaidType
  <1>5. Len(l) = Len(r) /\ Len(l) \in Nat
    <2> PICK lb \in Nat, lp \in Nat, lc \in Nat : lb = Len(b) /\ lp = Len(p) /\ lc = Len(c)
      BY <1>0
    <2> PICK ld, lq, ll, lr : ld = Len(d) /\ lq = Len(q) /\ ll = Len(l) /\ lr = Len(r)
      OBVIOUS
    <2>1. ld = IF at + lb > lc THEN at + lb ELSE lc
      BY <1>1
    <2>2. ll = IF at + lb + lp > ld THEN at + lb + lp ELSE ld
      BY <1>3
    <2>3. lq = lb + lp /\ lr = IF at + lq > lc THEN at + lq ELSE lc
      BY <1>2, <1>4
    <2>4. ll = lr /\ ll \in Nat
      BY <2>1, <2>2, <2>3
    <2> QED  BY <2>4
  <1>6. ASSUME NEW i \in 1 .. Len(l) PROVE l[i] = r[i]
    <2>1. l[i] = IF i > at + Len(b) /\ i <= at + Len(b) + Len(p) THEN p[i - (at + Len(b))] ELSE d[i]
      BY <1>3, <1>l DEF Overlaid
    <2>2. r[i] = IF i > at /\ i <= at + Len(q) THEN q[i - at] ELSE c[i]
      BY <1>4, <1>5, <1>r DEF Overlaid
    <2>3. i \in 1 .. Len(d) => d[i] = IF i > at /\ i <= at + Len(b) THEN b[i - at] ELSE c[i]
      BY <1>1, <1>d DEF Overlaid
    <2>4. CASE i > at + Len(b) /\ i <= at + Len(b) + Len(p)
      <3>1. i > at /\ i <= at + Len(q) /\ i - at \in 1 .. Len(q) /\ ~(i - at <= Len(b)) /\ i - at - Len(b) = i - (at + Len(b))
        BY <1>0, <1>2, <1>5, <2>4
      <3>2. q[i - at] = p[i - at - Len(b)]
        BY <1>2, <3>1
      <3> QED  BY <2>1, <2>2, <2>4, <3>1, <3>2
    <2>5. CASE i > at /\ i <= at + Len(b)
      <3>1. i <= at + Len(q) /\ i - at \in 1 .. Len(q) /\ i - at <= Len(b) /\ i \in 1 .. Len(d) /\ ~(i > at + Len(b))
        BY <1>0, <1>1, <1>2, <1>5, <2>5
      <3>2. q[i - at] = b[i - at]
        BY <1>2, <3>1
      <3> QED  BY <2>1, <2>2, <2>3, <2>5, <3>1, <3>2
    <2>6. CASE i <= at \/ i > at + Len(b) + Len(p)
      <3>1. i \in 1 .. Len(d) /\ ~(i > at /\ i <= at + Len(q)) /\ ~(i > at /\ i <= at + Len(b))
            /\ ~(i > at + Len(b) /\ i <= at + Len(b) + Len(p))
        BY <1>0, <1>1, <1>2, <1>3, <1>5, <2>6
      <3> QED  BY <2>1, <2>2, <2>3, <3>1
    <2> QED  BY <1>0, <1>5, <2>4, <2>5, <2>6
  <1>7. l = r
    BY <1>3, <1>4, <1>5, <1>6, SeqEqual
  <1> QED  BY <1>7, <1>d, <1>l, <1>q, <1>r

-----------------------------------------------------------------------------
(* The state of CStream under the refinement, and its actions said of it.    *)

ContentOf(w) == [f \in File |-> Logical(w, f)]
StreamsOf(w) == [x \in Fd |-> StreamOf(w, x)]

SeenContent == [f \in File |-> Logical(Lib, f)]
SeenStream ==
    [fd \in Fd |->
        IF open[fd] = None THEN None
        ELSE [file |-> open[fd].file, how |-> open[fd].how, pos |-> Position(Lib, fd),
              push |-> IF InSlot(Lib, fd).ung = None THEN <<>> ELSE <<InSlot(Lib, fd).ung>>]]

LEMMA SeenNow == SeenContent = ContentOf(Lib) /\ SeenStream = StreamsOf(Lib)
  BY DEF SeenContent, SeenStream, ContentOf, StreamsOf, StreamOf, PushOf, Lib

LEMMA SeenNext ==
    ASSUME NEW v, Lib' = v
    PROVE  SeenContent' = ContentOf(v) /\ SeenStream' = StreamsOf(v)
  <1>1. open' = v.open
    BY DEF Lib
  <1>2. SeenContent' = ContentOf(v)
    BY DEF SeenContent, ContentOf
  <1>3. SeenStream' = StreamsOf(v)
    BY <1>1 DEF SeenStream, StreamsOf, StreamOf, PushOf
  <1> QED  BY <1>2, <1>3

OpensAs(c, s, c1, s1, fd, f, h) ==
    /\ answer' = <<"open", fd>>
    /\ s1 = [s EXCEPT ![fd] = [file |-> f, how |-> h, pos |-> 0, push |-> <<>>]]
    /\ c1 = IF h.empties THEN [c EXCEPT ![f] = <<>>] ELSE c

WritesAs(c, s, c1, s1, fd, p) ==
    LET q == s[fd]
        at == IF q.how.append THEN Len(c[q.file])
              ELSE IF q.pos - Len(q.push) < 0 THEN 0 ELSE q.pos - Len(q.push)
    IN
    /\ answer' = <<"write", Len(p)>>
    /\ q.how.wr
    /\ c1 = [c EXCEPT ![q.file] = Overlaid(@, at, p)]
    /\ s1 = [s EXCEPT ![fd].pos = at + Len(p), ![fd].push = <<>>]

ReadsAs(c, s, c1, s1, fd, n) ==
    LET q == s[fd]
        last == IF q.how.rd THEN q.pos + n - Len(q.push) ELSE q.pos
        rest == SubSeq(c[q.file], q.pos + 1, IF last > Len(c[q.file]) THEN Len(c[q.file]) ELSE last)
    IN
    /\ answer' = <<"read", q.push \o rest>>
    /\ s1 = [s EXCEPT ![fd].pos = @ + Len(rest), ![fd].push = <<>>]
    /\ c1 = c

SeeksAs(c, s, c1, s1, fd, k) ==
    LET q == s[fd]
        to == k[2] + (CASE k[1] = "set" -> 0
                        [] k[1] = "cur" -> q.pos - Len(q.push)
                        [] k[1] = "end" -> Len(c[q.file]))
    IN
    /\ answer' = <<"seek", IF to < 0 THEN -1 ELSE 0>>
    /\ s1 = [s EXCEPT ![fd].push = <<>>, ![fd].pos = IF to < 0 THEN s1[fd].pos ELSE to]
    /\ c1 = c

LEMMA Translated ==
    ASSUME NEW fd, NEW n, NEW f, NEW h
    PROVE  /\ OpensAs(SeenContent, SeenStream, SeenContent', SeenStream', fd, f, h) => Seen!Open(fd, f, h)
           /\ WritesAs(SeenContent, SeenStream, SeenContent', SeenStream', fd, n) => Seen!Write(fd, n)
           /\ ReadsAs(SeenContent, SeenStream, SeenContent', SeenStream', fd, n) => Seen!Read(fd, n)
           /\ SeeksAs(SeenContent, SeenStream, SeenContent', SeenStream', fd, n) => Seen!Seek(fd, n)
  <1>1. OpensAs(SeenContent, SeenStream, SeenContent', SeenStream', fd, f, h) => Seen!Open(fd, f, h)
    BY Zenon DEF Seen!Open, SeenContent, SeenStream, OpensAs
  <1>2. WritesAs(SeenContent, SeenStream, SeenContent', SeenStream', fd, n) => Seen!Write(fd, n)
    BY Zenon DEF Seen!Write, Seen!Where, Seen!Overlaid, Overlaid, SeenContent, SeenStream, WritesAs
  <1>3. ReadsAs(SeenContent, SeenStream, SeenContent', SeenStream', fd, n) => Seen!Read(fd, n)
    BY Zenon DEF Seen!Read, SeenContent, SeenStream, ReadsAs
  <1>4. SeeksAs(SeenContent, SeenStream, SeenContent', SeenStream', fd, n) => Seen!Seek(fd, n)
    BY Zenon DEF Seen!Seek, Seen!Target, Seen!Where, SeenContent, SeenStream, SeeksAs
  <1> QED  BY <1>1, <1>2, <1>3, <1>4

LEMMA AskIs ==
    ASSUME SeenContent' = SeenContent, SeenStream' = SeenStream, answer' = <<"ask">>
    PROVE  Seen!Ask
  BY Zenon DEF Seen!Ask, SeenContent, SeenStream

LEMMA TellIs ==
    ASSUME NEW fd, SeenContent' = SeenContent, SeenStream' = SeenStream,
           answer' = <<"tell", SeenStream[fd].pos - Len(SeenStream[fd].push)>>
    PROVE  Seen!Tell(fd)
  BY Zenon DEF Seen!Tell, Seen!Where, SeenContent, SeenStream

LEMMA RefuseIs ==
    ASSUME NEW fd, SeenContent' = SeenContent, SeenStream' = SeenStream,
           answer' = <<"write", 0>>, ~SeenStream[fd].how.wr
    PROVE  Seen!Refuse(fd)
  BY Zenon DEF Seen!Refuse, SeenContent, SeenStream

LEMMA UngetIs ==
    ASSUME NEW fd, NEW c, SeenContent' = SeenContent, SeenStream' = [SeenStream EXCEPT ![fd].push = <<c>>],
           answer' = <<"unget", c>>
    PROVE  Seen!Unget(fd, c)
  BY Zenon DEF Seen!Unget, SeenContent, SeenStream

LEMMA CloseIs ==
    ASSUME NEW fd, SeenContent' = SeenContent, SeenStream' = [SeenStream EXCEPT ![fd] = None],
           answer' = <<"close", 0>>
    PROVE  Seen!Close(fd)
  BY Zenon DEF Seen!Close, SeenContent, SeenStream

LEMMA ExitIs ==
    ASSUME SeenContent' = SeenContent, SeenStream' = [x \in Fd |-> None]
    PROVE  Seen!Exit
  BY Zenon DEF Seen!Exit, SeenContent, SeenStream

-----------------------------------------------------------------------------
(* Calls on one stream.                                                      *)

\* The invariant while the device has not failed.
Mirrors(w) ==
    \A x \in Fd : w.open[x] # None =>
        MirrorAt(w, x) /\ w.open[x].file \in scope.files /\ \E m \in scope.modes : w.open[x].how = How(m)

\* What the program sees of the stream fd.
View(v, fd, c, a, b) ==
    /\ Logical(v, v.open[fd].file) = c /\ Position(v, fd) = a /\ PushOf(InSlot(v, fd)) = b
    /\ MirrorAt(v, fd)

\* After the call the program sees that of fd, and of the rest what it saw.
Viewing(fd, c, a, b) ==
    /\ SeenContent' = [SeenContent EXCEPT ![open[fd].file] = c]
    /\ SeenStream' = [SeenStream EXCEPT ![fd].pos = a, ![fd].push = b]
    /\ Mirrors(Lib')

LEMMA NowIs ==
    ASSUME StdioInv, NEW fd \in Streams
    PROVE  /\ SeenStream[fd] = [file |-> open[fd].file, how |-> open[fd].how, pos |-> Position(Lib, fd),
                                push |-> PushOf(InSlot(Lib, fd))]
           /\ open[fd].file \in File /\ SeenContent[open[fd].file] = Logical(Lib, open[fd].file)
           /\ fd \in Fd /\ fd \in DOMAIN SeenStream
  <1>1. fd \in Fd /\ Lib.open[fd] # None /\ Lib.open = open
    BY StreamIsOpen DEF Lib
  <1>2. Lib.open[fd].file \in File
    BY <1>1, AtFits DEF StdioInv
  <1>3. open[fd].file \in File
    BY <1>1, <1>2
  <1>4. SeenContent[open[fd].file] = Logical(Lib, open[fd].file)
    BY <1>3 DEF SeenContent
  <1>5. SeenStream[fd] = StreamOf(Lib, fd) /\ fd \in DOMAIN SeenStream
    BY <1>1, SeenNow DEF StreamsOf
  <1>6. StreamOf(Lib, fd) = [file |-> open[fd].file, how |-> open[fd].how, pos |-> Position(Lib, fd),
                             push |-> PushOf(InSlot(Lib, fd))]
    BY <1>1 DEF StreamOf
  <1> QED  BY <1>1, <1>3, <1>4, <1>5, <1>6

StreamPut(s, fd, a, b) == [s EXCEPT ![fd].pos = a, ![fd].push = b]

LEMMA RecordMoved ==
    ASSUME NEW S, NEW T, NEW s \in [S -> T], NEW fd \in S, NEW f, NEW h, NEW p, NEW u,
           s[fd] = [file |-> f, how |-> h, pos |-> p, push |-> u], NEW a, NEW b
    PROVE  StreamPut(s, fd, a, b) = [s EXCEPT ![fd] = [file |-> f, how |-> h, pos |-> a, push |-> b]]
  <1>s. PICK z : z = StreamPut(s, fd, a, b)
    OBVIOUS
  <1>1. DOMAIN z = S /\ z = [x \in S |-> z[x]]
    BY <1>s DEF StreamPut
  <1>2. \A x \in S \ {fd} : z[x] = s[x]
    BY <1>s DEF StreamPut
  <1>3. z[fd] = [[s[fd] EXCEPT !.pos = a] EXCEPT !.push = b]
    BY <1>s DEF StreamPut
  <1>4. z[fd] = [file |-> f, how |-> h, pos |-> a, push |-> b]
    <2>r. PICK r : r = [file |-> f, how |-> h, pos |-> p, push |-> u]
      OBVIOUS
    <2>1. [r EXCEPT !.pos = a] = [file |-> f, how |-> h, pos |-> a, push |-> u]
      BY <2>r
    <2>2. [[file |-> f, how |-> h, pos |-> a, push |-> u] EXCEPT !.push = b]
              = [file |-> f, how |-> h, pos |-> a, push |-> b]
      OBVIOUS
    <2> QED  BY <1>3, <2>1, <2>2, <2>r
  <1> QED  BY <1>1, <1>2, <1>4, <1>s

LEMMA StreamPutIs ==
    ASSUME StdioInv, NEW fd \in Streams, NEW a, NEW b
    PROVE  StreamPut(SeenStream, fd, a, b)
               = [SeenStream EXCEPT ![fd] = [file |-> open[fd].file, how |-> open[fd].how, pos |-> a, push |-> b]]
  <1>T. PICK T : T = {SeenStream[x] : x \in Fd}
    OBVIOUS
  <1>s. PICK s : s = SeenStream
    OBVIOUS
  <1>f. PICK f, h, p, u : f = open[fd].file /\ h = open[fd].how /\ p = Position(Lib, fd) /\ u = PushOf(InSlot(Lib, fd))
    OBVIOUS
  <1>1. s \in [Fd -> T]
    BY <1>T, <1>s DEF SeenStream
  <1>2. s[fd] = [file |-> f, how |-> h, pos |-> p, push |-> u] /\ fd \in Fd
    BY <1>f, <1>s, NowIs
  <1>3. StreamPut(s, fd, a, b) = [s EXCEPT ![fd] = [file |-> f, how |-> h, pos |-> a, push |-> b]]
    BY <1>1, <1>2, RecordMoved
  <1> QED  BY <1>3, <1>f, <1>s

LEMMA Viewed ==
    ASSUME StdioInv, Mirrors(Lib), NEW fd \in Streams, NEW v, Fit(v, {}), OnlyFor(Lib, v, fd), Become(v),
           NEW c, NEW a, NEW b, View(v, fd, c, a, b)
    PROVE  Viewing(fd, c, a, b)
  <1>1. Lib' = v
    BY BecomeLib DEF Fit
  <1>2. OthersSame(Lib, v, fd) /\ fd \in Fd /\ Lib.open[fd] # None /\ Lib.open = open
    BY OthersSeen, StreamIsOpen DEF StdioInv, Lib
  <1>3. v.open[fd] # None /\ v.open[fd].file = open[fd].file /\ v.open[fd].how = open[fd].how
    BY <1>2 DEF OnlyFor
  <1>f. PICK f : f = open[fd].file
    OBVIOUS
  <1>4. SeenContent' = [SeenContent EXCEPT ![f] = c]
    <2>1. SeenContent' = [g \in File |-> Logical(v, g)] /\ SeenContent = [g \in File |-> Logical(Lib, g)]
      BY <1>1, SeenNext, SeenNow DEF ContentOf
    <2>2. \A g \in File \ {f} : Logical(v, g) = Logical(Lib, g)
      BY <1>2, <1>f DEF OthersSame
    <2>3. Logical(v, f) = c
      BY <1>3, <1>f DEF View
    <2> QED  BY <2>1, <2>2, <2>3
  <1>q. PICK q : q = [file |-> f, how |-> open[fd].how, pos |-> a, push |-> b]
    OBVIOUS
  <1>5. StreamOf(v, fd) = q
    BY <1>3, <1>f, <1>q DEF StreamOf, View
  <1>6. SeenStream' = [SeenStream EXCEPT ![fd] = q]
    <2>1. SeenStream' = [x \in Fd |-> StreamOf(v, x)] /\ SeenStream = [x \in Fd |-> StreamOf(Lib, x)]
      BY <1>1, SeenNext, SeenNow DEF StreamsOf
    <2>2. \A x \in Fd \ {fd} : StreamOf(v, x) = StreamOf(Lib, x)
      BY <1>2 DEF OthersSame
    <2> QED  BY <1>5, <2>1, <2>2
  <1>7. SeenStream' = [SeenStream EXCEPT ![fd].pos = a, ![fd].push = b]
    <2>s. PICK s : s = SeenStream
      OBVIOUS
    <2>1. StreamPut(s, fd, a, b) = [s EXCEPT ![fd] = q]
      BY <1>f, <1>q, <2>s, StreamPutIs
    <2> QED  BY <1>6, <2>1, <2>s DEF StreamPut
  <1>8. Mirrors(v)
    <2>1. ASSUME NEW x \in Fd, v.open[x] # None
          PROVE MirrorAt(v, x) /\ v.open[x].file \in scope.files /\ \E m \in scope.modes : v.open[x].how = How(m)
      <3>1. Lib.open[x] # None /\ v.open[x].file = Lib.open[x].file /\ v.open[x].how = Lib.open[x].how
        BY <1>2, <2>1 DEF OnlyFor, SameOpen
      <3>2. MirrorAt(v, x)
        BY <1>2, <3>1 DEF Mirrors, OthersSame, View
      <3> QED  BY <3>1, <3>2 DEF Mirrors
    <2> QED  BY <2>1 DEF Mirrors
  <1> QED  BY <1>1, <1>4, <1>7, <1>8, <1>f DEF Viewing

-----------------------------------------------------------------------------
(* Taking a slot and flushing it are not seen.                               *)

LEMMA PositionIs ==
    ASSUME NEW w, NEW fd
    PROVE  Position(w, fd) = IF InSlot(w, fd).wlen > 0 THEN At(w, fd) + InSlot(w, fd).wlen
                             ELSE w.open[fd].off - Unread(InSlot(w, fd))
  BY DEF Position, At

LEMMA Emptier ==
    ASSUME NEW t \in Slot
    PROVE  /\ [t EXCEPT !.wlen = 0].wlen = 0 /\ Unread([t EXCEPT !.wlen = 0]) = Unread(t)
           /\ PushOf([t EXCEPT !.wlen = 0]) = PushOf(t) /\ [t EXCEPT !.wlen = 0].ung = t.ung
           /\ [t EXCEPT !.wlen = 0].buf = t.buf /\ [t EXCEPT !.wlen = 0].bpos = t.bpos
           /\ [t EXCEPT !.wlen = 0].ro = t.ro
  BY DEF Slot, Unread, PushOf

FlushSeen(w, r, fd) ==
    /\ r.ok /\ InSlot(r.w, fd).wlen = 0 /\ Fit(r.w, {}) /\ OnlyFor(w, r.w, fd) /\ Apart(r.w)
    /\ r.w.disk[w.open[fd].file] = Logical(w, w.open[fd].file)
    /\ View(r.w, fd, Logical(w, w.open[fd].file), Position(w, fd), PushOf(InSlot(w, fd)))

LEMMA FlushShows ==
    ASSUME NEW w, Fit(w, {}), Apart(w), NEW fd \in Fd, w.open[fd] # None, ~full, MirrorAt(w, fd),
           NEW r \in u_st_wflush(w, Index(w, fd))
    PROVE  FlushSeen(w, r, fd)
  <1>1. FlushStep(w, r, {}, fd)
    BY WflushKeeps
  <1>t. PICK t : t = InSlot(w, fd)
    OBVIOUS
  <1>u. PICK u : u = InSlot(r.w, fd)
    OBVIOUS
  <1>f. PICK f : f = w.open[fd].file
    OBVIOUS
  <1>2. t \in Slot /\ SlotFit(t) /\ t.wlen \in Nat
    BY <1>t, InSlotType, SlotParts
  <1>3. r.ok
    BY <1>1, <1>t DEF FlushStep, MirrorAt, Truthful
  <1>4. /\ Fit(r.w, {}) /\ OnlyFor(w, r.w, fd) /\ r.w.open[fd] # None /\ r.w.open[fd].file = f
        /\ r.w.open[fd].how = w.open[fd].how
        /\ u = [t EXCEPT !.wlen = 0]
    BY <1>1, <1>3, <1>t, <1>u, <1>f DEF FlushStep, OnlyFor
  <1>5. /\ u.wlen = 0 /\ Unread(u) = Unread(t) /\ PushOf(u) = PushOf(t)
        /\ u.ung = t.ung /\ u.buf = t.buf /\ u.bpos = t.bpos /\ u.ro = t.ro
    BY <1>2, <1>4, Emptier
  <1>6. Apart(r.w)
    BY <1>4, OnlyForSteady, SteadyApart
  <1>7. r.w.disk[f] = Logical(w, f)
    <2>1. Logical(w, w.open[fd].file) =
               IF InSlot(w, fd).wlen = 0 THEN w.disk[w.open[fd].file]
               ELSE Overlaid(w.disk[w.open[fd].file], At(w, fd), SubSeq(InSlot(w, fd).buf, 1, InSlot(w, fd).wlen))
      BY LogicalIs
    <2>2. r.w.disk[w.open[fd].file] =
               IF InSlot(w, fd).wlen = 0 THEN w.disk[w.open[fd].file]
               ELSE Overlaid(w.disk[w.open[fd].file], At(w, fd), SubSeq(InSlot(w, fd).buf, 1, InSlot(w, fd).wlen))
      BY <1>1, <1>3 DEF FlushStep
    <2> QED  BY <2>1, <2>2, <1>f
  <1>8. Logical(r.w, r.w.open[fd].file) = r.w.disk[f]
    <2>1. Logical(r.w, r.w.open[fd].file) =
               IF InSlot(r.w, fd).wlen = 0 THEN r.w.disk[r.w.open[fd].file]
               ELSE Overlaid(r.w.disk[r.w.open[fd].file], At(r.w, fd), SubSeq(InSlot(r.w, fd).buf, 1, InSlot(r.w, fd).wlen))
      BY <1>4, <1>6, LogicalIs
    <2> QED  BY <2>1, <1>4, <1>5, <1>u
  <1>9. r.w.open[fd].off = IF t.wlen = 0 THEN w.open[fd].off ELSE At(w, fd) + t.wlen
    BY <1>1, <1>3, <1>t DEF FlushStep
  <1>10. Unread(t) \in Nat /\ (t.wlen > 0 => Unread(t) = 0)
    BY <1>2, SlotParts DEF SlotFit, Unread
  <1>11. Position(r.w, fd) = Position(w, fd)
    <2>1. Position(r.w, fd) = r.w.open[fd].off - Unread(t)
      BY <1>5, <1>u, PositionIs
    <2>2. CASE t.wlen = 0
      <3>1. Position(w, fd) = w.open[fd].off - Unread(t)
        BY <1>t, <2>2, PositionIs
      <3> QED  BY <1>9, <2>1, <2>2, <3>1
    <2>3. CASE t.wlen > 0
      <3>1. Position(w, fd) = At(w, fd) + t.wlen
        BY <1>t, <2>3, PositionIs
      <3>2. At(w, fd) + t.wlen \in Nat
        BY <1>2, AtFits
      <3> QED  BY <1>9, <1>10, <2>1, <2>3, <3>1, <3>2
    <2> QED  BY <1>2, <2>2, <2>3
  <1>12. MirrorAt(r.w, fd)
    <2>1. CASE t.wlen = 0
      <3>1. Unread(t) > 0 => r.w.open[fd].how.rd /\ Unread(t) < r.w.open[fd].off
        BY <1>4, <1>9, <1>t, <2>1 DEF MirrorAt, Truthful
      <3>2. r.w.disk[f] = w.disk[f]
        BY <1>1, <1>3, <1>f, <1>t, <2>1 DEF FlushStep
      <3>3. \A j \in 1 .. Unread(t) : t.buf[t.bpos + j] = r.w.disk[f][r.w.open[fd].off - Unread(t) + j]
        BY <1>9, <1>f, <1>t, <2>1, <3>2 DEF MirrorAt, Truthful
      <3>4. (t.ung # None => r.w.open[fd].how.rd) /\ t.ro = ~r.w.open[fd].how.wr
        BY <1>4, <1>t DEF MirrorAt, Truthful
      <3>5. Truthful(r.w.disk[f], r.w.open[fd], u)
        BY <1>5, <3>1, <3>3, <3>4 DEF Truthful
      <3> QED  BY <1>4, <1>u, <3>5 DEF MirrorAt
    <2>2. CASE t.wlen > 0
      <3>1. Unread(u) = 0
        BY <1>5, <1>10, <2>2
      <3>2. (t.ung # None => r.w.open[fd].how.rd) /\ t.ro = ~r.w.open[fd].how.wr
        BY <1>4, <1>t DEF MirrorAt, Truthful
      <3>3. ~(Unread(u) > 0) /\ ~(u.wlen > 0) /\ 1 .. Unread(u) = {}
        BY <1>5, <3>1
      <3>4. (u.ung # None => r.w.open[fd].how.rd) /\ u.ro = ~r.w.open[fd].how.wr
        BY <1>5, <3>2
      <3>5. Truthful(r.w.disk[f], r.w.open[fd], u)
        BY <3>3, <3>4 DEF Truthful
      <3> QED  BY <1>4, <1>u, <3>5 DEF MirrorAt
    <2> QED  BY <1>2, <2>1, <2>2
  <1>13. View(r.w, fd, Logical(w, f), Position(w, fd), PushOf(InSlot(w, fd)))
    BY <1>5, <1>7, <1>8, <1>11, <1>12, <1>t, <1>u DEF View
  <1> QED  BY <1>3, <1>4, <1>5, <1>6, <1>7, <1>13, <1>f, <1>u DEF FlushSeen

\* What the program sees of the stream is what it saw.
StillSeen(fd, v) ==
    View(v, fd, Logical(Lib, open[fd].file), Position(Lib, fd), PushOf(InSlot(Lib, fd)))

LEMMA SlotShows ==
    ASSUME StdioInv, Mirrors(Lib), NEW fd \in Streams
    PROVE  /\ Fit(u_st_slot(Lib, fd), {}) /\ OnlyFor(Lib, u_st_slot(Lib, fd), fd)
           /\ Apart(u_st_slot(Lib, fd)) /\ StillSeen(fd, u_st_slot(Lib, fd))
           /\ u_st_slot(Lib, fd).open[fd] # None
  <1>v. PICK v : v = u_st_slot(Lib, fd)
    OBVIOUS
  <1>1. /\ Fit(v, {}) /\ OnlyFor(Lib, v, fd) /\ v.open[fd] # None /\ v.disk = Lib.disk /\ v.open = Lib.open
        /\ InSlot(v, fd) = InSlot(Lib, fd) /\ fd \in Fd /\ Lib.open[fd] # None /\ Lib.open = open
    BY <1>v, ScopeParts, SlotTakenOnly, StreamIsOpen DEF StdioInv, Lib
  <1>2. Apart(v)
    BY <1>1, OnlyForSteady, SteadyApart DEF StdioInv
  <1>3. At(v, fd) = At(Lib, fd)
    BY <1>1 DEF At
  <1>4. Position(v, fd) = Position(Lib, fd)
    BY <1>1, <1>3, PositionIs
  <1>5. Logical(v, v.open[fd].file) = Logical(Lib, open[fd].file)
    <2>1. Fit(Lib, {}) /\ Apart(Lib)
      BY DEF StdioInv
    <2>f. PICK f : f = open[fd].file
      OBVIOUS
    <2>2. Logical(Lib, f) = IF InSlot(Lib, fd).wlen = 0 THEN Lib.disk[f]
              ELSE Overlaid(Lib.disk[f], At(Lib, fd), SubSeq(InSlot(Lib, fd).buf, 1, InSlot(Lib, fd).wlen))
      BY <1>1, <2>1, <2>f, LogicalIs
    <2>3. Logical(v, f) = IF InSlot(v, fd).wlen = 0 THEN v.disk[f]
              ELSE Overlaid(v.disk[f], At(v, fd), SubSeq(InSlot(v, fd).buf, 1, InSlot(v, fd).wlen))
      BY <1>1, <1>2, <2>f, LogicalIs
    <2> QED  BY <1>1, <1>3, <2>2, <2>3, <2>f
  <1>6. MirrorAt(v, fd)
    BY <1>1 DEF MirrorAt, Mirrors
  <1>7. StillSeen(fd, v)
    BY <1>1, <1>4, <1>5, <1>6 DEF StillSeen, View
  <1> QED  BY <1>1, <1>2, <1>7, <1>v

FlushedSeen(fd, r) ==
    /\ Ready(fd, r.w) /\ r.ok /\ StillSeen(fd, r.w)
    /\ r.w.disk[open[fd].file] = Logical(Lib, open[fd].file) /\ r.w.open[fd].file = open[fd].file
    /\ r.w.open[fd].how = open[fd].how

LEMMA FlushingShows ==
    ASSUME StdioInv, Mirrors(Lib), ~full, NEW fd \in Streams,
           NEW r \in u_st_wflush(u_st_slot(Lib, fd), Index(u_st_slot(Lib, fd), fd))
    PROVE  FlushedSeen(fd, r)
  <1>v. PICK v : v = u_st_slot(Lib, fd)
    OBVIOUS
  <1>1. /\ Fit(v, {}) /\ OnlyFor(Lib, v, fd) /\ Apart(v) /\ StillSeen(fd, v) /\ v.open[fd] # None
        /\ fd \in Fd /\ Lib.open = open
    BY <1>v, SlotShows, StreamIsOpen DEF Lib
  <1>2. FlushSeen(v, r, fd)
    BY <1>1, <1>v, FlushShows DEF StillSeen, View
  <1>3. v.open[fd].file = open[fd].file /\ v.open[fd].how = open[fd].how
    BY <1>1 DEF OnlyFor
  <1>4. StillSeen(fd, r.w)
    BY <1>1, <1>2, <1>3 DEF FlushSeen, StillSeen, View
  <1>5. Ready(fd, r.w)
    BY <1>v, Flushing
  <1>6. r.w.disk[open[fd].file] = Logical(Lib, open[fd].file)
    BY <1>1, <1>2, <1>3 DEF FlushSeen, StillSeen, View
  <1>7. r.w.open[fd].file = open[fd].file /\ r.w.open[fd].how = open[fd].how
    BY <1>1, <1>5 DEF Ready, OnlyFor
  <1> QED  BY <1>2, <1>4, <1>5, <1>6, <1>7 DEF FlushSeen, FlushedSeen

-----------------------------------------------------------------------------
(* From what is seen after a call to the action of CStream.                  *)

\* A step of CStream, after which the slots are truthful.
Faithful == Seen!Next /\ Mirrors(Lib')

LEMMA PushType ==
    ASSUME NEW t \in Slot
    PROVE  PushOf(t) \in Seq(Byte) /\ Len(PushOf(t)) = Pushed(t) /\ (t.ung # None => PushOf(t) = <<t.ung>>)
  BY SlotParts DEF PushOf, Pushed

LEMMA SeenRecord ==
    ASSUME StdioInv, NEW fd \in Streams
    PROVE  SeenStream[fd] # None /\ Position(Lib, fd) \in Int
  <1>1. Fit(Lib, {}) /\ fd \in Fd /\ Lib.open[fd] # None /\ Lib.open = open
    BY StreamIsOpen DEF StdioInv, Lib
  <1>2. InSlot(Lib, fd) \in Slot /\ InSlot(Lib, fd).wlen \in Nat /\ Unread(InSlot(Lib, fd)) \in Int
    BY <1>1, InSlotType, SlotParts DEF Unread
  <1>3. At(Lib, fd) \in Nat /\ Lib.open[fd] \in OpenFile
    BY <1>1, AtFits
  <1>4. Lib.open[fd].off \in Nat /\ open[fd].file \in File /\ open[fd].how \in Modes
    BY <1>1, <1>3, OpenFileParts DEF Modes
  <1>5. Position(Lib, fd) \in Int
    BY <1>2, <1>3, <1>4, PositionIs
  <1>6. PushOf(InSlot(Lib, fd)) \in Seq(Byte)
    BY <1>2, PushType
  <1>7. SeenStream[fd] \in [file : File, how : Modes, pos : Int, push : Seq(Byte)]
    <2> PICK f, h, p, u : f = open[fd].file /\ h = open[fd].how /\ p = Position(Lib, fd) /\ u = PushOf(InSlot(Lib, fd))
      OBVIOUS
    <2>1. SeenStream[fd] = [file |-> f, how |-> h, pos |-> p, push |-> u]
      BY NowIs
    <2>2. f \in File /\ h \in Modes /\ p \in Int /\ u \in Seq(Byte)
      BY <1>4, <1>5, <1>6
    <2> QED  BY <2>1, <2>2
  <1> QED  BY <1>5, <1>7, StdioAssumption

LEMMA NextOfStream ==
    ASSUME StdioInv, NEW fd \in Streams,
           \/ Seen!Refuse(fd) \/ Seen!Tell(fd) \/ Seen!Close(fd)
           \/ \E p \in scope.data : Seen!Write(fd, p)
           \/ \E n \in scope.counts \union {1} : Seen!Read(fd, n)
           \/ \E c \in scope.push : Seen!Unget(fd, c)
           \/ \E k \in scope.seeks \union {<<"set", 0>>} : Seen!Seek(fd, k)
    PROVE  Seen!Next
  <1>1. fd \in {t \in Fd : SeenStream[t] # None}
    BY SeenRecord, StreamIsOpen
  <1>s. scope \in Scopes
    BY DEF StdioInv
  <1>2. \A x : (x \in scope.data => x \in UNION {s.data : s \in Scopes})
    BY <1>s
  <1>3. \A x : (x \in scope.counts \union {1} => x \in (UNION {s.counts : s \in Scopes}) \union {1})
    BY <1>s
  <1>4. \A x : (x \in scope.push => x \in UNION {s.push : s \in Scopes})
    BY <1>s
  <1>5. \A x : (x \in scope.seeks \union {<<"set", 0>>} => x \in (UNION {s.seeks : s \in Scopes}) \union {<<"set", 0>>})
    BY <1>s
  <1>6. \/ Seen!Refuse(fd) \/ Seen!Tell(fd) \/ Seen!Close(fd)
        \/ \E p \in UNION {s.data : s \in Scopes} : Seen!Write(fd, p)
        \/ \E n \in (UNION {s.counts : s \in Scopes}) \union {1} : Seen!Read(fd, n)
        \/ \E c \in UNION {s.push : s \in Scopes} : Seen!Unget(fd, c)
        \/ \E k \in (UNION {s.seeks : s \in Scopes}) \union {<<"set", 0>>} : Seen!Seek(fd, k)
    BY Zenon, <1>2, <1>3, <1>4, <1>5
  <1> QED  BY Zenon, <1>1, <1>6 DEF Seen!Next, SeenStream

LEMMA NextAlone ==
    ASSUME Seen!Exit \/ Seen!Ask
    PROVE  Seen!Next
  BY Zenon DEF Seen!Next

LEMMA NextOpen ==
    ASSUME NEW fd \in Fd, NEW f \in File, NEW h, \E m \in scope.modes : h = How(m), scope \in Scopes,
           Seen!Open(fd, f, h)
    PROVE  Seen!Next
  <1>1. h \in {How(m) : m \in UNION {s.modes : s \in Scopes}}
    OBVIOUS
  <1>2. f \in DOMAIN [g \in File |-> Logical(Lib, g)]
    OBVIOUS
  <1> QED  BY Zenon, <1>1, <1>2 DEF Seen!Next

LEMMA Unmoved ==
    ASSUME StdioInv, NEW fd \in Streams,
           Viewing(fd, Logical(Lib, open[fd].file), Position(Lib, fd), PushOf(InSlot(Lib, fd)))
    PROVE  SeenContent' = SeenContent /\ SeenStream' = SeenStream /\ Mirrors(Lib')
  <1>f. PICK f, h, p, u : f = open[fd].file /\ h = open[fd].how /\ p = Position(Lib, fd) /\ u = PushOf(InSlot(Lib, fd))
    OBVIOUS
  <1>1. /\ SeenStream[fd] = [file |-> f, how |-> h, pos |-> p, push |-> u]
        /\ f \in File /\ SeenContent[f] = Logical(Lib, f) /\ fd \in Fd
    BY <1>f, NowIs
  <1>2. SeenContent' = [SeenContent EXCEPT ![f] = Logical(Lib, f)]
    BY <1>f DEF Viewing
  <1>3. SeenStream' = StreamPut(SeenStream, fd, p, u)
    BY <1>f DEF Viewing, StreamPut
  <1>T. PICK T : T = {SeenStream[x] : x \in Fd}
    OBVIOUS
  <1>4. SeenStream \in [Fd -> T]
    BY <1>T DEF SeenStream
  <1>5. SeenStream' = [SeenStream EXCEPT ![fd] = [file |-> f, how |-> h, pos |-> p, push |-> u]]
    BY <1>1, <1>3, <1>4, RecordMoved
  <1>6. SeenStream' = SeenStream
    BY <1>1, <1>4, <1>5
  <1>7. SeenContent' = SeenContent
    BY <1>1, <1>2 DEF SeenContent
  <1> QED  BY <1>6, <1>7 DEF Viewing

\* Where the stream stands, and where a write lands.
Spot(fd) == Position(Lib, fd) - Pushed(InSlot(Lib, fd))
Landing(fd) ==
    IF open[fd].how.append THEN Len(Logical(Lib, open[fd].file))
    ELSE IF Spot(fd) < 0 THEN 0 ELSE Spot(fd)

LEMMA NowParts ==
    ASSUME StdioInv, NEW fd \in Streams
    PROVE  /\ SeenStream[fd].file = open[fd].file /\ SeenStream[fd].how = open[fd].how
           /\ SeenStream[fd].pos = Position(Lib, fd) /\ SeenStream[fd].push = PushOf(InSlot(Lib, fd))
           /\ SeenStream[fd].pos - Len(SeenStream[fd].push) = Spot(fd)
           /\ SeenContent[open[fd].file] = Logical(Lib, open[fd].file)
  <1>1. SeenStream[fd] = [file |-> open[fd].file, how |-> open[fd].how, pos |-> Position(Lib, fd),
                          push |-> PushOf(InSlot(Lib, fd))]
    BY NowIs
  <1>2. /\ SeenStream[fd].file = open[fd].file /\ SeenStream[fd].how = open[fd].how
        /\ SeenStream[fd].pos = Position(Lib, fd) /\ SeenStream[fd].push = PushOf(InSlot(Lib, fd))
    BY <1>1
  <1>3. InSlot(Lib, fd) \in Slot
    BY InSlotType, StreamIsOpen DEF StdioInv
  <1>4. Len(PushOf(InSlot(Lib, fd))) = Pushed(InSlot(Lib, fd))
    BY <1>3, PushType
  <1> QED  BY <1>2, <1>4, NowIs DEF Spot

LEMMA AskSeen ==
    ASSUME StdioInv, NEW fd \in Streams, answer' = <<"ask">>,
           Viewing(fd, Logical(Lib, open[fd].file), Position(Lib, fd), PushOf(InSlot(Lib, fd)))
    PROVE  Faithful
  BY Unmoved, AskIs, NextAlone DEF Faithful

LEMMA TellSeen ==
    ASSUME StdioInv, NEW fd \in Streams, answer' = <<"tell", Spot(fd)>>,
           Viewing(fd, Logical(Lib, open[fd].file), Position(Lib, fd), PushOf(InSlot(Lib, fd)))
    PROVE  Faithful
  <1>1. Seen!Tell(fd)
    BY Unmoved, TellIs, NowParts
  <1> QED  BY <1>1, Unmoved, NextOfStream DEF Faithful

LEMMA RefuseSeen ==
    ASSUME StdioInv, NEW fd \in Streams, answer' = <<"write", 0>>, ~open[fd].how.wr,
           Viewing(fd, Logical(Lib, open[fd].file), Position(Lib, fd), PushOf(InSlot(Lib, fd)))
    PROVE  Faithful
  <1>1. Seen!Refuse(fd)
    BY Unmoved, RefuseIs, NowParts
  <1> QED  BY <1>1, Unmoved, NextOfStream DEF Faithful

LEMMA WriteSeen ==
    ASSUME StdioInv, NEW fd \in Streams, NEW p \in scope.data, answer' = <<"write", Len(p)>>, open[fd].how.wr,
           Viewing(fd, Overlaid(Logical(Lib, open[fd].file), Landing(fd), p), Landing(fd) + Len(p), <<>>)
    PROVE  Faithful
  <1>1. WritesAs(SeenContent, SeenStream, SeenContent', SeenStream', fd, p)
    BY NowParts DEF WritesAs, Viewing, Landing
  <1>2. Seen!Write(fd, p)
    BY <1>1, Translated
  <1> QED  BY <1>2, NextOfStream DEF Faithful, Viewing

\* The bytes a read of n bytes gives after the one pushed back.
Rest(fd, n) ==
    LET last == IF open[fd].how.rd THEN Position(Lib, fd) + n - Len(PushOf(InSlot(Lib, fd))) ELSE Position(Lib, fd)
        c == Logical(Lib, open[fd].file)
    IN SubSeq(c, Position(Lib, fd) + 1, IF last > Len(c) THEN Len(c) ELSE last)

LEMMA ReadSeen ==
    ASSUME StdioInv, NEW fd \in Streams, NEW n \in scope.counts \union {1},
           answer' = <<"read", PushOf(InSlot(Lib, fd)) \o Rest(fd, n)>>,
           Viewing(fd, Logical(Lib, open[fd].file), Position(Lib, fd) + Len(Rest(fd, n)), <<>>)
    PROVE  Faithful
  <1>1. SeenContent' = SeenContent
    <2>1. SeenContent' = [SeenContent EXCEPT ![open[fd].file] = SeenContent[open[fd].file]]
      BY NowParts DEF Viewing
    <2> QED  BY <2>1 DEF SeenContent
  <1>2. ReadsAs(SeenContent, SeenStream, SeenContent', SeenStream', fd, n)
    BY <1>1, NowParts DEF ReadsAs, Viewing, Rest
  <1>3. Seen!Read(fd, n)
    BY <1>2, Translated
  <1> QED  BY <1>3, NextOfStream DEF Faithful, Viewing

LEMMA UngetSeen ==
    ASSUME StdioInv, NEW fd \in Streams, NEW c \in scope.push, answer' = <<"unget", c>>,
           Viewing(fd, Logical(Lib, open[fd].file), Position(Lib, fd), <<c>>)
    PROVE  Faithful
  <1>1. SeenContent' = SeenContent
    <2>1. SeenContent' = [SeenContent EXCEPT ![open[fd].file] = SeenContent[open[fd].file]]
      BY NowParts DEF Viewing
    <2> QED  BY <2>1 DEF SeenContent
  <1>2. SeenStream' = [SeenStream EXCEPT ![fd].push = <<c>>]
    <2>1. SeenStream' = [SeenStream EXCEPT ![fd].pos = SeenStream[fd].pos, ![fd].push = <<c>>]
      BY NowParts DEF Viewing
    <2>T. PICK T : T = {SeenStream[x] : x \in Fd}
      OBVIOUS
    <2>2. SeenStream \in [Fd -> T]
      BY <2>T DEF SeenStream
    <2>3. [SeenStream EXCEPT ![fd].pos = SeenStream[fd].pos] = SeenStream
      <3>f. PICK f, h, p, u : f = open[fd].file /\ h = open[fd].how /\ p = Position(Lib, fd) /\ u = PushOf(InSlot(Lib, fd))
        OBVIOUS
      <3>1. SeenStream[fd] = [file |-> f, how |-> h, pos |-> p, push |-> u]
        BY <3>f, NowIs
      <3>2. [SeenStream[fd] EXCEPT !.pos = SeenStream[fd].pos] = SeenStream[fd]
        BY <3>1
      <3> QED  BY <2>2, <3>2
    <2> QED  BY <2>1, <2>3
  <1>3. Seen!Unget(fd, c)
    BY <1>1, <1>2, UngetIs
  <1> QED  BY <1>3, NextOfStream DEF Faithful, Viewing

\* Where a move leads.
Aim(fd, k) ==
    k[2] + (CASE k[1] = "set" -> 0
              [] k[1] = "cur" -> Spot(fd)
              [] k[1] = "end" -> Len(Logical(Lib, open[fd].file)))

LEMMA SeekSeen ==
    ASSUME StdioInv, NEW fd \in Streams, NEW k \in scope.seeks \union {<<"set", 0>>}, NEW a,
           Aim(fd, k) >= 0 => a = Aim(fd, k),
           answer' = <<"seek", IF Aim(fd, k) < 0 THEN -1 ELSE 0>>, Aim(fd, k) \in Int,
           Viewing(fd, Logical(Lib, open[fd].file), a, <<>>)
    PROVE  Faithful
  <1>1. SeenContent' = SeenContent
    <2>1. SeenContent' = [SeenContent EXCEPT ![open[fd].file] = SeenContent[open[fd].file]]
      BY NowParts DEF Viewing
    <2> QED  BY <2>1 DEF SeenContent
  <1>2. SeenStream' = [SeenStream EXCEPT ![fd].pos = a, ![fd].push = <<>>]
    BY DEF Viewing
  <1>T. PICK T : T = {SeenStream[x] : x \in Fd}
    OBVIOUS
  <1>3. SeenStream \in [Fd -> T]
    BY <1>T DEF SeenStream
  <1>f. PICK f, h, p, u : f = open[fd].file /\ h = open[fd].how /\ p = Position(Lib, fd) /\ u = PushOf(InSlot(Lib, fd))
    OBVIOUS
  <1>4. SeenStream[fd] = [file |-> f, how |-> h, pos |-> p, push |-> u] /\ fd \in Fd
    BY <1>f, NowIs
  <1>5. SeenStream' = [SeenStream EXCEPT ![fd] = [file |-> f, how |-> h, pos |-> a, push |-> <<>>]]
    BY <1>2, <1>f, StreamPutIs DEF StreamPut
  <1>6. SeenStream'[fd].pos = a
    BY <1>3, <1>4, <1>5
  <1>7. a = IF Aim(fd, k) < 0 THEN SeenStream'[fd].pos ELSE Aim(fd, k)
    BY <1>6
  <1>8. SeenStream' = [SeenStream EXCEPT ![fd].push = <<>>, ![fd].pos = a]
    <2>1. [[SeenStream EXCEPT ![fd].push = <<>>] EXCEPT ![fd].pos = a]
              = [SeenStream EXCEPT ![fd] = [file |-> f, how |-> h, pos |-> a, push |-> <<>>]]
      <3>s. PICK z : z = [[SeenStream EXCEPT ![fd].push = <<>>] EXCEPT ![fd].pos = a]
        OBVIOUS
      <3>1. DOMAIN z = Fd /\ z = [x \in Fd |-> z[x]] /\ (\A x \in Fd \ {fd} : z[x] = SeenStream[x])
        BY <1>3, <3>s
      <3>2. z[fd] = [[SeenStream[fd] EXCEPT !.push = <<>>] EXCEPT !.pos = a]
        BY <1>3, <1>4, <3>s
      <3>3. z[fd] = [file |-> f, how |-> h, pos |-> a, push |-> <<>>]
        <4>1. [SeenStream[fd] EXCEPT !.push = <<>>] = [file |-> f, how |-> h, pos |-> p, push |-> <<>>]
          BY <1>4
        <4>2. [[file |-> f, how |-> h, pos |-> p, push |-> <<>>] EXCEPT !.pos = a]
                  = [file |-> f, how |-> h, pos |-> a, push |-> <<>>]
          OBVIOUS
        <4> QED  BY <3>2, <4>1, <4>2
      <3> QED  BY <1>3, <1>4, <3>1, <3>3, <3>s
    <2> QED  BY <1>5, <2>1
  <1>9. SeeksAs(SeenContent, SeenStream, SeenContent', SeenStream', fd, k)
    <2>1. Aim(fd, k) = k[2] + (CASE k[1] = "set" -> 0
                                 [] k[1] = "cur" -> SeenStream[fd].pos - Len(SeenStream[fd].push)
                                 [] k[1] = "end" -> Len(SeenContent[SeenStream[fd].file]))
      BY NowParts DEF Aim
    <2> QED  BY <1>1, <1>7, <1>8, <2>1 DEF SeeksAs
  <1>10. Seen!Seek(fd, k)
    BY <1>9, Translated
  <1> QED  BY <1>10, NextOfStream DEF Faithful, Viewing

-----------------------------------------------------------------------------
(* Writing is seen as one write.                                             *)

LEMMA Plain ==
    ASSUME NEW w, Fit(w, {}), Apart(w), NEW fd \in Fd, w.open[fd] # None, InSlot(w, fd).wlen = 0
    PROVE  /\ Logical(w, w.open[fd].file) = w.disk[w.open[fd].file]
           /\ Position(w, fd) = w.open[fd].off - Unread(InSlot(w, fd))
  <1>1. Logical(w, w.open[fd].file) =
               IF InSlot(w, fd).wlen = 0 THEN w.disk[w.open[fd].file]
               ELSE Overlaid(w.disk[w.open[fd].file], At(w, fd), SubSeq(InSlot(w, fd).buf, 1, InSlot(w, fd).wlen))
    BY LogicalIs
  <1>2. ~(InSlot(w, fd).wlen > 0)
    OBVIOUS
  <1> QED  BY <1>1, <1>2, PositionIs

LEMMA Waiting ==
    ASSUME NEW w, Fit(w, {}), Apart(w), NEW fd \in Fd, w.open[fd] # None, InSlot(w, fd).wlen # 0
    PROVE  /\ Logical(w, w.open[fd].file) =
                  Overlaid(w.disk[w.open[fd].file], At(w, fd), SubSeq(InSlot(w, fd).buf, 1, InSlot(w, fd).wlen))
           /\ Position(w, fd) = At(w, fd) + InSlot(w, fd).wlen
           /\ InSlot(w, fd).wlen > 0 /\ Unread(InSlot(w, fd)) = 0 /\ Pushed(InSlot(w, fd)) = 0
           /\ SubSeq(InSlot(w, fd).buf, 1, InSlot(w, fd).wlen) \in Seq(Byte)
           /\ Len(SubSeq(InSlot(w, fd).buf, 1, InSlot(w, fd).wlen)) = InSlot(w, fd).wlen
  <1>t. PICK t : t = InSlot(w, fd)
    OBVIOUS
  <1>1. Logical(w, w.open[fd].file) =
               IF InSlot(w, fd).wlen = 0 THEN w.disk[w.open[fd].file]
               ELSE Overlaid(w.disk[w.open[fd].file], At(w, fd), SubSeq(InSlot(w, fd).buf, 1, InSlot(w, fd).wlen))
    BY LogicalIs
  <1>2. t \in Slot /\ SlotFit(t) /\ t.wlen \in Nat /\ t.buf \in Seq(Byte) /\ t.wlen # 0 /\ t.bpos \in Nat
    BY <1>t, InSlotType, SlotParts
  <1>3. t.wlen > 0 /\ Unread(t) = 0 /\ Pushed(t) = 0 /\ t.wlen \in 0 .. Len(t.buf)
    BY <1>2 DEF SlotFit, Unread, Pushed
  <1>4. SubSeq(t.buf, 1, t.wlen) \in Seq(Byte) /\ Len(SubSeq(t.buf, 1, t.wlen)) = t.wlen
    BY <1>2, <1>3, PrefixType
  <1> QED  BY <1>1, <1>3, <1>4, <1>t, PositionIs

LEMMA UnreadType ==
    ASSUME NEW w, NEW X, Fit(w, X), NEW fd \in Fd
    PROVE  /\ Unread(InSlot(w, fd)) \in Nat /\ Pushed(InSlot(w, fd)) \in {0, 1} /\ InSlot(w, fd).wlen \in Nat
           /\ InSlot(w, fd).wlen <= Len(InSlot(w, fd).buf) /\ InSlot(w, fd) \in Slot /\ SlotFit(InSlot(w, fd))
           /\ (InSlot(w, fd).wlen > 0 => Unread(InSlot(w, fd)) = 0 /\ InSlot(w, fd).ung = None
                                         /\ Pushed(InSlot(w, fd)) = 0)
  <1>t. PICK t : t = InSlot(w, fd)
    OBVIOUS
  <1>1. t \in Slot /\ SlotFit(t)
    BY <1>t, InSlotType
  <1>2. t.wlen \in Nat /\ t.bpos \in Nat /\ t.blen \in Nat /\ Pushed(t) \in {0, 1}
    BY <1>1, SlotParts
  <1> QED  BY <1>1, <1>2, <1>t DEF SlotFit, Unread, Pushed

\* Where a stream stands, and where a write through it lands.
SpotIn(w, fd) == Position(w, fd) - Pushed(InSlot(w, fd))
LandingIn(w, fd, c) == IF w.open[fd].how.append THEN Len(c) ELSE IF SpotIn(w, fd) < 0 THEN 0 ELSE SpotIn(w, fd)

\* What is given back to the descriptor leaves the stream where it stood.
LEMMA BackShows ==
    ASSUME NEW w, Fit(w, {}), Apart(w), NEW fd \in Fd, w.open[fd] # None, Index(w, fd) # 0, MirrorAt(w, fd),
           NEW v, BackStep(w, v, {}, fd)
    PROVE  View(v, fd, Logical(w, w.open[fd].file), IF SpotIn(w, fd) < 0 THEN 0 ELSE SpotIn(w, fd), <<>>)
  <1>t. PICK t : t = InSlot(w, fd)
    OBVIOUS
  <1>u. PICK u : u = InSlot(v, fd)
    OBVIOUS
  <1>f. PICK f : f = w.open[fd].file
    OBVIOUS
  <1>o. PICK o : o = w.open[fd].off
    OBVIOUS
  <1>1. /\ t \in Slot /\ SlotFit(t) /\ t.wlen \in Nat /\ Unread(t) \in Nat /\ Pushed(t) \in {0, 1}
        /\ (t.wlen > 0 => Unread(t) = 0 /\ Pushed(t) = 0)
    BY <1>t, UnreadType
  <1>2. o \in Nat /\ At(w, fd) \in Nat
    BY <1>o, AtFits, OpenFileParts
  <1>3. /\ Fit(v, {}) /\ OnlyFor(w, v, fd) /\ v.disk = w.disk /\ u = Dropped(t)
        /\ v.open[fd] # None /\ v.open[fd].file = f /\ v.open[fd].how = w.open[fd].how
        /\ v.open[fd].off = IF Stands(w, fd) < 0 THEN o ELSE Stands(w, fd)
    BY <1>t, <1>u, <1>f, <1>o DEF BackStep, OnlyFor
  <1>4. Apart(v)
    BY <1>3, OnlyForSteady, SteadyApart
  <1>5. /\ u.bpos = 0 /\ u.blen = 0 /\ u.ung = None /\ u.wlen = t.wlen /\ u.buf = t.buf /\ u.ro = t.ro
        /\ Unread(u) = 0 /\ PushOf(u) = <<>>
    BY <1>1, <1>3, DroppedSlot DEF Unread, PushOf
  <1>6. Stands(w, fd) = o - Unread(t) - Pushed(t)
    BY <1>o, <1>t DEF Stands
  <1>7. Truthful(w.disk[f], w.open[fd], t)
    BY <1>f, <1>t DEF MirrorAt
  <1>8. Stands(w, fd) < 0 => o = 0 /\ t.wlen = 0
    BY <1>1, <1>2, <1>6, <1>7, <1>o DEF Truthful
  <1>9. MirrorAt(v, fd)
    <2>1. Truthful(v.disk[f], v.open[fd], u)
      BY <1>3, <1>5, <1>7 DEF Truthful
    <2> QED  BY <1>3, <1>u, <2>1 DEF MirrorAt
  <1>10. CASE t.wlen = 0
    <2>1. Logical(w, w.open[fd].file) = w.disk[f] /\ Position(w, fd) = o - Unread(t)
      BY <1>f, <1>o, <1>t, <1>10, Plain
    <2>2. Logical(v, v.open[fd].file) = w.disk[f] /\ Position(v, fd) = v.open[fd].off - Unread(u)
      BY <1>3, <1>4, <1>5, <1>u, <1>10, Plain
    <2>3. SpotIn(w, fd) = Stands(w, fd) /\ Stands(w, fd) \in Int
      BY <1>1, <1>2, <1>6, <1>t, <2>1 DEF SpotIn
    <2>4. Position(v, fd) = IF SpotIn(w, fd) < 0 THEN 0 ELSE SpotIn(w, fd)
      BY <1>2, <1>3, <1>5, <1>8, <2>2, <2>3
    <2> QED  BY <1>3, <1>5, <1>9, <1>u, <2>1, <2>2, <2>4 DEF View
  <1>11. CASE t.wlen # 0
    <2>1. At(v, fd) = At(w, fd)
      BY <1>1, <1>2, <1>3, <1>6, <1>8, <1>f, <1>o, <1>11 DEF At
    <2>2. /\ Logical(w, w.open[fd].file) = Overlaid(w.disk[f], At(w, fd), SubSeq(t.buf, 1, t.wlen))
          /\ Position(w, fd) = At(w, fd) + t.wlen
      BY <1>f, <1>t, <1>11, Waiting
    <2>3. /\ Logical(v, v.open[fd].file) = Overlaid(w.disk[f], At(w, fd), SubSeq(t.buf, 1, t.wlen))
          /\ Position(v, fd) = At(w, fd) + t.wlen
      <3>1. /\ Logical(v, v.open[fd].file) = Overlaid(v.disk[f], At(v, fd), SubSeq(u.buf, 1, u.wlen))
            /\ Position(v, fd) = At(v, fd) + u.wlen
        BY <1>3, <1>4, <1>5, <1>u, <1>11, Waiting
      <3> QED  BY <1>3, <1>5, <2>1, <3>1
    <2>4. SpotIn(w, fd) = At(w, fd) + t.wlen /\ ~(SpotIn(w, fd) < 0)
      BY <1>1, <1>2, <1>t, <1>11, <2>2 DEF SpotIn
    <2> QED  BY <1>3, <1>5, <1>9, <1>u, <2>2, <2>3, <2>4 DEF View
  <1> QED  BY <1>10, <1>11

\* p goes through a stream whose slot has nothing to read.
LEMMA RawShows ==
    ASSUME NEW u, Fit(u, {}), Apart(u), NEW fd \in Fd, u.open[fd] # None, InSlot(u, fd).wlen = 0,
           ~full, u.open[fd].how.wr, MirrorAt(u, fd), NEW p \in Seq(Byte), p # <<>>,
           Unread(InSlot(u, fd)) = 0, InSlot(u, fd).ung = None, NEW r \in u_st_raw(u, fd, p)
    PROVE  /\ r.n = Len(p)
           /\ View(r.w, fd, Overlaid(Logical(u, u.open[fd].file), LandingIn(u, fd, Logical(u, u.open[fd].file)), p),
                   LandingIn(u, fd, Logical(u, u.open[fd].file)) + Len(p), <<>>)
  <1>t. PICK t : t = InSlot(u, fd)
    OBVIOUS
  <1>f. PICK f : f = u.open[fd].file
    OBVIOUS
  <1>1. RawStep(u, r, {}, fd, p)
    BY RawKeeps
  <1>2. /\ Fit(r.w, {}) /\ OnlyFor(u, r.w, fd) /\ r.n = Len(p) /\ InSlot(r.w, fd) = t
        /\ r.w.open[fd] # None /\ r.w.open[fd].file = f /\ r.w.open[fd].how = u.open[fd].how
    BY <1>1, <1>f, <1>t DEF RawStep, OnlyFor
  <1>3. Apart(r.w)
    BY <1>2, OnlyForSteady, SteadyApart
  <1>4. Len(p) \in Nat /\ Len(p) # 0 /\ SubSeq(p, 1, Len(p)) = p
    OBVIOUS
  <1>5. r.w.disk[f] = Overlaid(u.disk[f], At(u, fd), p) /\ r.w.open[fd].off = At(u, fd) + Len(p)
    BY <1>1, <1>2, <1>4, <1>f DEF RawStep
  <1>6. At(u, fd) \in Nat /\ u.open[fd].off \in Nat
    BY AtFits, OpenFileParts
  <1>7. Logical(u, u.open[fd].file) = u.disk[f] /\ Position(u, fd) = u.open[fd].off
    BY <1>6, <1>f, Plain
  <1>8. LandingIn(u, fd, u.disk[f]) = At(u, fd)
    <2>1. Pushed(t) = 0
      BY <1>t DEF Pushed
    <2>2. SpotIn(u, fd) = u.open[fd].off
      BY <1>6, <1>7, <1>t, <2>1 DEF SpotIn
    <2> QED  BY <1>6, <1>f, <2>2 DEF LandingIn, At
  <1>9. Logical(r.w, r.w.open[fd].file) = r.w.disk[f] /\ Position(r.w, fd) = r.w.open[fd].off - Unread(t)
    BY <1>2, <1>3, <1>t, Plain
  <1>10. Position(r.w, fd) = At(u, fd) + Len(p)
    BY <1>4, <1>5, <1>6, <1>9, <1>t
  <1>11. PushOf(t) = <<>>
    BY <1>t DEF PushOf
  <1>12. MirrorAt(r.w, fd)
    <2>1. Truthful(u.disk[f], u.open[fd], t)
      BY <1>f, <1>t DEF MirrorAt
    <2>2. ~(Unread(t) > 0) /\ 1 .. Unread(t) = {} /\ ~(t.wlen > 0) /\ t.ung = None
      BY <1>t
    <2>3. Truthful(r.w.disk[f], r.w.open[fd], t)
      BY <1>2, <2>1, <2>2 DEF Truthful
    <2> QED  BY <1>2, <2>3 DEF MirrorAt
  <1> QED  BY <1>2, <1>5, <1>7, <1>8, <1>9, <1>10, <1>11, <1>12 DEF View

LEMMA FillShows ==
    ASSUME NEW u, Fit(u, {}), Apart(u), NEW fd \in Fd, u.open[fd] # None, u.open[fd].how.wr, MirrorAt(u, fd),
           NEW p \in Seq(Byte), p # <<>>, Clear(InSlot(u, fd)), NEW v, FillStep(u, v, {}, fd, p)
    PROVE  View(v, fd, Overlaid(Logical(u, u.open[fd].file), LandingIn(u, fd, Logical(u, u.open[fd].file)), p),
                LandingIn(u, fd, Logical(u, u.open[fd].file)) + Len(p), <<>>)
  <1>t. PICK t : t = InSlot(u, fd)
    OBVIOUS
  <1>z. PICK z : z = InSlot(v, fd)
    OBVIOUS
  <1>f. PICK f : f = u.open[fd].file
    OBVIOUS
  <1>c. PICK c : c = u.disk[f]
    OBVIOUS
  <1>a. PICK a : a = At(u, fd)
    OBVIOUS
  <1>b. PICK b : b = SubSeq(t.buf, 1, t.wlen)
    OBVIOUS
  <1>1. t \in Slot /\ SlotFit(t) /\ t.wlen \in Nat /\ t.buf \in Seq(Byte) /\ t.wlen \in 0 .. Len(t.buf) /\ Clear(t)
    BY <1>t, UnreadType, SlotParts
  <1>2. b \in Seq(Byte) /\ Len(b) = t.wlen
    BY <1>1, <1>b, PrefixType
  <1>3. Len(p) \in Nat /\ Len(p) # 0
    OBVIOUS
  <1>4. z = Filled(t, p)
    BY <1>t, <1>z DEF FillStep
  <1>5. z.wlen = t.wlen + Len(p) /\ z.buf = b \o p /\ z.ro = t.ro /\ Clear(z)
    BY <1>1, <1>4, <1>b, FilledSlot
  <1>6. /\ Fit(v, {}) /\ OnlyFor(u, v, fd) /\ v.disk = u.disk /\ v.open = u.open
    BY DEF FillStep
  <1>7. Apart(v)
    BY <1>6, OnlyForSteady, SteadyApart
  <1>8. a \in Nat /\ a <= Len(c) /\ c \in Seq(Byte) /\ Len(c) \in Nat
    BY <1>a, <1>c, <1>f, AtFits
  <1>9. At(v, fd) = a
    BY <1>6, <1>a DEF At
  <1>10. /\ Logical(v, v.open[fd].file) = Overlaid(c, a, b \o p)
         /\ Position(v, fd) = a + t.wlen + Len(p)
    <2>1. z.wlen # 0
      BY <1>1, <1>3, <1>5
    <2>2. /\ Logical(v, v.open[fd].file) = Overlaid(v.disk[v.open[fd].file], At(v, fd), SubSeq(z.buf, 1, z.wlen))
          /\ Position(v, fd) = At(v, fd) + z.wlen
      BY <1>6, <1>7, <1>z, <2>1, Waiting
    <2>3. SubSeq(z.buf, 1, z.wlen) = b \o p
      <3>q. PICK q : q = b \o p
        OBVIOUS
      <3>1. q \in Seq(Byte) /\ Len(q) = Len(b) + Len(p)
        BY <1>2, <3>q, ConcatType
      <3>2. z.wlen = Len(q)
        BY <1>2, <1>5, <3>1
      <3>3. SubSeq(q, 1, Len(q)) = q
        BY <3>1
      <3> QED  BY <1>5, <3>2, <3>3, <3>q
    <2>4. Logical(v, v.open[fd].file) = Overlaid(c, a, b \o p)
      BY <1>6, <1>9, <1>c, <1>f, <2>2, <2>3
    <2>5. Position(v, fd) = a + (t.wlen + Len(p))
      BY <1>5, <1>9, <2>2
    <2>6. a + (t.wlen + Len(p)) = a + t.wlen + Len(p)
      BY <1>1, <1>3, <1>8
    <2> QED  BY <2>4, <2>5, <2>6
  <1>11. Unread(z) = 0 /\ PushOf(z) = <<>> /\ z.ung = None /\ Unread(t) = 0 /\ Pushed(t) = 0
    BY <1>1, <1>5 DEF Clear, Unread, PushOf, Pushed
  <1>12. MirrorAt(v, fd)
    <2>1. Truthful(u.disk[f], u.open[fd], t)
      BY <1>f, <1>t DEF MirrorAt
    <2>2. ~(Unread(z) > 0) /\ 1 .. Unread(z) = {}
      BY <1>11
    <2>3. Truthful(v.disk[f], v.open[fd], z)
      BY <1>5, <1>6, <1>11, <2>1, <2>2 DEF Truthful
    <2> QED  BY <1>6, <1>f, <1>z, <2>3 DEF MirrorAt
  <1>L. PICK L : L = Logical(u, u.open[fd].file)
    OBVIOUS
  <1>13. LandingIn(u, fd, L) = a + t.wlen /\ Overlaid(c, a, b \o p) = Overlaid(L, LandingIn(u, fd, L), p)
    <2>1. CASE t.wlen = 0
      <3>1. L = c /\ Position(u, fd) = u.open[fd].off /\ u.open[fd].off \in Nat
        <4>1. L = c /\ Position(u, fd) = u.open[fd].off - Unread(t)
          BY <1>L, <1>c, <1>f, <1>t, <2>1, Plain
        <4>2. u.open[fd].off \in Nat
          BY AtFits, OpenFileParts
        <4> QED  BY <1>11, <4>1, <4>2
      <3>2. SpotIn(u, fd) = u.open[fd].off
        BY <1>11, <1>t, <3>1 DEF SpotIn
      <3>3. LandingIn(u, fd, L) = a /\ a = a + t.wlen
        BY <1>8, <1>a, <1>c, <1>f, <2>1, <3>1, <3>2 DEF LandingIn, At
      <3>4. b \o p = p
        BY <1>2, <2>1
      <3> QED  BY <3>1, <3>3, <3>4
    <2>2. CASE t.wlen # 0
      <3>1. L = Overlaid(c, a, b) /\ Position(u, fd) = a + t.wlen
        BY <1>L, <1>a, <1>b, <1>c, <1>f, <1>t, <2>2, Waiting
      <3>2. SpotIn(u, fd) = a + t.wlen
        BY <1>1, <1>8, <1>11, <1>t, <3>1 DEF SpotIn
      <3>3. u.open[fd].how.append => Len(L) = a + t.wlen
        <4> SUFFICES ASSUME u.open[fd].how.append PROVE Len(L) = a + t.wlen
          OBVIOUS
        <4>1. a = Len(c)
          BY <1>a, <1>c, <1>f DEF At
        <4>2. Len(L) = IF a + Len(b) > Len(c) THEN a + Len(b) ELSE Len(c)
          BY <1>2, <1>8, <3>1, OverlaidType
        <4> QED  BY <1>1, <1>2, <1>8, <2>2, <4>1, <4>2
      <3>4. LandingIn(u, fd, L) = a + t.wlen
        BY <1>1, <1>8, <3>2, <3>3 DEF LandingIn
      <3>5. Overlaid(Overlaid(c, a, b), a + Len(b), p) = Overlaid(c, a, b \o p)
        BY <1>2, <1>8, OverlaidTwice, ZenonT(60)
      <3> QED  BY <1>2, <3>1, <3>4, <3>5
    <2> QED  BY <2>1, <2>2
  <1> QED  BY <1>10, <1>11, <1>12, <1>13, <1>L, <1>z DEF View

\* The slot has nothing to read and the program sees what it saw.
Prepared(fd, u) ==
    /\ Fit(u, {}) /\ Apart(u) /\ OnlyFor(Lib, u, fd) /\ u.open[fd] # None /\ Clear(InSlot(u, fd))
    /\ View(u, fd, Logical(Lib, open[fd].file), IF Spot(fd) < 0 THEN 0 ELSE Spot(fd), <<>>)

WrittenSeen(fd, p, v) ==
    /\ Fit(v, {}) /\ OnlyFor(Lib, v, fd)
    /\ View(v, fd, Overlaid(Logical(Lib, open[fd].file), Landing(fd), p), Landing(fd) + Len(p), <<>>)

LEMMA SpotType ==
    ASSUME StdioInv, NEW fd \in Streams
    PROVE  Spot(fd) \in Int
  <1>1. Fit(Lib, {}) /\ fd \in Fd
    BY StreamIsOpen DEF StdioInv
  <1>2. Pushed(InSlot(Lib, fd)) \in {0, 1}
    BY <1>1, UnreadType
  <1> QED  BY <1>2, SeenRecord DEF Spot

LEMMA PutShows ==
    ASSUME StdioInv, ~full, NEW fd \in Streams, open[fd].how.wr, NEW p \in Seq(Byte), p # <<>>,
           NEW u, Prepared(fd, u), InSlot(u, fd).wlen = 0 \/ ~(Len(p) >= BufSize), Index(u, fd) # 0,
           NEW r \in PutIn(u, fd, Index(u, fd), p)
    PROVE  WrittenSeen(fd, p, r.w) /\ r.n = Len(p)
  <1>L. PICK L : L = Logical(Lib, open[fd].file)
    OBVIOUS
  <1>t. PICK t : t = InSlot(u, fd)
    OBVIOUS
  <1>1. /\ Fit(u, {}) /\ Apart(u) /\ OnlyFor(Lib, u, fd) /\ u.open[fd] # None /\ Clear(t)
        /\ fd \in Fd /\ Lib.open = open
    BY <1>t, StreamIsOpen DEF Prepared, Lib
  <1>2. u.open[fd].file = open[fd].file /\ u.open[fd].how = open[fd].how
    BY <1>1 DEF OnlyFor
  <1>3. /\ Logical(u, u.open[fd].file) = L /\ Position(u, fd) = (IF Spot(fd) < 0 THEN 0 ELSE Spot(fd))
        /\ MirrorAt(u, fd)
    BY <1>L DEF Prepared, View
  <1>4. Unread(t) = 0 /\ Pushed(t) = 0 /\ t.ung = None
    BY <1>1 DEF Clear, Unread, Pushed
  <1>5. LandingIn(u, fd, L) = Landing(fd)
    <2>1. Spot(fd) \in Int
      BY SpotType
    <2>2. SpotIn(u, fd) = IF Spot(fd) < 0 THEN 0 ELSE Spot(fd)
      BY <1>3, <1>4, <1>t, <2>1 DEF SpotIn
    <2> QED  BY <1>2, <1>L, <2>1, <2>2 DEF LandingIn, Landing
  <1>6. CASE Len(p) >= BufSize
    <2>1. r \in u_st_raw(u, fd, p) /\ InSlot(u, fd).wlen = 0
      BY <1>6 DEF PutIn
    <2>2. RawStep(u, r, {}, fd, p)
      BY <1>1, <2>1, RawKeeps
    <2>3. OnlyFor(Lib, r.w, fd) /\ Fit(r.w, {})
      BY <1>1, <2>2, OnlyForTransitive DEF RawStep
    <2>4. /\ r.n = Len(p)
          /\ View(r.w, fd, Overlaid(Logical(u, u.open[fd].file), LandingIn(u, fd, Logical(u, u.open[fd].file)), p),
                  LandingIn(u, fd, Logical(u, u.open[fd].file)) + Len(p), <<>>)
      BY <1>1, <1>2, <1>3, <1>4, <1>t, <2>1, RawShows
    <2> QED  BY <1>3, <1>5, <1>L, <2>3, <2>4 DEF WrittenSeen
  <1>7. CASE ~(Len(p) >= BufSize)
    <2>1. r.w = Buffered(u, Index(u, fd), p) /\ r.n = Len(p)
      BY <1>7 DEF PutIn
    <2>2. FillStep(u, r.w, {}, fd, p)
      BY <1>1, <1>t, <2>1, BufferedKeeps
    <2>3. OnlyFor(Lib, r.w, fd) /\ Fit(r.w, {})
      BY <1>1, <2>2, OnlyForTransitive DEF FillStep
    <2>4. View(r.w, fd, Overlaid(Logical(u, u.open[fd].file), LandingIn(u, fd, Logical(u, u.open[fd].file)), p),
               LandingIn(u, fd, Logical(u, u.open[fd].file)) + Len(p), <<>>)
      BY <1>1, <1>2, <1>3, <1>t, <2>2, FillShows
    <2> QED  BY <1>3, <1>5, <1>L, <2>1, <2>3, <2>4 DEF WrittenSeen
  <1> QED  BY <1>6, <1>7

\* Before a write the stream is where the program left it.
LEMMA BackPrepares ==
    ASSUME StdioInv, Mirrors(Lib), ~full, NEW fd \in Streams, Index(u_st_slot(Lib, fd), fd) # 0
    PROVE  LET b == GivenBack(u_st_slot(Lib, fd), Index(u_st_slot(Lib, fd), fd)) IN
           /\ Prepared(fd, b) /\ Index(b, fd) = Index(u_st_slot(Lib, fd), fd)
           /\ InSlot(b, fd).wlen = InSlot(u_st_slot(Lib, fd), fd).wlen
  <1>v. PICK v : v = u_st_slot(Lib, fd)
    OBVIOUS
  <1>b. PICK b : b = GivenBack(v, Index(v, fd))
    OBVIOUS
  <1>1. Fit(v, {}) /\ OnlyFor(Lib, v, fd) /\ Apart(v) /\ StillSeen(fd, v) /\ v.open[fd] # None
    BY <1>v, SlotShows
  <1>2. fd \in Fd /\ Lib.open = open /\ InSlot(v, fd) = InSlot(Lib, fd)
    BY <1>v, StreamIsOpen, Taking DEF Lib
  <1>3. v.open[fd].file = open[fd].file
    BY <1>1, <1>2 DEF OnlyFor
  <1>4. BackStep(v, b, {}, fd)
    BY <1>1, <1>2, <1>b, <1>v, GivenBackKeeps
  <1>5. Logical(v, v.open[fd].file) = Logical(Lib, open[fd].file) /\ Position(v, fd) = Position(Lib, fd) /\ MirrorAt(v, fd)
    BY <1>1, <1>3 DEF StillSeen, View
  <1>6. View(b, fd, Logical(v, v.open[fd].file), IF SpotIn(v, fd) < 0 THEN 0 ELSE SpotIn(v, fd), <<>>)
    BY <1>1, <1>2, <1>4, <1>5, <1>v, BackShows
  <1>7. SpotIn(v, fd) = Spot(fd)
    BY <1>2, <1>5 DEF SpotIn, Spot
  <1>8. View(b, fd, Logical(Lib, open[fd].file), IF Spot(fd) < 0 THEN 0 ELSE Spot(fd), <<>>)
    BY <1>5, <1>6, <1>7
  <1>9. /\ Fit(b, {}) /\ OnlyFor(v, b, fd) /\ InSlot(b, fd) = Dropped(InSlot(v, fd)) /\ b.open[fd] # None
        /\ Index(b, fd) = Index(v, fd)
    BY <1>4 DEF BackStep, OnlyFor, SamePlaces
  <1>10. OnlyFor(Lib, b, fd)
    BY <1>1, <1>9, OnlyForTransitive
  <1>11. InSlot(v, fd) \in Slot /\ SlotFit(InSlot(v, fd))
    BY <1>1, <1>2, UnreadType
  <1>12. Clear(InSlot(b, fd)) /\ InSlot(b, fd).wlen = InSlot(v, fd).wlen
    BY <1>9, <1>11, DroppedSlot DEF Clear
  <1>13. Apart(b)
    BY <1>1, <1>2, <1>9, OnlyForSteady, SteadyApart
  <1> QED  BY <1>8, <1>9, <1>10, <1>12, <1>13, <1>b, <1>v DEF Prepared

LEMMA FlushPrepares ==
    ASSUME StdioInv, Mirrors(Lib), ~full, NEW fd \in Streams, NEW b, Prepared(fd, b), Index(b, fd) # 0,
           NEW q \in u_st_wflush(b, Index(b, fd))
    PROVE  Prepared(fd, q.w) /\ q.ok /\ Index(q.w, fd) = Index(b, fd) /\ InSlot(q.w, fd).wlen = 0
  <1>1. /\ Fit(b, {}) /\ Apart(b) /\ OnlyFor(Lib, b, fd) /\ b.open[fd] # None /\ Clear(InSlot(b, fd))
        /\ fd \in Fd /\ Lib.open = open
    BY StreamIsOpen DEF Prepared, Lib
  <1>2. MirrorAt(b, fd)
    BY DEF Prepared, View
  <1>3. FlushSeen(b, q, fd)
    BY <1>1, <1>2, FlushShows
  <1>4. FlushStep(b, q, {}, fd)
    BY <1>1, WflushKeeps
  <1>5. q.ok /\ Index(q.w, fd) = Index(b, fd) /\ InSlot(q.w, fd) = [InSlot(b, fd) EXCEPT !.wlen = 0]
        /\ InSlot(q.w, fd).wlen = 0 /\ Fit(q.w, {}) /\ OnlyFor(b, q.w, fd) /\ Apart(q.w) /\ q.w.open[fd] # None
    BY <1>3, <1>4 DEF FlushSeen, FlushStep, SamePlaces, OnlyFor
  <1>6. Clear(InSlot(q.w, fd))
    <2>1. InSlot(b, fd) \in Slot
      BY <1>1, UnreadType
    <2> QED  BY <1>1, <1>5, <2>1 DEF Clear, Slot
  <1>7. b.open[fd].file = open[fd].file
    BY <1>1 DEF OnlyFor
  <1>8. View(q.w, fd, Logical(Lib, open[fd].file), IF Spot(fd) < 0 THEN 0 ELSE Spot(fd), <<>>)
    <2>1. /\ Logical(b, b.open[fd].file) = Logical(Lib, open[fd].file)
          /\ Position(b, fd) = (IF Spot(fd) < 0 THEN 0 ELSE Spot(fd))
          /\ PushOf(InSlot(b, fd)) = <<>>
      BY DEF Prepared, View
    <2>2. View(q.w, fd, Logical(b, b.open[fd].file), Position(b, fd), PushOf(InSlot(b, fd)))
      BY <1>3 DEF FlushSeen
    <2> QED  BY <2>1, <2>2
  <1>9. OnlyFor(Lib, q.w, fd)
    BY <1>1, <1>5, OnlyForTransitive
  <1> QED  BY <1>5, <1>6, <1>8, <1>9 DEF Prepared

\* The flags are not seen.
SameButFlags(t, u) ==
    /\ u.ung = t.ung /\ u.buf = t.buf /\ u.bpos = t.bpos /\ u.blen = t.blen /\ u.wlen = t.wlen /\ u.ro = t.ro

LEMMA FlagsSame ==
    ASSUME NEW t \in Slot, NEW e, NEW f
    PROVE  SameButFlags(t, Flags(t, e, f))
  BY DEF SameButFlags, Flags, Slot

LEMMA FlagsUnseen ==
    ASSUME NEW w, Fit(w, {}), Apart(w), NEW fd \in Fd, w.open[fd] # None, NEW v, Fit(v, {}), OnlyFor(w, v, fd),
           v.disk = w.disk, v.open = w.open, SameButFlags(InSlot(w, fd), InSlot(v, fd)),
           NEW c, NEW a, NEW b, View(w, fd, c, a, b)
    PROVE  View(v, fd, c, a, b)
  <1>t. PICK t : t = InSlot(w, fd)
    OBVIOUS
  <1>u. PICK u : u = InSlot(v, fd)
    OBVIOUS
  <1>1. u.ung = t.ung /\ u.buf = t.buf /\ u.bpos = t.bpos /\ u.blen = t.blen /\ u.wlen = t.wlen /\ u.ro = t.ro
    BY <1>t, <1>u DEF SameButFlags
  <1>2. Unread(u) = Unread(t) /\ PushOf(u) = PushOf(t)
    BY <1>1 DEF Unread, PushOf
  <1>3. Apart(v)
    BY OnlyForSteady, SteadyApart
  <1>4. At(v, fd) = At(w, fd)
    BY DEF At
  <1>5. Position(v, fd) = Position(w, fd)
    BY <1>1, <1>2, <1>4, <1>t, <1>u, PositionIs
  <1>6. Logical(v, v.open[fd].file) = Logical(w, w.open[fd].file)
    <2>f. PICK f : f = w.open[fd].file
      OBVIOUS
    <2>1. Logical(w, f) = IF t.wlen = 0 THEN w.disk[f]
              ELSE Overlaid(w.disk[f], At(w, fd), SubSeq(t.buf, 1, t.wlen))
      BY <1>t, <2>f, LogicalIs
    <2>2. Logical(v, f) = IF u.wlen = 0 THEN v.disk[f]
              ELSE Overlaid(v.disk[f], At(v, fd), SubSeq(u.buf, 1, u.wlen))
      BY <1>3, <1>u, <2>f, LogicalIs
    <2> QED  BY <1>1, <1>4, <2>1, <2>2, <2>f
  <1>7. MirrorAt(v, fd)
    <2>1. Truthful(w.disk[w.open[fd].file], w.open[fd], t)
      BY <1>t DEF View, MirrorAt
    <2>2. Truthful(v.disk[v.open[fd].file], v.open[fd], u)
      BY <1>1, <1>2, <2>1 DEF Truthful
    <2> QED  BY <1>u, <2>2 DEF MirrorAt
  <1> QED  BY <1>2, <1>5, <1>6, <1>7, <1>t, <1>u DEF View

LEMMA WriteShown ==
    ASSUME StdioInv, Mirrors(Lib), ~full, NEW fd \in Streams, NEW p \in scope.data, fwrite(fd, p)
    PROVE  Faithful
  <1>v. PICK v : v = u_st_slot(Lib, fd)
    OBVIOUS
  <1>i. PICK i : i = Index(v, fd)
    OBVIOUS
  <1>b. PICK b : b = GivenBack(v, i)
    OBVIOUS
  <1>L. PICK L : L = Logical(Lib, open[fd].file)
    OBVIOUS
  <1>r. PICK r \in u_st_wput(Lib, fd, p) : Call(r.w, <<"write", r.n>>)
    BY DEF fwrite
  <1>1. p \in Seq(Byte) /\ p # <<>>
    BY ScopeParts
  <1>2. /\ Fit(v, {}) /\ OnlyFor(Lib, v, fd) /\ Apart(v) /\ StillSeen(fd, v) /\ v.open[fd] # None
        /\ fd \in Fd /\ Lib.open = open /\ InSlot(v, fd) = InSlot(Lib, fd)
    BY <1>v, SlotShows, StreamIsOpen, Taking DEF Lib
  <1>3. v.open[fd].file = open[fd].file /\ v.open[fd].how = open[fd].how
    BY <1>2 DEF OnlyFor
  <1>4. MirrorAt(v, fd) /\ Truthful(v.disk[v.open[fd].file], v.open[fd], InSlot(v, fd))
    BY <1>2 DEF StillSeen, View, MirrorAt
  <1>5. Become(r.w) /\ answer' = <<"write", r.n>>
    BY <1>r DEF Call
  <1>6. ASSUME WrittenSeen(fd, p, r.w), r.n = Len(p), open[fd].how.wr
        PROVE  Faithful
    <2>1. Viewing(fd, Overlaid(L, Landing(fd), p), Landing(fd) + Len(p), <<>>)
      BY <1>5, <1>6, <1>L, Viewed DEF WrittenSeen
    <2> QED  BY <1>5, <1>6, <1>L, <2>1, WriteSeen
  <1>7. CASE i = 0 /\ r \in u_st_raw(v, fd, p)
    <2>t. PICK t : t = InSlot(v, fd)
      OBVIOUS
    <2>1. t = Blank(fd)
      BY <1>2, <1>7, <1>i, <2>t, IndexFacts
    <2>2. t.wlen = 0 /\ Unread(t) = 0 /\ t.ung = None /\ t.ro = FALSE
      BY <2>1 DEF Blank, Unread
    <2>3. v.open[fd].how.wr
      <3>1. v.open[fd].how.wr \in BOOLEAN
        BY <1>2, AtFits, OpenFileParts
      <3> QED  BY <1>4, <2>2, <2>t, <3>1 DEF Truthful
    <2>4. RawStep(v, r, {}, fd, p)
      BY <1>1, <1>2, <1>7, RawKeeps
    <2>5. /\ r.n = Len(p)
          /\ View(r.w, fd, Overlaid(Logical(v, v.open[fd].file), LandingIn(v, fd, Logical(v, v.open[fd].file)), p),
                  LandingIn(v, fd, Logical(v, v.open[fd].file)) + Len(p), <<>>)
      BY <1>1, <1>2, <1>4, <1>7, <2>2, <2>3, <2>t, RawShows
    <2>6. Logical(v, v.open[fd].file) = L /\ LandingIn(v, fd, L) = Landing(fd)
      <3>1. Logical(v, v.open[fd].file) = L /\ Position(v, fd) = Position(Lib, fd)
        BY <1>2, <1>3, <1>L DEF StillSeen, View
      <3>2. SpotIn(v, fd) = Spot(fd)
        BY <1>2, <3>1 DEF SpotIn, Spot
      <3> QED  BY <1>3, <1>L, <3>1, <3>2 DEF LandingIn, Landing
    <2>7. Fit(r.w, {}) /\ OnlyFor(Lib, r.w, fd)
      BY <1>2, <2>4, OnlyForTransitive DEF RawStep
    <2>8. WrittenSeen(fd, p, r.w)
      BY <1>L, <2>5, <2>6, <2>7 DEF WrittenSeen
    <2> QED  BY <1>3, <1>6, <2>3, <2>5, <2>8
  <1>8. CASE i # 0 /\ v.slots[i].ro /\ r = [w |-> [v EXCEPT !.slots[i].err = TRUE], n |-> 0]
    <2>1. r.w = Flagged(v, fd) /\ r.n = 0
      BY <1>8, <1>i DEF Flagged
    <2>2. /\ Fit(r.w, {}) /\ OnlyFor(v, r.w, fd) /\ r.w.disk = v.disk /\ r.w.open = v.open
          /\ InSlot(r.w, fd) = [InSlot(v, fd) EXCEPT !.err = TRUE]
      <3>1. LET z == Flagged(v, fd) IN
            /\ Fit(z, {}) /\ OnlyFor(v, z, fd) /\ z.disk = v.disk /\ z.open = v.open
            /\ InSlot(z, fd) = IF Index(v, fd) = 0 THEN InSlot(v, fd) ELSE [InSlot(v, fd) EXCEPT !.err = TRUE]
        BY <1>2, FlaggedKeeps
      <3> QED  BY <1>8, <1>i, <2>1, <3>1
    <2>3. InSlot(v, fd) \in Slot /\ InSlot(v, fd).ro
      BY <1>2, <1>8, <1>i, UnreadType, IndexFacts
    <2>4. SameButFlags(InSlot(v, fd), InSlot(r.w, fd))
      BY <2>2, <2>3 DEF SameButFlags, Slot
    <2>5. StillSeen(fd, r.w)
      BY <1>2, <2>2, <2>4, FlagsUnseen DEF StillSeen
    <2>6. Viewing(fd, Logical(Lib, open[fd].file), Position(Lib, fd), PushOf(InSlot(Lib, fd)))
      <3>1. OnlyFor(Lib, r.w, fd)
        BY <1>2, <2>2, OnlyForTransitive
      <3> QED  BY <1>5, <2>2, <2>5, <3>1, Viewed DEF StillSeen
    <2>7. ~open[fd].how.wr
      BY <1>3, <1>4, <2>3 DEF Truthful
    <2> QED  BY <1>5, <2>1, <2>6, <2>7, RefuseSeen
  <1>9. ASSUME i # 0, ~v.slots[i].ro, NEW q,
               IF v.slots[i].wlen + Len(p) <= BufSize THEN q = [w |-> b, ok |-> TRUE]
               ELSE q \in u_st_wflush(b, i),
               IF q.ok THEN r \in PutIn(q.w, fd, i, p) ELSE r = [w |-> q.w, n |-> 0]
        PROVE  Faithful
    <2>1. /\ Prepared(fd, b) /\ Index(b, fd) = i /\ InSlot(b, fd).wlen = InSlot(v, fd).wlen
      BY <1>9, <1>b, <1>i, <1>v, BackPrepares
    <2>2. InSlot(v, fd) = v.slots[i]
      BY <1>2, <1>9, <1>i, IndexFacts
    <2>3. InSlot(v, fd).wlen \in Nat /\ Len(p) \in Nat /\ BufSize \in Nat
      BY <1>1, <1>2, UnreadType, StdioAssumption
    <2>4. /\ Prepared(fd, q.w) /\ q.ok /\ Index(q.w, fd) = i
          /\ InSlot(q.w, fd).wlen = 0 \/ ~(Len(p) >= BufSize)
      <3>1. CASE v.slots[i].wlen + Len(p) <= BufSize
        BY <1>9, <2>1, <2>2, <2>3, <3>1
      <3>2. CASE ~(v.slots[i].wlen + Len(p) <= BufSize)
        BY <1>9, <2>1, <3>2, FlushPrepares
      <3> QED  BY <3>1, <3>2
    <2>5. open[fd].how.wr
      <3>1. v.open[fd].how.wr \in BOOLEAN
        BY <1>2, AtFits, OpenFileParts
      <3> QED  BY <1>3, <1>4, <1>9, <2>2, <3>1 DEF Truthful
    <2>6. r \in PutIn(q.w, fd, Index(q.w, fd), p) /\ Index(q.w, fd) # 0
      BY <1>9, <2>4
    <2>7. WrittenSeen(fd, p, r.w) /\ r.n = Len(p)
      BY <1>1, <2>4, <2>5, <2>6, PutShows
    <2> QED  BY <1>6, <2>5, <2>7
  <1> QED  BY <1>7, <1>8, <1>9, <1>b, <1>i, <1>r, <1>v, WputForm

-----------------------------------------------------------------------------
(* The questions, and moves.                                                 *)

LEMMA AskShown ==
    ASSUME StdioInv, Mirrors(Lib), ~full, NEW fd \in Streams, feof(fd) \/ clearerr(fd) \/ fflush(fd)
    PROVE  Faithful
  <1>0. fd \in Fd /\ Lib.open = open /\ Lib.open[fd] # None /\ Fit(Lib, {}) /\ Apart(Lib) /\ scope.NST \in Nat
    BY StreamIsOpen, ScopeParts DEF Lib, StdioInv
  <1>1. ASSUME NEW z, Fit(z, {}), OnlyFor(Lib, z, fd), StillSeen(fd, z), Call(z, <<"ask">>)
        PROVE  Faithful
    <2>1. Become(z) /\ answer' = <<"ask">>
      BY <1>1 DEF Call
    <2>2. Viewing(fd, Logical(Lib, open[fd].file), Position(Lib, fd), PushOf(InSlot(Lib, fd)))
      BY <1>1, <2>1, Viewed DEF StillSeen
    <2> QED  BY <2>1, <2>2, AskSeen
  <1>2. CASE feof(fd)
    BY <1>1, <1>2, SlotShows DEF feof
  <1>3. CASE clearerr(fd)
    <2>v. PICK v : v = u_st_slot(Lib, fd)
      OBVIOUS
    <2>z. PICK z : z = Cleared(Lib, fd)
      OBVIOUS
    <2>1. ClearStep(Lib, z, {}, fd)
      BY <1>0, <2>z, ClearedKeeps
    <2>2. InSlot(Lib, fd) \in Slot /\ SlotFit(InSlot(Lib, fd))
      BY <1>0, UnreadType
    <2>3. SameButFlags(InSlot(Lib, fd), InSlot(z, fd))
      <3>1. CASE InSlot(z, fd) = InSlot(Lib, fd)
        BY <3>1 DEF SameButFlags
      <3>2. CASE InSlot(z, fd) = Flags(InSlot(Lib, fd), FALSE, FALSE)
        BY <2>2, <3>2, FlagsSame
      <3> QED  BY <2>1, <3>1, <3>2 DEF ClearStep
    <2>4. StillSeen(fd, Lib)
      BY <1>0 DEF StillSeen, View, Mirrors
    <2>5. StillSeen(fd, z)
      BY <1>0, <2>1, <2>3, <2>4, FlagsUnseen DEF ClearStep, StillSeen
    <2> QED  BY <1>1, <1>3, <2>1, <2>5, <2>z DEF ClearStep, clearerr
  <1>4. CASE fflush(fd)
    <2>1. PICK r \in u_st_wflush(u_st_slot(Lib, fd), Index(u_st_slot(Lib, fd), fd)) : Call(r.w, <<"ask">>)
      BY <1>4 DEF fflush
    <2>2. FlushedSeen(fd, r)
      BY FlushingShows
    <2> QED  BY <1>1, <2>1, <2>2 DEF FlushedSeen, Ready
  <1> QED  BY <1>2, <1>3, <1>4

\* After a flush the descriptor tells where the stream stands.
LEMMA FlushedStands ==
    ASSUME StdioInv, Mirrors(Lib), ~full, NEW fd \in Streams,
           NEW r \in u_st_wflush(u_st_slot(Lib, fd), Index(u_st_slot(Lib, fd), fd))
    PROVE  Stands(r.w, fd) = Spot(fd)
  <1>1. FlushedSeen(fd, r) /\ fd \in Fd /\ Lib.open = open
    BY FlushingShows, StreamIsOpen DEF Lib
  <1>2. /\ Fit(r.w, {}) /\ OnlyFor(Lib, r.w, fd) /\ InSlot(r.w, fd).wlen = 0 /\ r.w.open[fd] # None
        /\ Position(r.w, fd) = Position(Lib, fd) /\ PushOf(InSlot(r.w, fd)) = PushOf(InSlot(Lib, fd))
    BY <1>1 DEF FlushedSeen, Ready, StillSeen, View
  <1>3. Apart(r.w)
    BY <1>1, <1>2, StreamIsOpen, OnlyForSteady, SteadyApart DEF StdioInv
  <1>4. Position(r.w, fd) = r.w.open[fd].off - Unread(InSlot(r.w, fd))
    BY <1>1, <1>2, <1>3, Plain
  <1>5. Pushed(InSlot(r.w, fd)) = Pushed(InSlot(Lib, fd))
    <2>1. InSlot(r.w, fd) \in Slot /\ InSlot(Lib, fd) \in Slot
      BY <1>1, <1>2, UnreadType DEF StdioInv
    <2> QED  BY <1>2, <2>1, PushType
  <1> QED  BY <1>2, <1>4, <1>5 DEF Stands, Spot

LEMMA TellShown ==
    ASSUME StdioInv, Mirrors(Lib), ~full, NEW fd \in Streams, ftell(fd)
    PROVE  Faithful
  <1>1. PICK r \in u_st_wflush(u_st_slot(Lib, fd), Index(u_st_slot(Lib, fd), fd)) :
            Call(r.w, <<"tell", r.w.open[fd].off - Unread(InSlot(r.w, fd)) - Pushed(InSlot(r.w, fd))>>)
    BY DEF ftell
  <1>2. FlushedSeen(fd, r)
    BY FlushingShows
  <1>3. Become(r.w) /\ answer' = <<"tell", Spot(fd)>>
    BY <1>1, FlushedStands DEF Call, Stands
  <1>4. Viewing(fd, Logical(Lib, open[fd].file), Position(Lib, fd), PushOf(InSlot(Lib, fd)))
    BY <1>2, <1>3, Viewed DEF FlushedSeen, Ready, StillSeen
  <1> QED  BY <1>3, <1>4, TellSeen

\* A move is seen as one.
LEMMA MoveShows ==
    ASSUME StdioInv, Mirrors(Lib), ~full, NEW fd \in Streams, NEW k \in {"set", "cur", "end"} \X Int,
           NEW r \in u_st_wflush(u_st_slot(Lib, fd), Index(u_st_slot(Lib, fd), fd)),
           NEW v, MoveStep(r.w, v, {}, fd, Leads(r.w, fd, k))
    PROVE  /\ Leads(r.w, fd, k) = Aim(fd, k) /\ Aim(fd, k) \in Int
           /\ Fit(v, {}) /\ OnlyFor(Lib, v, fd) /\ v.open[fd] # None
           /\ View(v, fd, Logical(Lib, open[fd].file), v.open[fd].off, <<>>)
           /\ Aim(fd, k) >= 0 => v.open[fd].off = Aim(fd, k)
  <1>t. PICK t : t = InSlot(r.w, fd)
    OBVIOUS
  <1>u. PICK u : u = InSlot(v, fd)
    OBVIOUS
  <1>L. PICK L : L = Logical(Lib, open[fd].file)
    OBVIOUS
  <1>1. FlushedSeen(fd, r) /\ fd \in Fd /\ Lib.open = open /\ Lib.open[fd] # None
    BY FlushingShows, StreamIsOpen DEF Lib
  <1>2. /\ Fit(r.w, {}) /\ OnlyFor(Lib, r.w, fd) /\ t.wlen = 0 /\ r.w.open[fd] # None
        /\ r.w.disk[open[fd].file] = L /\ r.w.open[fd].file = open[fd].file /\ MirrorAt(r.w, fd)
        /\ r.w.open[fd].how = open[fd].how
    BY <1>1, <1>t, <1>L DEF FlushedSeen, Ready, StillSeen, View
  <1>3. Leads(r.w, fd, k) = Aim(fd, k)
    BY <1>2, <1>L, FlushedStands DEF Leads, Aim
  <1>4. Aim(fd, k) \in Int
    <2>1. Spot(fd) \in Int /\ Len(L) \in Nat
      BY <1>1, <1>2, AtFits, SpotType
    <2> QED  BY <1>L, <2>1 DEF Aim
  <1>5. /\ Fit(v, {}) /\ OnlyFor(r.w, v, fd) /\ v.disk = r.w.disk /\ v.open[fd] # None
        /\ (u = t /\ Index(r.w, fd) = 0) \/ u = [Dropped(t) EXCEPT !.eof = FALSE]
        /\ v.open[fd].off = IF Aim(fd, k) < 0 THEN r.w.open[fd].off ELSE Aim(fd, k)
        /\ v.open[fd].file = open[fd].file /\ v.open[fd].how = open[fd].how
    BY <1>2, <1>3, <1>t, <1>u DEF MoveStep, OnlyFor
  <1>6. t \in Slot /\ SlotFit(t)
    BY <1>1, <1>2, <1>t, UnreadType
  <1>7. u.wlen = 0 /\ Unread(u) = 0 /\ u.ung = None /\ PushOf(u) = <<>> /\ u.ro = t.ro
    <2>1. CASE u = t /\ Index(r.w, fd) = 0
      <3>1. t = Blank(fd)
        BY <1>2, <1>t, <2>1, IndexFacts
      <3> QED  BY <2>1, <3>1 DEF Blank, Unread, PushOf
    <2>2. CASE u = [Dropped(t) EXCEPT !.eof = FALSE]
      <3>d. PICK d : d = Dropped(t)
        OBVIOUS
      <3>1. d \in Slot /\ d.bpos = 0 /\ d.blen = 0 /\ d.ung = None /\ d.wlen = 0 /\ d.ro = t.ro
        BY <1>2, <1>6, <3>d, DroppedSlot
      <3>2. u.bpos = 0 /\ u.blen = 0 /\ u.ung = None /\ u.wlen = 0 /\ u.ro = t.ro
        BY <2>2, <3>1, <3>d DEF Slot
      <3> QED  BY <3>2 DEF Unread, PushOf
    <2> QED  BY <1>5, <2>1, <2>2
  <1>8. OnlyFor(Lib, v, fd)
    BY <1>2, <1>5, OnlyForTransitive
  <1>9. Apart(v)
    BY <1>1, <1>8, OnlyForSteady, SteadyApart DEF StdioInv
  <1>10. Logical(v, v.open[fd].file) = L /\ Position(v, fd) = v.open[fd].off
    <2>1. Logical(v, v.open[fd].file) = v.disk[v.open[fd].file] /\ Position(v, fd) = v.open[fd].off - Unread(u)
      BY <1>1, <1>5, <1>7, <1>9, <1>u, Plain
    <2>2. v.open[fd].off \in Nat
      BY <1>1, <1>5, AtFits, OpenFileParts
    <2> QED  BY <1>2, <1>5, <1>7, <2>1, <2>2
  <1>11. MirrorAt(v, fd)
    <2>1. Truthful(r.w.disk[open[fd].file], r.w.open[fd], t)
      BY <1>2, <1>t DEF MirrorAt
    <2>2. ~(Unread(u) > 0) /\ 1 .. Unread(u) = {} /\ ~(u.wlen > 0)
      BY <1>7
    <2>3. Truthful(v.disk[open[fd].file], v.open[fd], u)
      BY <1>2, <1>5, <1>7, <2>1, <2>2 DEF Truthful
    <2> QED  BY <1>5, <1>u, <2>3 DEF MirrorAt
  <1>12. Aim(fd, k) >= 0 => v.open[fd].off = Aim(fd, k)
    BY <1>4, <1>5
  <1>13. View(v, fd, L, v.open[fd].off, <<>>)
    BY <1>7, <1>10, <1>11, <1>u DEF View
  <1> QED  BY <1>3, <1>4, <1>5, <1>8, <1>12, <1>13, <1>L

LEMMA SeekShown ==
    ASSUME StdioInv, Mirrors(Lib), ~full, NEW fd \in Streams, NEW k \in scope.seeks, fseek(fd, k)
    PROVE  Faithful
  <1>1. PICK r \in u_st_wflush(u_st_slot(Lib, fd), Index(u_st_slot(Lib, fd), fd)) :
            /\ Moved(r.w, fd, k).to <= Len(Moved(r.w, fd, k).w.disk[Moved(r.w, fd, k).w.open[fd].file])
            /\ Call(Moved(r.w, fd, k).w, <<"seek", IF Moved(r.w, fd, k).to < 0 THEN -1 ELSE 0>>)
    BY DEF fseek
  <1>m. PICK m : m = Moved(r.w, fd, k)
    OBVIOUS
  <1>2. Ready(fd, r.w) /\ k \in {"set", "cur", "end"} \X Int
    BY Flushing, ScopeParts
  <1>3. m.to = Leads(r.w, fd, k) /\ m.w.disk = r.w.disk /\ m.w.open[fd].file = r.w.open[fd].file
    BY <1>2, <1>m, StreamIsOpen, MovedTo DEF Ready
  <1>4. MoveStep(r.w, m.w, {}, fd, Leads(r.w, fd, k))
    <2>1. Leads(r.w, fd, k) <= Len(r.w.disk[r.w.open[fd].file])
      BY <1>1, <1>3, <1>m
    <2> QED  BY <1>2, <1>m, <2>1, StreamIsOpen, MovedKeeps DEF Ready
  <1>5. /\ Leads(r.w, fd, k) = Aim(fd, k) /\ Aim(fd, k) \in Int
        /\ Fit(m.w, {}) /\ OnlyFor(Lib, m.w, fd)
        /\ View(m.w, fd, Logical(Lib, open[fd].file), m.w.open[fd].off, <<>>)
        /\ Aim(fd, k) >= 0 => m.w.open[fd].off = Aim(fd, k)
    BY <1>2, <1>4, MoveShows
  <1>6. Become(m.w) /\ answer' = <<"seek", IF Aim(fd, k) < 0 THEN -1 ELSE 0>>
    BY <1>1, <1>3, <1>5, <1>m DEF Call
  <1>7. Viewing(fd, Logical(Lib, open[fd].file), m.w.open[fd].off, <<>>)
    BY <1>5, <1>6, Viewed
  <1>8. k \in scope.seeks \union {<<"set", 0>>}
    OBVIOUS
  <1> QED  BY <1>5, <1>6, <1>7, <1>8, SeekSeen

LEMMA RewindShown ==
    ASSUME StdioInv, Mirrors(Lib), ~full, NEW fd \in Streams, rewind(fd)
    PROVE  Faithful
  <1>k. PICK k : k = <<"set", 0>>
    OBVIOUS
  <1>1. PICK r \in u_st_wflush(u_st_slot(Lib, fd), Index(u_st_slot(Lib, fd), fd)) :
            Call(Cleared(Moved(r.w, fd, k).w, fd), <<"seek", 0>>)
    BY <1>k DEF rewind
  <1>2. Ready(fd, r.w) /\ k \in {"set", "cur", "end"} \X Int
    BY <1>k, Flushing
  <1>3. Leads(r.w, fd, k) <= Len(r.w.disk[r.w.open[fd].file])
    <2>1. Leads(r.w, fd, k) = 0
      BY <1>k DEF Leads
    <2>c. PICK c : c = r.w.disk[r.w.open[fd].file]
      OBVIOUS
    <2>2. c \in Seq(Byte)
      BY <1>2, <2>c, StreamIsOpen, AtFits DEF Ready
    <2>3. 0 <= Len(c)
      BY <2>2
    <2> QED  BY <2>1, <2>3, <2>c
  <1>m. PICK m : m = Moved(r.w, fd, k).w
    OBVIOUS
  <1>z. PICK z : z = Cleared(m, fd)
    OBVIOUS
  <1>L. PICK L : L = Logical(Lib, open[fd].file)
    OBVIOUS
  <1>4. MoveStep(r.w, m, {}, fd, Leads(r.w, fd, k))
    BY <1>2, <1>3, <1>m, StreamIsOpen, MovedKeeps DEF Ready
  <1>5. /\ Fit(m, {}) /\ OnlyFor(Lib, m, fd) /\ m.open[fd] # None
        /\ View(m, fd, L, m.open[fd].off, <<>>) /\ (Aim(fd, k) >= 0 => m.open[fd].off = Aim(fd, k))
    BY <1>2, <1>4, <1>L, MoveShows
  <1>6. Aim(fd, k) = 0
    BY <1>k DEF Aim
  <1>7. Apart(m) /\ fd \in Fd
    BY <1>5, StreamIsOpen, OnlyForSteady, SteadyApart DEF StdioInv
  <1>8. ClearStep(m, z, {}, fd)
    BY <1>5, <1>7, <1>z, ScopeParts, ClearedKeeps
  <1>9. SameButFlags(InSlot(m, fd), InSlot(z, fd))
    <2>1. InSlot(m, fd) \in Slot /\ SlotFit(InSlot(m, fd))
      BY <1>5, <1>7, UnreadType
    <2>2. CASE InSlot(z, fd) = InSlot(m, fd)
      BY <2>2 DEF SameButFlags
    <2>3. CASE InSlot(z, fd) = Flags(InSlot(m, fd), FALSE, FALSE)
      BY <2>1, <2>3, FlagsSame
    <2> QED  BY <1>8, <2>2, <2>3 DEF ClearStep
  <1>10. View(z, fd, L, 0, <<>>)
    <2>1. View(m, fd, L, 0, <<>>)
      BY <1>5, <1>6
    <2>2. Fit(z, {}) /\ OnlyFor(m, z, fd) /\ z.disk = m.disk /\ z.open = m.open
      BY <1>8 DEF ClearStep
    <2> QED  BY <1>5, <1>7, <1>9, <2>1, <2>2, FlagsUnseen
  <1>11. Fit(z, {}) /\ OnlyFor(Lib, z, fd)
    BY <1>5, <1>8, OnlyForTransitive DEF ClearStep
  <1>12. Become(z) /\ answer' = <<"seek", 0>>
    BY <1>1, <1>m, <1>z DEF Call
  <1>13. Viewing(fd, Logical(Lib, open[fd].file), 0, <<>>)
    BY <1>10, <1>11, <1>12, <1>L, Viewed
  <1>14. k \in scope.seeks \union {<<"set", 0>>}
    BY <1>k
  <1>15. /\ Aim(fd, k) \in Int /\ (Aim(fd, k) >= 0 => 0 = Aim(fd, k))
         /\ answer' = <<"seek", IF Aim(fd, k) < 0 THEN -1 ELSE 0>>
    BY <1>6, <1>12
  <1> QED  BY <1>13, <1>14, <1>15, SeekSeen

LEMMA UngetShown ==
    ASSUME StdioInv, Mirrors(Lib), ~full, NEW fd \in Streams, NEW c \in scope.push, ungetc(fd, c)
    PROVE  Faithful
  <1>v. PICK v : v = u_st_slot(Lib, fd)
    OBVIOUS
  <1>i. PICK i : i = Index(v, fd)
    OBVIOUS
  <1>0. /\ Fit(v, {}) /\ OnlyFor(Lib, v, fd) /\ v.open[fd] # None /\ Apart(v) /\ StillSeen(fd, v)
        /\ fd \in Fd /\ Lib.open = open
    BY <1>v, SlotShows, StreamIsOpen DEF Lib
  <1>1. /\ InSlot(v, fd).wlen = 0 /\ c \in Byte /\ open[fd].how.rd
        /\ IF i = 0 THEN Call(v, <<"ask">>)
           ELSE Call([v EXCEPT !.slots[i].ung = c, !.slots[i].eof = FALSE], <<"unget", c>>)
    BY <1>i, <1>v, ScopeParts DEF ungetc
  <1>2. CASE i = 0
    <2>1. Become(v) /\ answer' = <<"ask">>
      BY <1>1, <1>2 DEF Call
    <2>2. Viewing(fd, Logical(Lib, open[fd].file), Position(Lib, fd), PushOf(InSlot(Lib, fd)))
      BY <1>0, <2>1, Viewed DEF StillSeen
    <2> QED  BY <2>1, <2>2, AskSeen
  <1>3. CASE i # 0
    <2>t. PICK t : t = v.slots[i]
      OBVIOUS
    <2>u. PICK u : u = PushSlot(t, c, FALSE)
      OBVIOUS
    <2>1. i \in DOMAIN v.slots /\ t = InSlot(v, fd) /\ t \in Slot /\ SlotFit(t) /\ t.fd = fd /\ t.wlen = 0
      BY <1>0, <1>1, <1>3, <1>i, <2>t, IndexFacts, SlotIsSlot
    <2>w. PICK w : w = WithSlot(v, i, u)
      OBVIOUS
    <2>2. w = [v EXCEPT !.slots[i].ung = c, !.slots[i].eof = FALSE]
      <3>1. v \in Library
        BY <1>0 DEF Fit
      <3> QED  BY <2>1, <2>t, <2>u, <2>w, <3>1 DEF WithSlot, PushSlot, Library
    <2>3. /\ u \in Slot /\ u.fd = fd /\ u.ung = c /\ u.buf = t.buf /\ u.bpos = t.bpos /\ u.blen = t.blen
          /\ u.wlen = 0 /\ u.ro = t.ro
      BY <1>1, <2>1, <2>u DEF PushSlot, Slot
    <2>4. SlotFit(u)
      BY <2>1, <2>3 DEF SlotFit
    <2>5. /\ Fit(w, {}) /\ OnlyFor(v, w, fd) /\ w.disk = v.disk /\ w.open = v.open /\ InSlot(w, fd) = u
      BY <1>0, <2>1, <2>3, <2>4, <2>t, <2>w, SlotOnly
    <2>6. c # None /\ PushOf(u) = <<c>> /\ Unread(u) = Unread(t)
      BY <1>1, <2>3, StdioAssumption DEF PushOf, Unread
    <2>7. Apart(w) /\ OnlyFor(Lib, w, fd)
      BY <1>0, <2>5, OnlyForTransitive, OnlyForSteady, SteadyApart
    <2>8. /\ Logical(w, w.open[fd].file) = Logical(v, v.open[fd].file) /\ Position(w, fd) = Position(v, fd)
      <3>1. Logical(w, w.open[fd].file) = w.disk[w.open[fd].file] /\ Position(w, fd) = w.open[fd].off - Unread(u)
        BY <1>0, <2>3, <2>5, <2>7, Plain
      <3>2. Logical(v, v.open[fd].file) = v.disk[v.open[fd].file] /\ Position(v, fd) = v.open[fd].off - Unread(t)
        BY <1>0, <1>1, <2>1, Plain
      <3> QED  BY <2>5, <2>6, <3>1, <3>2
    <2>9. MirrorAt(w, fd)
      <3>1. Truthful(v.disk[v.open[fd].file], v.open[fd], t)
        BY <1>0, <2>1 DEF StillSeen, View, MirrorAt
      <3>2. v.open[fd].how.rd
        BY <1>0, <1>1 DEF OnlyFor
      <3>3. Truthful(w.disk[w.open[fd].file], w.open[fd], u)
        BY <2>3, <2>5, <2>6, <3>1, <3>2 DEF Truthful
      <3> QED  BY <2>5, <3>3 DEF MirrorAt
    <2>10. View(w, fd, Logical(Lib, open[fd].file), Position(Lib, fd), <<c>>)
      BY <1>0, <2>5, <2>6, <2>8, <2>9 DEF StillSeen, View, OnlyFor
    <2>11. Become(w) /\ answer' = <<"unget", c>>
      BY <1>1, <1>3, <2>2 DEF Call
    <2>12. Viewing(fd, Logical(Lib, open[fd].file), Position(Lib, fd), <<c>>)
      BY <2>5, <2>7, <2>10, <2>11, Viewed
    <2> QED  BY <2>11, <2>12, UngetSeen
  <1> QED  BY <1>2, <1>3

-----------------------------------------------------------------------------
(* Reading is seen as one read.                                              *)

\* Two pieces of a file that follow each other are one.
LEMMA PiecesJoin ==
    ASSUME NEW c \in Seq(Byte), NEW s \in Seq(Byte), NEW p \in Seq(Byte), NEW pos \in Nat,
           pos + (Len(s) + Len(p)) <= Len(c),
           \A j \in 1 .. Len(s) : s[j] = c[pos + j],
           \A j \in 1 .. Len(p) : p[j] = c[pos + Len(s) + j]
    PROVE  s \o p = SubSeq(c, pos + 1, pos + (Len(s) + Len(p)))
  <1>q. PICK q : q = s \o p
    OBVIOUS
  <1>z. PICK z : z = SubSeq(c, pos + 1, pos + (Len(s) + Len(p)))
    OBVIOUS
  <1>1. q \in Seq(Byte) /\ Len(q) = Len(s) + Len(p) /\ Len(s) \in Nat /\ Len(p) \in Nat
        /\ \A j \in 1 .. Len(q) : q[j] = IF j <= Len(s) THEN s[j] ELSE p[j - Len(s)]
    BY <1>q
  <1>2. z \in Seq(Byte) /\ Len(z) = Len(q) /\ \A j \in 1 .. Len(q) : z[j] = c[pos + j]
    <2>1. Len(s) + Len(p) \in Nat
      BY <1>1
    <2> QED  BY <1>1, <1>z, <2>1, SliceType
  <1>3. ASSUME NEW j \in 1 .. Len(q) PROVE q[j] = z[j]
    <2>1. CASE j <= Len(s)
      <3>1. j \in 1 .. Len(s)
        BY <1>1, <2>1
      <3>2. s[j] = c[pos + j]
        BY <3>1
      <3> QED  BY <1>1, <1>2, <2>1, <3>2
    <2>2. CASE ~(j <= Len(s))
      <3>1. j - Len(s) \in 1 .. Len(p) /\ pos + Len(s) + (j - Len(s)) = pos + j
        BY <1>1, <2>2
      <3>2. p[j - Len(s)] = c[pos + j]
        BY <3>1
      <3> QED  BY <1>1, <1>2, <2>2, <3>2
    <2> QED  BY <2>1, <2>2
  <1>4. q = z
    BY <1>1, <1>2, <1>3, SeqEqual
  <1> QED  BY <1>4, <1>q, <1>z

\* How much a read of n bytes gets from the buffer, k, and from the descriptor.
ReadArith(U, P, off, lc, n, rd, k, need, B) ==
    /\ k \in Nat /\ need \in Nat /\ k <= U /\ (need > 0 => k = U) /\ Least(need, B) \in Nat
    /\ k + Least(need, B) = IF rd THEN Least(n - P, lc - (off - U)) ELSE 0
    /\ Least(need, B) <= B /\ Least(need, B) <= need
    /\ (B > Least(need, B) => Least(need, B) = need /\ need > 0 /\ rd)
    /\ off + B <= lc

ReadSizes(U, P, off, lc, n, rd, k, need, B, m) ==
    /\ U \in Nat /\ P \in {0, 1} /\ off \in Nat /\ lc \in Nat /\ n \in Nat \ {0} /\ rd \in BOOLEAN
    /\ k \in Nat /\ need \in Nat /\ B \in Nat /\ m \in Nat
    /\ off <= lc /\ U <= off /\ (~rd => U = 0 /\ P = 0)
    /\ k = Least(U, n - P) /\ need = n - P - k
    /\ (need = 0 => B = 0) /\ (need > 0 => need <= m /\ B = (IF rd THEN Least(m, lc - off) ELSE 0))

LEMMA ReadLengths ==
    ASSUME NEW U, NEW P, NEW off, NEW lc, NEW n, NEW rd, NEW k, NEW need, NEW B, NEW m,
           ReadSizes(U, P, off, lc, n, rd, k, need, B, m)
    PROVE  ReadArith(U, P, off, lc, n, rd, k, need, B)
  BY DEF Least, ReadArith, ReadSizes

RestLen(w, fd, n) ==
    IF w.open[fd].how.rd
       THEN Least(n - Pushed(InSlot(w, fd)), Len(w.disk[w.open[fd].file]) - (w.open[fd].off - Unread(InSlot(w, fd))))
       ELSE 0
RestIn(w, fd, n) ==
    SubSeq(w.disk[w.open[fd].file], w.open[fd].off - Unread(InSlot(w, fd)) + 1,
           w.open[fd].off - Unread(InSlot(w, fd)) + RestLen(w, fd, n))

\* The numbers of a read: of the k bytes of the buffer, the m of the block, and
\* of all.
ReadNumbers(w, fd, n, k, need, B, m) ==
    LET t == InSlot(w, fd)
        off == w.open[fd].off
        lc == Len(w.disk[w.open[fd].file])
    IN
    /\ Unread(t) \in Nat /\ Pushed(t) \in {0, 1} /\ off \in Nat /\ lc \in Nat /\ off <= lc /\ Unread(t) <= off
    /\ k \in Nat /\ need \in Nat /\ k <= Unread(t) /\ (need > 0 => k = Unread(t)) /\ m \in Nat /\ B \in Nat
    /\ k + m = RestLen(w, fd, n) /\ m <= B /\ m <= need
    /\ (B > m => m = need /\ need > 0 /\ w.open[fd].how.rd) /\ off + B <= lc
    /\ (need = 0 => B = 0) /\ (~(Index(w, fd) # 0 /\ need < BufSize) => B = m)

LEMMA ReadCounts ==
    ASSUME NEW w, Fit(w, {}), NEW fd \in Fd, w.open[fd] # None, InSlot(w, fd).wlen = 0, MirrorAt(w, fd),
           NEW n \in Nat \ {0}
    PROVE  ReadNumbers(w, fd, n, FromBuffer(InSlot(w, fd), n), Needed(InSlot(w, fd), n),
                       Len(Block(w, fd, n)), Least(Needed(InSlot(w, fd), n), Len(Block(w, fd, n))))
  <1>t. PICK t : t = InSlot(w, fd)
    OBVIOUS
  <1>U. PICK U, P, off, lc : U = Unread(t) /\ P = Pushed(t) /\ off = w.open[fd].off /\ lc = Len(w.disk[w.open[fd].file])
    OBVIOUS
  <1>k. PICK k, need, B, rd : k = FromBuffer(t, n) /\ need = Needed(t, n) /\ B = Len(Block(w, fd, n))
                             /\ rd = w.open[fd].how.rd
    OBVIOUS
  <1>1. t \in Slot /\ SlotFit(t) /\ U \in Nat /\ P \in {0, 1}
    BY <1>t, <1>U, UnreadType
  <1>2. off \in Nat /\ lc \in Nat /\ off <= lc /\ rd \in BOOLEAN
    <2>1. w.open[fd] \in OpenFile /\ w.disk[w.open[fd].file] \in Seq(Byte)
      BY AtFits
    <2>2. off <= lc
      BY <1>U DEF Fit
    <2> QED  BY <1>U, <1>k, <2>1, <2>2, OpenFileParts
  <1>3. U <= off /\ (~rd => U = 0 /\ P = 0)
    <2>1. Truthful(w.disk[w.open[fd].file], w.open[fd], t)
      BY <1>t DEF MirrorAt
    <2>2. (U > 0 => rd /\ U < off) /\ (t.ung # None => rd)
      BY <1>U, <1>k, <2>1 DEF Truthful
    <2>3. t.ung = None => P = 0
      BY <1>U DEF Pushed
    <2> QED  BY <1>1, <1>2, <2>2, <2>3
  <1>4. k = Least(U, n - P) /\ need = n - P - k
    BY <1>U, <1>k DEF FromBuffer, Needed
  <1>5. NextBytes(w, fd, Block(w, fd, n))
    BY <1>1, <1>t, BlockType
  <1>6. B \in Nat
    BY <1>5, <1>k DEF NextBytes
  <1>7. need = 0 => B = 0
    BY <1>k, <1>t DEF Block
  <1>8. need \in Nat /\ k \in Nat /\ BufSize \in Nat
    BY <1>1, <1>k, HadType, StdioAssumption
  <1>m. PICK m : m = IF Index(w, fd) # 0 /\ need < BufSize THEN BufSize ELSE need
    OBVIOUS
  <1>9. m \in Nat /\ (need > 0 => need <= m /\ B = IF rd THEN Least(m, lc - off) ELSE 0)
    <2>1. m \in Nat /\ need <= m
      BY <1>8, <1>m
    <2> SUFFICES ASSUME need > 0 PROVE B = IF rd THEN Least(m, lc - off) ELSE 0
      BY <2>1
    <2>2. Block(w, fd, n) = Given(w, fd, m)
      BY <1>8, <1>k, <1>t, <1>m DEF Block
    <2>3. B = GivenLen(w, fd, m)
      BY <1>k, <2>1, <2>2, GivenType
    <2> QED  BY <1>U, <1>k, <2>3 DEF GivenLen
  <1>10. ReadArith(U, P, off, lc, n, rd, k, need, B)
    <2>1. U \in Nat /\ P \in {0, 1} /\ off \in Nat /\ lc \in Nat /\ off <= lc /\ U <= off /\ rd \in BOOLEAN
          /\ (~rd => U = 0 /\ P = 0)
      BY <1>1, <1>2, <1>3
    <2>2. k \in Nat /\ need \in Nat /\ B \in Nat /\ m \in Nat /\ (need = 0 => B = 0)
      BY <1>6, <1>7, <1>8, <1>9
    <2>3. need > 0 => need <= m /\ B = (IF rd THEN Least(m, lc - off) ELSE 0)
      BY <1>9
    <2>4. ReadSizes(U, P, off, lc, n, rd, k, need, B, m)
      BY <2>1, <2>2, <2>3, <1>4 DEF ReadSizes
    <2> QED  BY <2>4, ReadLengths, Zenon
  <1>11. k + Least(need, B) = RestLen(w, fd, n)
    BY <1>10, <1>k, <1>t, <1>U DEF RestLen, ReadArith
  <1>12. ~(Index(w, fd) # 0 /\ need < BufSize) => B = Least(need, B)
    <2> SUFFICES ASSUME ~(Index(w, fd) # 0 /\ need < BufSize) PROVE B <= need
      BY <1>6, <1>8 DEF Least
    <2>1. m = need
      BY <1>m
    <2>2. CASE need = 0
      BY <1>7, <2>2
    <2>3. CASE need > 0
      BY <1>2, <1>8, <1>9, <2>1, <2>3 DEF Least
    <2> QED  BY <1>8, <2>2, <2>3
  <1> QED  BY <1>1, <1>2, <1>3, <1>6, <1>7, <1>10, <1>11, <1>12, <1>k, <1>t, <1>U DEF ReadNumbers, ReadArith

\* The slot a read of k bytes of the buffer and m of the block b leaves.
ReadLeaves(w, fd, b, t, u, k, m) ==
    LET off == w.open[fd].off
        c == w.disk[w.open[fd].file]
    IN
    /\ u.wlen = 0 /\ u.ung = None /\ u.ro = t.ro
    /\ Unread(u) \in Nat /\ off + Len(b) - Unread(u) = off - Unread(t) + (k + m)
    /\ (Unread(u) > 0 => w.open[fd].how.rd /\ Unread(u) < off + Len(b))
    /\ \A j \in 1 .. Unread(u) : u.buf[u.bpos + j] = c[off + Len(b) - Unread(u) + j]

LEMMA ReadLeft ==
    ASSUME NEW w, Fit(w, {}), NEW fd \in Fd, w.open[fd] # None, InSlot(w, fd).wlen = 0, MirrorAt(w, fd),
           NEW n \in Nat \ {0}
    PROVE  LET t == InSlot(w, fd) IN
           ReadLeaves(w, fd, Block(w, fd, n), t, IF Index(w, fd) = 0 THEN t ELSE ReadSlot(w, fd, n, t),
                      FromBuffer(t, n), Least(Needed(t, n), Len(Block(w, fd, n))))
  <1>t. PICK t : t = InSlot(w, fd)
    OBVIOUS
  <1>c. PICK off, c : off = w.open[fd].off /\ c = w.disk[w.open[fd].file]
    OBVIOUS
  <1>b. PICK b : b = Block(w, fd, n)
    OBVIOUS
  <1>k. PICK U, k, need, B : U = Unread(t) /\ k = FromBuffer(t, n) /\ need = Needed(t, n) /\ B = Len(b)
    OBVIOUS
  <1>m. PICK m : m = Least(need, B)
    OBVIOUS
  <1>u. PICK u : u = IF Index(w, fd) = 0 THEN t ELSE ReadSlot(w, fd, n, t)
    OBVIOUS
  <1>1. t \in Slot /\ SlotFit(t) /\ t.wlen = 0 /\ t.bpos \in Nat /\ t.blen \in Nat
    BY <1>t, UnreadType, SlotParts
  <1>2. ReadNumbers(w, fd, n, k, need, B, m)
    BY <1>t, <1>b, <1>k, <1>m, ReadCounts
  <1>3. /\ U \in Nat /\ off \in Nat /\ U <= off /\ k \in Nat /\ need \in Nat /\ B \in Nat /\ m \in Nat
        /\ k <= U /\ m <= B /\ (need > 0 => k = U) /\ (need = 0 => B = 0) /\ m <= need
        /\ (B > m => need > 0 /\ m = need /\ w.open[fd].how.rd)
        /\ (~(Index(w, fd) # 0 /\ need < BufSize) => B = m)
    BY <1>2, <1>c, <1>k, <1>t DEF ReadNumbers
  <1>4. /\ (U > 0 => w.open[fd].how.rd /\ U < off)
        /\ \A j \in 1 .. U : t.buf[t.bpos + j] = c[off - U + j]
    BY <1>c, <1>k, <1>t DEF MirrorAt, Truthful
  <1>5. \A j \in 1 .. B : b[j] = c[off + j]
    <2>1. NextBytes(w, fd, b)
      BY <1>1, <1>b, <1>t, BlockType
    <2> QED  BY <2>1, <1>c, <1>k DEF NextBytes
  <1>6. CASE Index(w, fd) = 0
    <2>1. t = Blank(fd)
      BY <1>6, <1>t, IndexFacts
    <2>2. u = t
      BY <1>6, <1>u
    <2>3. t.ung = None /\ U = 0
      BY <1>k, <2>1 DEF Blank, Unread
    <2>4. k = 0 /\ B = m
      BY <1>3, <1>6, <2>3
    <2>5. Unread(u) = 0 /\ 1 .. Unread(u) = {}
      BY <1>k, <2>2, <2>3
    <2>6. off + B - Unread(u) = off - U + (k + m)
      BY <1>3, <2>3, <2>4, <2>5
    <2> QED  BY <1>1, <2>2, <2>3, <2>5, <2>6, <1>t, <1>c, <1>b, <1>k, <1>m, <1>u DEF ReadLeaves
  <1>7. CASE Index(w, fd) # 0
    <2>r. PICK refilled : refilled = (Index(w, fd) # 0 /\ need < BufSize /\ need > 0)
      OBVIOUS
    <2>1. /\ u.wlen = 0 /\ u.ung = None /\ u.ro = t.ro
          /\ u.buf = (IF refilled THEN b ELSE t.buf)
          /\ u.bpos = (IF refilled THEN m ELSE t.bpos + k)
          /\ u.blen = (IF refilled THEN B ELSE t.blen)
      <3>1. LET v == ReadSlot(w, fd, n, t)
                again == Index(w, fd) # 0 /\ Needed(t, n) < BufSize /\ Needed(t, n) > 0
            IN /\ v \in Slot /\ SlotFit(v) /\ v.fd = t.fd /\ v.wlen = 0 /\ v.ung = None /\ v.ro = t.ro
               /\ v.buf = IF again THEN Block(w, fd, n) ELSE t.buf
               /\ v.bpos = IF again THEN Least(Needed(t, n), Len(Block(w, fd, n))) ELSE t.bpos + FromBuffer(t, n)
               /\ v.blen = IF again THEN Len(Block(w, fd, n)) ELSE t.blen
        BY <1>1, <1>t, ReadSlotType
      <3>2. u = ReadSlot(w, fd, n, t)
        BY <1>7, <1>u
      <3> QED  BY <3>1, <3>2, <2>r, <1>b, <1>k, <1>m
    <2>2. t.blen - t.bpos = U
      BY <1>k DEF Unread
    <2>3. CASE refilled
      <3>1. Unread(u) = B - m
        BY <2>1, <2>3 DEF Unread
      <3>2. need > 0 /\ k = U
        BY <1>3, <2>3, <2>r
      <3>3. Unread(u) \in Nat /\ off + B - Unread(u) = off - U + (k + m)
        BY <1>3, <3>1, <3>2
      <3>4. Unread(u) > 0 => w.open[fd].how.rd /\ Unread(u) < off + B
        BY <1>3, <3>1, <3>2
      <3>5. ASSUME NEW j \in 1 .. Unread(u) PROVE u.buf[u.bpos + j] = c[off + B - Unread(u) + j]
        <4>1. m + j \in 1 .. B /\ off + (m + j) = off + B - Unread(u) + j
          BY <1>3, <3>1
        <4>2. b[m + j] = c[off + (m + j)]
          BY <1>5, <4>1
        <4> QED  BY <2>1, <2>3, <4>1, <4>2
      <3> QED  BY <2>1, <3>3, <3>4, <3>5, <1>t, <1>c, <1>b, <1>k, <1>m, <1>u DEF ReadLeaves
    <2>4. CASE ~refilled
      <3>1. Unread(u) = U - k
        BY <1>1, <1>3, <2>1, <2>2, <2>4 DEF Unread
      <3>2. B = m /\ (need > 0 => k = U) /\ (need = 0 => B = 0)
        <4>1. CASE need < BufSize
          <5>1. ~(need > 0)
            BY <1>7, <2>4, <2>r, <4>1
          <5> QED  BY <1>3, <5>1
        <4>2. CASE ~(need < BufSize)
          BY <1>3, <4>2
        <4> QED  BY <4>1, <4>2
      <3>3. Unread(u) \in Nat /\ off + B - Unread(u) = off - U + (k + m)
        BY <1>3, <3>1, <3>2
      <3>4. Unread(u) > 0 => U > 0 /\ B = 0
        BY <1>3, <3>1, <3>2
      <3>5. Unread(u) > 0 => w.open[fd].how.rd /\ Unread(u) < off + B
        BY <1>3, <1>4, <3>1, <3>4
      <3>6. ASSUME NEW j \in 1 .. Unread(u) PROVE u.buf[u.bpos + j] = c[off + B - Unread(u) + j]
        <4>1. k + j \in 1 .. U /\ off - U + (k + j) = off + B - Unread(u) + j /\ t.bpos + (k + j) = t.bpos + k + j
          BY <1>1, <1>3, <3>1, <3>4
        <4>2. t.buf[t.bpos + (k + j)] = c[off - U + (k + j)]
          BY <1>4, <4>1
        <4> QED  BY <2>1, <2>4, <4>1, <4>2
      <3> QED  BY <2>1, <3>3, <3>5, <3>6, <1>t, <1>c, <1>b, <1>k, <1>m, <1>u DEF ReadLeaves
    <2> QED  BY <2>3, <2>4
  <1> QED  BY <1>6, <1>7

\* A read of a stream with nothing to write gives the byte pushed back and then
\* the bytes that follow.
ReadView(w, q, fd, n) ==
    /\ q.data = PushOf(InSlot(w, fd)) \o RestIn(w, fd, n)
    /\ RestIn(w, fd, n) \in Seq(Byte) /\ Len(RestIn(w, fd, n)) = RestLen(w, fd, n)
    /\ View(q.w, fd, w.disk[w.open[fd].file], Position(w, fd) + Len(RestIn(w, fd, n)), <<>>)

LEMMA Associative ==
    ASSUME NEW r \in Seq(Byte), NEW s \in Seq(Byte), NEW p \in Seq(Byte)
    PROVE  (r \o s) \o p = r \o (s \o p)
  <1>a. PICK a : a = (r \o s) \o p
    OBVIOUS
  <1>b. PICK b : b = r \o (s \o p)
    OBVIOUS
  <1>1. r \o s \in Seq(Byte) /\ Len(r \o s) = Len(r) + Len(s) /\ s \o p \in Seq(Byte) /\ Len(s \o p) = Len(s) + Len(p)
    BY ConcatType
  <1>2. a \in Seq(Byte) /\ b \in Seq(Byte) /\ Len(a) = Len(r) + Len(s) + Len(p) /\ Len(b) = Len(a)
    BY <1>1, <1>a, <1>b, ConcatType
  <1>3. \A j \in 1 .. Len(a) : a[j] = b[j]
    BY <1>1, <1>2, <1>a, <1>b
  <1>4. a = b
    BY <1>2, <1>3, SeqEqual
  <1> QED  BY <1>4, <1>a, <1>b

LEMMA ReadShows ==
    ASSUME NEW w, Fit(w, {}), Apart(w), NEW fd \in Fd, w.open[fd] # None, InSlot(w, fd).wlen = 0, MirrorAt(w, fd),
           NEW n \in Nat \ {0}, NEW q, ReadStep(w, q, {}, fd, n)
    PROVE  ReadView(w, q, fd, n)
  <1>t. PICK t : t = InSlot(w, fd)
    OBVIOUS
  <1>c. PICK off, c : off = w.open[fd].off /\ c = w.disk[w.open[fd].file]
    OBVIOUS
  <1>b. PICK b : b = Block(w, fd, n)
    OBVIOUS
  <1>k. PICK U, k, need, B : U = Unread(t) /\ k = FromBuffer(t, n) /\ need = Needed(t, n) /\ B = Len(b)
    OBVIOUS
  <1>m. PICK m : m = Least(need, B)
    OBVIOUS
  <1>u. PICK u : u = InSlot(q.w, fd)
    OBVIOUS
  <1>f. PICK f : f = PushOf(t)
    OBVIOUS
  <1>s. PICK s : s = SubSeq(t.buf, t.bpos + 1, t.bpos + k)
    OBVIOUS
  <1>p. PICK p : p = Prefix(b, need)
    OBVIOUS
  <1>1. /\ t \in Slot /\ SlotFit(t) /\ t.wlen = 0 /\ t.bpos \in Nat /\ t.blen \in Nat /\ t.buf \in Seq(Byte)
        /\ t.blen <= Len(t.buf) /\ c \in Seq(Byte) /\ Len(t.buf) \in Nat
    BY <1>t, <1>c, UnreadType, SlotParts, AtFits DEF SlotFit
  <1>2. ReadNumbers(w, fd, n, k, need, B, m)
    BY <1>t, <1>b, <1>k, <1>m, ReadCounts
  <1>3. /\ U \in Nat /\ off \in Nat /\ U <= off /\ k \in Nat /\ need \in Nat /\ B \in Nat /\ m \in Nat
        /\ k <= U /\ m <= B /\ (need > 0 => k = U) /\ m <= need /\ off + B <= Len(c) /\ Len(c) \in Nat
        /\ k + m = RestLen(w, fd, n)
    BY <1>2, <1>c, <1>k, <1>t DEF ReadNumbers
  <1>4. b \in Seq(Byte) /\ \A j \in 1 .. B : b[j] = c[off + j]
    <2>1. NextBytes(w, fd, b)
      BY <1>1, <1>b, <1>t, BlockType
    <2> QED  BY <2>1, <1>c, <1>k DEF NextBytes
  <1>5. \A j \in 1 .. U : t.buf[t.bpos + j] = c[off - U + j]
    BY <1>c, <1>k, <1>t DEF MirrorAt, Truthful
  <1>6. f \in Seq(Byte) /\ f = (IF t.ung = None THEN <<>> ELSE <<t.ung>>)
    BY <1>1, <1>f, PushType DEF PushOf
  <1>7. s \in Seq(Byte) /\ Len(s) = k /\ \A j \in 1 .. k : s[j] = t.buf[t.bpos + j]
    <2>1. U = t.blen - t.bpos
      BY <1>k DEF Unread
    <2>2. t.bpos + k <= Len(t.buf) /\ k \in Nat
      BY <1>1, <1>3, <2>1, SMTT(30)
    <2>3. /\ SubSeq(t.buf, t.bpos + 1, t.bpos + k) \in Seq(Byte) /\ Len(SubSeq(t.buf, t.bpos + 1, t.bpos + k)) = k
          /\ \A j \in 1 .. k : SubSeq(t.buf, t.bpos + 1, t.bpos + k)[j] = t.buf[t.bpos + j]
      BY <1>1, <2>2, SliceType, ZenonT(60)
    <2> QED  BY <1>s, <2>3
  <1>8. p \in Seq(Byte) /\ Len(p) = m /\ \A j \in 1 .. m : p[j] = b[j]
    <2>1. need \in Nat
      BY <1>3
    <2>2. Len(b) = B
      BY <1>k
    <2> QED  BY <1>4, <1>m, <1>p, <2>1, <2>2, PrefixLen
  <1>9. q.data = f \o (s \o p)
    <2>1. q.data = Had(t, n) \o p
      BY <1>t, <1>b, <1>k, <1>p DEF ReadStep
    <2>2. Had(t, n) = f \o s
      BY <1>6, <1>k, <1>s DEF Had
    <2>3. (f \o s) \o p = f \o (s \o p)
      BY <1>6, <1>7, <1>8, Associative
    <2> QED  BY <2>1, <2>2, <2>3
  <1>g. PICK pos : pos = off - U
    OBVIOUS
  <1>10. pos \in Nat /\ pos + (k + m) <= Len(c)
    BY <1>3, <1>g
  <1>11. \A j \in 1 .. k : s[j] = c[pos + j]
    <2> SUFFICES ASSUME NEW j \in 1 .. k PROVE s[j] = c[pos + j]
      OBVIOUS
    <2>1. j \in 1 .. U
      BY <1>3
    <2> QED  BY <1>5, <1>7, <1>g, <2>1
  <1>12. \A j \in 1 .. m : p[j] = c[pos + k + j]
    <2> SUFFICES ASSUME NEW j \in 1 .. m PROVE p[j] = c[pos + k + j]
      OBVIOUS
    <2>1. j \in 1 .. B /\ k = U /\ pos + k + j = off + j
      BY <1>3, <1>g
    <2> QED  BY <1>4, <1>8, <2>1
  <1>13. s \o p = SubSeq(c, pos + 1, pos + (k + m))
    <2>1. /\ pos + (Len(s) + Len(p)) <= Len(c)
          /\ (\A j \in 1 .. Len(s) : s[j] = c[pos + j])
          /\ (\A j \in 1 .. Len(p) : p[j] = c[pos + Len(s) + j])
      BY <1>7, <1>8, <1>10, <1>11, <1>12
    <2>2. s \o p = SubSeq(c, pos + 1, pos + (Len(s) + Len(p)))
      BY <1>1, <1>7, <1>8, <1>10, <2>1, PiecesJoin
    <2> QED  BY <1>7, <1>8, <2>2
  <1>14. s \o p = RestIn(w, fd, n)
    BY <1>3, <1>13, <1>c, <1>g, <1>k, <1>t DEF RestIn
  <1>15. s \o p \in Seq(Byte) /\ Len(s \o p) = k + m
    BY <1>7, <1>8, ConcatType
  <1>16. ReadLeaves(w, fd, b, t, u, k, m)
    <2>1. u = IF Index(w, fd) = 0 THEN t ELSE ReadSlot(w, fd, n, t)
      BY <1>t, <1>u DEF ReadStep
    <2>2. ReadLeaves(w, fd, b, t, IF Index(w, fd) = 0 THEN t ELSE ReadSlot(w, fd, n, t), k, m)
      BY <1>t, <1>b, <1>k, <1>m, ReadLeft
    <2> QED  BY <2>1, <2>2
  <1>17. /\ Fit(q.w, {}) /\ OnlyFor(w, q.w, fd) /\ q.w.disk = w.disk /\ q.w.open[fd].off = off + B
         /\ q.w.open[fd] # None /\ q.w.open[fd].file = w.open[fd].file /\ q.w.open[fd].how = w.open[fd].how
    BY <1>b, <1>c, <1>k DEF ReadStep, OnlyFor
  <1>18. Apart(q.w)
    BY <1>17, OnlyForSteady, SteadyApart
  <1>19. /\ Logical(q.w, q.w.open[fd].file) = c /\ Position(q.w, fd) = off + B - Unread(u)
    <2>1. u.wlen = 0
      BY <1>16 DEF ReadLeaves
    <2>2. /\ Logical(q.w, q.w.open[fd].file) = q.w.disk[q.w.open[fd].file]
          /\ Position(q.w, fd) = q.w.open[fd].off - Unread(InSlot(q.w, fd))
      BY <1>17, <1>18, <1>u, <2>1, Plain
    <2>3. q.w.disk[q.w.open[fd].file] = c
      BY <1>17, <1>c
    <2>4. q.w.open[fd].off - Unread(InSlot(q.w, fd)) = off + B - Unread(u)
      <3>1. Unread(InSlot(q.w, fd)) = Unread(u)
        BY <1>u
      <3>2. q.w.open[fd].off = off + B
        BY <1>17
      <3>3. Unread(u) \in Nat
        BY <1>16 DEF ReadLeaves
      <3> QED  BY <1>3, <3>1, <3>2, <3>3
    <2> QED  BY <2>2, <2>3, <2>4
  <1>20. Position(w, fd) = off - U
    BY <1>1, <1>c, <1>k, <1>t, Plain
  <1>21. Position(q.w, fd) = Position(w, fd) + Len(RestIn(w, fd, n))
    <2>1. off + B - Unread(u) = off - U + (k + m)
      BY <1>16, <1>c, <1>k DEF ReadLeaves
    <2> QED  BY <1>14, <1>15, <1>19, <1>20, <2>1
  <1>22. PushOf(u) = <<>>
    BY <1>16 DEF ReadLeaves, PushOf
  <1>23. MirrorAt(q.w, fd)
    <2>1. Truthful(c, w.open[fd], t)
      BY <1>c, <1>t DEF MirrorAt
    <2>2. /\ u.wlen = 0 /\ u.ung = None /\ u.ro = t.ro
          /\ (Unread(u) > 0 => w.open[fd].how.rd /\ Unread(u) < off + B)
          /\ \A j \in 1 .. Unread(u) : u.buf[u.bpos + j] = c[off + B - Unread(u) + j]
      BY <1>16, <1>c, <1>k DEF ReadLeaves
    <2>3. t.ro = ~w.open[fd].how.wr
      BY <2>1 DEF Truthful
    <2>4. Truthful(c, q.w.open[fd], u)
      <3>o. PICK o, U2 : o = q.w.open[fd] /\ U2 = Unread(u)
        OBVIOUS
      <3>1. o.how = w.open[fd].how /\ o.off = off + B
        BY <1>17, <3>o
      <3>2. U2 > 0 => o.how.rd /\ U2 < o.off
        BY <2>2, <3>1, <3>o
      <3>3. \A j \in 1 .. U2 : u.buf[u.bpos + j] = c[o.off - U2 + j]
        <4>1. o.off - U2 = off + B - Unread(u)
          <5>1. Unread(u) \in Nat
            BY <1>16 DEF ReadLeaves
          <5> QED  BY <1>3, <3>1, <3>o, <5>1
        <4> QED  BY <2>2, <3>o, <4>1
      <3>4. ~(u.wlen > 0) /\ ~(u.ung # None) /\ u.ro = ~o.how.wr
        BY <2>2, <2>3, <3>1
      <3> QED  BY <3>2, <3>3, <3>4, <3>o DEF Truthful
    <2> QED  BY <1>17, <1>c, <1>u, <2>4 DEF MirrorAt
  <1>24. View(q.w, fd, c, Position(w, fd) + Len(RestIn(w, fd, n)), <<>>)
    BY <1>19, <1>21, <1>22, <1>23, <1>u DEF View
  <1> QED  BY <1>3, <1>9, <1>14, <1>15, <1>24, <1>c, <1>f, <1>t DEF ReadView

\* A read after its flush.
ReadGives(fd, n, w, q) ==
    /\ q.data = PushOf(InSlot(Lib, fd)) \o Rest(fd, n)
    /\ Fit(q.w, {}) /\ OnlyFor(Lib, q.w, fd) /\ q.w.open[fd] # None /\ SamePlaces(w, q.w)
    /\ View(q.w, fd, Logical(Lib, open[fd].file), Position(Lib, fd) + Len(Rest(fd, n)), <<>>)

LEMMA ReadAfterFlush ==
    ASSUME StdioInv, Mirrors(Lib), ~full, NEW fd \in Streams, NEW n \in Nat \ {0},
           NEW r \in u_st_wflush(u_st_slot(Lib, fd), Index(u_st_slot(Lib, fd), fd))
    PROVE  ReadGives(fd, n, r.w, Taken(r.w, fd, n))
  <1>q. PICK q : q = Taken(r.w, fd, n)
    OBVIOUS
  <1>L. PICK L : L = Logical(Lib, open[fd].file)
    OBVIOUS
  <1>1. FlushedSeen(fd, r) /\ fd \in Fd /\ Lib.open = open
    BY FlushingShows, StreamIsOpen DEF Lib
  <1>2. /\ Fit(r.w, {}) /\ OnlyFor(Lib, r.w, fd) /\ InSlot(r.w, fd).wlen = 0 /\ r.w.open[fd] # None
        /\ Position(r.w, fd) = Position(Lib, fd) /\ PushOf(InSlot(r.w, fd)) = PushOf(InSlot(Lib, fd))
        /\ MirrorAt(r.w, fd) /\ r.w.disk[open[fd].file] = L /\ r.w.open[fd].file = open[fd].file
        /\ r.w.open[fd].how = open[fd].how
    BY <1>1, <1>L DEF FlushedSeen, Ready, StillSeen, View
  <1>3. Apart(r.w)
    BY <1>1, <1>2, StreamIsOpen, OnlyForSteady, SteadyApart DEF StdioInv
  <1>4. ReadStep(r.w, q, {}, fd, n)
    BY <1>1, <1>2, <1>q, TakenKeeps
  <1>5. ReadView(r.w, q, fd, n)
    BY <1>1, <1>2, <1>3, <1>4, ReadShows
  <1>o. PICK off, U, lc : off = r.w.open[fd].off /\ U = Unread(InSlot(r.w, fd)) /\ lc = Len(L)
    OBVIOUS
  <1>p. PICK pos, P, rd : pos = off - U /\ P = Pushed(InSlot(r.w, fd)) /\ rd = open[fd].how.rd
    OBVIOUS
  <1>6. /\ Position(Lib, fd) = pos /\ pos \in Nat /\ lc \in Nat /\ pos <= lc /\ P \in {0, 1} /\ rd \in BOOLEAN
    <2>1. ReadNumbers(r.w, fd, n, FromBuffer(InSlot(r.w, fd), n), Needed(InSlot(r.w, fd), n),
                       Len(Block(r.w, fd, n)), Least(Needed(InSlot(r.w, fd), n), Len(Block(r.w, fd, n))))
      BY <1>1, <1>2, ReadCounts
    <2>2. U \in Nat /\ P \in {0, 1} /\ off \in Nat /\ lc \in Nat /\ off <= lc /\ U <= off
      BY <2>1, <1>2, <1>o, <1>p DEF ReadNumbers
    <2>3. r.w.open[fd] \in OpenFile
      BY <1>1, <1>2, AtFits
    <2>4. rd \in BOOLEAN
      BY <1>2, <1>p, <2>3, OpenFileParts
    <2>5. Position(r.w, fd) = off - U
      BY <1>1, <1>2, <1>3, <1>o, Plain
    <2>6. pos \in Nat /\ pos <= lc
      BY <1>p, <2>2
    <2> QED  BY <1>2, <1>p, <2>2, <2>4, <2>5, <2>6
  <1>7. Len(PushOf(InSlot(Lib, fd))) = P
    <2>1. InSlot(r.w, fd) \in Slot
      BY <1>1, <1>2, UnreadType
    <2> QED  BY <1>2, <1>p, <2>1, PushType
  <1>8. Rest(fd, n) = RestIn(r.w, fd, n)
    <2>l. PICK l : l = IF rd THEN Least(n - P, lc - pos) ELSE 0
      OBVIOUS
    <2>e. PICK e : e = IF rd THEN pos + n - P ELSE pos
      OBVIOUS
    <2>1. RestLen(r.w, fd, n) = l
      BY <1>2, <1>o, <1>p, <2>l DEF RestLen
    <2>2. RestIn(r.w, fd, n) = SubSeq(L, pos + 1, pos + l)
      BY <1>2, <1>o, <1>p, <2>1 DEF RestIn
    <2>3. Rest(fd, n) = SubSeq(L, pos + 1, IF e > lc THEN lc ELSE e)
      BY <1>6, <1>7, <1>L, <1>o, <1>p, <2>e DEF Rest
    <2>4. (IF e > lc THEN lc ELSE e) = pos + l
      <3>1. CASE rd
        BY <1>6, <2>e, <2>l, <3>1 DEF Least
      <3>2. CASE ~rd
        BY <1>6, <2>e, <2>l, <3>2
      <3> QED  BY <3>1, <3>2
    <2> QED  BY <2>2, <2>3, <2>4
  <1>9. q.data = PushOf(InSlot(Lib, fd)) \o Rest(fd, n)
    BY <1>2, <1>5, <1>8 DEF ReadView
  <1>10. View(q.w, fd, L, Position(Lib, fd) + Len(Rest(fd, n)), <<>>)
    BY <1>2, <1>5, <1>8 DEF ReadView
  <1>11. Fit(q.w, {}) /\ OnlyFor(Lib, q.w, fd) /\ q.w.open[fd] # None /\ SamePlaces(r.w, q.w)
    <2>1. Fit(q.w, {}) /\ OnlyFor(r.w, q.w, fd) /\ SamePlaces(r.w, q.w)
      BY <1>4 DEF ReadStep
    <2> QED  BY <1>2, <2>1, OnlyForTransitive DEF OnlyFor
  <1> QED  BY <1>9, <1>10, <1>11, <1>L, <1>q DEF ReadGives

LEMMA ReadShown ==
    ASSUME StdioInv, Mirrors(Lib), ~full, NEW fd \in Streams, NEW n \in scope.counts, fread(fd, n)
    PROVE  Faithful
  <1>1. PICK r \in u_st_wflush(u_st_slot(Lib, fd), Index(u_st_slot(Lib, fd), fd)) :
            Call(Taken(r.w, fd, n).w, <<"read", Taken(r.w, fd, n).data>>)
    BY DEF fread
  <1>2. n \in Nat \ {0}
    BY ScopeParts
  <1>q. PICK q : q = Taken(r.w, fd, n)
    OBVIOUS
  <1>3. ReadGives(fd, n, r.w, q)
    BY <1>2, <1>q, ReadAfterFlush
  <1>4. Become(q.w) /\ answer' = <<"read", PushOf(InSlot(Lib, fd)) \o Rest(fd, n)>>
    BY <1>1, <1>3, <1>q DEF Call, ReadGives
  <1>5. Viewing(fd, Logical(Lib, open[fd].file), Position(Lib, fd) + Len(Rest(fd, n)), <<>>)
    BY <1>3, <1>4, Viewed DEF ReadGives
  <1>6. n \in scope.counts \union {1}
    OBVIOUS
  <1> QED  BY <1>4, <1>5, <1>6, ReadSeen

LEMMA GetShown ==
    ASSUME StdioInv, Mirrors(Lib), ~full, NEW fd \in Streams, fgetc(fd)
    PROVE  Faithful
  <1>v. PICK v : v = u_st_slot(Lib, fd)
    OBVIOUS
  <1>i. PICK i : i = Index(v, fd)
    OBVIOUS
  <1>L. PICK L : L = Logical(Lib, open[fd].file)
    OBVIOUS
  <1>0. /\ Fit(v, {}) /\ OnlyFor(Lib, v, fd) /\ v.open[fd] # None /\ Apart(v) /\ StillSeen(fd, v)
        /\ fd \in Fd /\ Lib.open = open
    BY <1>v, SlotShows, StreamIsOpen DEF Lib
  <1>one. 1 \in scope.counts \union {1} /\ 1 \in Nat \ {0}
    OBVIOUS
  <1>1. CASE i # 0 /\ InSlot(v, fd).ung # None
    <2>t. PICK t : t = v.slots[i]
      OBVIOUS
    <2>1. Call([v EXCEPT !.slots[i].ung = None], <<"read", <<t.ung>>>>)
      BY <1>1, <1>i, <1>v, <2>t DEF fgetc
    <2>2. i \in DOMAIN v.slots /\ t = InSlot(v, fd) /\ t \in Slot /\ SlotFit(t) /\ t.fd = fd
      BY <1>0, <1>1, <1>i, <2>t, IndexFacts, SlotIsSlot
    <2>e. PICK e \in BOOLEAN : e = t.eof
      BY <2>2, SlotParts
    <2>u. PICK u : u = PushSlot(t, None, e)
      OBVIOUS
    <2>w. PICK w : w = WithSlot(v, i, u)
      OBVIOUS
    <2>3. w = [v EXCEPT !.slots[i].ung = None]
      <3>1. [t EXCEPT !.ung = None] = PushSlot(t, None, e)
        BY <2>2, <2>e DEF PushSlot, Slot
      <3> QED  BY <3>1, <2>t, <2>u, <2>w DEF WithSlot
    <2>4. /\ u \in Slot /\ u.fd = fd /\ u.ung = None /\ u.buf = t.buf /\ u.bpos = t.bpos /\ u.blen = t.blen
          /\ u.wlen = t.wlen /\ u.ro = t.ro
      BY <2>2, <2>u DEF PushSlot, Slot
    <2>5. t.wlen = 0
      <3>1. t.wlen \in Nat /\ t.ung # None
        BY <1>1, <2>2, SlotParts
      <3> QED  BY <2>2, <3>1 DEF SlotFit
    <2>6. SlotFit(u)
      BY <2>2, <2>4, <2>5 DEF SlotFit
    <2>7. /\ Fit(w, {}) /\ OnlyFor(v, w, fd) /\ w.disk = v.disk /\ w.open = v.open /\ InSlot(w, fd) = u
      BY <1>0, <2>2, <2>4, <2>6, <2>t, <2>w, SlotOnly
    <2>8. Apart(w) /\ OnlyFor(Lib, w, fd)
      BY <1>0, <2>7, OnlyForTransitive, OnlyForSteady, SteadyApart
    <2>9. PushOf(u) = <<>> /\ Unread(u) = Unread(t) /\ PushOf(t) = <<t.ung>>
      BY <1>1, <2>2, <2>4 DEF PushOf, Unread
    <2>10. /\ Logical(w, w.open[fd].file) = Logical(v, v.open[fd].file) /\ Position(w, fd) = Position(v, fd)
      <3>1. Logical(w, w.open[fd].file) = w.disk[w.open[fd].file] /\ Position(w, fd) = w.open[fd].off - Unread(u)
        BY <1>0, <2>4, <2>5, <2>7, <2>8, Plain
      <3>2. Logical(v, v.open[fd].file) = v.disk[v.open[fd].file] /\ Position(v, fd) = v.open[fd].off - Unread(t)
        BY <1>0, <2>2, <2>5, Plain
      <3> QED  BY <2>7, <2>9, <3>1, <3>2
    <2>11. MirrorAt(w, fd)
      <3>1. Truthful(v.disk[v.open[fd].file], v.open[fd], t)
        BY <1>0, <2>2 DEF StillSeen, View, MirrorAt
      <3>2. Truthful(w.disk[w.open[fd].file], w.open[fd], u)
        BY <2>4, <2>7, <2>9, <3>1 DEF Truthful
      <3> QED  BY <2>7, <3>2 DEF MirrorAt
    <2>12. Position(Lib, fd) \in Int /\ InSlot(Lib, fd) \in Slot
      BY <1>0, SeenRecord, UnreadType DEF StdioInv
    <2>13. PushOf(InSlot(Lib, fd)) = <<t.ung>>
      BY <1>0, <2>2, <2>9 DEF StillSeen, View
    <2>14. Rest(fd, 1) = <<>>
      <3>l. PICK p, lc : p = Position(Lib, fd) /\ lc = Len(L)
        OBVIOUS
      <3>1. Len(PushOf(InSlot(Lib, fd))) = 1
        BY <2>13
      <3>2. (IF open[fd].how.rd THEN p + 1 - Len(PushOf(InSlot(Lib, fd))) ELSE p) = p
        BY <2>12, <3>1, <3>l
      <3>3. Rest(fd, 1) = SubSeq(L, p + 1, IF p > lc THEN lc ELSE p)
        BY <1>L, <3>2, <3>l DEF Rest
      <3>4. v.disk[v.open[fd].file] = L /\ L \in Seq(Byte)
        <4>1. Logical(v, v.open[fd].file) = v.disk[v.open[fd].file] /\ v.disk[v.open[fd].file] \in Seq(Byte)
          BY <1>0, <2>2, <2>5, Plain, AtFits
        <4> QED  BY <1>0, <1>L, <4>1 DEF StillSeen, View
      <3>5. lc \in Nat
        BY <3>4, <3>l
      <3>e. PICK e2 : e2 = IF p > lc THEN lc ELSE p
        OBVIOUS
      <3>6. e2 \in Int /\ e2 <= p /\ p \in Int
        BY <2>12, <3>5, <3>e, <3>l
      <3>7. SubSeq(L, p + 1, e2) = <<>>
        BY <3>4, <3>6
      <3> QED  BY <3>3, <3>7, <3>e
    <2>15. Become(w) /\ answer' = <<"read", PushOf(InSlot(Lib, fd)) \o Rest(fd, 1)>>
      <3>1. <<t.ung>> = <<t.ung>> \o <<>>
        <4>1. t.ung \in Byte
          BY <1>1, <2>2, SlotParts
        <4> QED  BY <4>1
      <3> QED  BY <2>1, <2>3, <2>13, <2>14, <3>1 DEF Call
    <2>16. View(w, fd, L, Position(Lib, fd) + Len(Rest(fd, 1)), <<>>)
      <3>1. Position(Lib, fd) + Len(Rest(fd, 1)) = Position(Lib, fd)
        <4>1. Len(Rest(fd, 1)) = 0
          BY <2>14
        <4> QED  BY <2>12, <4>1
      <3>2. View(w, fd, L, Position(Lib, fd), <<>>)
        BY <1>0, <1>L, <2>7, <2>9, <2>10, <2>11 DEF StillSeen, View
      <3> QED  BY <3>1, <3>2
    <2>17. Viewing(fd, L, Position(Lib, fd) + Len(Rest(fd, 1)), <<>>)
      BY <2>7, <2>8, <2>15, <2>16, Viewed
    <2> QED  BY <1>one, <1>L, <2>15, <2>17, ReadSeen
  <1>2. CASE ~(i # 0 /\ InSlot(v, fd).ung # None)
    <2>1. PICK r \in u_st_wflush(u_st_slot(Lib, fd), Index(u_st_slot(Lib, fd), fd)) :
              Call(IF i = 0 \/ Taken(r.w, fd, 1).data = <<>> THEN Taken(r.w, fd, 1).w
                   ELSE [Taken(r.w, fd, 1).w EXCEPT !.slots[i].eof = FALSE, !.slots[i].err = FALSE],
                   <<"read", Taken(r.w, fd, 1).data>>)
      BY <1>2, <1>i, <1>v DEF fgetc
    <2>q. PICK q : q = Taken(r.w, fd, 1)
      OBVIOUS
    <2>2. ReadGives(fd, 1, r.w, q)
      BY <1>one, <2>q, ReadAfterFlush
    <2>a. PICK a : a = Position(Lib, fd) + Len(Rest(fd, 1))
      OBVIOUS
    <2>3. /\ Fit(q.w, {}) /\ OnlyFor(Lib, q.w, fd) /\ q.w.open[fd] # None /\ SamePlaces(r.w, q.w)
          /\ View(q.w, fd, L, a, <<>>) /\ q.data = PushOf(InSlot(Lib, fd)) \o Rest(fd, 1)
      BY <1>L, <2>2, <2>a DEF ReadGives
    <2>4. ASSUME NEW w, Fit(w, {}), OnlyFor(Lib, w, fd), View(w, fd, L, a, <<>>), Call(w, <<"read", q.data>>)
          PROVE  Faithful
      <3>1. Become(w) /\ answer' = <<"read", PushOf(InSlot(Lib, fd)) \o Rest(fd, 1)>>
        BY <2>3, <2>4 DEF Call
      <3>2. Viewing(fd, L, a, <<>>)
        BY <2>4, <3>1, Viewed
      <3> QED  BY <1>one, <1>L, <2>a, <3>1, <3>2, ReadSeen
    <2>5. CASE i = 0 \/ q.data = <<>>
      <3>1. Call(q.w, <<"read", q.data>>)
        BY <2>1, <2>5, <2>q
      <3> QED  BY <2>3, <2>4, <3>1
    <2>6. CASE i # 0 /\ q.data # <<>>
      <3>1. Call([q.w EXCEPT !.slots[i].eof = FALSE, !.slots[i].err = FALSE], <<"read", q.data>>)
        BY <2>1, <2>6, <2>q
      <3>2. Index(q.w, fd) = i
        <4>1. FlushStep(v, r, {}, fd)
          BY <1>0, <1>v, StreamIsOpen, WflushKeeps
        <4> QED  BY <1>i, <2>3, <4>1 DEF FlushStep, SamePlaces
      <3>t. PICK t : t = q.w.slots[i]
        OBVIOUS
      <3>3. i \in DOMAIN q.w.slots /\ t \in Slot /\ SlotFit(t) /\ t.fd = fd /\ t = InSlot(q.w, fd)
        BY <2>3, <2>6, <3>2, <3>t, IndexFacts, SlotIsSlot
      <3>w. PICK w : w = WithSlot(q.w, i, Flags(t, FALSE, FALSE))
        OBVIOUS
      <3>4. w = [q.w EXCEPT !.slots[i].eof = FALSE, !.slots[i].err = FALSE]
        <4>1. q.w \in Library
          BY <2>3 DEF Fit
        <4> QED  BY <3>3, <3>t, <3>w, <4>1 DEF WithSlot, Flags, Library
      <3>5. /\ Fit(w, {}) /\ OnlyFor(q.w, w, fd) /\ w.disk = q.w.disk /\ w.open = q.w.open
            /\ InSlot(w, fd) = Flags(t, FALSE, FALSE)
        <4>u. PICK u : u = Flags(t, FALSE, FALSE)
          OBVIOUS
        <4>1. u \in Slot /\ SlotFit(u) /\ u.fd = fd
          BY <3>3, <4>u, FlagsSlot
        <4>2. q.w.slots[i].fd = fd /\ w = WithSlot(q.w, i, u)
          BY <3>3, <3>t, <3>w, <4>u
        <4>3. /\ Fit(w, {}) /\ OnlyFor(q.w, w, fd) /\ w.disk = q.w.disk /\ w.open = q.w.open /\ InSlot(w, fd) = u
          BY <1>0, <2>3, <3>3, <4>1, <4>2, SlotOnly
        <4> QED  BY <4>3, <4>u
      <3>6. Apart(q.w) /\ OnlyFor(Lib, w, fd)
        BY <1>0, <2>3, <3>5, OnlyForTransitive, StreamIsOpen, OnlyForSteady, SteadyApart DEF StdioInv
      <3>7. SameButFlags(InSlot(q.w, fd), InSlot(w, fd))
        BY <3>3, <3>5, FlagsSame
      <3>8. View(w, fd, L, a, <<>>)
        BY <1>0, <2>3, <3>5, <3>6, <3>7, FlagsUnseen
      <3>9. Call(w, <<"read", q.data>>)
        BY <3>1, <3>4
      <3> QED  BY <2>4, <3>5, <3>6, <3>8, <3>9
    <2> QED  BY <2>5, <2>6
  <1> QED  BY <1>1, <1>2

-----------------------------------------------------------------------------
(* Opening and closing.                                                      *)

\* The streams but fd, and what they have, are the same.
Aside(w, v, fd) ==
    /\ SameOpen(w, v, Fd \ {fd})
    /\ \A x \in Fd \ {fd} : w.open[x] # None =>
           InSlot(v, x) = InSlot(w, x) /\ v.disk[w.open[x].file] = w.disk[w.open[x].file]

\* Nothing waits in the stream fd for the file g.
Idle(w, fd, g) == w.open[fd] # None /\ w.open[fd].file = g => InSlot(w, fd).wlen = 0

AsideSame(w, v, fd) ==
    /\ \A x \in Fd \ {fd} : StreamOf(v, x) = StreamOf(w, x)
    /\ \A x \in Fd \ {fd} : w.open[x] # None /\ MirrorAt(w, x) => MirrorAt(v, x)
    /\ \A g \in File : v.disk[g] = w.disk[g] /\ Idle(w, fd, g) /\ Idle(v, fd, g) => Logical(v, g) = Logical(w, g)

LEMMA AsideSeen ==
    ASSUME NEW w, NEW v, NEW fd \in Fd, Aside(w, v, fd)
    PROVE  AsideSame(w, v, fd)
  <1>1. ASSUME NEW x \in Fd \ {fd}
        PROVE  /\ v.open[x] = w.open[x]
               /\ w.open[x] # None => InSlot(v, x) = InSlot(w, x) /\ v.disk[w.open[x].file] = w.disk[w.open[x].file]
    BY DEF Aside, SameOpen
  <1>2. ASSUME NEW x \in Fd \ {fd} PROVE StreamOf(v, x) = StreamOf(w, x)
    BY <1>1 DEF StreamOf, Position
  <1>3. ASSUME NEW x \in Fd \ {fd}, w.open[x] # None, MirrorAt(w, x) PROVE MirrorAt(v, x)
    BY <1>1, <1>3 DEF MirrorAt
  <1>4. ASSUME NEW g \in File, v.disk[g] = w.disk[g], Idle(w, fd, g), Idle(v, fd, g) PROVE Logical(v, g) = Logical(w, g)
    <2> DEFINE W(u) == {x \in Fd : u.open[x] # None /\ u.open[x].file = g /\ InSlot(u, x).wlen > 0}
    <2>1. fd \notin W(v) /\ fd \notin W(w)
      BY <1>4 DEF Idle
    <2>2. W(v) = W(w)
      BY <1>1, <2>1
    <2>4. CASE W(w) = {}
      BY <1>4, <2>2, <2>4 DEF Logical
    <2>5. CASE W(w) # {}
      <3>x. PICK x : x = CHOOSE y \in W(w) : TRUE
        OBVIOUS
      <3>1. x \in W(w)
        BY <2>5, <3>x
      <3>2. x \in Fd \ {fd} /\ w.open[x] # None
        BY <2>1, <3>1
      <3>3. \A u : W(u) # {} /\ x = (CHOOSE y \in W(u) : TRUE) =>
                Logical(u, g) = Overlaid(u.disk[g], IF u.open[x].how.append THEN Len(u.disk[g]) ELSE u.open[x].off,
                                         SubSeq(InSlot(u, x).buf, 1, InSlot(u, x).wlen))
        BY DEF Logical
      <3>4. x = CHOOSE y \in W(v) : TRUE
        BY <2>2, <3>x
      <3>5. v.open[x] = w.open[x] /\ InSlot(v, x) = InSlot(w, x)
        BY <1>1, <3>2
      <3> HIDE DEF W
      <3> QED  BY <1>4, <2>2, <2>5, <3>x, <3>3, <3>4, <3>5
    <2> QED  BY <2>4, <2>5
  <1> QED  BY <1>2, <1>3, <1>4 DEF AsideSame

\* With no byte waiting for it a file is what is on the disk.
LEMMA NothingWaits ==
    ASSUME NEW w, NEW g, \A x \in Fd : w.open[x] # None /\ w.open[x].file = g => InSlot(w, x).wlen = 0
    PROVE  Logical(w, g) = w.disk[g]
  <1>1. {x \in Fd : w.open[x] # None /\ w.open[x].file = g /\ InSlot(w, x).wlen > 0} = {}
    OBVIOUS
  <1> QED  BY <1>1 DEF Logical

LEMMA CloseShown ==
    ASSUME StdioInv, Mirrors(Lib), ~full, NEW fd \in Streams, fclose(fd)
    PROVE  Faithful
  <1>0. Lib.open = open /\ fd \in Fd /\ open[fd] # None /\ Fit(Lib, {}) /\ Apart(Lib)
    BY StreamIsOpen DEF Lib, StdioInv
  <1>1. PICK w : CloseStep(fd, w) /\ Become(w)
    BY CloseKeeps
  <1>2. answer' = <<"close", 0>>
    <2>1. PICK r \in u_st_wflush(u_st_slot(Lib, fd), Index(u_st_slot(Lib, fd), fd)) :
              answer' = <<"close", IF r.ok THEN 0 ELSE -1>>
      BY DEF fclose, Call
    <2>2. r.ok
      BY FlushingShows DEF FlushedSeen
    <2> QED  BY <2>1, <2>2
  <1>3. Lib' = w
    BY <1>1, BecomeLib DEF CloseStep, Fit
  <1>f. PICK f : f = open[fd].file
    OBVIOUS
  <1>4. /\ w.open[fd] = None /\ SameOpen(Lib, w, Fd \ {fd}) /\ SameSlots(Lib, w, Fd \ {fd})
        /\ SameFiles(Lib, w, File \ {f}) /\ w.disk[f] = Logical(Lib, f) /\ Fit(w, {})
    BY <1>1, <1>2, <1>f DEF CloseStep
  <1>5. ASSUME NEW x \in Fd \ {fd}, open[x] # None PROVE open[x].file \in File \ {f}
    BY <1>0, <1>5, <1>f, AtFits DEF Apart
  <1>6. Aside(Lib, w, fd)
    BY <1>0, <1>4, <1>5 DEF Aside, SameSlots, SameFiles
  <1>7. AsideSame(Lib, w, fd)
    BY <1>0, <1>6, AsideSeen
  <1>8. SeenContent' = SeenContent
    <2>1. ASSUME NEW g \in File PROVE Logical(w, g) = Logical(Lib, g)
      <3>1. CASE g = f
        <4>1. \A x \in Fd : w.open[x] # None => w.open[x].file # f
          BY <1>0, <1>4, <1>5 DEF SameOpen
        <4>2. Logical(w, f) = w.disk[f]
          BY <4>1, NothingWaits
        <4> QED  BY <1>4, <3>1, <4>2
      <3>2. CASE g # f
        <4>1. w.disk[g] = Lib.disk[g]
          BY <1>4, <3>2 DEF SameFiles
        <4>2. Idle(Lib, fd, g) /\ Idle(w, fd, g)
          BY <1>0, <1>4, <1>f, <3>2 DEF Idle
        <4> QED  BY <1>7, <4>1, <4>2 DEF AsideSame
      <3> QED  BY <3>1, <3>2
    <2> QED  BY <1>3, <2>1, SeenNext, SeenNow DEF ContentOf
  <1>9. SeenStream' = [SeenStream EXCEPT ![fd] = None]
    <2>1. StreamOf(w, fd) = None
      BY <1>4 DEF StreamOf
    <2>2. SeenStream' = [x \in Fd |-> StreamOf(w, x)] /\ SeenStream = [x \in Fd |-> StreamOf(Lib, x)]
      BY <1>3, SeenNext, SeenNow DEF StreamsOf
    <2>3. \A x \in Fd \ {fd} : StreamOf(w, x) = StreamOf(Lib, x)
      BY <1>7 DEF AsideSame
    <2> QED  BY <2>1, <2>2, <2>3
  <1>10. Mirrors(w)
    <2> SUFFICES ASSUME NEW x \in Fd, w.open[x] # None
                 PROVE  MirrorAt(w, x) /\ w.open[x].file \in scope.files /\ \E m \in scope.modes : w.open[x].how = How(m)
      BY DEF Mirrors
    <2>1. x \in Fd \ {fd} /\ Lib.open[x] = w.open[x]
      BY <1>4 DEF SameOpen
    <2> QED  BY <1>7, <2>1 DEF AsideSame, Mirrors
  <1>11. Seen!Close(fd)
    BY <1>2, <1>8, <1>9, CloseIs
  <1>12. Seen!Next
    BY <1>11, NextOfStream
  <1> QED  BY <1>3, <1>10, <1>12 DEF Faithful

\* The stream fd begins at the start of the file f.
Begins(w, v, fd, f, mode) ==
    /\ Fit(v, {}) /\ Apart(v)
    /\ v.open[fd] = [file |-> f, how |-> How(mode), off |-> 0] /\ v.open[fd] # None
    /\ SameOpen(w, v, Fd \ {fd})
    /\ \A x \in Fd \ {fd} : w.open[x] # None => InSlot(v, x) = InSlot(w, x) /\ w.open[x].file # f
    /\ v.disk[f] = IF How(mode).empties THEN <<>> ELSE w.disk[f]
    /\ SameFiles(w, v, File \ {f})
    /\ InSlot(v, fd) \in {[Blank(fd) EXCEPT !.ro = e] : e \in BOOLEAN} /\ InSlot(v, fd).ro = (mode = "r")

\* What the program sees besides fd is what it saw.
Looks(w, fd) ==
    /\ Fit(w, {})
    /\ \A x \in Fd \ {fd} : StreamOf(w, x) = StreamOf(Lib, x)
    /\ \A g \in File : Logical(w, g) = Logical(Lib, g)
    /\ \A x \in Fd \ {fd} : w.open[x] # None =>
           MirrorAt(w, x) /\ w.open[x].file \in scope.files /\ \E m \in scope.modes : w.open[x].how = How(m)
    /\ w.open[fd] # None => InSlot(w, fd).wlen = 0

LEMMA Fresh ==
    ASSUME StdioInv, NEW fd \in Fd, NEW f \in scope.files, NEW mode \in scope.modes, NEW w, NEW v,
           Looks(w, fd), Begins(w, v, fd, f, mode), Become(v), answer' = <<"open", fd>>
    PROVE  Faithful
  <1>0. Lib' = v /\ f \in File /\ scope \in Scopes
    BY BecomeLib, ScopeParts DEF Begins, Fit, StdioInv
  <1>t. PICK t : t = InSlot(v, fd)
    OBVIOUS
  <1>1. /\ Unread(t) = 0 /\ t.wlen = 0 /\ t.ung = None /\ t.ro = (mode = "r") /\ ~(Unread(t) > 0) /\ ~(t.wlen > 0)
        /\ PushOf(t) = <<>>
    <2>1. PICK e \in BOOLEAN : t = [Blank(fd) EXCEPT !.ro = e]
      BY <1>t DEF Begins
    <2>2. t.bpos = 0 /\ t.blen = 0 /\ t.wlen = 0 /\ t.ung = None
      BY <2>1 DEF Blank
    <2>3. t.ro = (mode = "r")
      BY <1>t DEF Begins
    <2> QED  BY <2>2, <2>3 DEF Unread, PushOf
  <1>2. /\ v.open[fd].file = f /\ v.open[fd].how = How(mode) /\ v.open[fd].off = 0 /\ v.open[fd] # None
    BY DEF Begins
  <1>3. Aside(w, v, fd)
    <2>1. ASSUME NEW x \in Fd \ {fd}, w.open[x] # None PROVE v.disk[w.open[x].file] = w.disk[w.open[x].file]
      <3>1. w.open[x].file # f /\ w.open[x].file \in File
        BY <2>1, AtFits DEF Begins, Looks
      <3> QED  BY <3>1 DEF Begins, SameFiles
    <2> QED  BY <2>1 DEF Aside, Begins
  <1>4. AsideSame(w, v, fd)
    BY <1>3, AsideSeen
  <1>5. \A x \in Fd : v.open[x] # None /\ v.open[x].file = f => x = fd
    BY <1>2 DEF Begins, Apart
  <1>6. Logical(v, f) = IF How(mode).empties THEN <<>> ELSE Logical(Lib, f)
    <2>1. Logical(v, f) = v.disk[f]
      BY <1>1, <1>5, <1>t, NothingWaits
    <2>2. \A x \in Fd : w.open[x] # None /\ w.open[x].file = f => InSlot(w, x).wlen = 0
      BY DEF Begins, Looks
    <2>3. Logical(w, f) = w.disk[f]
      BY <2>2, NothingWaits
    <2> QED  BY <1>0, <2>1, <2>3 DEF Begins, Looks
  <1>7. ASSUME NEW g \in File \ {f} PROVE Logical(v, g) = Logical(Lib, g)
    <2>1. v.disk[g] = w.disk[g]
      BY DEF Begins, SameFiles
    <2>2. Idle(w, fd, g) /\ Idle(v, fd, g)
      BY <1>1, <1>t DEF Idle, Looks
    <2> QED  BY <1>4, <2>1, <2>2 DEF AsideSame, Looks
  <1>8. SeenContent' = IF How(mode).empties THEN [SeenContent EXCEPT ![f] = <<>>] ELSE SeenContent
    <2>1. SeenContent' = [g \in File |-> Logical(v, g)] /\ SeenContent = [g \in File |-> Logical(Lib, g)]
      BY <1>0, SeenNext, SeenNow DEF ContentOf
    <2>2. CASE How(mode).empties
      BY <1>0, <1>6, <1>7, <2>1, <2>2
    <2>3. CASE ~How(mode).empties
      <3>1. \A g \in File : Logical(v, g) = Logical(Lib, g)
        BY <1>6, <1>7, <2>3
      <3> QED  BY <2>1, <2>3, <3>1
    <2> QED  BY <2>2, <2>3
  <1>9. SeenStream' = [SeenStream EXCEPT ![fd] = [file |-> f, how |-> How(mode), pos |-> 0, push |-> <<>>]]
    <2>1. Position(v, fd) = 0
      BY <1>1, <1>2, <1>t, PositionIs
    <2>2. StreamOf(v, fd) = [file |-> f, how |-> How(mode), pos |-> 0, push |-> <<>>]
      BY <1>1, <1>2, <1>t, <2>1 DEF StreamOf
    <2>3. SeenStream' = [x \in Fd |-> StreamOf(v, x)] /\ SeenStream = [x \in Fd |-> StreamOf(Lib, x)]
      BY <1>0, SeenNext, SeenNow DEF StreamsOf
    <2>4. \A x \in Fd \ {fd} : StreamOf(v, x) = StreamOf(Lib, x)
      BY <1>4 DEF AsideSame, Looks
    <2> QED  BY <2>2, <2>3, <2>4
  <1>10. Mirrors(v)
    <2> SUFFICES ASSUME NEW x \in Fd, v.open[x] # None
                 PROVE  MirrorAt(v, x) /\ v.open[x].file \in scope.files /\ \E m \in scope.modes : v.open[x].how = How(m)
      BY DEF Mirrors
    <2>1. CASE x = fd
      <3>1. How(mode).wr = (mode # "r")
        BY DEF How
      <3>2. 1 .. Unread(t) = {}
        BY <1>1
      <3>3. Truthful(v.disk[v.open[fd].file], v.open[fd], t)
        BY <1>1, <1>2, <3>1, <3>2 DEF Truthful
      <3> QED  BY <1>2, <1>t, <2>1, <3>3 DEF MirrorAt
    <2>2. CASE x # fd
      <3>1. w.open[x] = v.open[x]
        BY <2>2 DEF Begins, SameOpen
      <3> QED  BY <1>4, <2>2, <3>1 DEF AsideSame, Looks
    <2> QED  BY <2>1, <2>2
  <1>11. OpensAs(SeenContent, SeenStream, SeenContent', SeenStream', fd, f, How(mode))
    BY <1>8, <1>9 DEF OpensAs
  <1>12. Seen!Open(fd, f, How(mode))
    BY <1>11, Translated
  <1>13. Seen!Next
    BY <1>0, <1>12, NextOpen
  <1> QED  BY <1>0, <1>10, <1>13 DEF Faithful

\* Where no slot tells of another mode than its stream's.
LEMMA MarkedSlot ==
    ASSUME NEW v, NEW fd \in Fd, NEW f, NEW mode, ~Mismarked(v),
           v.open[fd] # None, v.open[fd].how = How(mode), InSlot(v, fd).ro \in BOOLEAN
    PROVE  InSlot(v, fd).ro = (mode = "r")
  <1>1. How(mode).wr = (mode # "r")
    BY DEF How
  <1>2. ~(InSlot(v, fd).ro = How(mode).wr)
    BY DEF Mismarked
  <1> QED  BY <1>1, <1>2

LEMMA OpenShown ==
    ASSUME StdioInv, Mirrors(Lib), ~mismarked', NEW f \in scope.files, NEW mode \in scope.modes, fopen(f, mode)
    PROVE  Faithful
  <1>o. PICK o : o = Opened(Lib, f, mode)
    OBVIOUS
  <1>1. Call(o.w, <<"open", o.fd>>) /\ SomeFd /\ Unused(f)
    BY <1>o DEF fopen
  <1>2. FreeFds(Lib) # {} /\ \A x \in Fd : Lib.open[x] # None => Lib.open[x].file # f
    BY <1>1 DEF FreeFds, Lib, SomeFd, Streams, Unused
  <1>3. OpenStep(Lib, o, {}, f, mode)
    <2>1. f \in File /\ Fit(Lib, {}) /\ scope.NST \in Nat
      BY ScopeParts DEF StdioInv
    <2> QED  BY <1>2, <1>o, <2>1, OpenedKeeps
  <1>v. PICK v : v = o.w
    OBVIOUS
  <1>fd. PICK fd : fd = o.fd
    OBVIOUS
  <1>4. /\ fd \in Fd /\ Lib.open[fd] = None /\ Fit(v, {})
        /\ v.open[fd] = [file |-> f, how |-> How(mode), off |-> 0] /\ v.open[fd] \in OpenFile
        /\ SameOpen(Lib, v, Fd \ {fd}) /\ SameSlots(Lib, v, Fd \ {fd})
        /\ v.disk[f] = (IF How(mode).empties THEN <<>> ELSE Lib.disk[f])
        /\ SameFiles(Lib, v, File \ {f})
        /\ InSlot(v, fd) = (IF Index(v, fd) = 0 THEN Blank(fd) ELSE [Blank(fd) EXCEPT !.ro = mode = "r"])
        /\ Index(v, fd) = 0 => Len(Lib.slots) >= scope.NST
    BY <1>3, <1>v, <1>fd DEF OpenStep
  <1>5. v.open[fd] # None /\ v.open[fd].file = f
    BY <1>4, OpenFileParts
  <1>6. Apart(v)
    BY <1>2, <1>4, <1>5 DEF Apart, SameOpen, StdioInv
  <1>7. ~Mismarked(v)
    BY <1>1, <1>v DEF Call
  <1>8. InSlot(v, fd) \in {[Blank(fd) EXCEPT !.ro = e] : e \in BOOLEAN} /\ InSlot(v, fd).ro = (mode = "r")
    <2>r. PICK e \in BOOLEAN : e = (mode = "r")
      OBVIOUS
    <2>b. PICK b : b = Blank(fd)
      OBVIOUS
    <2>1. b \in Slot /\ b.ro = FALSE
      BY <1>4, <2>b, BlankSlot DEF Blank
    <2>2. [b EXCEPT !.ro = FALSE] = b /\ [b EXCEPT !.ro = e].ro = e
      BY <2>1 DEF Slot
    <2>3. InSlot(v, fd) = b \/ InSlot(v, fd) = [b EXCEPT !.ro = e]
      BY <1>4, <2>b, <2>r
    <2>4. InSlot(v, fd).ro \in BOOLEAN /\ InSlot(v, fd) \in {[Blank(fd) EXCEPT !.ro = x] : x \in BOOLEAN}
      BY <2>1, <2>2, <2>3, <2>b
    <2>5. v.open[fd].how = How(mode)
      BY <1>4
    <2>6. InSlot(v, fd).ro = (mode = "r")
      BY <1>4, <1>5, <1>7, <2>4, <2>5, MarkedSlot
    <2> QED  BY <2>4, <2>6
  <1>9. Begins(Lib, v, fd, f, mode)
    <2>1. \A x \in Fd \ {fd} : Lib.open[x] # None => InSlot(v, x) = InSlot(Lib, x) /\ Lib.open[x].file # f
      BY <1>2, <1>4 DEF SameSlots
    <2> QED  BY <1>4, <1>5, <1>6, <1>8, <2>1 DEF Begins
  <1>10. Looks(Lib, fd)
    BY <1>4 DEF Looks, Mirrors, StdioInv
  <1>11. Become(v) /\ answer' = <<"open", fd>>
    BY <1>1, <1>v, <1>fd DEF Call
  <1> QED  BY <1>4, <1>9, <1>10, <1>11, Fresh

\* After the flush the program sees what it saw.
LEMMA FlushedLooks ==
    ASSUME StdioInv, Mirrors(Lib), ~full, NEW fd \in Streams,
           NEW r \in u_st_wflush(u_st_slot(Lib, fd), Index(u_st_slot(Lib, fd), fd))
    PROVE  Looks(r.w, fd)
  <1>0. Lib.open = open /\ fd \in Fd /\ Lib.open[fd] # None
    BY StreamIsOpen DEF Lib
  <1>1. FlushedSeen(fd, r)
    BY FlushingShows
  <1>2. Fit(r.w, {}) /\ OnlyFor(Lib, r.w, fd) /\ InSlot(r.w, fd).wlen = 0
    BY <1>1 DEF FlushedSeen, Ready
  <1>3. OthersSame(Lib, r.w, fd)
    BY <1>0, <1>2, OthersSeen DEF StdioInv
  <1>4. ASSUME NEW g \in File PROVE Logical(r.w, g) = Logical(Lib, g)
    <2>1. CASE g = open[fd].file
      BY <1>1, <2>1 DEF FlushedSeen, StillSeen, View
    <2>2. CASE g # open[fd].file
      BY <1>0, <1>3, <2>2 DEF OthersSame
    <2> QED  BY <2>1, <2>2
  <1>5. ASSUME NEW x \in Fd \ {fd}, r.w.open[x] # None
        PROVE MirrorAt(r.w, x) /\ r.w.open[x].file \in scope.files /\ \E m \in scope.modes : r.w.open[x].how = How(m)
    <2>1. r.w.open[x] = Lib.open[x]
      BY <1>2 DEF OnlyFor, SameOpen
    <2> QED  BY <1>3, <1>5, <2>1 DEF Mirrors, OthersSame
  <1> QED  BY <1>2, <1>3, <1>4, <1>5 DEF Looks, OthersSame

LEMMA ReopenShown ==
    ASSUME StdioInv, Mirrors(Lib), ~full, ~mismarked', NEW fd \in Streams, NEW f \in scope.files, NEW mode \in scope.modes,
           freopen(fd, f, mode)
    PROVE  Faithful
  <1>v. PICK v : v = u_st_slot(Lib, fd)
    OBVIOUS
  <1>1. PICK r \in u_st_wflush(u_st_slot(Lib, fd), Index(u_st_slot(Lib, fd), fd)) :
            IF ~SomeFd THEN Call(r.w, <<"ask">>)
            ELSE Call(Anew(Opened(r.w, f, mode).w, Opened(r.w, f, mode).fd, fd), <<"open", fd>>)
    BY DEF freopen, Anew
  <1>2. FlushedSeen(fd, r) /\ Looks(r.w, fd) /\ fd \in Fd
    BY FlushingShows, FlushedLooks, StreamIsOpen
  <1>3. Ready(fd, r.w) /\ StillSeen(fd, r.w) /\ r.w.open[fd].file = open[fd].file /\ r.w.open[fd].how = open[fd].how
    BY <1>2 DEF FlushedSeen
  <1>4. CASE ~SomeFd
    <2>1. Become(r.w) /\ answer' = <<"ask">>
      BY <1>1, <1>4 DEF Call
    <2>2. Viewing(fd, Logical(Lib, open[fd].file), Position(Lib, fd), PushOf(InSlot(Lib, fd)))
      BY <1>3, <2>1, Viewed DEF Ready, StillSeen
    <2> QED  BY <2>1, <2>2, AskSeen
  <1>5. CASE SomeFd
    <2>z. PICK z : z = Anew(Opened(r.w, f, mode).w, Opened(r.w, f, mode).fd, fd)
      OBVIOUS
    <2>1. Become(z) /\ answer' = <<"open", fd>>
      BY <1>1, <1>5, <2>z DEF Call
    <2>2. RenewsAs(r.w, z, fd, f, mode)
      BY <1>3, <1>5, <2>z, Reopening DEF freopen
    <2>3. open[fd] # None /\ Lib.open = open
      BY StreamIsOpen DEF Lib
    <2>4. z.open[fd].how = How(mode) /\ z.open[fd] # None
      BY <2>2, OpenFileParts DEF RenewsAs
    <2>5. InSlot(z, fd).ro \in BOOLEAN
      <3>1. InSlot(z, fd) \in Slot
        BY <1>2, <2>2, InSlotType DEF RenewsAs
      <3> QED  BY <3>1 DEF Slot
    <2>6. InSlot(z, fd).ro = (mode = "r")
      <3>1. ~Mismarked(z)
        BY <1>1, <1>5, <2>z DEF Call
      <3> QED  BY <1>2, <2>4, <2>5, <3>1, MarkedSlot
    <2>7. Begins(r.w, z, fd, f, mode)
      BY <2>2, <2>6 DEF RenewsAs, Begins
    <2> QED  BY <1>2, <2>1, <2>7, Fresh
  <1> QED  BY <1>4, <1>5

\* After the first i slots are flushed.
AlikeSeen(w, u, i) ==
    /\ Fit(u, {}) /\ Apart(u) /\ Len(u.slots) = Len(w.slots) /\ SamePlaces(w, u)
    /\ \A x \in Fd : StreamOf(u, x) = StreamOf(w, x)
    /\ \A g \in File : Logical(u, g) = Logical(w, g)
    /\ Mirrors(u)
    /\ \A y \in Fd : Index(w, y) \in 0 .. i => InSlot(u, y).wlen = 0

LEMMA AlikeStep ==
    ASSUME NEW w, Fit(w, {}), ~full, NEW u, NEW i \in DOMAIN w.slots, AlikeSeen(w, u, i - 1),
           NEW r \in u_st_wflush(u, i)
    PROVE  AlikeSeen(w, r.w, i)
  <1>0. Len(w.slots) \in Nat /\ DOMAIN w.slots = 1 .. Len(w.slots) /\ i \in Nat \ {0}
    BY LibraryParts DEF Fit
  <1>1. Fit(u, {}) /\ Apart(u) /\ Mirrors(u) /\ Len(u.slots) = Len(w.slots) /\ i \in DOMAIN u.slots
    BY <1>0, LibraryParts DEF AlikeSeen, Fit
  <1>x. PICK x : x = u.slots[i].fd
    OBVIOUS
  <1>2. x \in Fd /\ u.open[x] # None /\ Index(u, x) = i
    <2>1. x \in Fd /\ Index(u, x) = i
      BY <1>1, <1>x, IndexFacts, SlotIsSlot
    <2> QED  BY <1>1, <1>x, <2>1 DEF Fit
  <1>3. FlushStep(u, r, {}, x)
    BY <1>1, <1>2, WflushKeeps
  <1>4. FlushSeen(u, r, x)
    BY <1>1, <1>2, FlushShows DEF Mirrors
  <1>5. OthersSame(u, r.w, x) /\ OnlyFor(u, r.w, x)
    BY <1>1, <1>2, <1>3, OthersSeen DEF FlushStep
  <1>6. r.w.open[x] # None /\ r.w.open[x].file = u.open[x].file /\ r.w.open[x].how = u.open[x].how
    BY <1>5 DEF OnlyFor
  <1>7. ASSUME NEW y \in Fd PROVE StreamOf(r.w, y) = StreamOf(u, y)
    <2>1. CASE y = x
      BY <1>2, <1>4, <1>6, <2>1 DEF FlushSeen, View, StreamOf
    <2>2. CASE y # x
      BY <1>5, <2>2 DEF OthersSame
    <2> QED  BY <2>1, <2>2
  <1>8. ASSUME NEW g \in File PROVE Logical(r.w, g) = Logical(u, g)
    <2>1. CASE g = u.open[x].file
      BY <1>4, <1>6, <2>1 DEF FlushSeen, View
    <2>2. CASE g # u.open[x].file
      BY <1>5, <2>2 DEF OthersSame
    <2> QED  BY <2>1, <2>2
  <1>9. Mirrors(r.w)
    <2> SUFFICES ASSUME NEW y \in Fd, r.w.open[y] # None
                 PROVE  MirrorAt(r.w, y) /\ r.w.open[y].file \in scope.files /\ \E m \in scope.modes : r.w.open[y].how = How(m)
      BY DEF Mirrors
    <2>1. CASE y = x
      BY <1>1, <1>2, <1>4, <1>6, <2>1 DEF FlushSeen, View, Mirrors
    <2>2. CASE y # x
      <3>1. r.w.open[y] = u.open[y]
        BY <1>5, <2>2 DEF OnlyFor, SameOpen
      <3> QED  BY <1>1, <1>5, <2>2, <3>1 DEF OthersSame, Mirrors
    <2> QED  BY <2>1, <2>2
  <1>10. ASSUME NEW y \in Fd, Index(w, y) \in 0 .. i PROVE InSlot(r.w, y).wlen = 0
    <2>1. CASE y = x
      BY <1>3, <2>1 DEF FlushStep
    <2>2. CASE y # x
      <3>1. Index(u, y) # i
        BY <1>1, <1>x, <2>2, IndexFacts
      <3>2. Index(w, y) \in 0 .. i - 1
        BY <1>0, <1>10, <3>1 DEF AlikeSeen, SamePlaces
      <3>3. InSlot(r.w, y) = InSlot(u, y)
        BY <1>5, <2>2 DEF OnlyFor, SameSlots
      <3> QED  BY <3>2, <3>3 DEF AlikeSeen
    <2> QED  BY <2>1, <2>2
  <1>11. Fit(r.w, {}) /\ Apart(r.w) /\ Len(r.w.slots) = Len(w.slots) /\ SamePlaces(w, r.w)
    BY <1>1, <1>3, <1>4 DEF AlikeSeen, FlushSeen, FlushStep, SamePlaces
  <1> QED  BY <1>7, <1>8, <1>9, <1>10, <1>11 DEF AlikeSeen

LEMMA FlushallShows ==
    ASSUME StdioInv, Mirrors(Lib), ~full, NEW v \in u_st_flushall(Lib)
    PROVE  AlikeSeen(Lib, v, Len(slots))
  <1>0. Fit(Lib, {}) /\ Lib \in Library /\ Lib.slots = slots
    BY DEF StdioInv, Fit, Lib
  <1>n. PICK n : n = Len(slots)
    OBVIOUS
  <1>1. n \in Nat /\ DOMAIN Lib.slots = 1 .. n
    BY <1>0, <1>n, LibraryParts
  <1>P. PICK P : P = [i \in 0 .. n |-> {u \in Library : AlikeSeen(Lib, u, i)}]
    OBVIOUS
  <1>2. Lib \in P[0]
    <2>1. \A y \in Fd : Index(Lib, y) \in 0 .. 0 => InSlot(Lib, y).wlen = 0
      <3> SUFFICES ASSUME NEW y \in Fd, Index(Lib, y) = 0 PROVE InSlot(Lib, y).wlen = 0
        OBVIOUS
      <3>1. InSlot(Lib, y) = Blank(y)
        BY <1>0, IndexFacts
      <3> QED  BY <3>1 DEF Blank
    <2>2. AlikeSeen(Lib, Lib, 0)
      BY <1>0, <2>1 DEF AlikeSeen, SamePlaces, StdioInv
    <2>3. P[0] = {u \in Library : AlikeSeen(Lib, u, 0)}
      BY <1>1, <1>P
    <2> QED  BY <1>0, <2>2, <2>3
  <1>3. ASSUME NEW i \in DOMAIN Lib.slots, NEW u \in P[i - 1], NEW r \in u_st_wflush(u, i) PROVE r.w \in P[i]
    <2>1. i \in 0 .. n /\ i - 1 \in 0 .. n
      BY <1>1
    <2>2. P[i] = {x \in Library : AlikeSeen(Lib, x, i)} /\ P[i - 1] = {x \in Library : AlikeSeen(Lib, x, i - 1)}
      BY <1>P, <2>1
    <2>3. AlikeSeen(Lib, u, i - 1)
      BY <2>2
    <2>4. AlikeSeen(Lib, r.w, i)
      BY <1>0, <2>3, AlikeStep
    <2>5. r.w \in Library
      BY <2>4 DEF AlikeSeen, Fit
    <2> QED  BY <2>2, <2>4, <2>5
  <1>4. u_st_flushall(Lib) \subseteq P[Len(Lib.slots)]
    BY <1>0, <1>2, <1>3, FlushallInduct
  <1>5. v \in P[n]
    BY <1>0, <1>4, <1>n
  <1>6. P[n] = {u \in Library : AlikeSeen(Lib, u, n)}
    BY <1>1, <1>P
  <1> QED  BY <1>5, <1>6, <1>n

LEMMA FlushallShown ==
    ASSUME StdioInv, Mirrors(Lib), ~full, fflush_all
    PROVE  Faithful
  <1>1. PICK w \in u_st_flushall(Lib) : Become(w) /\ answer' = <<"ask">>
    BY DEF fflush_all, Call
  <1>2. AlikeSeen(Lib, w, Len(slots))
    BY FlushallShows
  <1>3. Lib' = w
    BY <1>1, <1>2, BecomeLib DEF AlikeSeen, Fit
  <1>4. SeenContent' = SeenContent
    BY <1>2, <1>3, SeenNext, SeenNow DEF AlikeSeen, ContentOf
  <1>5. SeenStream' = SeenStream
    BY <1>2, <1>3, SeenNext, SeenNow DEF AlikeSeen, StreamsOf
  <1>6. Seen!Next
    BY <1>1, <1>4, <1>5, AskIs, NextAlone
  <1> QED  BY <1>2, <1>3, <1>6 DEF AlikeSeen, Faithful

LEMMA ExitShown ==
    ASSUME StdioInv, Mirrors(Lib), ~full, exit
    PROVE  Faithful
  <1>1. PICK w \in u_st_flushall(Lib) :
            disk' = w.disk /\ lost' = w.lost /\ slots' = <<>> /\ open' = [fd \in Fd |-> None]
    BY DEF exit
  <1>2. AlikeSeen(Lib, w, Len(slots))
    BY FlushallShows
  <1>z. PICK z : z = [disk |-> w.disk, open |-> [fd \in Fd |-> None], slots |-> <<>>, lost |-> w.lost]
    OBVIOUS
  <1>3. Lib' = z
    BY <1>1, <1>z DEF Lib
  <1>4. z.disk = w.disk /\ \A x \in Fd : z.open[x] = None
    BY <1>z
  <1>5. ASSUME NEW g \in File PROVE Logical(z, g) = Logical(Lib, g)
    <2>1. \A y \in Fd : InSlot(w, y).wlen = 0
      <3> SUFFICES ASSUME NEW y \in Fd PROVE Index(Lib, y) \in 0 .. Len(slots)
        BY <1>2 DEF AlikeSeen
      <3>1. Fit(Lib, {}) /\ Lib.slots = slots
        BY DEF StdioInv, Lib
      <3>2. Len(slots) \in Nat /\ DOMAIN slots = 1 .. Len(slots)
        BY <3>1, LibraryParts DEF Fit
      <3> QED  BY <3>1, <3>2, IndexFacts
    <2>2. Logical(w, g) = w.disk[g]
      BY <2>1, NothingWaits
    <2>3. Logical(z, g) = z.disk[g]
      BY <1>4, NothingWaits
    <2> QED  BY <1>2, <1>4, <2>2, <2>3 DEF AlikeSeen
  <1>6. SeenContent' = SeenContent
    BY <1>3, <1>5, SeenNext, SeenNow DEF ContentOf
  <1>7. SeenStream' = [x \in Fd |-> None]
    BY <1>3, <1>4, SeenNext DEF StreamsOf, StreamOf
  <1>8. Mirrors(z)
    BY <1>4 DEF Mirrors
  <1>9. Seen!Next
    BY <1>6, <1>7, ExitIs, NextAlone
  <1> QED  BY <1>3, <1>8, <1>9 DEF Faithful

-----------------------------------------------------------------------------
(* The streams implement CStream.                                            *)

\* Until the device fails or a slot tells of another mode than its stream's,
\* what the program sees is true of the slots.
Undisturbed == faults \in Nat /\ (faults = 0 => ~full) /\ (faults = 0 /\ ~mismarked => Mirrors(Lib))

LEMMA CallsShown ==
    ASSUME StdioInv, Mirrors(Lib), ~full, ~mismarked', ~Device, StdioNext
    PROVE  Faithful
  <1>1. ASSUME NEW f \in scope.files, NEW mode \in scope.modes, fopen(f, mode) PROVE Faithful
    BY <1>1, OpenShown
  <1>2. ASSUME NEW fd \in Streams, NEW p \in scope.data, fwrite(fd, p) PROVE Faithful
    BY <1>2, WriteShown
  <1>3. ASSUME NEW fd \in Streams, NEW n \in scope.counts, fread(fd, n) PROVE Faithful
    BY <1>3, ReadShown
  <1>4. ASSUME NEW fd \in Streams, fgetc(fd) PROVE Faithful
    BY <1>4, GetShown
  <1>5. ASSUME NEW fd \in Streams, feof(fd) \/ clearerr(fd) \/ fflush(fd) PROVE Faithful
    BY <1>5, AskShown
  <1>6. ASSUME NEW fd \in Streams, NEW c \in scope.push, ungetc(fd, c) PROVE Faithful
    BY <1>6, UngetShown
  <1>7. ASSUME NEW fd \in Streams, NEW k \in scope.seeks, fseek(fd, k) PROVE Faithful
    BY <1>7, SeekShown
  <1>8. ASSUME NEW fd \in Streams, rewind(fd) PROVE Faithful
    BY <1>8, RewindShown
  <1>9. ASSUME NEW fd \in Streams, ftell(fd) PROVE Faithful
    BY <1>9, TellShown
  <1>10. ASSUME NEW fd \in Streams, fclose(fd) PROVE Faithful
    BY <1>10, CloseShown
  <1>11. ASSUME NEW fd \in Streams, NEW f \in scope.files, NEW mode \in scope.modes, freopen(fd, f, mode)
         PROVE  Faithful
    BY <1>11, ReopenShown
  <1>12. ASSUME fflush_all PROVE Faithful
    BY <1>12, FlushallShown
  <1>13. ASSUME exit PROVE Faithful
    BY <1>13, ExitShown
  <1> QED
    BY <1>1, <1>2, <1>3, <1>4, <1>5, <1>6, <1>7, <1>8, <1>9, <1>10, <1>11, <1>12, <1>13
    DEF StdioNext, StreamCalls

\* No call changes the device.
LEMMA CallsKeep ==
    ASSUME StdioNext, ~Device
    PROVE  full' = full /\ faults' = faults /\ scope' = scope /\ (mismarked => mismarked')
  <1> DEFINE Kept == full' = full /\ faults' = faults /\ scope' = scope /\ (mismarked => mismarked')
  <1>1. ASSUME NEW f \in scope.files, NEW mode \in scope.modes, fopen(f, mode) PROVE Kept
    BY <1>1 DEF fopen, Call, Keep
  <1>2. ASSUME NEW fd \in Streams, NEW p \in scope.data, fwrite(fd, p) PROVE Kept
    BY <1>2 DEF fwrite, Call, Keep
  <1>3. ASSUME NEW fd \in Streams, NEW n \in scope.counts, fread(fd, n) PROVE Kept
    BY <1>3 DEF fread, Call, Keep
  <1>4. ASSUME NEW fd \in Streams, fgetc(fd) PROVE Kept
    BY <1>4 DEF fgetc, Call, Keep
  <1>5. ASSUME NEW fd \in Streams, feof(fd) \/ clearerr(fd) \/ fflush(fd) \/ ftell(fd) PROVE Kept
    BY <1>5 DEF feof, clearerr, fflush, ftell, Call, Keep
  <1>6. ASSUME NEW fd \in Streams, NEW c \in scope.push, ungetc(fd, c) PROVE Kept
    BY <1>6 DEF ungetc, Call, Keep
  <1>7. ASSUME NEW fd \in Streams, NEW k \in scope.seeks, fseek(fd, k) PROVE Kept
    BY <1>7 DEF fseek, Call, Keep
  <1>8. ASSUME NEW fd \in Streams, rewind(fd) PROVE Kept
    BY <1>8 DEF rewind, Call, Keep
  <1>9. ASSUME NEW fd \in Streams, fclose(fd) PROVE Kept
    BY <1>9 DEF fclose, Call, Keep
  <1>10. ASSUME NEW fd \in Streams, NEW f \in scope.files, NEW mode \in scope.modes, freopen(fd, f, mode)
         PROVE  Kept
    <2>1. PICK r \in u_st_wflush(u_st_slot(Lib, fd), Index(u_st_slot(Lib, fd), fd)) :
              IF ~SomeFd THEN Call(r.w, <<"ask">>)
              ELSE Call(Anew(Opened(r.w, f, mode).w, Opened(r.w, f, mode).fd, fd), <<"open", fd>>)
      BY <1>10 DEF freopen, Anew
    <2> QED  BY <2>1 DEF Call, Keep
  <1>11. ASSUME fflush_all PROVE Kept
    BY <1>11 DEF fflush_all, Call, Keep
  <1>12. ASSUME exit PROVE Kept
    BY <1>12 DEF exit
  <1> HIDE DEF Kept
  <1>13. Kept
    BY <1>1, <1>2, <1>3, <1>4, <1>5, <1>6, <1>7, <1>8, <1>9, <1>10, <1>11, <1>12
    DEF StdioNext, StreamCalls
  <1> QED  BY <1>13 DEF Kept

\* A step of the streams is one of CStream, or nothing of it is seen.
SeenUnchanged == SeenContent' = SeenContent /\ SeenStream' = SeenStream /\ answer' = answer

LEMMA StepShown ==
    ASSUME StdioInv, Undisturbed, [StdioNext]_vars
    PROVE  Undisturbed' /\ (SeenUnchanged \/ (faults' = 0 /\ ~mismarked' => Seen!Next))
  <1>1. CASE UNCHANGED vars
    <2>1. Lib' = Lib /\ scope' = scope /\ full' = full /\ faults' = faults /\ answer' = answer /\ mismarked' = mismarked
      BY <1>1 DEF vars, libvars, Lib
    <2>2. Mirrors(Lib)' <=> Mirrors(Lib)
      BY <2>1 DEF Mirrors, MirrorAt, InSlot, Index
    <2>3. SeenUnchanged
      BY <2>1, SeenNow, SeenNext DEF SeenUnchanged
    <2> QED  BY <2>1, <2>2, <2>3 DEF Undisturbed
  <1>2. CASE Device
    <2>1. faults' # 0 /\ faults' \in Nat
      BY <1>2 DEF Device, Undisturbed
    <2> QED  BY <2>1 DEF Undisturbed
  <1>3. CASE StdioNext /\ ~Device
    <2>1. full' = full /\ faults' = faults /\ scope' = scope /\ (mismarked => mismarked')
      BY <1>3, CallsKeep
    <2>2. CASE faults' # 0 \/ mismarked'
      BY <2>1, <2>2 DEF Undisturbed
    <2>3. CASE faults' = 0 /\ ~mismarked'
      <3>1. Faithful
        BY <1>3, <2>1, <2>3, CallsShown DEF Undisturbed
      <3>2. Mirrors(Lib)'
        BY <2>1, <3>1 DEF Faithful, Mirrors
      <3> QED  BY <2>1, <2>3, <3>1, <3>2 DEF Faithful, Undisturbed
    <2> QED  BY <2>2, <2>3
  <1> QED  BY <1>1, <1>2, <1>3

LEMMA SeenUnchangedIs ==
    ASSUME SeenUnchanged
    PROVE  UNCHANGED Seen!vars
  BY Zenon DEF SeenUnchanged, SeenContent, SeenStream, Seen!vars

\* Through the buffers, the table and the descriptors a program sees plain
\* positions in plain files until the device fails or a slot tells of another
\* mode than its stream's, however many slots there are.
THEOREM StreamsAreImplemented ==
    StdioSpec => ImplementsStreams
  <1>1. ASSUME StdioInit PROVE Seen!Init /\ Undisturbed
    <2>1. open = [fd \in Fd |-> None] /\ faults = 0 /\ full = FALSE
      BY <1>1 DEF StdioInit
    <2>2. SeenStream = [fd \in Fd |-> None]
      BY <2>1 DEF SeenStream
    <2>3. Seen!Init
      BY Zenon, <2>2 DEF SeenStream, Seen!Init
    <2>4. Mirrors(Lib)
      BY <2>1 DEF Mirrors, Lib
    <2> QED  BY <2>1, <2>3, <2>4 DEF Undisturbed
  <1> DEFINE Shown == faults' = 0 /\ ~mismarked' => Seen!Next
  <1>2. ASSUME StdioInv, Undisturbed, [StdioNext]_vars PROVE Undisturbed' /\ [Shown]_Seen!vars
    <2>1. Undisturbed' /\ (SeenUnchanged \/ Shown)
      BY <1>2, StepShown
    <2> QED  BY <2>1, SeenUnchangedIs
  <1>3. StdioInv /\ Undisturbed /\ [StdioNext]_vars => Undisturbed' /\ [Shown]_Seen!vars
    BY <1>2
  <1>4. ImplementsStreams <=> Seen!Init /\ [][Shown]_Seen!vars
    BY DEF ImplementsStreams
  <1> HIDE DEF Shown
  <1> QED  BY <1>1, <1>3, <1>4, StdioInvHolds, PTL DEF StdioSpec
=============================================================================
