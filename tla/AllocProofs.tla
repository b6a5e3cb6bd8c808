---------------------------- MODULE AllocProofs ----------------------------
(* Proofs about Alloc, for any classes, chunk and requests that              *)
(* SizesAssumption allows and any placement of the mappings: the lists are   *)
(* what their links spell, no two blocks share a word, and a program finds   *)
(* what it wrote.  The operators malloc and free are shown to keep one       *)
(* invariant of a heap h and the blocks u that a program was given.          *)
EXTENDS Alloc, SumFacts

-----------------------------------------------------------------------------
(* The invariant.                                                            *)

LiveIn(u) == {p - Header : p \in DOMAIN u}
Freed(h, k) == {h.stack[k][i] : i \in DOMAIN h.stack[k]}
FreedAny(h) == UNION {Freed(h, k) : k \in Class}
BlocksIn(h, u) == LiveIn(u) \union FreedAny(h)
Ext(h, b) == Words(b, h.mem[b])
Rest(h) == Words(h.cur, h.left)

Memory == UNION {[D -> Int] : D \in SUBSET (Nat \ {0})}
Heaps == [mem : Memory, freel : [Class -> Nat], cur : Nat, left : Nat, stack : [Class -> Seq(Nat)]]
Grant == [n : Nat, has : Seq(Int)]

\* A block has the size of its class, or is big.
Headers(h, u) ==
    /\ \A b \in LiveIn(u) :
           /\ b \in DOMAIN h.mem /\ b + 1 \in DOMAIN h.mem /\ h.mem[b] \in Nat
           /\ h.mem[b + 1] = -1 \/ (h.mem[b + 1] \in Class /\ h.mem[b] = Size[h.mem[b + 1]])
    /\ \A k \in Class : \A b \in Freed(h, k) : h.mem[b] = Size[k] /\ h.mem[b + 1] = k

\* A live block has room for what was asked, and in it is what was written.
Contents(h, u) ==
    \A p \in DOMAIN u :
        /\ u[p].n + Header <= h.mem[p - Header]
        /\ Len(u[p].has) <= u[p].n
        /\ \A i \in 1 .. Len(u[p].has) : h.mem[p + i - 1] = u[p].has[i]

\* The links of the free blocks spell the list.
Links(h) ==
    \A k \in Class :
        LET s == h.stack[k] IN
        /\ h.freel[k] = IF s = <<>> THEN Null ELSE s[1]
        /\ \A i \in 1 .. Len(s) :
               /\ h.mem[s[i] + Header] = IF i = Len(s) THEN Null ELSE s[i + 1]
               /\ \A j \in 1 .. Len(s) : s[i] = s[j] => i = j

\* All of it is mapped, and no two parts share a word.
Apart(h, u) ==
    /\ Rest(h) \subseteq DOMAIN h.mem
    /\ \A b \in BlocksIn(h, u) : Ext(h, b) \subseteq DOMAIN h.mem /\ Ext(h, b) \cap Rest(h) = {}
    /\ \A b, c \in BlocksIn(h, u) : b # c => Ext(h, b) \cap Ext(h, c) = {}
    /\ LiveIn(u) \cap FreedAny(h) = {}

Types(h, u) ==
    /\ h \in Heaps
    /\ u \in [DOMAIN u -> Grant]
    /\ DOMAIN u \subseteq Nat

HeapInv(h, u) == Types(h, u) /\ Headers(h, u) /\ Contents(h, u) /\ Links(h) /\ Apart(h, u)

-----------------------------------------------------------------------------
(* Blocks.                                                                   *)

LEMMA SizesAre ==
    /\ Top \in Class
    /\ \A k \in Class : Size[k] \in Nat /\ Size[k] >= 4 /\ Size[k] <= Size[Top]
    /\ Chunk \in Nat /\ \A k \in Class : Chunk >= Size[k]
  <1>1. Top \in Class
    BY SizesAssumption DEF Class
  <1>2. \A k \in Class : Size[k] \in Nat /\ Size[k] >= 4
    BY SizesAssumption DEF Header
  <1>3. \A k \in Class : k # Top => k < Top
    BY SizesAssumption DEF Class
  <1>4. \A k \in Class : Size[k] <= Size[Top]
    BY <1>1, <1>2, <1>3, SizesAssumption
  <1> QED  BY <1>1, <1>2, <1>4, SizesAssumption

\* A word of a payload is none of its block's header.
LEMMA PayloadWord ==
    \A q, i, n, size \in Nat : 1 <= i /\ i <= n /\ n + 2 <= size =>
        /\ q + i - 1 \in Words(q - 2, size)
        /\ q + i - 1 # q - 2 /\ q + i - 1 # q - 2 + 1
  BY DEF Words

\* The words of the header, and for a freed block those of the link.
LEMMA HeaderWords ==
    ASSUME NEW h, NEW u, HeapInv(h, u)
    PROVE  /\ \A b \in BlocksIn(h, u) :
                  /\ b \in Nat \ {0} /\ h.mem[b] \in Nat /\ h.mem[b] >= 2
                  /\ b \in Ext(h, b) /\ b + 1 \in Ext(h, b)
                  /\ b \in DOMAIN h.mem /\ b + 1 \in DOMAIN h.mem
           /\ \A b \in FreedAny(h) : b + 2 \in Ext(h, b) /\ b + 2 \in DOMAIN h.mem
  <1>1. /\ h \in Heaps
        /\ h.mem \in [DOMAIN h.mem -> Int] /\ DOMAIN h.mem \subseteq Nat \ {0}
    BY DEF HeapInv, Types, Heaps, Memory
  <1>2. ASSUME NEW b \in LiveIn(u)
        PROVE  b \in Nat \ {0} /\ h.mem[b] \in Nat /\ h.mem[b] >= 2
    <2>1. PICK p \in DOMAIN u : b = p - Header
      BY DEF LiveIn
    <2>2. b \in DOMAIN h.mem /\ h.mem[b] \in Nat
      BY <1>2 DEF HeapInv, Headers
    <2>3. u[p].n \in Nat /\ u[p].n + Header <= h.mem[b]
      BY <2>1 DEF HeapInv, Types, Grant, Contents
    <2> QED  BY <1>1, <2>2, <2>3 DEF Header
  <1>3. ASSUME NEW b \in FreedAny(h)
        PROVE  b \in Nat /\ h.mem[b] \in Nat /\ h.mem[b] >= 4
    <2>1. PICK k \in Class : b \in Freed(h, k)
      BY DEF FreedAny
    <2>2. h.stack[k] \in Seq(Nat)
      BY <1>1 DEF Heaps
    <2>3. b \in Nat
      BY <2>1, <2>2 DEF Freed
    <2>4. h.mem[b] = Size[k]
      BY <2>1 DEF HeapInv, Headers
    <2> QED  BY <2>3, <2>4, SizesAre
  <1>4. \A b \in BlocksIn(h, u) : b \in Nat /\ h.mem[b] \in Nat /\ h.mem[b] >= 2
    BY <1>2, <1>3 DEF BlocksIn
  <1>5. \A b \in BlocksIn(h, u) : Ext(h, b) \subseteq DOMAIN h.mem
    BY DEF HeapInv, Apart
  <1>6. \A b \in BlocksIn(h, u) : b \in Ext(h, b) /\ b + 1 \in Ext(h, b)
    BY <1>4 DEF Ext, Words
  <1>7. \A b \in FreedAny(h) : b + 2 \in Ext(h, b)
    BY <1>3 DEF Ext, Words
  <1>8. FreedAny(h) \subseteq BlocksIn(h, u)
    BY DEF BlocksIn
  <1> QED  BY <1>1, <1>4, <1>5, <1>6, <1>7, <1>8

-----------------------------------------------------------------------------
(* Heaps that agree on the blocks and the rest of the chunk.                 *)

\* More memory changes nothing: every word of the old one is as it was.
LEMMA MoreMemory ==
    ASSUME NEW h, NEW u, HeapInv(h, u), NEW m \in Memory,
           DOMAIN h.mem \subseteq DOMAIN m, \A a \in DOMAIN h.mem : m[a] = h.mem[a]
    PROVE  HeapInv([h EXCEPT !.mem = m], u)
  <1> DEFINE g == [h EXCEPT !.mem = m]
  <1>1. h \in Heaps
    BY DEF HeapInv, Types
  <1>2. /\ g \in Heaps
        /\ g.mem = m /\ g.freel = h.freel /\ g.cur = h.cur /\ g.left = h.left /\ g.stack = h.stack
    BY <1>1 DEF Heaps
  <1> HIDE DEF g
  <1>3. /\ \A k \in Class : Freed(g, k) = Freed(h, k)
        /\ FreedAny(g) = FreedAny(h) /\ BlocksIn(g, u) = BlocksIn(h, u) /\ Rest(g) = Rest(h)
    BY <1>2 DEF Freed, FreedAny, BlocksIn, Rest
  <1>4. \A b \in BlocksIn(h, u) : b \in DOMAIN h.mem /\ b + 1 \in DOMAIN h.mem
    BY HeaderWords
  <1>5. \A b \in BlocksIn(h, u) : m[b] = h.mem[b] /\ m[b + 1] = h.mem[b + 1] /\ Ext(g, b) = Ext(h, b)
    BY <1>2, <1>4 DEF Ext
  <1>6. Headers(g, u)
    <2>1. \A b \in LiveIn(u) : b \in BlocksIn(h, u)
      BY DEF BlocksIn
    <2>2. \A k \in Class : \A b \in Freed(h, k) : b \in BlocksIn(h, u)
      BY DEF BlocksIn, FreedAny
    <2>3. Headers(h, u)
      BY DEF HeapInv
    <2> QED  BY <2>1, <2>2, <2>3, <1>2, <1>3, <1>4, <1>5 DEF Headers
  <1>7. Contents(g, u)
    <2> SUFFICES ASSUME NEW p \in DOMAIN u
                 PROVE  /\ u[p].n + Header <= m[p - Header]
                        /\ Len(u[p].has) <= u[p].n
                        /\ \A i \in 1 .. Len(u[p].has) : m[p + i - 1] = u[p].has[i]
      BY <1>2 DEF Contents
    <2>1. p - Header \in BlocksIn(h, u) /\ p \in Nat /\ u[p].n \in Nat /\ Len(u[p].has) \in Nat
      BY DEF BlocksIn, LiveIn, HeapInv, Types, Grant
    <2>2. /\ u[p].n + Header <= h.mem[p - Header]
          /\ Len(u[p].has) <= u[p].n
          /\ \A i \in 1 .. Len(u[p].has) : h.mem[p + i - 1] = u[p].has[i]
      BY DEF HeapInv, Contents
    <2>3. ASSUME NEW i \in 1 .. Len(u[p].has) PROVE p + i - 1 \in Ext(h, p - Header)
      <3>1. h.mem[p - Header] \in Nat
        BY <2>1, HeaderWords
      <3> QED  BY SMTT(30), <3>1, <2>1, <2>2 DEF Ext, Words, Header
    <2>4. Ext(h, p - Header) \subseteq DOMAIN h.mem
      BY <2>1 DEF HeapInv, Apart
    <2> QED  BY <2>1, <2>2, <2>3, <2>4, <1>5
  <1>8. Links(g)
    <2> SUFFICES ASSUME NEW k \in Class, NEW i \in 1 .. Len(h.stack[k])
                 PROVE  m[h.stack[k][i] + Header] = h.mem[h.stack[k][i] + Header]
      BY <1>2 DEF HeapInv, Links
    <2>1. h.stack[k] \in Seq(Nat)
      BY <1>1 DEF Heaps
    <2>2. h.stack[k][i] \in FreedAny(h)
      BY <2>1 DEF FreedAny, Freed
    <2> QED  BY <2>2, HeaderWords DEF Header
  <1>9. Apart(g, u)
    <2>1. Apart(h, u)
      BY DEF HeapInv
    <2> QED  BY <2>1, <1>2, <1>3, <1>5 DEF Apart
  <1>10. Types(g, u)
    BY <1>2 DEF HeapInv, Types
  <1> QED  BY <1>6, <1>7, <1>8, <1>9, <1>10 DEF HeapInv, g

LEMMA MappedKeeps ==
    ASSUME NEW h, NEW u, HeapInv(h, u), NEW n \in Nat \ {0}, NEW x \in Mapped(h, n)
    PROVE  /\ HeapInv(x.h, u)
           /\ x.h = [h EXCEPT !.mem = x.h.mem]
           /\ x.at \in Nat \ {0}
           /\ Words(x.at, n) \subseteq DOMAIN x.h.mem
           /\ Words(x.at, n) \cap DOMAIN h.mem = {}
           /\ \A a \in DOMAIN h.mem : x.h.mem[a] = h.mem[a]
  <1> DEFINE New(b) == [a \in DOMAIN h.mem \union Words(b, n) |->
                            IF a \in DOMAIN h.mem THEN h.mem[a] ELSE 0]
  <1>1. PICK b \in Base : /\ x = [h |-> [h EXCEPT !.mem = New(b)], at |-> b]
                          /\ Words(b, n) \cap DOMAIN h.mem = {}
    BY DEF Mapped
  <1>2. h \in Heaps
    BY DEF HeapInv, Types
  <1>3. h.mem \in [DOMAIN h.mem -> Int] /\ DOMAIN h.mem \subseteq Nat \ {0}
    BY <1>2 DEF Heaps, Memory
  <1>4. b \in Nat \ {0} /\ Words(b, n) \subseteq Nat \ {0}
    BY SizesAssumption DEF Words
  <1>5. New(b) \in [DOMAIN h.mem \union Words(b, n) -> Int]
    BY <1>3
  <1>6. New(b) \in Memory
    BY <1>3, <1>4, <1>5 DEF Memory
  <1>7. PICK m : m = New(b)
    OBVIOUS
  <1>8. DOMAIN m = DOMAIN h.mem \union Words(b, n) /\ \A a \in DOMAIN h.mem : m[a] = h.mem[a]
    BY <1>7
  <1>9. HeapInv([h EXCEPT !.mem = m], u)
    BY <1>6, <1>7, <1>8, MoreMemory
  <1>10. x.h = [h EXCEPT !.mem = m] /\ x.at = b
    BY <1>1, <1>7
  <1>11. x.h.mem = m
    BY <1>2, <1>10 DEF Heaps
  <1> QED  BY <1>1, <1>4, <1>8, <1>9, <1>10, <1>11

\* The chunk may be any mapped words outside the blocks.
LEMMA NewChunk ==
    ASSUME NEW h, NEW u, HeapInv(h, u), NEW c \in Nat, NEW l \in Nat,
           Words(c, l) \subseteq DOMAIN h.mem,
           \A b \in BlocksIn(h, u) : Ext(h, b) \cap Words(c, l) = {}
    PROVE  HeapInv([h EXCEPT !.cur = c, !.left = l], u)
  <1> DEFINE g == [h EXCEPT !.cur = c, !.left = l]
  <1>1. h \in Heaps
    BY DEF HeapInv, Types
  <1>2. /\ g \in Heaps
        /\ g.mem = h.mem /\ g.freel = h.freel /\ g.cur = c /\ g.left = l /\ g.stack = h.stack
    BY <1>1 DEF Heaps
  <1> HIDE DEF g
  <1>3. /\ \A k : Freed(g, k) = Freed(h, k)
        /\ FreedAny(g) = FreedAny(h) /\ BlocksIn(g, u) = BlocksIn(h, u) /\ Rest(g) = Words(c, l)
    BY <1>2 DEF Freed, FreedAny, BlocksIn, Rest
  <1>4. \A b : Ext(g, b) = Ext(h, b)
    BY <1>2 DEF Ext
  <1>5. Types(g, u)
    BY <1>2 DEF HeapInv, Types
  <1>6. Headers(g, u)
    BY <1>2, <1>3 DEF HeapInv, Headers
  <1>7. Contents(g, u) /\ Links(g)
    BY <1>2 DEF HeapInv, Contents, Links
  <1>8. Apart(g, u)
    BY <1>2, <1>3, <1>4 DEF HeapInv, Apart
  <1> QED  BY <1>5, <1>6, <1>7, <1>8 DEF HeapInv, g

-----------------------------------------------------------------------------
(* What the program is granted.                                              *)

\* A live block may be granted anew, for what it has room for and what is in it.
LEMMA Regrant ==
    ASSUME NEW h, NEW u, HeapInv(h, u), NEW p \in DOMAIN u,
           NEW n \in Nat, n + Header <= h.mem[p - Header],
           NEW has \in Seq(Int), Len(has) <= n,
           \A i \in 1 .. Len(has) : h.mem[p + i - 1] = has[i]
    PROVE  HeapInv(h, Granted(u, p, n, has))
  <1>1. PICK v : v = Granted(u, p, n, has)
    OBVIOUS
  <1>2. /\ DOMAIN v = DOMAIN u
        /\ v[p].n = n /\ v[p].has = has
        /\ \A q \in DOMAIN u : q # p => v[q] = u[q]
    BY <1>1 DEF Granted
  <1>3. LiveIn(v) = LiveIn(u) /\ BlocksIn(h, v) = BlocksIn(h, u)
    BY <1>2 DEF LiveIn, BlocksIn
  <1>4. Types(h, v)
    <2>1. p \in Nat /\ u \in [DOMAIN u -> Grant] /\ DOMAIN u \subseteq Nat /\ h \in Heaps
      BY DEF HeapInv, Types
    <2>2. v \in [DOMAIN u -> Grant]
      BY <2>1, <1>1 DEF Granted, Grant
    <2> QED  BY <2>1, <2>2, <1>2 DEF Types
  <1>5. Headers(h, v) /\ Links(h) /\ Apart(h, v)
    BY <1>3 DEF HeapInv, Headers, Apart
  <1>6. Contents(h, v)
    <2>1. Contents(h, u)
      BY DEF HeapInv
    <2> SUFFICES ASSUME NEW q \in DOMAIN u
                 PROVE  /\ v[q].n + Header <= h.mem[q - Header]
                        /\ Len(v[q].has) <= v[q].n
                        /\ \A i \in 1 .. Len(v[q].has) : h.mem[q + i - 1] = v[q].has[i]
      BY <1>2 DEF Contents
    <2>2. CASE q = p
      BY <2>2, <1>2
    <2>3. CASE q # p
      BY <2>1, <2>3, <1>2 DEF Contents
    <2> QED  BY <2>2, <2>3
  <1> QED  BY <1>1, <1>4, <1>5, <1>6 DEF HeapInv

-----------------------------------------------------------------------------
(* A block comes into being.                                                 *)

LEMMA NewBlock ==
    ASSUME NEW h, NEW u, HeapInv(h, u), NEW b \in Nat \ {0}, NEW s \in Nat, NEW n \in Nat,
           n + Header <= s,
           NEW k \in Int, k = -1 \/ (k \in Class /\ s = Size[k]),
           Words(b, s) \subseteq DOMAIN h.mem,
           Words(b, s) \cap Rest(h) = {},
           \A c \in BlocksIn(h, u) : Ext(h, c) \cap Words(b, s) = {}
    PROVE  /\ HeapInv([h EXCEPT !.mem = Headed(@, b, s, k)], Granted(u, b + Header, n, <<>>))
           /\ b + Header \notin DOMAIN u
  <1>1. h \in Heaps
    BY DEF HeapInv, Types
  <1>2. h.mem \in [DOMAIN h.mem -> Int] /\ DOMAIN h.mem \subseteq Nat \ {0}
    BY <1>1 DEF Heaps, Memory
  <1>3. b \in Words(b, s) /\ b + 1 \in Words(b, s)
    BY DEF Words, Header
  <1>4. PICK m : m = Headed(h.mem, b, s, k)
    OBVIOUS
  <1>5. /\ m \in [DOMAIN h.mem -> Int]
        /\ m[b] = s /\ m[b + 1] = k
        /\ \A a \in DOMAIN h.mem : a # b /\ a # b + 1 => m[a] = h.mem[a]
    BY <1>2, <1>3, <1>4 DEF Headed
  <1>6. m \in Memory /\ DOMAIN m = DOMAIN h.mem
    BY <1>2, <1>5 DEF Memory
  <1>7. PICK g : g = [h EXCEPT !.mem = m]
    OBVIOUS
  <1>8. /\ g \in Heaps
        /\ g.mem = m /\ g.freel = h.freel /\ g.cur = h.cur /\ g.left = h.left /\ g.stack = h.stack
    BY <1>1, <1>6, <1>7 DEF Heaps
  <1>9. PICK p : p = b + Header
    OBVIOUS
  <1>10. p \in Nat /\ p - Header = b
    BY <1>9 DEF Header
  <1>11. PICK v : v = Granted(u, p, n, <<>>)
    OBVIOUS
  <1>12. /\ DOMAIN v = DOMAIN u \union {p}
         /\ v[p].n = n /\ v[p].has = <<>>
         /\ \A q \in DOMAIN u : q # p => v[q] = u[q]
         /\ LiveIn(v) = LiveIn(u) \union {b}
    <2>1. /\ DOMAIN v = DOMAIN u \union {p}
          /\ v[p].n = n /\ v[p].has = <<>>
          /\ \A q \in DOMAIN u : q # p => v[q] = u[q]
      BY <1>11 DEF Granted
    <2>2. LiveIn(v) = LiveIn(u) \union {b}
      BY <2>1, <1>10 DEF LiveIn
    <2> QED  BY <2>1, <2>2
  <1>13. /\ \A j : Freed(g, j) = Freed(h, j)
         /\ FreedAny(g) = FreedAny(h) /\ BlocksIn(g, v) = BlocksIn(h, u) \union {b}
         /\ Rest(g) = Rest(h)
    BY <1>8, <1>12 DEF Freed, FreedAny, BlocksIn, Rest
  <1>14. \A c \in BlocksIn(h, u) : /\ c \in Ext(h, c) /\ c + 1 \in Ext(h, c) /\ c # b
                                   /\ m[c] = h.mem[c] /\ m[c + 1] = h.mem[c + 1]
                                   /\ c \in DOMAIN h.mem /\ c + 1 \in DOMAIN h.mem
    BY <1>3, <1>5, HeaderWords
  <1>15. b \notin BlocksIn(h, u)
    BY <1>14
  <1>16. p \notin DOMAIN u
    BY <1>10, <1>15 DEF BlocksIn, LiveIn
  <1>17. Ext(g, b) = Words(b, s) /\ \A c \in BlocksIn(h, u) : Ext(g, c) = Ext(h, c)
    BY <1>5, <1>8, <1>14 DEF Ext
  <1>18. Types(g, v)
    <2>1. u \in [DOMAIN u -> Grant] /\ DOMAIN u \subseteq Nat
      BY DEF HeapInv, Types
    <2>2. v \in [DOMAIN u \union {p} -> Grant]
      BY <2>1, <1>11 DEF Granted, Grant
    <2> QED  BY <2>1, <2>2, <1>8, <1>10, <1>12 DEF Types
  <1>19. Headers(g, v)
    <2>1. Headers(h, u)
      BY DEF HeapInv
    <2>2. \A c \in LiveIn(u) : c \in BlocksIn(h, u)
      BY DEF BlocksIn
    <2>3. \A j \in Class : \A c \in Freed(h, j) : c \in BlocksIn(h, u)
      BY DEF BlocksIn, FreedAny
    <2>4. \A j \in Class : \A c \in Freed(g, j) : g.mem[c] = Size[j] /\ g.mem[c + 1] = j
      BY <2>1, <2>3, <1>8, <1>13, <1>14 DEF Headers
    <2>5. ASSUME NEW c \in LiveIn(u)
          PROVE  /\ c \in DOMAIN m /\ c + 1 \in DOMAIN m /\ m[c] \in Nat
                 /\ m[c + 1] = -1 \/ (m[c + 1] \in Class /\ m[c] = Size[m[c + 1]])
      BY <2>1, <2>2, <1>6, <1>14 DEF Headers
    <2>6. /\ b \in DOMAIN m /\ b + 1 \in DOMAIN m /\ m[b] \in Nat
          /\ m[b + 1] = -1 \/ (m[b + 1] \in Class /\ m[b] = Size[m[b + 1]])
      BY <1>3, <1>5, <1>6
    <2> QED  BY <2>4, <2>5, <2>6, <1>8, <1>12 DEF Headers
  <1>20. Contents(g, v)
    <2>1. ASSUME NEW q \in DOMAIN u
          PROVE  /\ v[q].n + Header <= m[q - Header]
                 /\ Len(v[q].has) <= v[q].n
                 /\ \A i \in 1 .. Len(v[q].has) : m[q + i - 1] = v[q].has[i]
      <3>1. v[q] = u[q]
        BY <1>12, <1>16
      <3>2. q - Header \in BlocksIn(h, u) /\ q \in Nat /\ u[q].n \in Nat /\ Len(u[q].has) \in Nat
        BY DEF BlocksIn, LiveIn, HeapInv, Types, Grant
      <3>3. /\ u[q].n + Header <= h.mem[q - Header]
            /\ Len(u[q].has) <= u[q].n
            /\ \A i \in 1 .. Len(u[q].has) : h.mem[q + i - 1] = u[q].has[i]
        BY DEF HeapInv, Contents
      <3>4. ASSUME NEW i \in 1 .. Len(u[q].has)
            PROVE  m[q + i - 1] = h.mem[q + i - 1]
        <4>1. h.mem[q - Header] \in Nat
          BY <3>2, HeaderWords
        <4>2. q + i - 1 \in Ext(h, q - Header)
          <5>1. /\ u[q].n \in Nat /\ i \in Nat /\ 1 <= i /\ i <= u[q].n
                /\ u[q].n + 2 <= h.mem[q - 2] /\ h.mem[q - 2] \in Nat
            BY <4>1, <3>2, <3>3 DEF Header
          <5>2. q + i - 1 \in Words(q - 2, h.mem[q - 2])
            BY <5>1, <3>2, PayloadWord
          <5> QED  BY <5>2 DEF Ext, Header
        <4>3. q + i - 1 \in DOMAIN h.mem /\ q + i - 1 \notin Words(b, s)
          BY <4>2, <3>2 DEF HeapInv, Apart
        <4> QED  BY <4>3, <1>3, <1>5
      <3> QED  BY <3>1, <3>2, <3>3, <3>4, <1>14
    <2>2. /\ v[p].n + Header <= m[p - Header]
          /\ Len(v[p].has) <= v[p].n
          /\ \A i \in 1 .. Len(v[p].has) : m[p + i - 1] = v[p].has[i]
      BY <1>5, <1>10, <1>12
    <2> QED  BY <2>1, <2>2, <1>8, <1>12 DEF Contents
  <1>21. Links(g)
    <2> SUFFICES ASSUME NEW j \in Class, NEW i \in 1 .. Len(h.stack[j])
                 PROVE  m[h.stack[j][i] + Header] = h.mem[h.stack[j][i] + Header]
      BY <1>8 DEF HeapInv, Links
    <2>1. h.stack[j] \in Seq(Nat)
      BY <1>1 DEF Heaps
    <2>2. h.stack[j][i] \in FreedAny(h) /\ h.stack[j][i] \in BlocksIn(h, u)
      BY <2>1 DEF FreedAny, Freed, BlocksIn
    <2>3. h.stack[j][i] + 2 \in Ext(h, h.stack[j][i]) /\ h.stack[j][i] + 2 \in DOMAIN h.mem
      BY <2>2, HeaderWords
    <2> QED  BY <2>2, <2>3, <1>3, <1>5 DEF Header
  <1>22. Apart(g, v)
    <2>1. Apart(h, u)
      BY DEF HeapInv
    <2>2. Rest(g) \subseteq DOMAIN m
      BY <2>1, <1>6, <1>13 DEF Apart
    <2>3. \A c \in BlocksIn(g, v) : Ext(g, c) \subseteq DOMAIN m /\ Ext(g, c) \cap Rest(g) = {}
      BY <2>1, <1>6, <1>13, <1>17 DEF Apart
    <2>4. \A c, d \in BlocksIn(g, v) : c # d => Ext(g, c) \cap Ext(g, d) = {}
      BY <2>1, <1>13, <1>17 DEF Apart
    <2>5. LiveIn(v) \cap FreedAny(g) = {}
      BY <2>1, <1>12, <1>13, <1>15 DEF Apart, BlocksIn
    <2> QED  BY <2>2, <2>3, <2>4, <2>5, <1>8 DEF Apart
  <1> QED
    <2>1. [h EXCEPT !.mem = Headed(@, b, s, k)] = g
      BY <1>4, <1>7
    <2> QED  BY <2>1, <1>9, <1>11, <1>16, <1>18, <1>19, <1>20, <1>21, <1>22 DEF HeapInv

LEMMA NumbersUpTo ==
    \A n \in Nat : \A f \in [1 .. n -> Int] : f \in Seq(Int) /\ Len(f) = n
  OBVIOUS

LEMMA TailOfNumbers ==
    \A s \in Seq(Nat) : s # <<>> =>
        /\ Tail(s) \in Seq(Nat) /\ Len(Tail(s)) = Len(s) - 1
        /\ \A i \in 1 .. Len(Tail(s)) : Tail(s)[i] = s[i + 1]
  OBVIOUS

LEMMA NumbersAt ==
    \A s \in Seq(Nat) :
        /\ Len(s) \in Nat /\ DOMAIN s = 1 .. Len(s)
        /\ (s = <<>> <=> Len(s) = 0) /\ \A i \in 1 .. Len(s) : s[i] \in Nat
  OBVIOUS

-----------------------------------------------------------------------------
(* malloc.                                                                   *)

LEMMA ClassFits ==
    ASSUME NEW n \in Nat, n <= Size[Top]
    PROVE  ClassOf(n) \in Class /\ n <= Size[ClassOf(n)]
  <1> DEFINE S == {k \in Class : n <= Size[k]}
  <1>1. S \in SUBSET Nat /\ S # {}
    BY SizesAre DEF Class
  <1>2. PICK k \in S : \A j \in S : k <= j
    BY <1>1, LeastNatural
  <1>3. k \in Class /\ n <= Size[k]
    BY <1>2
  <1>4. ASSUME NEW j \in Class, j < k PROVE Size[j] < n
    <2>1. j \notin S
      BY <1>2, <1>4 DEF Class
    <2> QED  BY <2>1, SizesAre
  <1> QED  BY <1>3, <1>4 DEF ClassOf

LEMMA RoundedUp == \A n \in Nat : Rounded(n) \in Nat /\ n <= Rounded(n)
  <1> SUFFICES ASSUME NEW n \in Nat PROVE Rounded(n) \in Nat /\ n <= Rounded(n)
    OBVIOUS
  <1>1. Page \in Nat /\ Page > 0
    BY SizesAssumption
  <1>2. PICK a \in Nat : a = n + Page - 1
    BY <1>1
  <1>3. PICK q \in Nat : q = a \div Page
    BY <1>1
  <1>4. PICK r \in Nat : r = a % Page /\ r < Page
    BY <1>1
  <1>5. a = Page * q + r
    BY <1>1, <1>3, <1>4
  <1>6. Rounded(n) = q * Page
    BY <1>2, <1>3 DEF Rounded
  <1> QED  BY <1>1, <1>2, <1>4, <1>5, <1>6

\* A block of the class in front of what is left of the chunk.
LEMMA CarvedKeeps ==
    ASSUME NEW h, NEW u, HeapInv(h, u), NEW k \in Class, h.left >= Size[k],
           NEW n \in Nat, n + Header <= Size[k], h.cur # Null
    PROVE  LET r == Carved(h, k) IN
           /\ HeapInv(r.h, Granted(u, r.p, n, <<>>))
           /\ r.p # Null /\ r.p \notin DOMAIN u
  <1>1. h \in Heaps /\ h.cur \in Nat \ {0} /\ h.left \in Nat /\ h.mem \in Memory
    BY DEF HeapInv, Types, Heaps, Null
  <1>2. PICK b \in Nat \ {0} : b = h.cur
    BY <1>1
  <1>3. PICK s \in Nat : s = Size[k]
    BY SizesAre
  <1>4. PICK l \in Nat : l = h.left - s
    BY <1>1, <1>3
  <1>5. PICK c \in Nat : c = b + s
    BY <1>2, <1>3
  <1>6. Words(b, s) \subseteq Rest(h) /\ Words(c, l) \subseteq Rest(h)
    BY <1>1, <1>2, <1>3, <1>4, <1>5 DEF Rest, Words
  <1>7. Words(b, s) \cap Words(c, l) = {}
    BY <1>5 DEF Words
  <1>8. Rest(h) \subseteq DOMAIN h.mem /\ \A d \in BlocksIn(h, u) : Ext(h, d) \cap Rest(h) = {}
    BY DEF HeapInv, Apart
  <1>9. PICK g : g = [h EXCEPT !.cur = c, !.left = l]
    OBVIOUS
  <1>10. HeapInv(g, u)
    <2>1. Words(c, l) \subseteq DOMAIN h.mem
      BY <1>6, <1>8
    <2>2. \A d \in BlocksIn(h, u) : Ext(h, d) \cap Words(c, l) = {}
      BY <1>6, <1>8
    <2>3. HeapInv([h EXCEPT !.cur = c, !.left = l], u)
      BY <2>1, <2>2, NewChunk
    <2> QED  BY <2>3, <1>9
  <1>11. g.mem = h.mem /\ g.stack = h.stack /\ g.cur = c /\ g.left = l
    BY <1>1, <1>9 DEF Heaps
  <1>12. /\ Rest(g) = Words(c, l) /\ BlocksIn(g, u) = BlocksIn(h, u)
         /\ \A d : Ext(g, d) = Ext(h, d)
    BY <1>11 DEF Rest, BlocksIn, FreedAny, Freed, Ext
  <1>13. /\ HeapInv([g EXCEPT !.mem = Headed(@, b, s, k)], Granted(u, b + Header, n, <<>>))
         /\ b + Header \notin DOMAIN u
    <2>1. k \in Int
      BY SizesAssumption DEF Class
    <2> QED  BY <2>1, <1>3, <1>6, <1>7, <1>8, <1>10, <1>11, <1>12, NewBlock
  <1>14. [g EXCEPT !.mem = Headed(@, b, s, k)]
           = [h EXCEPT !.mem = Headed(@, b, s, k), !.cur = c, !.left = l]
    BY <1>1, <1>9 DEF Heaps
  <1>15. Carved(h, k) = [h |-> [h EXCEPT !.mem = Headed(@, b, s, k), !.cur = c, !.left = l],
                         p |-> b + Header]
    BY <1>2, <1>3, <1>4, <1>5 DEF Carved
  <1>16. b + Header # Null
    BY DEF Header, Null
  <1> QED  BY <1>13, <1>14, <1>15, <1>16

\* The first block of the list of the class.
LEMMA ReusedKeeps ==
    ASSUME NEW h, NEW u, HeapInv(h, u), NEW k \in Class, h.freel[k] # Null,
           NEW n \in Nat, n + Header <= Size[k]
    PROVE  LET r == Reused(h, k) IN
           /\ HeapInv(r.h, Granted(u, r.p, n, <<>>))
           /\ r.p # Null /\ r.p \notin DOMAIN u /\ r.h.mem = h.mem
  <1>1. h \in Heaps
    BY DEF HeapInv, Types
  <1>2. PICK s \in Seq(Nat) : s = h.stack[k]
    BY <1>1 DEF Heaps
  <1>3. /\ h.freel[k] = IF s = <<>> THEN Null ELSE s[1]
        /\ \A i \in 1 .. Len(s) :
               /\ h.mem[s[i] + Header] = IF i = Len(s) THEN Null ELSE s[i + 1]
               /\ \A j \in 1 .. Len(s) : s[i] = s[j] => i = j
    BY <1>2 DEF HeapInv, Links
  <1>4. /\ s # <<>> /\ Len(s) \in Nat /\ Len(s) >= 1
        /\ DOMAIN s = 1 .. Len(s) /\ \A i \in 1 .. Len(s) : s[i] \in Nat
    <2>1. s # <<>>
      BY <1>3
    <2> QED  BY <2>1, <1>2, NumbersAt
  <1>5. PICK b \in Nat : b = s[1]
    BY <1>2, <1>4
  <1>6. PICK t \in Seq(Nat) : t = Tail(s)
    BY <1>2, <1>4, TailOfNumbers
  <1>7. /\ Len(t) = Len(s) - 1 /\ \A i \in 1 .. Len(t) : t[i] = s[i + 1]
        /\ DOMAIN t = 1 .. Len(t) /\ (t = <<>> <=> Len(t) = 0)
    BY <1>2, <1>4, <1>6, NumbersAt, TailOfNumbers
  <1>8. PICK l : l = h.mem[b + Header]
    OBVIOUS
  <1>9. l \in Nat /\ l = IF t = <<>> THEN Null ELSE t[1]
    <2>1. 1 \in 1 .. Len(s)
      BY <1>4
    <2>2. l = IF 1 = Len(s) THEN Null ELSE s[2]
      <3>1. h.mem[s[1] + Header] = IF 1 = Len(s) THEN Null ELSE s[1 + 1]
        BY <2>1, <1>3
      <3> QED  BY <3>1, <1>5, <1>8
    <2>3. CASE Len(s) = 1
      BY <2>2, <2>3, <1>7 DEF Null
    <2>4. CASE Len(s) # 1
      <3>1. 1 \in 1 .. Len(t) /\ 2 \in 1 .. Len(s)
        BY <2>4, <1>4, <1>7
      <3> QED  BY <3>1, <2>2, <2>4, <1>4, <1>7
    <2> QED  BY <2>3, <2>4
  <1>10. PICK g : g = [h EXCEPT !.freel[k] = l, !.stack[k] = t]
    OBVIOUS
  <1>11. /\ g \in Heaps /\ g.mem = h.mem /\ g.cur = h.cur /\ g.left = h.left
         /\ g.stack[k] = t /\ g.freel[k] = l
         /\ \A j \in Class : j # k => g.stack[j] = h.stack[j] /\ g.freel[j] = h.freel[j]
    BY <1>1, <1>6, <1>9, <1>10 DEF Heaps
  <1>12. /\ b \in Freed(h, k)
         /\ Freed(g, k) = Freed(h, k) \ {b}
         /\ \A j \in Class : j # k => Freed(g, j) = Freed(h, j) /\ b \notin Freed(h, j)
    <2>1. b \in Freed(h, k)
      <3>1. 1 \in DOMAIN h.stack[k] /\ h.stack[k][1] = b
        BY <1>2, <1>4, <1>5
      <3> QED  BY <3>1 DEF Freed
    <2>2. Freed(h, k) = {s[i] : i \in 1 .. Len(s)} /\ Freed(g, k) = {t[i] : i \in 1 .. Len(t)}
      BY ZenonT(30), <1>2, <1>4, <1>7, <1>11 DEF Freed
    <2>3. ASSUME NEW i \in 1 .. Len(s), s[i] # b PROVE \E j \in 1 .. Len(t) : t[j] = s[i]
      <3>1. i - 1 \in 1 .. Len(t) /\ t[i - 1] = s[i]
        BY <2>3, <1>4, <1>5, <1>7
      <3> QED  BY <3>1
    <2>4. ASSUME NEW j \in 1 .. Len(t) PROVE \E i \in 1 .. Len(s) : s[i] = t[j] /\ s[i] # b
      <3>1. j + 1 \in 1 .. Len(s) /\ s[j + 1] = t[j] /\ j + 1 # 1 /\ 1 \in 1 .. Len(s)
        BY <1>4, <1>7
      <3> QED  BY <3>1, <1>3, <1>5
    <2>5. Freed(g, k) = Freed(h, k) \ {b}
      <3>1. ASSUME NEW y \in Freed(h, k), y # b PROVE y \in Freed(g, k)
        BY <3>1, <2>2, <2>3
      <3>2. ASSUME NEW y \in Freed(g, k) PROVE y \in Freed(h, k) /\ y # b
        BY <3>2, <2>2, <2>4
      <3> QED  BY <3>1, <3>2
    <2>6. \A j \in Class : j # k => Freed(g, j) = Freed(h, j)
      BY <1>11 DEF Freed
    <2>7. \A j \in Class : j # k => b \notin Freed(h, j)
      BY <2>1 DEF HeapInv, Headers
    <2> QED  BY <2>1, <2>5, <2>6, <2>7
  <1>13. b \in FreedAny(h) /\ FreedAny(g) = FreedAny(h) \ {b}
    BY <1>12 DEF FreedAny
  <1>14. /\ b \in BlocksIn(h, u) /\ b \notin LiveIn(u) /\ b # 0
         /\ b \in DOMAIN h.mem /\ b + 1 \in DOMAIN h.mem
    BY <1>13, HeaderWords DEF BlocksIn, HeapInv, Apart
  <1>15. PICK p \in Nat : p = b + Header /\ p - Header = b /\ p # Null
    BY DEF Header, Null
  <1>16. PICK v : v = Granted(u, p, n, <<>>)
    OBVIOUS
  <1>17. /\ DOMAIN v = DOMAIN u \union {p}
         /\ v[p].n = n /\ v[p].has = <<>>
         /\ \A q \in DOMAIN u : q # p => v[q] = u[q]
    BY <1>16 DEF Granted
  <1>18. LiveIn(v) = LiveIn(u) \union {b} /\ p \notin DOMAIN u
    BY <1>14, <1>15, <1>17 DEF LiveIn
  <1>19. BlocksIn(g, v) = BlocksIn(h, u)
    BY <1>13, <1>18 DEF BlocksIn
  <1>20. (\A c : Ext(g, c) = Ext(h, c)) /\ Rest(g) = Rest(h)
    BY <1>11 DEF Ext, Rest
  <1>21. Types(g, v)
    <2>1. u \in [DOMAIN u -> Grant] /\ DOMAIN u \subseteq Nat
      BY DEF HeapInv, Types
    <2>2. v \in [DOMAIN u \union {p} -> Grant]
      BY <2>1, <1>16 DEF Granted, Grant
    <2> QED  BY <2>1, <2>2, <1>11, <1>17 DEF Types
  <1>22. h.mem[b] = Size[k] /\ h.mem[b + 1] = k
    BY <1>12 DEF HeapInv, Headers
  <1>23. Headers(g, v)
    <2>1. Headers(h, u)
      BY DEF HeapInv
    <2>2. \A j \in Class : Freed(g, j) \subseteq Freed(h, j)
      BY <1>12
    <2> QED  BY <2>1, <2>2, <1>11, <1>14, <1>18, <1>22, SizesAre DEF Headers
  <1>24. Contents(g, v)
    <2>1. Contents(h, u)
      BY DEF HeapInv
    <2>2. ASSUME NEW q \in DOMAIN u
          PROVE  /\ v[q].n + Header <= h.mem[q - Header]
                 /\ Len(v[q].has) <= v[q].n
                 /\ \A i \in 1 .. Len(v[q].has) : h.mem[q + i - 1] = v[q].has[i]
      BY <2>1, <1>17, <1>18 DEF Contents
    <2>3. /\ v[p].n + Header <= h.mem[p - Header]
          /\ Len(v[p].has) <= v[p].n
          /\ \A i \in 1 .. Len(v[p].has) : h.mem[p + i - 1] = v[p].has[i]
      BY <1>15, <1>17, <1>22
    <2> QED  BY <2>2, <2>3, <1>11, <1>17 DEF Contents
  <1>25. Links(g)
    <2>1. ASSUME NEW i \in 1 .. Len(t)
          PROVE  /\ h.mem[t[i] + Header] = IF i = Len(t) THEN Null ELSE t[i + 1]
                 /\ \A j \in 1 .. Len(t) : t[i] = t[j] => i = j
      <3>1. i + 1 \in 1 .. Len(s) /\ t[i] = s[i + 1]
        BY <1>4, <1>7
      <3>2. h.mem[t[i] + Header] = IF i + 1 = Len(s) THEN Null ELSE s[i + 2]
        <4>1. h.mem[s[i + 1] + Header] = IF i + 1 = Len(s) THEN Null ELSE s[(i + 1) + 1]
          BY <3>1, <1>3
        <4> QED  BY <4>1, <3>1
      <3>3. i # Len(t) => t[i + 1] = s[i + 2]
        <4>1. i # Len(t) => i + 1 \in 1 .. Len(t)
          <5>1. Len(t) \in Int /\ i \in Int /\ 1 <= i /\ i <= Len(t)
            BY <1>4, <1>7
          <5> QED  BY <5>1
        <4>2. i + 1 \in 1 .. Len(t) => t[i + 1] = s[(i + 1) + 1]
          BY <1>7
        <4>3. (i + 1) + 1 = i + 2
          OBVIOUS
        <4> QED  BY <4>1, <4>2, <4>3
      <3>4. i + 1 = Len(s) <=> i = Len(t)
        BY <1>4, <1>7
      <3>5. ASSUME NEW j \in 1 .. Len(t), t[i] = t[j] PROVE i = j
        <4>1. j + 1 \in 1 .. Len(s) /\ t[j] = s[j + 1]
          BY <1>4, <1>7
        <4>2. i + 1 = j + 1
          BY <4>1, <3>1, <3>5, <1>3
        <4> QED  BY <4>2
      <3> QED  BY <3>2, <3>3, <3>4, <3>5
    <2>2. ASSUME NEW j \in Class
          PROVE  LET r == g.stack[j] IN
                 /\ g.freel[j] = IF r = <<>> THEN Null ELSE r[1]
                 /\ \A i \in 1 .. Len(r) :
                        /\ g.mem[r[i] + Header] = IF i = Len(r) THEN Null ELSE r[i + 1]
                        /\ \A m \in 1 .. Len(r) : r[i] = r[m] => i = m
      <3>1. CASE j = k
        BY <3>1, <2>1, <1>9, <1>11
      <3>2. CASE j # k
        <4>1. Links(h)
          BY DEF HeapInv
        <4>2. g.stack[j] = h.stack[j] /\ g.freel[j] = h.freel[j] /\ g.mem = h.mem
          BY <3>2, <1>11
        <4> QED  BY <4>1, <4>2 DEF Links
      <3> QED  BY <3>1, <3>2
    <2> QED  BY <2>2 DEF Links
  <1>26. Apart(g, v)
    <2>1. Apart(h, u)
      BY DEF HeapInv
    <2>2. LiveIn(v) \cap FreedAny(g) = {}
      BY <2>1, <1>13, <1>18 DEF Apart
    <2> QED  BY <2>1, <2>2, <1>11, <1>19, <1>20 DEF Apart
  <1> QED
    <2>1. Reused(h, k) = [h |-> g, p |-> p]
      <3>1. h.freel[k] = b
        BY <1>3, <1>4, <1>5
      <3> QED  BY <3>1, <1>2, <1>6, <1>8, <1>10, <1>15 DEF Reused
    <2>2. HeapInv(g, v)
      BY <1>21, <1>23, <1>24, <1>25, <1>26 DEF HeapInv
    <2> QED  BY <2>1, <2>2, <1>11, <1>15, <1>16, <1>18

\* malloc answers nothing and changes nothing, or gives a block that was in
\* nobody's hands and leaves the headers of the blocks in use.
LEMMA MallocKeeps ==
    ASSUME NEW h, NEW u, HeapInv(h, u), NEW n \in Int, NEW r \in malloc(h, n)
    PROVE  \/ r.p = Null /\ r.h = h
           \/ /\ n \in Nat
              /\ r.p # Null /\ r.p \notin DOMAIN u
              /\ HeapInv(r.h, Granted(u, r.p, n, <<>>))
              /\ \A b \in LiveIn(u) : r.h.mem[b] = h.mem[b]
  <1>1. h \in Heaps
    BY DEF HeapInv, Types
  <1>2. h.freel \in [Class -> Nat] /\ h.cur \in Nat /\ h.left \in Nat /\ h.mem \in Memory
    BY <1>1 DEF Heaps
  <1>3. ASSUME r \in Refused(h) PROVE r.p = Null /\ r.h = h
    BY <1>3 DEF Refused
  <1>4. \A b \in LiveIn(u) : b \in BlocksIn(h, u) /\ b \in DOMAIN h.mem /\ b + 1 \in DOMAIN h.mem
    BY HeaderWords DEF BlocksIn
  <1>5. ASSUME n \in Nat, r \in Big(h, Rounded(n + Header))
        PROVE  /\ r.p # Null /\ r.p \notin DOMAIN u
               /\ HeapInv(r.h, Granted(u, r.p, n, <<>>))
               /\ \A b \in LiveIn(u) : r.h.mem[b] = h.mem[b]
    <2>1. PICK s \in Nat : s = Rounded(n + Header) /\ n + Header <= s
      BY <1>5, RoundedUp DEF Header
    <2>2. s \in Nat \ {0}
      BY <1>5, <2>1 DEF Header
    <2>3. PICK x \in Mapped(h, s) :
              r = [h |-> [x.h EXCEPT !.mem = Headed(@, x.at, s, -1)], p |-> x.at + Header]
      BY <1>5, <2>1 DEF Big
    <2>4. /\ HeapInv(x.h, u)
          /\ x.h = [h EXCEPT !.mem = x.h.mem]
          /\ x.at \in Nat \ {0}
          /\ Words(x.at, s) \subseteq DOMAIN x.h.mem
          /\ Words(x.at, s) \cap DOMAIN h.mem = {}
      BY <2>2, MappedKeeps
    <2>5. x.h.stack = h.stack /\ x.h.cur = h.cur /\ x.h.left = h.left /\ x.h \in Heaps
      <3>1. x.h \in Heaps
        BY <2>4 DEF HeapInv, Types
      <3> QED  BY <3>1, <2>4, <1>1 DEF Heaps
    <2>6. BlocksIn(x.h, u) = BlocksIn(h, u) /\ Rest(x.h) = Rest(h)
      BY <2>5 DEF BlocksIn, FreedAny, Freed, Rest
    <2>7. \A a \in DOMAIN h.mem : x.h.mem[a] = h.mem[a]
      BY <2>2, MappedKeeps
    <2>8. ASSUME NEW c \in BlocksIn(x.h, u) PROVE Ext(x.h, c) \cap Words(x.at, s) = {}
      <3>1. c \in DOMAIN h.mem
        BY <2>6, HeaderWords
      <3>2. Ext(x.h, c) = Ext(h, c)
        BY <3>1, <2>7 DEF Ext
      <3>3. Ext(h, c) \subseteq DOMAIN h.mem
        BY <2>6 DEF HeapInv, Apart
      <3> QED  BY <3>2, <3>3, <2>4
    <2>9. Words(x.at, s) \cap Rest(x.h) = {}
      BY <2>4, <2>6 DEF HeapInv, Apart
    <2>10. /\ HeapInv([x.h EXCEPT !.mem = Headed(@, x.at, s, -1)], Granted(u, x.at + Header, n, <<>>))
           /\ x.at + Header \notin DOMAIN u
      <3>1. \A k \in Int : k = -1 =>
               /\ HeapInv([x.h EXCEPT !.mem = Headed(@, x.at, s, k)], Granted(u, x.at + Header, n, <<>>))
               /\ x.at + Header \notin DOMAIN u
        BY <1>5, <2>1, <2>4, <2>8, <2>9, NewBlock
      <3> QED  BY <3>1
    <2>11. r.p = x.at + Header /\ r.h = [x.h EXCEPT !.mem = Headed(@, x.at, s, -1)]
      BY <2>3
    <2>12. r.p # Null
      BY <2>4, <2>11 DEF Header, Null
    <2>13. r.h.mem = Headed(x.h.mem, x.at, s, -1)
      BY <2>5, <2>11 DEF Heaps
    <2>14. ASSUME NEW b \in LiveIn(u) PROVE r.h.mem[b] = h.mem[b]
      <3>1. b \in DOMAIN h.mem
        BY <1>4
      <3>2. x.at \in Words(x.at, s) /\ x.at + 1 \in Words(x.at, s)
        BY <1>5, <2>1, <2>4 DEF Words, Header
      <3>3. b # x.at /\ b # x.at + 1
        BY <3>1, <3>2, <2>4
      <3>4. x.h.mem \in Memory
        BY <2>5 DEF Heaps
      <3>5. b \in DOMAIN x.h.mem
        BY <2>4, <1>4, HeaderWords, <2>6
      <3> QED  BY <3>1, <3>3, <3>5, <2>7, <2>13 DEF Headed
    <2> QED  BY <2>10, <2>11, <2>12, <2>14
  <1>6. ASSUME NEW k \in Class, n \in Nat, n + Header <= Size[k], NEW g, HeapInv(g, u), g.left >= Size[k], g.cur # Null,
               \A b \in LiveIn(u) : b \in DOMAIN g.mem /\ g.mem[b] = h.mem[b],
               r = Carved(g, k)
        PROVE  /\ r.p # Null /\ r.p \notin DOMAIN u
               /\ HeapInv(r.h, Granted(u, r.p, n, <<>>))
               /\ \A b \in LiveIn(u) : r.h.mem[b] = h.mem[b]
    <2>1. /\ HeapInv(r.h, Granted(u, r.p, n, <<>>))
          /\ r.p # Null /\ r.p \notin DOMAIN u
      BY <1>6, CarvedKeeps
    <2>2. g \in Heaps
      BY <1>6 DEF HeapInv, Types
    <2>3. r.p = g.cur + Header /\ r.h.mem = Headed(g.mem, g.cur, Size[k], k)
      BY <1>6, <2>2 DEF Carved, Heaps
    <2>4. ASSUME NEW b \in LiveIn(u) PROVE b # g.cur /\ b # g.cur + 1
      <3>1. b \in Ext(g, b) /\ Ext(g, b) \cap Rest(g) = {}
        BY <1>6, HeaderWords DEF BlocksIn, HeapInv, Apart
      <3>2. g.cur \in Nat /\ g.left \in Nat /\ g.left >= 2
        BY <1>6, <2>2, SizesAre DEF Heaps
      <3>3. g.cur \in Rest(g) /\ g.cur + 1 \in Rest(g)
        BY <3>2 DEF Rest, Words
      <3> QED  BY <3>1, <3>3
    <2>5. \A b \in LiveIn(u) : r.h.mem[b] = g.mem[b]
      BY <1>6, <2>3, <2>4 DEF Headed
    <2> QED  BY <2>1, <2>5, <1>6
  <1>7. PICK k : k = ClassOf(n + Header)
    OBVIOUS
  <1>8. CASE n < 0
    BY <1>3, <1>8 DEF malloc
  <1>9. CASE n \in Nat /\ n + Header > Size[Top]
    <2>1. r \in Refused(h) \union Big(h, Rounded(n + Header))
      BY <1>9, <1>1 DEF malloc
    <2> QED  BY <2>1, <1>3, <1>5, <1>9
  <1>10. CASE n \in Nat /\ n + Header <= Size[Top]
    <2>1. k \in Class /\ n + Header <= Size[k]
      BY <1>7, <1>10, ClassFits DEF Header
    <2>2. r \in IF h.freel[k] # Null THEN {Reused(h, k)}
                 ELSE IF h.left >= Size[k] THEN {Carved(h, k)}
                 ELSE Refused(h) \union
                      {Carved([x.h EXCEPT !.cur = x.at, !.left = Chunk], k) : x \in Mapped(h, Chunk)}
      <3>1. ~(n < 0) /\ ~(n + Header > Size[Top])
        BY <1>10, SizesAre DEF Header
      <3> QED  BY <3>1, <1>7 DEF malloc
    <2>3. CASE h.freel[k] # Null
      <3>1. r = Reused(h, k)
        BY <2>2, <2>3
      <3> QED  BY <3>1, <2>1, <2>3, <1>10, ReusedKeeps
    <2>4. CASE h.freel[k] = Null /\ h.left >= Size[k]
      <3>1. r = Carved(h, k)
        BY <2>2, <2>4
      <3>2. h.cur # Null
        <4>1. h.cur \in Rest(h)
          BY <2>1, <2>4, <1>2, SizesAre DEF Rest, Words
        <4>2. h.cur \in DOMAIN h.mem
          BY <4>1 DEF HeapInv, Apart
        <4> QED  BY <4>2, <1>2 DEF Memory, Null
      <3> QED  BY <3>1, <3>2, <2>1, <2>4, <1>2, <1>4, <1>6, <1>10
    <2>5. CASE h.freel[k] = Null /\ ~(h.left >= Size[k])
      <3>1. CASE r \in Refused(h)
        BY <3>1, <1>3
      <3>2. CASE \E x \in Mapped(h, Chunk) : r = Carved([x.h EXCEPT !.cur = x.at, !.left = Chunk], k)
        <4>1. PICK x \in Mapped(h, Chunk) : r = Carved([x.h EXCEPT !.cur = x.at, !.left = Chunk], k)
          BY <3>2
        <4>2. Chunk \in Nat \ {0} /\ Chunk >= Size[k]
          BY <2>1, SizesAre
        <4>3. /\ HeapInv(x.h, u)
              /\ x.h = [h EXCEPT !.mem = x.h.mem]
              /\ x.at \in Nat \ {0}
              /\ Words(x.at, Chunk) \subseteq DOMAIN x.h.mem
              /\ Words(x.at, Chunk) \cap DOMAIN h.mem = {}
          BY <4>2, MappedKeeps
        <4>4. \A a \in DOMAIN h.mem : x.h.mem[a] = h.mem[a]
          BY <4>2, MappedKeeps
        <4>5. x.h \in Heaps /\ x.h.stack = h.stack
          <5>1. x.h \in Heaps
            BY <4>3 DEF HeapInv, Types
          <5> QED  BY <5>1, <4>3, <1>1 DEF Heaps
        <4>6. ASSUME NEW c \in BlocksIn(x.h, u) PROVE Ext(x.h, c) \cap Words(x.at, Chunk) = {}
          <5>1. c \in BlocksIn(h, u)
            BY <4>5 DEF BlocksIn, FreedAny, Freed
          <5>2. c \in DOMAIN h.mem
            BY <5>1, HeaderWords
          <5>3. Ext(x.h, c) = Ext(h, c)
            BY <5>2, <4>4 DEF Ext
          <5>4. Ext(h, c) \subseteq DOMAIN h.mem
            BY <5>1 DEF HeapInv, Apart
          <5> QED  BY <5>3, <5>4, <4>3
        <4>7. PICK g : g = [x.h EXCEPT !.cur = x.at, !.left = Chunk]
          OBVIOUS
        <4>8. HeapInv([x.h EXCEPT !.cur = x.at, !.left = Chunk], u)
          <5>1. PICK y : y = x.h
            OBVIOUS
          <5>2. PICK c \in Nat : c = x.at
            BY <4>3
          <5>3. Words(c, Chunk) \subseteq DOMAIN y.mem /\ HeapInv(y, u)
            BY <5>1, <5>2, <4>3
          <5>4. \A b \in BlocksIn(y, u) : Ext(y, b) \cap Words(c, Chunk) = {}
            BY <5>1, <5>2, <4>6
          <5>5. HeapInv([y EXCEPT !.cur = c, !.left = Chunk], u)
            BY <5>3, <5>4, <4>2, NewChunk
          <5> QED  BY <5>1, <5>2, <5>5
        <4>9. g.cur = x.at /\ g.left = Chunk /\ g.mem = x.h.mem
          BY <4>5, <4>7 DEF Heaps
        <4>10. \A b \in LiveIn(u) : b \in DOMAIN g.mem /\ g.mem[b] = h.mem[b]
          <5>1. \A b \in LiveIn(u) : b \in BlocksIn(x.h, u)
            BY DEF BlocksIn
          <5>2. \A b \in LiveIn(u) : b \in DOMAIN x.h.mem
            BY <5>1, <4>3, HeaderWords
          <5> QED  BY <5>2, <4>4, <4>9, <1>4
        <4>11. g.left >= Size[k] /\ g.cur # Null /\ r = Carved(g, k) /\ HeapInv(g, u)
          BY <4>1, <4>2, <4>3, <4>7, <4>8, <4>9 DEF Null
        <4> QED  BY <4>10, <4>11, <2>1, <1>2, <1>6, <1>10
      <3> QED  BY <3>1, <3>2, <2>2, <2>5
    <2> QED  BY <2>3, <2>4, <2>5
  <1> QED  BY <1>8, <1>9, <1>10, SizesAre DEF Header

-----------------------------------------------------------------------------
(* Writing to a block, and free.                                             *)

\* Words of one payload may become anything: nothing else is read from them.
LEMMA PayloadChange ==
    ASSUME NEW h, NEW u, HeapInv(h, u), NEW p \in DOMAIN u, NEW m \in Memory,
           DOMAIN m = DOMAIN h.mem,
           \A a \in DOMAIN h.mem :
               a \notin Ext(h, p - Header) \/ a = p - Header \/ a = p - Header + 1 => m[a] = h.mem[a]
    PROVE  HeapInv([h EXCEPT !.mem = m], Granted(u, p, u[p].n, <<>>))
  <1>1. h \in Heaps /\ p \in Nat /\ u[p].n \in Nat
    BY DEF HeapInv, Types, Grant
  <1>2. PICK b : b = p - Header
    OBVIOUS
  <1>3. b \in LiveIn(u) /\ b \in BlocksIn(h, u) /\ b \notin FreedAny(h)
    BY <1>2 DEF LiveIn, BlocksIn, HeapInv, Apart
  <1>4. PICK g : g = [h EXCEPT !.mem = m]
    OBVIOUS
  <1>5. /\ g \in Heaps
        /\ g.mem = m /\ g.freel = h.freel /\ g.cur = h.cur /\ g.left = h.left /\ g.stack = h.stack
    BY <1>1, <1>4 DEF Heaps
  <1>6. PICK v : v = Granted(u, p, u[p].n, <<>>)
    OBVIOUS
  <1>7. /\ DOMAIN v = DOMAIN u
        /\ v[p].n = u[p].n /\ v[p].has = <<>>
        /\ \A q \in DOMAIN u : q # p => v[q] = u[q]
    BY <1>6 DEF Granted
  <1>8. LiveIn(v) = LiveIn(u)
    BY <1>7 DEF LiveIn
  <1>9. /\ \A j : Freed(g, j) = Freed(h, j)
        /\ FreedAny(g) = FreedAny(h) /\ BlocksIn(g, v) = BlocksIn(h, u) /\ Rest(g) = Rest(h)
    BY <1>5, <1>8 DEF Freed, FreedAny, BlocksIn, Rest
  <1>10. ASSUME NEW c \in BlocksIn(h, u), c # b, NEW a \in Ext(h, c) PROVE m[a] = h.mem[a]
    <2>1. a \in DOMAIN h.mem /\ a \notin Ext(h, b)
      BY <1>3, <1>10 DEF HeapInv, Apart
    <2> QED  BY <2>1, <1>2
  <1>11. \A c \in BlocksIn(h, u) : /\ c \in Ext(h, c) /\ c + 1 \in Ext(h, c)
                                   /\ c \in DOMAIN h.mem /\ c + 1 \in DOMAIN h.mem
    BY HeaderWords
  <1>12. m[b] = h.mem[b] /\ m[b + 1] = h.mem[b + 1]
    BY <1>2, <1>3, <1>11
  <1>13. \A c \in BlocksIn(h, u) : m[c] = h.mem[c] /\ m[c + 1] = h.mem[c + 1] /\ Ext(g, c) = Ext(h, c)
    BY <1>5, <1>10, <1>11, <1>12 DEF Ext
  <1>14. Types(g, v)
    <2>1. u \in [DOMAIN u -> Grant] /\ DOMAIN u \subseteq Nat
      BY DEF HeapInv, Types
    <2>2. v \in [DOMAIN u -> Grant]
      BY <2>1, <1>1, <1>6 DEF Granted, Grant
    <2> QED  BY <2>1, <2>2, <1>5, <1>7 DEF Types
  <1>15. Headers(g, v)
    <2>1. Headers(h, u)
      BY DEF HeapInv
    <2>2. \A c \in LiveIn(u) : c \in BlocksIn(h, u)
      BY DEF BlocksIn
    <2>3. \A j \in Class : \A c \in Freed(h, j) : c \in BlocksIn(h, u)
      BY DEF BlocksIn, FreedAny
    <2> QED  BY <2>1, <2>2, <2>3, <1>5, <1>8, <1>9, <1>13 DEF Headers
  <1>16. Contents(g, v)
    <2>1. Contents(h, u)
      BY DEF HeapInv
    <2>2. ASSUME NEW q \in DOMAIN u, q # p
          PROVE  /\ v[q].n + Header <= m[q - Header]
                 /\ Len(v[q].has) <= v[q].n
                 /\ \A i \in 1 .. Len(v[q].has) : m[q + i - 1] = v[q].has[i]
      <3>1. v[q] = u[q]
        BY <1>7, <2>2
      <3>2. /\ q - Header \in BlocksIn(h, u) /\ q \in Nat /\ q - Header # b
            /\ u[q].n \in Nat /\ Len(u[q].has) \in Nat
        BY <2>2, <1>1, <1>2 DEF BlocksIn, LiveIn, HeapInv, Types, Grant, Header
      <3>3. /\ u[q].n + Header <= h.mem[q - Header]
            /\ Len(u[q].has) <= u[q].n
            /\ \A i \in 1 .. Len(u[q].has) : h.mem[q + i - 1] = u[q].has[i]
        BY <2>1 DEF Contents
      <3>4. ASSUME NEW i \in 1 .. Len(u[q].has)
            PROVE  m[q + i - 1] = h.mem[q + i - 1]
        <4>1. h.mem[q - Header] \in Nat
          BY <3>2, HeaderWords
        <4>2. q + i - 1 \in Ext(h, q - Header)
          <5>1. /\ u[q].n \in Nat /\ i \in Nat /\ 1 <= i /\ i <= u[q].n
                /\ u[q].n + 2 <= h.mem[q - 2] /\ h.mem[q - 2] \in Nat
            BY <4>1, <3>2, <3>3 DEF Header
          <5>2. q + i - 1 \in Words(q - 2, h.mem[q - 2])
            BY <5>1, <3>2, PayloadWord
          <5> QED  BY <5>2 DEF Ext, Header
        <4> QED  BY <4>2, <3>2, <1>10
      <3> QED  BY <3>1, <3>2, <3>3, <3>4, <1>13
    <2>3. /\ v[p].n + Header <= m[p - Header]
          /\ Len(v[p].has) <= v[p].n
          /\ \A i \in 1 .. Len(v[p].has) : m[p + i - 1] = v[p].has[i]
      BY <2>1, <1>1, <1>2, <1>7, <1>12 DEF Contents
    <2> QED  BY <2>2, <2>3, <1>5, <1>7 DEF Contents
  <1>17. Links(g)
    <2> SUFFICES ASSUME NEW j \in Class, NEW i \in 1 .. Len(h.stack[j])
                 PROVE  m[h.stack[j][i] + Header] = h.mem[h.stack[j][i] + Header]
      BY <1>5 DEF HeapInv, Links
    <2>1. h.stack[j] \in Seq(Nat)
      BY <1>1 DEF Heaps
    <2>2. h.stack[j][i] \in FreedAny(h) /\ h.stack[j][i] \in BlocksIn(h, u)
      BY <2>1, NumbersAt DEF FreedAny, Freed, BlocksIn
    <2>3. h.stack[j][i] + 2 \in Ext(h, h.stack[j][i])
      BY <2>2, HeaderWords
    <2> QED  BY <2>2, <2>3, <1>3, <1>10 DEF Header
  <1>18. Apart(g, v)
    <2>1. Apart(h, u)
      BY DEF HeapInv
    <2> QED  BY <2>1, <1>5, <1>8, <1>9, <1>13 DEF Apart
  <1> QED  BY <1>4, <1>6, <1>14, <1>15, <1>16, <1>17, <1>18 DEF HeapInv

\* The program writes f at the beginning of a block.
LEMMA WriteKeeps ==
    ASSUME NEW h, NEW u, HeapInv(h, u), NEW p \in DOMAIN u,
           NEW f \in Seq(Int), Len(f) <= u[p].n
    PROVE  HeapInv([h EXCEPT !.mem = Written(@, p, f)], Granted(u, p, u[p].n, f))
  <1>1. h \in Heaps /\ p \in Nat /\ u[p].n \in Nat
    BY DEF HeapInv, Types, Grant
  <1>2. h.mem \in [DOMAIN h.mem -> Int] /\ DOMAIN h.mem \subseteq Nat \ {0}
    BY <1>1 DEF Heaps, Memory
  <1>3. PICK b : b = p - Header
    OBVIOUS
  <1>4. b \in BlocksIn(h, u) /\ b \in Nat \ {0} /\ b = p - 2
    <2>1. b \in BlocksIn(h, u) /\ b = p - 2
      BY <1>3 DEF LiveIn, BlocksIn, Header
    <2> QED  BY <2>1, HeaderWords
  <1>5. h.mem[b] \in Nat /\ u[p].n + 2 <= h.mem[b] /\ Ext(h, b) \subseteq DOMAIN h.mem
    BY <1>3, <1>4, HeaderWords DEF HeapInv, Contents, Header, Apart
  <1>6. Len(f) \in Nat /\ \A i \in 1 .. Len(f) : f[i] \in Int
    OBVIOUS
  <1>7. \A i \in 1 .. Len(f) : p + i - 1 \in Ext(h, b) /\ p + i - 1 # b /\ p + i - 1 # b + 1
    <2> SUFFICES ASSUME NEW i \in 1 .. Len(f)
                 PROVE  p + i - 1 \in Ext(h, b) /\ p + i - 1 # b /\ p + i - 1 # b + 1
      OBVIOUS
    <2>1. i \in Nat /\ 1 <= i /\ i <= u[p].n
      BY <1>1, <1>6
    <2>2. p + i - 1 \in Words(p - 2, h.mem[b]) /\ p + i - 1 # p - 2 /\ p + i - 1 # p - 2 + 1
      BY <2>1, <1>1, <1>5, PayloadWord
    <2> QED  BY <2>2, <1>4 DEF Ext
  <1>8. PICK m : m = Written(h.mem, p, f)
    OBVIOUS
  <1>9. \A a \in Words(p, Len(f)) : a - p + 1 \in 1 .. Len(f) /\ a = p + (a - p + 1) - 1
    BY <1>1, <1>6 DEF Words
  <1>10. m \in [DOMAIN h.mem -> Int]
    BY <1>2, <1>6, <1>8, <1>9 DEF Written
  <1>11. m \in Memory /\ DOMAIN m = DOMAIN h.mem
    BY <1>2, <1>10 DEF Memory
  <1>12. \A a \in DOMAIN h.mem :
             a \notin Ext(h, p - Header) \/ a = p - Header \/ a = p - Header + 1 => m[a] = h.mem[a]
    <2> SUFFICES ASSUME NEW a \in DOMAIN h.mem, a \notin Ext(h, b) \/ a = b \/ a = b + 1
                 PROVE  m[a] = h.mem[a]
      BY <1>3
    <2>1. a \notin Words(p, Len(f))
      BY <1>7, <1>9
    <2> QED  BY <2>1, <1>8 DEF Written
  <1>13. PICK g : g = [h EXCEPT !.mem = m]
    OBVIOUS
  <1>14. PICK v : v = Granted(u, p, u[p].n, <<>>)
    OBVIOUS
  <1>15. HeapInv(g, v)
    BY <1>11, <1>12, <1>13, <1>14, PayloadChange
  <1>16. ASSUME NEW i \in 1 .. Len(f) PROVE g.mem[p + i - 1] = f[i]
    <2>1. p + i - 1 \in DOMAIN h.mem
      BY <1>5, <1>7
    <2>2. p + i - 1 \in Words(p, Len(f)) /\ (p + i - 1) - p + 1 = i
      BY <1>1, <1>6 DEF Words
    <2>3. m[p + i - 1] = f[(p + i - 1) - p + 1]
      BY <2>1, <2>2, <1>8 DEF Written
    <2>4. g.mem = m
      BY <1>1, <1>13 DEF Heaps
    <2> QED  BY <2>2, <2>3, <2>4
  <1>17. p \in DOMAIN v /\ u[p].n + Header <= g.mem[p - Header]
    <2>1. p \in DOMAIN v /\ v[p].n = u[p].n
      BY <1>14 DEF Granted
    <2> QED  BY <2>1, <1>15 DEF HeapInv, Contents
  <1>18. HeapInv(g, Granted(v, p, u[p].n, f))
    BY <1>1, <1>15, <1>16, <1>17, Regrant
  <1>19. Granted(v, p, u[p].n, f) = Granted(u, p, u[p].n, f)
    BY <1>14 DEF Granted
  <1> QED  BY <1>8, <1>13, <1>18, <1>19

\* A freed big block takes its words with it.
LEMMA UnmapKeeps ==
    ASSUME NEW h, NEW u, HeapInv(h, u), NEW p \in DOMAIN u
    PROVE  LET b == p - Header IN
           HeapInv([h EXCEPT !.mem = [a \in DOMAIN @ \ Words(b, h.mem[b]) |-> @[a]]], Without(u, p))
  <1>1. h \in Heaps /\ p \in Nat
    BY DEF HeapInv, Types
  <1>2. h.mem \in [DOMAIN h.mem -> Int] /\ DOMAIN h.mem \subseteq Nat \ {0}
    BY <1>1 DEF Heaps, Memory
  <1>3. PICK b : b = p - Header
    OBVIOUS
  <1>4. b \in LiveIn(u) /\ b \in BlocksIn(h, u) /\ b \notin FreedAny(h)
    BY <1>3 DEF LiveIn, BlocksIn, HeapInv, Apart
  <1>5. PICK m : m = [a \in DOMAIN h.mem \ Ext(h, b) |-> h.mem[a]]
    OBVIOUS
  <1>6. /\ m \in Memory /\ DOMAIN m = DOMAIN h.mem \ Ext(h, b)
        /\ \A a \in DOMAIN m : m[a] = h.mem[a]
    BY <1>2, <1>5 DEF Memory
  <1>7. PICK g : g = [h EXCEPT !.mem = m]
    OBVIOUS
  <1>8. /\ g \in Heaps
        /\ g.mem = m /\ g.freel = h.freel /\ g.cur = h.cur /\ g.left = h.left /\ g.stack = h.stack
    BY <1>1, <1>6, <1>7 DEF Heaps
  <1>9. PICK v : v = Without(u, p)
    OBVIOUS
  <1>10. DOMAIN v = DOMAIN u \ {p} /\ \A q \in DOMAIN v : v[q] = u[q]
    BY <1>9 DEF Without
  <1>11. LiveIn(v) = LiveIn(u) \ {b}
    <2>1. \A q \in DOMAIN u : q - Header = b => q = p
      BY <1>1, <1>3 DEF HeapInv, Types, Header
    <2> QED  BY <2>1, <1>3, <1>10 DEF LiveIn
  <1>12. /\ \A j : Freed(g, j) = Freed(h, j)
         /\ FreedAny(g) = FreedAny(h) /\ BlocksIn(g, v) = BlocksIn(h, u) \ {b} /\ Rest(g) = Rest(h)
    BY <1>4, <1>8, <1>11 DEF Freed, FreedAny, BlocksIn, Rest
  <1>13. ASSUME NEW c \in BlocksIn(h, u), c # b, NEW a \in Ext(h, c)
         PROVE  a \in DOMAIN m /\ m[a] = h.mem[a]
    <2>1. a \in DOMAIN h.mem /\ a \notin Ext(h, b)
      BY <1>4, <1>13 DEF HeapInv, Apart
    <2> QED  BY <2>1, <1>6
  <1>14. ASSUME NEW c \in BlocksIn(h, u), c # b
         PROVE  /\ c \in DOMAIN m /\ c + 1 \in DOMAIN m
                /\ m[c] = h.mem[c] /\ m[c + 1] = h.mem[c + 1] /\ Ext(g, c) = Ext(h, c)
    <2>1. c \in Ext(h, c) /\ c + 1 \in Ext(h, c)
      BY <1>14, HeaderWords
    <2>2. c \in DOMAIN m /\ c + 1 \in DOMAIN m /\ m[c] = h.mem[c] /\ m[c + 1] = h.mem[c + 1]
      BY <1>13, <1>14, <2>1
    <2> QED  BY <2>2, <1>8 DEF Ext
  <1>15. Types(g, v)
    <2>1. u \in [DOMAIN u -> Grant] /\ DOMAIN u \subseteq Nat
      BY DEF HeapInv, Types
    <2>2. v \in [DOMAIN u \ {p} -> Grant]
      BY <2>1, <1>9 DEF Without
    <2> QED  BY <2>1, <2>2, <1>8, <1>10 DEF Types
  <1>16. Headers(g, v)
    <2>1. Headers(h, u)
      BY DEF HeapInv
    <2>2. \A c \in LiveIn(v) : c \in LiveIn(u) /\ c \in BlocksIn(h, u) /\ c # b
      BY <1>11 DEF BlocksIn
    <2>3. \A j \in Class : \A c \in Freed(h, j) : c \in BlocksIn(h, u) /\ c # b
      BY <1>4 DEF BlocksIn, FreedAny
    <2> QED  BY <2>1, <2>2, <2>3, <1>8, <1>12, <1>14 DEF Headers
  <1>17. Contents(g, v)
    <2>2. ASSUME NEW q \in DOMAIN u, q # p
          PROVE  /\ v[q].n + Header <= m[q - Header]
                 /\ Len(v[q].has) <= v[q].n
                 /\ \A i \in 1 .. Len(v[q].has) : m[q + i - 1] = v[q].has[i]
      <3>1. v[q] = u[q]
        BY <1>10, <2>2
      <3>2. /\ q - Header \in BlocksIn(h, u) /\ q \in Nat /\ q - Header # b
            /\ u[q].n \in Nat /\ Len(u[q].has) \in Nat
        BY <2>2, <1>1, <1>3 DEF BlocksIn, LiveIn, HeapInv, Types, Grant, Header
      <3>3. /\ u[q].n + Header <= h.mem[q - Header]
            /\ Len(u[q].has) <= u[q].n
            /\ \A i \in 1 .. Len(u[q].has) : h.mem[q + i - 1] = u[q].has[i]
        BY DEF HeapInv, Contents
      <3>4. ASSUME NEW i \in 1 .. Len(u[q].has)
            PROVE  m[q + i - 1] = h.mem[q + i - 1]
        <4>1. h.mem[q - Header] \in Nat
          BY <3>2, HeaderWords
        <4>2. q + i - 1 \in Ext(h, q - Header)
          <5>1. /\ u[q].n \in Nat /\ i \in Nat /\ 1 <= i /\ i <= u[q].n
                /\ u[q].n + 2 <= h.mem[q - 2] /\ h.mem[q - 2] \in Nat
            BY <4>1, <3>2, <3>3 DEF Header
          <5>2. q + i - 1 \in Words(q - 2, h.mem[q - 2])
            BY <5>1, <3>2, PayloadWord
          <5> QED  BY <5>2 DEF Ext, Header
        <4> QED  BY <4>2, <3>2, <1>13
      <3> QED  BY <3>1, <3>2, <3>3, <3>4, <1>14
    <2> QED  BY <2>2, <1>8, <1>10 DEF Contents
  <1>18. Links(g)
    <2> SUFFICES ASSUME NEW j \in Class, NEW i \in 1 .. Len(h.stack[j])
                 PROVE  m[h.stack[j][i] + Header] = h.mem[h.stack[j][i] + Header]
      BY <1>8 DEF HeapInv, Links
    <2>1. h.stack[j] \in Seq(Nat)
      BY <1>1 DEF Heaps
    <2>2. h.stack[j][i] \in FreedAny(h) /\ h.stack[j][i] \in BlocksIn(h, u)
      BY <2>1, NumbersAt DEF FreedAny, Freed, BlocksIn
    <2>3. h.stack[j][i] + 2 \in Ext(h, h.stack[j][i])
      BY <2>2, HeaderWords
    <2> QED  BY <2>2, <2>3, <1>4, <1>13 DEF Header
  <1>19. Apart(g, v)
    <2>1. Apart(h, u)
      BY DEF HeapInv
    <2>2. Rest(g) \subseteq DOMAIN m
      BY <2>1, <1>4, <1>6, <1>12 DEF Apart
    <2>3. \A c \in BlocksIn(g, v) : Ext(g, c) \subseteq DOMAIN m /\ Ext(g, c) \cap Rest(g) = {}
      BY <2>1, <1>12, <1>13, <1>14 DEF Apart
    <2>4. \A c, d \in BlocksIn(g, v) : c # d => Ext(g, c) \cap Ext(g, d) = {}
      BY <2>1, <1>12, <1>14 DEF Apart
    <2>5. LiveIn(v) \cap FreedAny(g) = {}
      BY <2>1, <1>11, <1>12 DEF Apart
    <2> QED  BY <2>2, <2>3, <2>4, <2>5, <1>8 DEF Apart
  <1> QED
    <2>1. m = [a \in DOMAIN h.mem \ Words(b, h.mem[b]) |-> h.mem[a]]
      BY <1>5 DEF Ext
    <2> QED  BY <2>1, <1>3, <1>7, <1>9, <1>15, <1>16, <1>17, <1>18, <1>19 DEF HeapInv

LEMMA ConsOfNumbers ==
    \A b \in Nat, s \in Seq(Nat) :
        LET t == <<b>> \o s IN
        /\ t \in Seq(Nat) /\ Len(t) = Len(s) + 1 /\ t # <<>> /\ t[1] = b
        /\ \A i \in 2 .. Len(t) : t[i] = s[i - 1]
  OBVIOUS

\* A freed block whose link is written goes to the front of its list.
LEMMA ListKeeps ==
    ASSUME NEW h, NEW u, HeapInv(h, u), NEW p \in DOMAIN u,
           NEW k \in Class, h.mem[p - Header + 1] = k, h.mem[p] = h.freel[k]
    PROVE  LET b == p - Header IN
           HeapInv([h EXCEPT !.freel[k] = b, !.stack[k] = <<b>> \o @], Without(u, p))
  <1>1. h \in Heaps /\ p \in Nat
    BY DEF HeapInv, Types
  <1>2. PICK b : b = p - Header
    OBVIOUS
  <1>3. /\ b \in LiveIn(u) /\ b \in BlocksIn(h, u) /\ b \notin FreedAny(h)
        /\ b \in Nat \ {0} /\ b + Header = p
    <2>1. b \in LiveIn(u) /\ b \in BlocksIn(h, u) /\ b \notin FreedAny(h)
      BY <1>2 DEF LiveIn, BlocksIn, HeapInv, Apart
    <2> QED  BY <2>1, <1>1, <1>2, HeaderWords DEF Header
  <1>4. h.mem[b] = Size[k] /\ h.mem[b + 1] = k
    <2>1. h.mem[b + 1] = k /\ k # -1
      BY <1>2 DEF Class
    <2> QED  BY <2>1, <1>3 DEF HeapInv, Headers
  <1>5. PICK s \in Seq(Nat) : s = h.stack[k]
    BY <1>1 DEF Heaps
  <1>6. PICK t : t = <<b>> \o s
    OBVIOUS
  <1>7. /\ t \in Seq(Nat) /\ Len(t) = Len(s) + 1 /\ t # <<>> /\ t[1] = b
        /\ \A i \in 2 .. Len(t) : t[i] = s[i - 1]
        /\ Len(s) \in Nat /\ DOMAIN s = 1 .. Len(s) /\ DOMAIN t = 1 .. Len(t)
        /\ (s = <<>> <=> Len(s) = 0)
    BY <1>3, <1>6, ConsOfNumbers, NumbersAt
  <1>8. /\ h.freel[k] = IF s = <<>> THEN Null ELSE s[1]
        /\ \A i \in 1 .. Len(s) :
               /\ h.mem[s[i] + Header] = IF i = Len(s) THEN Null ELSE s[i + 1]
               /\ \A j \in 1 .. Len(s) : s[i] = s[j] => i = j
    BY <1>5 DEF HeapInv, Links
  <1>9. PICK g : g = [h EXCEPT !.freel[k] = b, !.stack[k] = t]
    OBVIOUS
  <1>10. /\ g \in Heaps /\ g.mem = h.mem /\ g.cur = h.cur /\ g.left = h.left
         /\ g.stack[k] = t /\ g.freel[k] = b
         /\ \A j \in Class : j # k => g.stack[j] = h.stack[j] /\ g.freel[j] = h.freel[j]
    BY <1>1, <1>3, <1>7, <1>9 DEF Heaps
  <1>11. /\ Freed(g, k) = Freed(h, k) \union {b}
         /\ \A j \in Class : j # k => Freed(g, j) = Freed(h, j)
    <2>1. Freed(h, k) = {s[i] : i \in 1 .. Len(s)} /\ Freed(g, k) = {t[i] : i \in 1 .. Len(t)}
      <3>1. Freed(h, k) = {s[i] : i \in 1 .. Len(s)}
        BY <1>5, <1>7 DEF Freed
      <3>2. Freed(g, k) = {t[i] : i \in 1 .. Len(t)}
        BY <1>7, <1>10 DEF Freed
      <3> QED  BY <3>1, <3>2
    <2>2. ASSUME NEW i \in 1 .. Len(s) PROVE \E j \in 1 .. Len(t) : t[j] = s[i]
      <3>1. i + 1 \in 2 .. Len(t) /\ i + 1 \in 1 .. Len(t) /\ (i + 1) - 1 = i
        BY <1>7
      <3> QED  BY <3>1, <1>7
    <2>3. ASSUME NEW j \in 1 .. Len(t), t[j] # b PROVE \E i \in 1 .. Len(s) : s[i] = t[j]
      <3>1. j # 1 /\ j \in 2 .. Len(t) /\ j - 1 \in 1 .. Len(s)
        BY <2>3, <1>7
      <3> QED  BY <3>1, <1>7
    <2>4. b \in Freed(g, k)
      <3>1. 1 \in 1 .. Len(t)
        BY <1>7
      <3> QED  BY <3>1, <2>1, <1>7
    <2>5. Freed(g, k) = Freed(h, k) \union {b}
      <3>1. ASSUME NEW y \in Freed(h, k) PROVE y \in Freed(g, k)
        BY <3>1, <2>1, <2>2
      <3>2. ASSUME NEW y \in Freed(g, k), y # b PROVE y \in Freed(h, k)
        BY <3>2, <2>1, <2>3
      <3> QED  BY <3>1, <3>2, <2>4
    <2>6. \A j \in Class : j # k => Freed(g, j) = Freed(h, j)
      BY <1>10 DEF Freed
    <2> QED  BY <2>5, <2>6
  <1>12. FreedAny(g) = FreedAny(h) \union {b}
    BY <1>11 DEF FreedAny
  <1>13. PICK v : v = Without(u, p)
    OBVIOUS
  <1>14. DOMAIN v = DOMAIN u \ {p} /\ \A q \in DOMAIN v : v[q] = u[q]
    BY <1>13 DEF Without
  <1>15. LiveIn(v) = LiveIn(u) \ {b}
    <2>1. \A q \in DOMAIN u : q - Header = b => q = p
      BY <1>1, <1>2 DEF HeapInv, Types, Header
    <2> QED  BY <2>1, <1>2, <1>14 DEF LiveIn
  <1>16. BlocksIn(g, v) = BlocksIn(h, u)
    BY <1>3, <1>12, <1>15 DEF BlocksIn
  <1>17. (\A c : Ext(g, c) = Ext(h, c)) /\ Rest(g) = Rest(h)
    BY <1>10 DEF Ext, Rest
  <1>18. Types(g, v)
    <2>1. u \in [DOMAIN u -> Grant] /\ DOMAIN u \subseteq Nat
      BY DEF HeapInv, Types
    <2>2. v \in [DOMAIN u \ {p} -> Grant]
      BY <2>1, <1>13 DEF Without
    <2> QED  BY <2>1, <2>2, <1>10, <1>14 DEF Types
  <1>19. Headers(g, v)
    <2>1. Headers(h, u)
      BY DEF HeapInv
    <2>2. \A c \in LiveIn(v) : c \in LiveIn(u)
      BY <1>15
    <2>3. ASSUME NEW j \in Class, NEW c \in Freed(g, j)
          PROVE  h.mem[c] = Size[j] /\ h.mem[c + 1] = j
      BY <2>1, <1>4, <1>11 DEF Headers
    <2> QED  BY <2>1, <2>2, <2>3, <1>10 DEF Headers
  <1>20. Contents(g, v)
    BY <1>10, <1>14 DEF HeapInv, Contents
  <1>21. Links(g)
    <2>1. ASSUME NEW i \in 1 .. Len(t)
          PROVE  /\ h.mem[t[i] + Header] = IF i = Len(t) THEN Null ELSE t[i + 1]
                 /\ \A j \in 1 .. Len(t) : t[i] = t[j] => i = j
      <3>1. b \notin Freed(h, k)
        BY <1>3 DEF FreedAny
      <3>2. \A j \in 2 .. Len(t) : j - 1 \in 1 .. Len(s) /\ t[j] = s[j - 1] /\ t[j] # b
        <4>1. \A j \in 1 .. Len(s) : s[j] # b
          BY <3>1, <1>5, <1>7 DEF Freed
        <4> QED  BY SMTT(30), <4>1, <1>7
      <3>3. \A j \in 1 .. Len(t) : j = 1 \/ j \in 2 .. Len(t)
        BY <1>7
      <3>4. CASE i = 1
        <4>1. h.mem[t[i] + Header] = IF s = <<>> THEN Null ELSE s[1]
          BY <3>4, <1>3, <1>7, <1>8
        <4>2. s # <<>> => t[2] = s[1] /\ i # Len(t) /\ i + 1 = 2
          <5>1. s # <<>> => 2 \in 2 .. Len(t)
            BY <1>7
          <5> QED  BY <5>1, <3>4, <1>7
        <4>3. s = <<>> => i = Len(t)
          BY <3>4, <1>7
        <4>4. \A j \in 1 .. Len(t) : t[i] = t[j] => i = j
          BY <3>2, <3>3, <3>4, <1>7
        <4> QED  BY <4>1, <4>2, <4>3, <4>4
      <3>5. CASE i \in 2 .. Len(t)
        <4>1. PICK e \in 1 .. Len(s) : e = i - 1 /\ t[i] = s[e] /\ i \in Int
          BY <3>2, <3>5
        <4>2. h.mem[s[e] + Header] = IF e = Len(s) THEN Null ELSE s[e + 1]
          BY <1>8
        <4>3. e = Len(s) <=> i = Len(t)
          BY <4>1, <1>7
        <4>4. i # Len(t) => i + 1 \in 2 .. Len(t) /\ (i + 1) - 1 = e + 1
          BY <3>5, <4>1, <1>7
        <4>5. i # Len(t) => t[i + 1] = s[e + 1]
          BY <4>4, <3>2
        <4>6. ASSUME NEW j \in 1 .. Len(t), t[i] = t[j] PROVE i = j
          <5>1. j \in 2 .. Len(t)
            BY <4>6, <3>2, <3>3, <3>5, <1>7
          <5>2. PICK d \in 1 .. Len(s) : d = j - 1 /\ t[j] = s[d] /\ j \in Int
            BY <5>1, <3>2
          <5>3. s[e] = s[d]
            BY <4>1, <4>6, <5>2
          <5>4. \A x, y \in 1 .. Len(s) : s[x] = s[y] => x = y
            BY <1>8
          <5>5. e = d
            BY <5>3, <5>4
          <5> QED  BY <5>2, <5>5, <4>1
        <4> QED  BY <4>1, <4>2, <4>3, <4>5, <4>6
      <3> QED  BY <3>3, <3>4, <3>5
    <2>2. ASSUME NEW j \in Class
          PROVE  LET r == g.stack[j] IN
                 /\ g.freel[j] = IF r = <<>> THEN Null ELSE r[1]
                 /\ \A i \in 1 .. Len(r) :
                        /\ g.mem[r[i] + Header] = IF i = Len(r) THEN Null ELSE r[i + 1]
                        /\ \A m \in 1 .. Len(r) : r[i] = r[m] => i = m
      <3>1. CASE j = k
        BY <3>1, <2>1, <1>7, <1>10
      <3>2. CASE j # k
        <4>1. Links(h)
          BY DEF HeapInv
        <4>2. g.stack[j] = h.stack[j] /\ g.freel[j] = h.freel[j] /\ g.mem = h.mem
          BY <3>2, <1>10
        <4> QED  BY <4>1, <4>2 DEF Links
      <3> QED  BY <3>1, <3>2
    <2> QED  BY <2>2 DEF Links
  <1>22. Apart(g, v)
    <2>1. Apart(h, u)
      BY DEF HeapInv
    <2>2. LiveIn(v) \cap FreedAny(g) = {}
      BY <2>1, <1>12, <1>15 DEF Apart
    <2> QED  BY <2>1, <2>2, <1>10, <1>16, <1>17 DEF Apart
  <1> QED
    <2>1. [h EXCEPT !.freel[k] = b, !.stack[k] = <<b>> \o @] = g
      BY <1>1, <1>5, <1>6, <1>9 DEF Heaps
    <2> QED  BY <2>1, <1>2, <1>13, <1>18, <1>19, <1>20, <1>21, <1>22 DEF HeapInv

LEMMA FreeKeeps ==
    ASSUME NEW h, NEW u, HeapInv(h, u), NEW p \in DOMAIN u
    PROVE  HeapInv(free(h, p), Without(u, p))
  <1>1. h \in Heaps /\ p \in Nat
    BY DEF HeapInv, Types
  <1>2. /\ h.mem \in [DOMAIN h.mem -> Int] /\ DOMAIN h.mem \subseteq Nat \ {0}
        /\ h.freel \in [Class -> Nat]
    BY <1>1 DEF Heaps, Memory
  <1>3. PICK b : b = p - Header
    OBVIOUS
  <1>4. PICK k : k = h.mem[b + 1]
    OBVIOUS
  <1>5. b \in LiveIn(u) /\ b \in BlocksIn(h, u)
    BY <1>3 DEF LiveIn, BlocksIn
  <1>6. k = -1 \/ (k \in Class /\ h.mem[b] = Size[k])
    BY <1>4, <1>5 DEF HeapInv, Headers
  <1>7. CASE k = -1
    <2>1. k < 0
      BY <1>7
    <2>2. free(h, p) = [h EXCEPT !.mem = [a \in DOMAIN @ \ Words(b, h.mem[b]) |-> @[a]]]
      BY <2>1, <1>3, <1>4 DEF free
    <2> QED  BY <2>2, <1>3, UnmapKeeps
  <1>8. CASE k \in Class /\ h.mem[b] = Size[k]
    <2>1. ~(k < 0)
      BY <1>8, SizesAssumption DEF Class
    <2>2. free(h, p) = [h EXCEPT !.mem = Stored(@, p, h.freel[k]), !.freel[k] = b,
                                 !.stack[k] = <<b>> \o @]
      BY <2>1, <1>3, <1>4 DEF free
    <2>3. PICK m : m = Stored(h.mem, p, h.freel[k])
      OBVIOUS
    <2>4. p \in Ext(h, b) /\ p # b /\ p # b + 1 /\ b \in Nat
      <3>1. b \in Nat /\ h.mem[b] \in Nat /\ h.mem[b] >= 4
        BY <1>5, <1>8, HeaderWords, SizesAre
      <3>2. p = b + 2
        BY <1>1, <1>3, <3>1 DEF Header
      <3> QED  BY <3>1, <3>2 DEF Ext, Words
    <2>5. p \in DOMAIN h.mem
      BY <2>4, <1>5 DEF HeapInv, Apart
    <2>6. /\ m \in [DOMAIN h.mem -> Int] /\ m[p] = h.freel[k]
          /\ \A a \in DOMAIN h.mem : a # p => m[a] = h.mem[a]
      BY <2>3, <2>5, <1>2, <1>8 DEF Stored
    <2>7. m \in Memory /\ DOMAIN m = DOMAIN h.mem
      BY <2>6, <1>2 DEF Memory
    <2>8. PICK g : g = [h EXCEPT !.mem = m]
      OBVIOUS
    <2>9. PICK v : v = Granted(u, p, u[p].n, <<>>)
      OBVIOUS
    <2>10. HeapInv(g, v)
      <3>1. \A a \in DOMAIN h.mem :
                a \notin Ext(h, p - Header) \/ a = p - Header \/ a = p - Header + 1 => m[a] = h.mem[a]
        BY <2>4, <2>6, <1>3
      <3>2. HeapInv([h EXCEPT !.mem = m], Granted(u, p, u[p].n, <<>>))
        BY <3>1, <2>7, PayloadChange
      <3> QED  BY <3>2, <2>8, <2>9
    <2>11. g.mem = m /\ g.freel = h.freel
      BY <2>8, <1>1 DEF Heaps
    <2>12. p \in DOMAIN v /\ g.mem[p - Header + 1] = k /\ g.mem[p] = g.freel[k]
      <3>1. b + 1 \in DOMAIN h.mem
        BY <1>5, HeaderWords
      <3> QED  BY <3>1, <2>4, <2>6, <2>9, <2>11, <1>3, <1>4 DEF Granted
    <2>13. HeapInv([g EXCEPT !.freel[k] = b, !.stack[k] = <<b>> \o @], Without(v, p))
      BY <2>10, <2>12, <1>3, <1>8, ListKeeps
    <2>14. Without(v, p) = Without(u, p)
      BY <2>9 DEF Without, Granted
    <2>15. [g EXCEPT !.freel[k] = b, !.stack[k] = <<b>> \o @] = free(h, p)
      BY <2>2, <2>3, <2>8, <1>1 DEF Heaps
    <2> QED  BY <2>13, <2>14, <2>15
  <1> QED  BY <1>6, <1>7, <1>8

-----------------------------------------------------------------------------
(* The calls of the program.                                                 *)

AllocInv == HeapInv(Heap, user)

LEMMA BecomesHeap ==
    ASSUME NEW h \in Heaps, BecomeHeap(h)
    PROVE  Heap' = h
  BY DEF BecomeHeap, Heap, Heaps

LEMMA InitAllocInv == AllocInit => AllocInv
  <1> SUFFICES ASSUME AllocInit PROVE HeapInv(Heap, user)
    BY DEF AllocInv
  <1>1. mem \in [{} -> Int] /\ DOMAIN mem = {} /\ DOMAIN user = {} /\ user \in [{} -> Grant]
    BY DEF AllocInit
  <1>2. mem \in Memory
    BY <1>1 DEF Memory
  <1>3. stack \in [Class -> Seq(Nat)] /\ \A k \in Class : stack[k] = <<>>
    BY DEF AllocInit
  <1>4. Types(Heap, user)
    BY <1>1, <1>2, <1>3 DEF AllocInit, Types, Heap, Heaps, Null
  <1>5. \A k \in Class : Freed(Heap, k) = {}
    BY <1>3 DEF Freed, Heap
  <1>6. LiveIn(user) = {} /\ FreedAny(Heap) = {} /\ BlocksIn(Heap, user) = {}
    BY <1>1, <1>5 DEF LiveIn, FreedAny, BlocksIn
  <1>7. Rest(Heap) = {}
    BY DEF Rest, Words, Heap, AllocInit, Null
  <1>8. Links(Heap)
    <2>1. \A k \in Class : freel[k] = Null /\ Len(stack[k]) = 0
      BY <1>3 DEF AllocInit
    <2> QED  BY <2>1, <1>3 DEF Links, Heap
  <1>9. Headers(Heap, user) /\ Contents(Heap, user) /\ Apart(Heap, user)
    BY <1>1, <1>5, <1>6, <1>7 DEF Headers, Contents, Apart
  <1> QED  BY <1>4, <1>8, <1>9 DEF HeapInv

LEMMA MallocStep ==
    ASSUME AllocInv, NEW n \in Int, Malloc(n)
    PROVE  AllocInv'
  <1>1. HeapInv(Heap, user)
    BY DEF AllocInv
  <1>2. PICK r \in malloc(Heap, n) :
            /\ BecomeHeap(r.h)
            /\ user' = IF r.p = Null THEN user ELSE Granted(user, r.p, n, <<>>)
    BY DEF Malloc
  <1>3. \/ r.p = Null /\ r.h = Heap
        \/ r.p # Null /\ HeapInv(r.h, Granted(user, r.p, n, <<>>))
    BY <1>1, MallocKeeps
  <1>4. HeapInv(r.h, user')
    BY <1>1, <1>2, <1>3
  <1>5. r.h \in Heaps
    BY <1>4 DEF HeapInv, Types
  <1>6. Heap' = r.h
    BY <1>2, <1>5, BecomesHeap
  <1>7. HeapInv(Heap', user')
    BY <1>4, <1>6
  <1> QED  BY <1>7 DEF AllocInv

LEMMA CallocStep ==
    ASSUME AllocInv, NEW n \in Int, Calloc(n)
    PROVE  AllocInv'
  <1>1. HeapInv(Heap, user)
    BY DEF AllocInv
  <1>2. PICK r \in malloc(Heap, n) :
            IF r.p = Null THEN BecomeHeap(r.h) /\ UNCHANGED user
            ELSE /\ BecomeHeap([r.h EXCEPT !.mem = Written(@, r.p, Zeros(n))])
                 /\ user' = Granted(user, r.p, n, Zeros(n))
    BY DEF Calloc
  <1>3. \/ r.p = Null /\ r.h = Heap
        \/ r.p # Null /\ n \in Nat /\ HeapInv(r.h, Granted(user, r.p, n, <<>>))
    BY <1>1, MallocKeeps
  <1>4. PICK g : /\ HeapInv(g, user') /\ BecomeHeap(g)
    <2>1. CASE r.p = Null /\ r.h = Heap
      BY <2>1, <1>1, <1>2
    <2>2. CASE r.p # Null /\ n \in Nat /\ HeapInv(r.h, Granted(user, r.p, n, <<>>))
      <3>1. PICK f \in Seq(Int) : f = Zeros(n) /\ Len(f) = n
        <4>1. Zeros(n) \in [1 .. n -> Int]
          BY DEF Zeros
        <4> QED  BY <4>1, <2>2, NumbersUpTo
      <3>2. PICK v : v = Granted(user, r.p, n, <<>>)
        OBVIOUS
      <3>3. r.p \in DOMAIN v /\ v[r.p].n = n
        BY <3>2 DEF Granted
      <3>4. PICK h : h = r.h
        OBVIOUS
      <3>5. HeapInv(h, v)
        BY <3>2, <3>4, <2>2
      <3>6. HeapInv([h EXCEPT !.mem = Written(@, r.p, f)], Granted(v, r.p, v[r.p].n, f))
        <4>1. Len(f) <= v[r.p].n
          BY <3>1, <3>3, <2>2
        <4> QED  BY <4>1, <3>3, <3>5, WriteKeeps
      <3>7. Granted(v, r.p, v[r.p].n, f) = Granted(user, r.p, n, f)
        BY <3>2, <3>3 DEF Granted
      <3> QED  BY <3>1, <3>4, <3>6, <3>7, <2>2, <1>2
    <2> QED  BY <2>1, <2>2, <1>3
  <1>5. g \in Heaps
    BY <1>4 DEF HeapInv, Types
  <1>6. Heap' = g
    BY <1>4, <1>5, BecomesHeap
  <1>7. HeapInv(Heap', user')
    BY <1>4, <1>6
  <1> QED  BY <1>7 DEF AllocInv

LEMMA FreeStep ==
    ASSUME AllocInv, NEW p \in DOMAIN user, Free(p)
    PROVE  AllocInv'
  <1>1. PICK g : g = free(Heap, p)
    OBVIOUS
  <1>2. HeapInv(g, user')
    BY <1>1, FreeKeeps DEF AllocInv, Free
  <1>3. g \in Heaps
    BY <1>2 DEF HeapInv, Types
  <1>4. Heap' = g
    BY <1>1, <1>3, BecomesHeap DEF Free
  <1>5. HeapInv(Heap', user')
    BY <1>2, <1>4
  <1> QED  BY <1>5 DEF AllocInv

LEMMA FillStep ==
    ASSUME AllocInv, NEW p \in DOMAIN user, NEW x \in Values, Fill(p, x)
    PROVE  AllocInv'
  <1>1. HeapInv(Heap, user) /\ Heap \in Heaps
    BY DEF AllocInv, HeapInv, Types
  <1>2. user[p].n \in Nat
    BY <1>1 DEF HeapInv, Types, Grant
  <1>3. PICK f \in Seq(Int) : f = [i \in 1 .. user[p].n |-> x] /\ Len(f) = user[p].n
    BY <1>2, SizesAssumption, NumbersUpTo
  <1>4. PICK g : g = [Heap EXCEPT !.mem = Written(@, p, f)]
    OBVIOUS
  <1>5. HeapInv(g, Granted(user, p, user[p].n, f))
    BY <1>1, <1>2, <1>3, <1>4, WriteKeeps
  <1>6. user' = Granted(user, p, user[p].n, f)
    <2>1. user \in [DOMAIN user -> Grant]
      BY <1>1 DEF HeapInv, Types
    <2>2. user' = [user EXCEPT ![p].has = f]
      BY <1>3 DEF Fill
    <2>3. DOMAIN user' = DOMAIN user /\ user' \in [DOMAIN user -> Grant]
          /\ \A q \in DOMAIN user : q # p => user'[q] = user[q]
      BY <2>1, <2>2 DEF Grant
    <2>4. user'[p] = [n |-> user[p].n, has |-> f]
      BY <2>1, <2>2 DEF Grant
    <2>5. \A q \in DOMAIN user : user'[q] = Granted(user, p, user[p].n, f)[q]
      BY <2>3, <2>4 DEF Granted
    <2> QED  BY <2>3, <2>5 DEF Granted
  <1>7. g \in Heaps
    BY <1>5 DEF HeapInv, Types
  <1>8. BecomeHeap(g)
    BY <1>3, <1>4 DEF Fill, BecomeHeap, Heap
  <1>9. Heap' = g
    BY <1>7, <1>8, BecomesHeap
  <1>10. HeapInv(Heap', user')
    BY <1>5, <1>6, <1>9
  <1> QED  BY <1>10 DEF AllocInv

LEMMA LeastIs == \A a, b \in Int : /\ Least(a, b) \in Int /\ Least(a, b) <= a /\ Least(a, b) <= b
                                   /\ (a \in Nat /\ b \in Nat => Least(a, b) \in Nat)
  BY DEF Least

LEMMA ReallocStep ==
    ASSUME AllocInv, NEW p \in DOMAIN user, NEW n \in Int, Realloc(p, n)
    PROVE  AllocInv'
  <1>1. HeapInv(Heap, user) /\ Heap \in Heaps
    BY DEF AllocInv, HeapInv, Types
  <1>2. /\ p \in Nat /\ user[p].n \in Nat /\ user[p].has \in Seq(Int)
        /\ user[p].n + Header <= mem[p - Header]
        /\ Len(user[p].has) <= user[p].n
        /\ \A i \in 1 .. Len(user[p].has) : mem[p + i - 1] = user[p].has[i]
    BY <1>1 DEF HeapInv, Types, Grant, Contents, Heap
  <1>3. PICK s : s = mem[p - Header]
    OBVIOUS
  <1>4. s \in Nat /\ s >= 2 /\ p - Header \in BlocksIn(Heap, user) /\ p - Header \in LiveIn(user)
    <2>1. p - Header \in LiveIn(user) /\ p - Header \in BlocksIn(Heap, user)
      BY DEF LiveIn, BlocksIn
    <2> QED  BY <2>1, <1>1, <1>3, HeaderWords DEF Heap
  <1>5. PICK cap \in Nat : cap = s - Header
    BY <1>4 DEF Header
  <1>6. PICK had \in Seq(Int) : had = user[p].has
    BY <1>2
  <1>7. CASE n < 0
    <2>1. UNCHANGED allocvars
      BY <1>7 DEF Realloc
    <2> QED  BY <2>1, <1>1 DEF allocvars, AllocInv, Heap
  <1>8. ASSUME n \in Nat
        PROVE  \E kept \in Seq(Int) :
                   /\ kept = SubSeq(user[p].has, 1, Least(Len(user[p].has), n))
                   /\ Len(kept) = Least(Len(had), n)
                   /\ \A i \in 1 .. Len(kept) : i \in 1 .. Len(had) /\ kept[i] = had[i]
    <2>1. Len(had) \in Nat /\ \A i \in 1 .. Len(had) : had[i] \in Int
      OBVIOUS
    <2>2. PICK l \in Nat : l = Least(Len(had), n) /\ l <= Len(had)
      BY <2>1, <1>8, LeastIs
    <2>3. /\ SubSeq(had, 1, l) \in Seq(Int) /\ Len(SubSeq(had, 1, l)) = l
          /\ \A i \in 1 .. l : SubSeq(had, 1, l)[i] = had[i]
      BY <2>1, <2>2
    <2>4. PICK k \in Seq(Int) : k = SubSeq(had, 1, l)
      BY <2>3
    <2>5. Len(k) = l /\ \A i \in 1 .. Len(k) : i \in 1 .. Len(had) /\ k[i] = had[i]
      BY <2>1, <2>2, <2>3, <2>4
    <2>6. k = SubSeq(user[p].has, 1, Least(Len(user[p].has), n))
      BY <2>2, <2>4, <1>6
    <2> QED  BY <2>2, <2>5, <2>6
  <1>9. CASE n \in Nat /\ Fits(cap, n)
    <2>1. PICK kept \in Seq(Int) :
              /\ kept = SubSeq(user[p].has, 1, Least(Len(user[p].has), n))
              /\ Len(kept) = Least(Len(had), n)
              /\ \A i \in 1 .. Len(kept) : i \in 1 .. Len(had) /\ kept[i] = had[i]
      BY <1>8, <1>9
    <2>2. user' = Granted(user, p, n, kept) /\ UNCHANGED <<mem, freel, cur, left, stack>>
      BY <2>1, <1>3, <1>5, <1>9 DEF Realloc
    <2>3. n + Header <= Heap.mem[p - Header] /\ Len(kept) <= n
      <3>1. Len(had) \in Nat /\ n <= cap
        BY <1>9 DEF Fits
      <3>2. Least(Len(had), n) <= n
        BY <3>1, <1>9, LeastIs
      <3>3. n + Header <= s
        BY <3>1, <1>4, <1>5, <1>9 DEF Header
      <3> QED  BY <3>2, <3>3, <2>1, <1>3 DEF Heap
    <2>4. \A i \in 1 .. Len(kept) : Heap.mem[p + i - 1] = kept[i]
      BY <2>1, <1>2, <1>6 DEF Heap
    <2>5. HeapInv(Heap, Granted(user, p, n, kept))
      BY <2>1, <2>3, <2>4, <1>1, <1>9, Regrant
    <2>6. HeapInv(Heap', user')
      BY <2>2, <2>5 DEF Heap
    <2> QED  BY <2>6 DEF AllocInv
  <1>10. CASE n \in Nat /\ ~Fits(cap, n)
    <2>1. PICK kept \in Seq(Int) :
              /\ kept = SubSeq(user[p].has, 1, Least(Len(user[p].has), n))
              /\ Len(kept) = Least(Len(had), n)
              /\ \A i \in 1 .. Len(kept) : i \in 1 .. Len(had) /\ kept[i] = had[i]
      BY <1>8, <1>10
    <2>2. PICK l \in Nat : l = Least(n, cap) /\ l <= n /\ l <= cap
      BY <1>10, LeastIs
    <2>3. PICK r \in malloc(Heap, n) :
              IF r.p = Null THEN BecomeHeap(r.h) /\ UNCHANGED user
              ELSE /\ BecomeHeap(free([r.h EXCEPT !.mem =
                          Written(r.h.mem, r.p, [i \in 1 .. l |-> r.h.mem[p + i - 1]])], p))
                   /\ user' = Granted(Without(user, p), r.p, n, kept)
      <3>1. ~(n < 0)
        BY <1>10
      <3> QED  BY <3>1, <2>1, <2>2, <1>3, <1>5, <1>10 DEF Realloc
    <2>4. \/ r.p = Null /\ r.h = Heap
          \/ /\ r.p # Null /\ r.p \notin DOMAIN user
             /\ HeapInv(r.h, Granted(user, r.p, n, <<>>))
             /\ \A b \in LiveIn(user) : r.h.mem[b] = Heap.mem[b]
      BY <1>1, MallocKeeps
    <2>5. CASE r.p = Null /\ r.h = Heap
      <3>1. BecomeHeap(Heap) /\ user' = user
        BY <2>3, <2>5
      <3>2. Heap' = Heap
        BY <3>1, <1>1, BecomesHeap
      <3>3. HeapInv(Heap', user')
        BY <3>1, <3>2, <1>1
      <3> QED  BY <3>3 DEF AllocInv
    <2>6. CASE /\ r.p # Null /\ r.p \notin DOMAIN user
               /\ HeapInv(r.h, Granted(user, r.p, n, <<>>))
               /\ \A b \in LiveIn(user) : r.h.mem[b] = Heap.mem[b]
      <3>1. PICK h : h = r.h
        OBVIOUS
      <3>2. PICK q : q = r.p
        OBVIOUS
      <3>3. PICK v : v = Granted(user, q, n, <<>>)
        OBVIOUS
      <3>4. HeapInv(h, v) /\ h \in Heaps /\ q \notin DOMAIN user /\ h.mem[p - Header] = s
        BY <2>6, <3>1, <3>2, <3>3, <1>3, <1>4 DEF Heap, HeapInv, Types
      <3>5. /\ q \in DOMAIN v /\ v[q].n = n /\ p \in DOMAIN v /\ v[p] = user[p] /\ p # q
            /\ DOMAIN v = DOMAIN user \union {q}
        BY <3>3, <3>4 DEF Granted
      <3>6. \A i \in 1 .. l : h.mem[p + i - 1] \in Int
        <4> SUFFICES ASSUME NEW i \in 1 .. l PROVE h.mem[p + i - 1] \in Int
          OBVIOUS
        <4>1. p - Header \in BlocksIn(h, v)
          BY <3>5 DEF BlocksIn, LiveIn
        <4>2. Words(p - Header, s) \subseteq DOMAIN h.mem
          BY <4>1, <3>4 DEF HeapInv, Apart, Ext
        <4>3. i \in Nat /\ 1 <= i /\ i <= cap /\ cap + 2 <= s
          BY <2>2, <1>4, <1>5 DEF Header
        <4>4. p + i - 1 \in Words(p - 2, s)
          BY <4>3, <1>2, <1>4, PayloadWord
        <4>5. p + i - 1 \in DOMAIN h.mem
          BY <4>2, <4>4 DEF Header
        <4>6. h.mem \in Memory
          BY <3>4 DEF Heaps
        <4>7. h.mem \in [DOMAIN h.mem -> Int]
          BY <4>6 DEF Memory
        <4> QED  BY <4>5, <4>7
      <3>7. PICK f \in Seq(Int) : f = [i \in 1 .. l |-> h.mem[p + i - 1]] /\ Len(f) = l
        BY <3>6, <2>2, NumbersUpTo
      <3>8. PICK g : g = [h EXCEPT !.mem = Written(@, q, f)]
        OBVIOUS
      <3>9. HeapInv(g, Granted(v, q, v[q].n, f))
        <4>1. Len(f) <= v[q].n
          BY <3>5, <3>7, <2>2, <1>10
        <4> QED  BY <4>1, <3>4, <3>5, <3>8, WriteKeeps
      <3>10. PICK w : w = Granted(v, q, n, f)
        OBVIOUS
      <3>11. /\ HeapInv(g, w) /\ DOMAIN w = DOMAIN user \union {q}
             /\ w[q].n = n /\ w[q].has = f
        BY <3>5, <3>9, <3>10 DEF Granted
      <3>12. PICK d : d = free(g, p)
        OBVIOUS
      <3>13. PICK y : y = Without(w, p)
        OBVIOUS
      <3>14. HeapInv(d, y)
        BY <3>5, <3>11, <3>12, <3>13, FreeKeeps
      <3>15. q \in DOMAIN y /\ y[q].n = n /\ y[q].has = f
        BY <3>5, <3>11, <3>13 DEF Without
      <3>16. /\ n + Header <= d.mem[q - Header]
             /\ \A i \in 1 .. l : d.mem[q + i - 1] = f[i]
        BY ZenonT(30), <3>7, <3>14, <3>15 DEF HeapInv, Contents
      <3>17. Len(kept) <= n /\ Len(kept) <= l /\ Len(kept) \in Nat
        <4>1. user[p].n \in Nat /\ user[p].n + Header <= s
          BY <1>2, <1>3
        <4>2. PICK x \in Nat : x = Len(had)
          OBVIOUS
        <4>3. x <= user[p].n
          BY <1>2, <1>6, <4>2
        <4>4. x <= cap
          BY <1>4, <1>5, <4>1, <4>3 DEF Header
        <4>5. Len(kept) = Least(x, n)
          BY <2>1, <4>2
        <4>6. n \in Nat
          BY <1>10
        <4>7. Len(kept) = x \/ Len(kept) = n
          BY <4>5 DEF Least
        <4>8. Len(kept) <= x /\ Len(kept) <= n
          BY <4>5, <4>6 DEF Least
        <4>9. l = n \/ l = cap
          BY <2>2 DEF Least
        <4> QED  BY <4>4, <4>6, <4>7, <4>8, <4>9
      <3>18. ASSUME NEW i \in 1 .. Len(kept) PROVE d.mem[q + i - 1] = kept[i]
        <4>1. i \in 1 .. l /\ i \in 1 .. Len(had) /\ kept[i] = had[i]
          BY <3>17, <2>1
        <4>2. f[i] = h.mem[p + i - 1] /\ d.mem[q + i - 1] = f[i]
          BY <4>1, <3>7, <3>16
        <4>3. h.mem[p + i - 1] = v[p].has[i]
          BY <4>1, <3>4, <3>5, <1>6 DEF HeapInv, Contents
        <4> QED  BY <4>1, <4>2, <4>3, <3>5, <1>6
      <3>19. HeapInv(d, Granted(y, q, n, kept))
        BY <3>14, <3>15, <3>16, <3>17, <3>18, <1>10, Regrant
      <3>20. Granted(y, q, n, kept) = Granted(Without(user, p), q, n, kept)
        BY <3>3, <3>5, <3>10, <3>13 DEF Granted, Without
      <3>21. BecomeHeap(d) /\ user' = Granted(Without(user, p), q, n, kept)
        <4>1. g = [h EXCEPT !.mem = Written(h.mem, q, [i \in 1 .. l |-> h.mem[p + i - 1]])]
          BY <3>7, <3>8
        <4> QED  BY <4>1, <3>1, <3>2, <3>12, <2>3, <2>6
      <3>22. d \in Heaps
        BY <3>14 DEF HeapInv, Types
      <3>23. Heap' = d
        BY <3>21, <3>22, BecomesHeap
      <3>24. HeapInv(Heap', user')
        BY <3>19, <3>20, <3>21, <3>23
      <3> QED  BY <3>24 DEF AllocInv
    <2> QED  BY <2>4, <2>5, <2>6
  <1> QED  BY <1>7, <1>9, <1>10

LEMMA StepAllocInv == AllocInv /\ [AllocNext]_allocvars => AllocInv'
  <1> SUFFICES ASSUME AllocInv, [AllocNext]_allocvars PROVE AllocInv'
    OBVIOUS
  <1>1. \A n \in Requests : n \in Int
    BY SizesAssumption
  <1>2. ASSUME NEW n \in Requests, Malloc(n) PROVE AllocInv'
    BY <1>1, <1>2, MallocStep
  <1>3. ASSUME NEW n \in Requests, Calloc(n) PROVE AllocInv'
    BY <1>1, <1>3, CallocStep
  <1>4. ASSUME NEW p \in DOMAIN user, Free(p) PROVE AllocInv'
    BY <1>4, FreeStep
  <1>5. ASSUME NEW p \in DOMAIN user, NEW n \in Requests, Realloc(p, n) PROVE AllocInv'
    BY <1>1, <1>5, ReallocStep
  <1>6. ASSUME NEW p \in DOMAIN user, NEW x \in Values, Fill(p, x) PROVE AllocInv'
    BY <1>6, FillStep
  <1>7. CASE UNCHANGED allocvars
    BY <1>7 DEF allocvars, AllocInv, Heap
  <1> QED  BY <1>2, <1>3, <1>4, <1>5, <1>6, <1>7 DEF AllocNext

LEMMA AlwaysAllocInv == AllocSpec => []AllocInv
  BY InitAllocInv, StepAllocInv, PTL DEF AllocSpec

-----------------------------------------------------------------------------
(* The theorems.                                                             *)

LEMMA BlocksAre ==
    /\ Live = LiveIn(user) /\ Blocks = BlocksIn(Heap, user)
    /\ \A k \in Class : OnList(k) = Freed(Heap, k)
    /\ UNION {OnList(k) : k \in Class} = FreedAny(Heap)
    /\ Words(cur, left) = Rest(Heap)
    /\ \A b : Extent(b) = Ext(Heap, b)
  BY DEF Live, LiveIn, OnList, Freed, FreedAny, Blocks, BlocksIn, Rest, Heap, Extent, Ext

\* The lists that malloc takes from hold the blocks that free put there and no
\* others, each once and each of its class, whatever the program writes to the
\* blocks it has and however calls are ordered.
THEOREM ListsAlwaysExact == AllocSpec => []ListsExact
  <1>1. AllocInv => ListsExact
    <2> SUFFICES ASSUME AllocInv, NEW k \in Class
                 PROVE  /\ freel[k] = IF stack[k] = <<>> THEN Null ELSE Head(stack[k])
                        /\ \A i \in DOMAIN stack[k] :
                               /\ mem[stack[k][i]] = Size[k] /\ mem[stack[k][i] + 1] = k
                               /\ mem[stack[k][i] + Header] =
                                      IF i = Len(stack[k]) THEN Null ELSE stack[k][i + 1]
                               /\ \A j \in DOMAIN stack[k] : stack[k][i] = stack[k][j] => i = j
      BY DEF ListsExact
    <2>1. PICK s \in Seq(Nat) : s = stack[k]
      BY DEF AllocInv, HeapInv, Types, Heaps, Heap
    <2>2. DOMAIN s = 1 .. Len(s) /\ (s # <<>> => Head(s) = s[1])
      BY NumbersAt
    <2>3. Links(Heap) /\ Heap.stack = stack /\ Heap.freel = freel /\ Heap.mem = mem
      BY DEF AllocInv, HeapInv, Heap
    <2>4. /\ freel[k] = IF s = <<>> THEN Null ELSE s[1]
          /\ \A i \in 1 .. Len(s) :
                 /\ mem[s[i] + Header] = IF i = Len(s) THEN Null ELSE s[i + 1]
                 /\ \A j \in 1 .. Len(s) : s[i] = s[j] => i = j
      BY <2>1, <2>3 DEF Links
    <2>5. \A i \in 1 .. Len(s) : mem[s[i]] = Size[k] /\ mem[s[i] + 1] = k
      BY <2>1, <2>2 DEF AllocInv, HeapInv, Headers, Freed, Heap
    <2> QED  BY <2>1, <2>2, <2>4, <2>5
  <1> QED  BY <1>1, AlwaysAllocInv, PTL

\* No two blocks, in use or free, and not the rest of the chunk, share a word,
\* and a block in use has room for what was asked.
THEOREM BlocksAlwaysApart == AllocSpec => []BlocksApart
  <1>1. AllocInv => BlocksApart
    <2> SUFFICES ASSUME AllocInv PROVE BlocksApart
      OBVIOUS
    <2>1. \A p \in DOMAIN user : user[p].n + Header <= mem[p - Header]
      BY DEF AllocInv, HeapInv, Contents, Heap
    <2>2. Apart(Heap, user) /\ Heap.mem = mem
      BY DEF AllocInv, HeapInv, Heap
    <2>3. /\ \A b \in Blocks : Extent(b) \subseteq DOMAIN mem /\ Extent(b) \cap Words(cur, left) = {}
          /\ \A b, c \in Blocks : b # c => Extent(b) \cap Extent(c) = {}
          /\ Live \cap UNION {OnList(k) : k \in Class} = {}
          /\ Words(cur, left) \subseteq DOMAIN mem
      BY <2>2, BlocksAre DEF Apart
    <2> QED  BY <2>1, <2>3 DEF BlocksApart
  <1> QED  BY <1>1, AlwaysAllocInv, PTL

\* What the program wrote, and the zeros of calloc, are in its block until it
\* frees it, and what realloc keeps is kept.
THEOREM ContentsAlwaysKept == AllocSpec => []ContentsKept
  <1>1. AllocInv => ContentsKept
    <2> SUFFICES ASSUME AllocInv, NEW p \in DOMAIN user, NEW i \in DOMAIN user[p].has
                 PROVE  mem[p + i - 1] = user[p].has[i]
      BY DEF ContentsKept
    <2>1. user[p].has \in Seq(Int)
      BY DEF AllocInv, HeapInv, Types, Grant
    <2>2. i \in 1 .. Len(user[p].has)
      BY <2>1
    <2> QED  BY <2>2 DEF AllocInv, HeapInv, Contents, Heap
  <1> QED  BY <1>1, AlwaysAllocInv, PTL
=============================================================================
