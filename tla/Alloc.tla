------------------------------- MODULE Alloc --------------------------------
(* The allocator of the carried C library (include/stdlib.h): blocks of a   *)
(* few sizes are carved from chunks and kept on a list for each size when   *)
(* they are freed; bigger blocks are mapped on their own and given back to  *)
(* the system.  Sizes are counted in words of 8 bytes.  A block is a header *)
(* of two words, its size and its class, and a payload; a free block's link *)
(* is the first word of its payload.                                        *)
EXTENDS Integers, Sequences, FiniteSets

CONSTANTS Base,      \* where the system may place a mapping
          Space,     \* a bound of the model: the highest address
          Top,       \* the highest class
          Size,      \* Size[k]: the words of a block of class k
          Page,      \* big blocks are rounded up to a multiple of this
          Chunk,     \* _UNISA_CHUNK
          Requests,  \* the sizes the program asks for
          Values     \* what it writes

Class == 0 .. Top
Header == 2
Null == 0

ASSUME SizesAssumption ==
    /\ Top \in Nat
    /\ Size \in [Class -> Nat]
    /\ \A k \in Class : Size[k] >= Header + 2
    /\ \A j, k \in Class : j < k => Size[j] < Size[k]
    /\ Chunk \in Nat /\ Chunk >= Size[Top]
    /\ Page \in Nat /\ Page > 0
    /\ Base \subseteq Nat \ {0}
    /\ Requests \subseteq Int /\ Values \subseteq Int

VARIABLES mem,    \* the words of the mapped addresses
          freel,  \* _unisa_freel
          cur, left,
          user,   \* user[p]: what the program asked for at p, and what its first words must be
          stack   \* stack[k]: the blocks of class k freed and not handed out again (history)

allocvars == <<mem, freel, cur, left, user, stack>>

AllocInit ==
    /\ mem = [a \in {} |-> 0]
    /\ freel = [k \in Class |-> Null]
    /\ cur = Null /\ left = 0
    /\ user = [p \in {} |-> [n |-> 0, has |-> <<>>]]
    /\ stack = [k \in Class |-> <<>>]

-----------------------------------------------------------------------------
(* malloc and free on a heap h: the four variables of the code, and the     *)
(* history of the lists.  malloc gives the set of what can come of it.      *)

Heap == [mem |-> mem, freel |-> freel, cur |-> cur, left |-> left, stack |-> stack]
BecomeHeap(h) ==
    mem' = h.mem /\ freel' = h.freel /\ cur' = h.cur /\ left' = h.left /\ stack' = h.stack

Words(a, n) == a .. a + n - 1

Stored(m, a, v) == [m EXCEPT ![a] = v]
Headed(m, a, size, k) == [m EXCEPT ![a] = size, ![a + 1] = k]

\* The mappings of n words the system may answer with: any place that is free.
Mapped(h, n) ==
    {[h |-> [h EXCEPT !.mem = [a \in DOMAIN h.mem \union Words(b, n) |->
                                  IF a \in DOMAIN h.mem THEN h.mem[a] ELSE 0]],
      at |-> b] :
     b \in {c \in Base : c + n - 1 <= Space /\ Words(c, n) \cap DOMAIN h.mem = {}}}

Refused(h) == {[h |-> h, p |-> Null]}

ClassOf(n) == CHOOSE k \in Class : n <= Size[k] /\ \A j \in Class : j < k => Size[j] < n

Rounded(n) == ((n + Page - 1) \div Page) * Page

\* Mutant: the chunk gives away the payload without the header.
CarvedShort(h, k) ==
    [h |-> [h EXCEPT !.mem = Headed(@, h.cur, Size[k], k),
                     !.cur = @ + Size[k] - Header, !.left = @ - Size[k] + Header],
     p |-> h.cur + Header]

Carved(h, k) ==
    [h |-> [h EXCEPT !.mem = Headed(@, h.cur, Size[k], k),
                     !.cur = @ + Size[k], !.left = @ - Size[k]],
     p |-> h.cur + Header]

Big(h, size) ==
    {[h |-> [m.h EXCEPT !.mem = Headed(@, m.at, size, -1)], p |-> m.at + Header] :
     m \in Mapped(h, size)}

Reused(h, k) ==
    [h |-> [h EXCEPT !.freel[k] = h.mem[h.freel[k] + Header], !.stack[k] = Tail(@)],
     p |-> h.freel[k] + Header]

\* What is left of the chunk before is not used again.
malloc(h, n) ==
    LET k == ClassOf(n + Header) IN
    IF n < 0 THEN Refused(h)
    ELSE IF n + Header > Size[Top] THEN Refused(h) \union Big(h, Rounded(n + Header))
    ELSE IF h.freel[k] # Null THEN {Reused(h, k)}
    ELSE IF h.left >= Size[k] THEN {Carved(h, k)}
    ELSE Refused(h) \union
         {Carved([m.h EXCEPT !.cur = m.at, !.left = Chunk], k) : m \in Mapped(h, Chunk)}

\* Mutant: the block goes to the list of the greatest class it has room for.
FreeToTop(h, p) ==
    LET b == p - Header
        k == h.mem[b + 1]
    IN
    IF k < 0 THEN [h EXCEPT !.mem = [a \in DOMAIN @ \ Words(b, h.mem[b]) |-> @[a]]]
    ELSE [h EXCEPT !.mem = Stored(@, p, h.freel[k]), !.freel[Top] = b, !.stack[k] = <<b>> \o @]

free(h, p) ==
    LET b == p - Header
        k == h.mem[b + 1]
    IN
    IF k < 0 THEN [h EXCEPT !.mem = [a \in DOMAIN @ \ Words(b, h.mem[b]) |-> @[a]]]
    ELSE [h EXCEPT !.mem = Stored(@, p, h.freel[k]), !.freel[k] = b, !.stack[k] = <<b>> \o @]

-----------------------------------------------------------------------------
(* The calls of a program that frees what it was given, once, and writes    *)
(* within what it asked for.                                                *)

Least(a, b) == IF a < b THEN a ELSE b
Granted(u, p, n, has) ==
    [q \in DOMAIN u \union {p} |-> IF q = p THEN [n |-> n, has |-> has] ELSE u[q]]
Without(u, p) == [q \in DOMAIN u \ {p} |-> u[q]]

\* Word i of the payload at p becomes f[i].
Written(m, p, f) ==
    [a \in DOMAIN m |-> IF a \in Words(p, Len(f)) THEN f[a - p + 1] ELSE m[a]]
Zeros(n) == [i \in 1 .. n |-> 0]

Malloc(n) ==
    \E r \in malloc(Heap, n) :
        /\ BecomeHeap(r.h)
        /\ user' = IF r.p = Null THEN user ELSE Granted(user, r.p, n, <<>>)

\* Mutant: the zeros of a fresh mapping are taken for granted.
CallocUnzeroed(n) ==
    \E r \in malloc(Heap, n) :
        /\ BecomeHeap(r.h)
        /\ user' = IF r.p = Null THEN user ELSE Granted(user, r.p, n, Zeros(n))

Calloc(n) ==
    \E r \in malloc(Heap, n) :
        IF r.p = Null THEN BecomeHeap(r.h) /\ UNCHANGED user
        ELSE /\ BecomeHeap([r.h EXCEPT !.mem = Written(@, r.p, Zeros(n))])
             /\ user' = Granted(user, r.p, n, Zeros(n))

Free(p) == BecomeHeap(free(Heap, p)) /\ user' = Without(user, p)

\* A block that fits stays unless it is big and would be half empty.
Fits(cap, n) == n <= cap /\ (cap <= Size[Top] \/ n > cap \div 2)

Realloc(p, n) ==
    LET cap == mem[p - Header] - Header
        kept == SubSeq(user[p].has, 1, Least(Len(user[p].has), n))
        Copied(h, q) == Written(h.mem, q, [i \in 1 .. Least(n, cap) |-> h.mem[p + i - 1]])
    IN
    IF n < 0 THEN UNCHANGED allocvars
    ELSE IF Fits(cap, n) THEN user' = Granted(user, p, n, kept) /\ UNCHANGED <<mem, freel, cur, left, stack>>
    ELSE \E r \in malloc(Heap, n) :
            IF r.p = Null THEN BecomeHeap(r.h) /\ UNCHANGED user
            ELSE /\ BecomeHeap(free([r.h EXCEPT !.mem = Copied(r.h, r.p)], p))
                 /\ user' = Granted(Without(user, p), r.p, n, kept)

\* The program writes all of a block.
Fill(p, v) ==
    LET f == [i \in 1 .. user[p].n |-> v] IN
    /\ mem' = Written(mem, p, f)
    /\ user' = [user EXCEPT ![p].has = f]
    /\ UNCHANGED <<freel, cur, left, stack>>

AllocNext ==
    \/ \E n \in Requests : Malloc(n) \/ Calloc(n)
    \/ \E p \in DOMAIN user :
           \/ Free(p)
           \/ \E n \in Requests : Realloc(p, n)
           \/ \E v \in Values : Fill(p, v)

AllocSpec == AllocInit /\ [][AllocNext]_allocvars

-----------------------------------------------------------------------------
(* Properties.                                                              *)

Live == {p - Header : p \in DOMAIN user}
OnList(k) == {stack[k][i] : i \in DOMAIN stack[k]}
Blocks == Live \union UNION {OnList(k) : k \in Class}
Extent(b) == Words(b, mem[b])

\* The list of each class, as the links in the freed payloads spell it, holds
\* the blocks that were freed and not handed out again, each once, and all of
\* them are of that class: a program that wrote its blocks did not write a link.
ListsExact ==
    \A k \in Class :
        /\ freel[k] = IF stack[k] = <<>> THEN Null ELSE Head(stack[k])
        /\ \A i \in DOMAIN stack[k] :
               /\ mem[stack[k][i]] = Size[k] /\ mem[stack[k][i] + 1] = k
               /\ mem[stack[k][i] + Header] =
                      IF i = Len(stack[k]) THEN Null ELSE stack[k][i + 1]
               /\ \A j \in DOMAIN stack[k] : stack[k][i] = stack[k][j] => i = j

\* No two blocks, live or free, and not what is left of the chunk, share a
\* word; every block is mapped, and a live one has room for what was asked.
BlocksApart ==
    /\ \A p \in DOMAIN user : user[p].n + Header <= mem[p - Header]
    /\ \A b \in Blocks : Extent(b) \subseteq DOMAIN mem /\ Extent(b) \cap Words(cur, left) = {}
    /\ \A b, c \in Blocks : b # c => Extent(b) \cap Extent(c) = {}
    /\ Live \cap UNION {OnList(k) : k \in Class} = {}
    /\ Words(cur, left) \subseteq DOMAIN mem

\* What the program wrote to a block, or calloc's zeros, is there until it is
\* freed, through the calls on other blocks, and the first words of it after
\* realloc.
ContentsKept ==
    \A p \in DOMAIN user : \A i \in DOMAIN user[p].has : mem[p + i - 1] = user[p].has[i]
=============================================================================
