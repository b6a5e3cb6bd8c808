-------------------------- MODULE RunCacheProofs --------------------------
(* Proofs about RunCache, for any number of processes, command lines, files *)
(* and edits: a hit gives what a fresh compile would, and a lookup refuses  *)
(* an entry only when a compile would give something else.                  *)
EXTENDS RunCache, TLAPS

-----------------------------------------------------------------------------
(* Types.                                                                   *)

Reads == Path \X Nat
Asked == {"have", "miss"} \X Path \X Nat
Entries == [have : SUBSET Reads, miss : SUBSET Path, opt : Opt, tape : SUBSET Reads,
            quiet : BOOLEAN]
Phases == {"idle", "input", "open", "lookup", "check", "package", "compile", "receipts"}
Procs == [pc : Phases, opt : Opt \union {None}, key : Key \union {None},
          tape : SUBSET Reads, have : SUBSET Path, miss : SUBSET Path,
          todo : Seq(Header), at : Nat \ {0},
          left : SUBSET (Path \union Asked), got : SUBSET (Reads \union Entries),
          broken : BOOLEAN, quiet : BOOLEAN]

Types ==
    /\ file \in [Path -> Nat] /\ \A f \in Path : file[f] \in Versions[f]
    /\ entry \in [Key -> Entries \union {None}]
    /\ proc \in [Proc -> Procs]
    /\ product \in [ident : Ident, stood : [Ident -> SUBSET Nat]]
    /\ edits \in Nat

-----------------------------------------------------------------------------
(* The inductive invariant, of files fs and a compiler of identity id, the  *)
(* versions stood of each identity.                                         *)

\* What every compile reads, and what was noted of the includes.
Base(v, s) == {<<Product, v>>, <<Source, s>>}
Noted(have, miss) == have \union {<<f, 0>> : f \in miss}
AsTheyAre(S, fs) == {<<f, fs[f]>> : f \in S}

\* The receipts and the key of an entry speak of all its compile read.
EntryOK(e, k, stood) ==
    e.quiet => /\ e.opt = k.opt
               /\ \E v \in stood[k.product] :
                      e.tape = Base(v, k.source) \union Noted(e.have, e.miss)

\* Compiler and source aside, what is noted is what was read.
Exact(q, fs) ==
    /\ q.tape = Base(fs[Product], fs[Source]) \union Noted(AsTheyAre(q.have, fs), q.miss)
    /\ \A f \in q.have : fs[f] # 0
    /\ \A f \in q.miss : fs[f] = 0

\* As long as nobody edits a file, key and notes are about the files as they
\* are and complete.
QuietOK(q, fs, id) ==
    /\ q.pc = "input" => q.tape = {<<Product, fs[Product]>>}
    /\ q.pc # "idle" => fs[Product] # 0
    /\ q.pc \in {"open", "lookup", "check", "package"} =>
           q.tape = Base(fs[Product], fs[Source])
    /\ \/ q.pc \in {"lookup", "check", "receipts"}
       \/ q.pc \in {"package", "compile"} /\ q.key # None
       => q.key = [opt |-> q.opt, product |-> id, source |-> fs[Source]]
    /\ q.pc \in {"compile", "receipts"} /\ q.key # None /\ ~q.broken =>
           Exact(q, fs)
    /\ q.pc = "receipts" => q.got = AsTheyAre(q.have \ q.left, fs)

\* What is left to check of the entry that was found.
Checking(q, fs, stood) ==
    \E e \in Entries :
        /\ q.got = {e} /\ EntryOK(e, q.key, stood) /\ q.left \subseteq Receipts(e)
        /\ q.quiet => \A r \in Receipts(e) \ q.left : fs[r[2]] = r[3]

ProcOK(q, fs, pr) ==
    /\ q.pc = "idle" => q = Fresh
    /\ q.pc # "idle" => q.opt \in Opt
    /\ q.pc \in {"input", "open"} => q.key = None
    /\ q.pc \in {"lookup", "check", "receipts"} => q.key \in Key
    /\ q.pc \in {"input", "open", "lookup", "check", "package"} => q.have = {} /\ q.miss = {} /\ ~q.broken
    /\ q.pc \notin {"check", "receipts"} => q.got = {}
    /\ q.pc = "check" => Checking(q, fs, pr.stood)
    /\ q.pc = "receipts" =>
           q.key # None /\ ~q.broken /\ q.left \subseteq q.have /\ q.got \subseteq Reads
    /\ q.quiet => QuietOK(q, fs, pr.ident)

Entered == \A k \in Key : entry[k] # None => EntryOK(entry[k], k, product.stood)

\* The compiler that is there is one its identity has stood for.
Stands == file[Product] # 0 => file[Product] \in product.stood[product.ident]

Inv == Types /\ Stands /\ Entered /\ \A p \in Proc : ProcOK(proc[p], file, product)

-----------------------------------------------------------------------------
(* Lemmas of the induction.                                                 *)

LEMMA FreshOK == Fresh \in Procs /\ \A fs, pr : ProcOK(Fresh, fs, pr)
  <1>1. Fresh \in Procs
    BY DEF Fresh, Procs, Phases
  <1>2. ASSUME NEW fs, NEW pr PROVE ProcOK(Fresh, fs, pr)
    BY DEF Fresh, ProcOK, QuietOK
  <1> QED  BY <1>1, <1>2

LEMMA SourcePaths ==
    /\ Source \in Path /\ Product \in Path /\ Source # Product
    /\ \A f \in Dir \X Header : f \in Path /\ f # Source /\ f # Product
  BY RunCacheAssumption DEF Path

\* A step in which one process moves and the files and entries stay.
LEMMA OneMoves ==
    ASSUME Inv, NEW p \in Proc, NEW q \in Procs, ProcOK(q, file, product),
           proc' = [proc EXCEPT ![p] = q], UNCHANGED <<file, entry, product, edits>>
    PROVE  Inv'
  <1>1. Types'
    BY DEF Inv, Types
  <1>2. Entered' /\ Stands'
    BY DEF Inv, Entered, Stands
  <1>3. ASSUME NEW x \in Proc PROVE ProcOK(proc'[x], file', product')
    <2>1. CASE x = p
      BY <2>1 DEF Inv, Types
    <2>2. CASE x # p
      BY <2>2 DEF Inv, Types
    <2> QED  BY <2>1, <2>2
  <1> QED  BY <1>1, <1>2, <1>3 DEF Inv

LEMMA EndStep ==
    ASSUME Inv, NEW p \in Proc, End(p), UNCHANGED <<file, entry, product, edits>>
    PROVE  Inv'
  BY FreshOK, OneMoves DEF End

LEMMA InitInv == Init => Inv
  <1> SUFFICES ASSUME Init PROVE Inv
    OBVIOUS
  <1>1. Types
    <2>1. 0 \in Ident /\ First[Product] \in Nat
      BY SourcePaths, RunCacheAssumption DEF Ident
    <2>2. product \in [ident : Ident, stood : [Ident -> SUBSET Nat]]
      BY <2>1 DEF Init
    <2> QED  BY <2>2, FreshOK, RunCacheAssumption DEF Init, Types
  <1>2. Entered
    BY DEF Init, Entered
  <1>4. Stands
    <2>1. 0 \in Ident
      BY RunCacheAssumption DEF Ident
    <2> QED  BY <2>1 DEF Init, Stands
  <1>3. \A p \in Proc : ProcOK(proc[p], file, product)
    BY FreshOK DEF Init
  <1> QED  BY <1>1, <1>2, <1>3, <1>4 DEF Inv

LEMMA BeginStep ==
    ASSUME Inv, NEW p \in Proc, NEW o \in Opt, Begin(p, o)
    PROVE  Inv'
  <1>1. PICK q : q = [Fresh EXCEPT !.pc = "input", !.opt = o, !.tape = {<<Product, file[Product]>>}]
    OBVIOUS
  <1>2. <<Product, file[Product]>> \in Reads
    BY SourcePaths DEF Inv, Types, Reads
  <1>3. q \in Procs
    BY <1>1, <1>2, FreshOK DEF Procs, Phases
  <1>4. /\ q.pc = "input" /\ q.opt = o /\ q.tape = {<<Product, file[Product]>>}
        /\ q.key = None /\ q.have = {} /\ q.miss = {} /\ q.got = {} /\ ~q.broken
    BY <1>1 DEF Fresh
  <1>5. ProcOK(q, file, product)
    BY <1>4 DEF Begin, ProcOK, QuietOK
  <1> QED  BY <1>1, <1>3, <1>5, OneMoves DEF Begin

LEMMA ReadInputStep ==
    ASSUME Inv, NEW p \in Proc, ReadInput(p)
    PROVE  Inv'
  <1>1. CASE file[Source] = 0
    BY <1>1, EndStep DEF ReadInput
  <1>2. CASE file[Source] # 0
    <2>1. PICK o : o = proc[p]
      OBVIOUS
    <2>2. PICK q : q = [o EXCEPT !.pc = "open", !.tape = @ \union {<<Source, file[Source]>>},
                                 !.todo = Includes[Source][file[Source]]]
      OBVIOUS
    <2>3. proc' = [proc EXCEPT ![p] = q] /\ o.pc = "input" /\ UNCHANGED <<file, entry, product, edits>>
      BY <1>2, <2>1, <2>2 DEF ReadInput, At
    <2>4. o \in Procs /\ ProcOK(o, file, product)
      BY <2>1 DEF Inv, Types
    <2>5. <<Source, file[Source]>> \in Reads /\ Includes[Source][file[Source]] \in Seq(Header)
      BY <1>2, SourcePaths, RunCacheAssumption DEF Inv, Types, Reads
    <2>6. q \in Procs
      BY <2>2, <2>4, <2>5 DEF Procs, Phases
    <2>7. /\ q.pc = "open" /\ q.tape = o.tape \union {<<Source, file[Source]>>}
          /\ q.opt = o.opt /\ q.key = o.key /\ q.have = o.have /\ q.miss = o.miss
          /\ q.got = o.got /\ q.broken = o.broken /\ q.quiet = o.quiet
      BY <2>2, <2>4 DEF Procs
    <2>8. ProcOK(q, file, product)
      BY <2>3, <2>4, <2>7 DEF ProcOK, QuietOK, Base
    <2> QED  BY <2>3, <2>6, <2>8, OneMoves
  <1> QED  BY <1>1, <1>2

LEMMA OpenStep ==
    ASSUME Inv, NEW p \in Proc, rc_open(p)
    PROVE  Inv'
  <1>1. PICK o : o = proc[p]
    OBVIOUS
  <1>2. o \in Procs /\ ProcOK(o, file, product) /\ o.pc = "open" /\ o.opt \in Opt
    BY <1>1 DEF Inv, Types, rc_open, At, ProcOK
  <1>3. CASE file[Source] = 0 \/ file[Product] = 0
    <2>1. PICK q : q = [o EXCEPT !.pc = "package"]
      OBVIOUS
    <2>2. proc' = [proc EXCEPT ![p] = q] /\ UNCHANGED <<file, entry, product, edits>>
      BY <1>1, <1>3, <2>1 DEF rc_open
    <2>3. q \in Procs
      BY <1>2, <2>1 DEF Procs, Phases
    <2>4. /\ q.pc = "package" /\ q.tape = o.tape
          /\ q.opt = o.opt /\ q.key = o.key /\ q.have = o.have /\ q.miss = o.miss
          /\ q.got = o.got /\ q.broken = o.broken /\ q.quiet = o.quiet
      BY <1>2, <2>1 DEF Procs
    <2>5. ProcOK(q, file, product)
      BY <1>2, <2>4 DEF ProcOK, QuietOK
    <2> QED  BY <2>2, <2>3, <2>5, OneMoves
  <1>4. CASE ~(file[Source] = 0 \/ file[Product] = 0)
    <2>1. PICK k : k = rc_key(o.opt)
      OBVIOUS
    <2>2. PICK q : q = [o EXCEPT !.pc = "lookup", !.key = k]
      OBVIOUS
    <2>3. proc' = [proc EXCEPT ![p] = q] /\ UNCHANGED <<file, entry, product, edits>>
      BY <1>1, <1>4, <2>1, <2>2 DEF rc_open
    <2>4. k \in Key
      BY <1>2, <2>1, SourcePaths DEF rc_key, Key, Inv, Types
    <2>5. q \in Procs
      BY <1>2, <2>2, <2>4 DEF Procs, Phases
    <2>6. /\ q.pc = "lookup" /\ q.tape = o.tape
          /\ q.opt = o.opt /\ q.key = k /\ q.have = o.have /\ q.miss = o.miss
          /\ q.got = o.got /\ q.broken = o.broken /\ q.quiet = o.quiet
      BY <1>2, <2>2 DEF Procs
    <2>7. k = [opt |-> o.opt, product |-> product.ident, source |-> file[Source]]
      BY <2>1 DEF rc_key
    <2>8. ProcOK(q, file, product)
      BY <1>2, <2>4, <2>6, <2>7 DEF ProcOK, QuietOK
    <2> QED  BY <2>3, <2>5, <2>8, OneMoves
  <1> QED  BY <1>3, <1>4


LEMMA ReceiptsAsked == \A e \in Entries : Receipts(e) \subseteq Asked
  <1> SUFFICES ASSUME NEW e \in Entries PROVE Receipts(e) \subseteq Asked
    OBVIOUS
  <1>1. e.have \subseteq Path \X Nat /\ e.miss \subseteq Path
    BY DEF Entries, Reads
  <1>2. \A r \in e.have : <<"have", r[1], r[2]>> \in Asked
    BY <1>1 DEF Asked
  <1>3. \A f \in e.miss : <<"miss", f, 0>> \in Asked
    BY <1>1 DEF Asked
  <1> QED  BY <1>2, <1>3 DEF Receipts

\* A lookup with a receipt that fails goes on to the compile.
LEMMA ToCompile ==
    ASSUME NEW o \in Procs, ProcOK(o, file, product), o.pc = "check",
           NEW q, q = [o EXCEPT !.pc = "package", !.left = {}, !.got = {}]
    PROVE  q \in Procs /\ ProcOK(q, file, product)
  <1>1. q \in Procs
    BY DEF Procs, Phases
  <1>2. /\ q.pc = "package" /\ q.tape = o.tape /\ q.got = {}
        /\ q.opt = o.opt /\ q.key = o.key /\ q.have = o.have /\ q.miss = o.miss
        /\ q.broken = o.broken /\ q.quiet = o.quiet
    BY DEF Procs
  <1>3. q.quiet => QuietOK(q, file, product.ident)
    BY <1>2 DEF ProcOK, QuietOK
  <1>4. ProcOK(q, file, product)
    BY <1>2, <1>3 DEF ProcOK
  <1> QED  BY <1>1, <1>4

LEMMA LookupStep ==
    ASSUME Inv, NEW p \in Proc, Lookup(p)
    PROVE  Inv'
  <1>1. PICK o : o = proc[p]
    OBVIOUS
  <1>2. o \in Procs /\ ProcOK(o, file, product) /\ o.pc = "lookup" /\ o.key \in Key /\ o.got = {}
    BY <1>1 DEF Inv, Types, Lookup, At, ProcOK
  <1>3. CASE entry[o.key] = None
    <2>1. PICK q : q = [o EXCEPT !.pc = "package"]
      OBVIOUS
    <2>2. proc' = [proc EXCEPT ![p] = q] /\ UNCHANGED <<file, entry, product, edits>>
      BY <1>1, <1>3, <2>1 DEF Lookup
    <2>3. q \in Procs
      BY <1>2, <2>1 DEF Procs, Phases
    <2>4. /\ q.pc = "package" /\ q.tape = o.tape
          /\ q.opt = o.opt /\ q.key = o.key /\ q.have = o.have /\ q.miss = o.miss
          /\ q.got = o.got /\ q.broken = o.broken /\ q.quiet = o.quiet
      BY <1>2, <2>1 DEF Procs
    <2>5. q.quiet => QuietOK(q, file, product.ident)
      BY <1>2, <2>4 DEF ProcOK, QuietOK
    <2>6. ProcOK(q, file, product)
      BY <1>2, <2>4, <2>5 DEF ProcOK
    <2> QED  BY <2>2, <2>3, <2>6, OneMoves
  <1>4. CASE entry[o.key] # None
    <2>1. PICK e : e = entry[o.key]
      OBVIOUS
    <2>2. PICK q : q = [o EXCEPT !.pc = "check", !.got = {e}, !.left = Receipts(e)]
      OBVIOUS
    <2>3. proc' = [proc EXCEPT ![p] = q] /\ UNCHANGED <<file, entry, product, edits>>
      BY <1>1, <1>4, <2>1, <2>2 DEF Lookup
    <2>4. e \in Entries /\ EntryOK(e, o.key, product.stood)
      BY <1>2, <1>4, <2>1 DEF Inv, Types, Entered
    <2>5. Receipts(e) \subseteq Asked
      BY <2>4, ReceiptsAsked
    <2>6. q \in Procs
      BY <1>2, <2>2, <2>4, <2>5 DEF Procs, Phases
    <2>7. /\ q.pc = "check" /\ q.tape = o.tape
          /\ q.opt = o.opt /\ q.key = o.key /\ q.have = o.have /\ q.miss = o.miss
          /\ q.got = {e} /\ q.left = Receipts(e) /\ q.broken = o.broken /\ q.quiet = o.quiet
      BY <1>2, <2>2 DEF Procs
    <2>8. Checking(q, file, product.stood)
      BY <2>4, <2>7 DEF Checking
    <2>9. q.quiet => QuietOK(q, file, product.ident)
      BY <1>2, <2>7 DEF ProcOK, QuietOK
    <2>10. ProcOK(q, file, product)
      BY <1>2, <2>7, <2>8, <2>9 DEF ProcOK
    <2> QED  BY <2>3, <2>6, <2>10, OneMoves
  <1> QED  BY <1>3, <1>4

LEMMA CheckStep ==
    ASSUME Inv, NEW p \in Proc, Check(p)
    PROVE  Inv'
  <1>1. PICK o : o = proc[p]
    OBVIOUS
  <1>2. o \in Procs /\ ProcOK(o, file, product) /\ o.pc = "check" /\ Checking(o, file, product.stood)
    BY <1>1 DEF Inv, Types, Check, At, ProcOK
  <1>3. PICK r \in o.left :
            IF Holds(r)
               THEN proc' = [proc EXCEPT ![p].left = @ \ {r}]
               ELSE proc' = [proc EXCEPT ![p].pc = "package", ![p].left = {}, ![p].got = {}]
    BY <1>1 DEF Check
  <1>4. UNCHANGED <<file, entry, product, edits>>
    BY DEF Check
  <1>5. CASE Holds(r)
    <2>1. PICK q : q = [o EXCEPT !.left = @ \ {r}]
      OBVIOUS
    <2>2. proc' = [proc EXCEPT ![p] = q]
      BY <1>1, <1>3, <1>5, <2>1
    <2>3. q \in Procs
      BY <1>2, <2>1 DEF Procs
    <2>4. /\ q.pc = "check" /\ q.tape = o.tape
          /\ q.opt = o.opt /\ q.key = o.key /\ q.have = o.have /\ q.miss = o.miss
          /\ q.got = o.got /\ q.left = o.left \ {r} /\ q.broken = o.broken /\ q.quiet = o.quiet
      BY <1>2, <2>1 DEF Procs
    <2>5. PICK e \in Entries :
              /\ o.got = {e} /\ EntryOK(e, o.key, product.stood) /\ o.left \subseteq Receipts(e)
              /\ o.quiet => \A s \in Receipts(e) \ o.left : file[s[2]] = s[3]
      BY <1>2 DEF Checking
    <2>6. file[r[2]] = r[3]
      BY <1>5 DEF Holds
    <2>7. q.quiet => \A s \in Receipts(e) \ q.left : file[s[2]] = s[3]
      BY <2>4, <2>5, <2>6
    <2>8. Checking(q, file, product.stood)
      BY <2>4, <2>5, <2>7 DEF Checking
    <2>9. q.quiet => QuietOK(q, file, product.ident)
      BY <1>2, <2>4 DEF ProcOK, QuietOK
    <2>10. ProcOK(q, file, product)
      BY <1>2, <2>4, <2>8, <2>9 DEF ProcOK
    <2> QED  BY <1>4, <2>2, <2>3, <2>10, OneMoves
  <1>6. CASE ~Holds(r)
    <2>1. PICK q : q = [o EXCEPT !.pc = "package", !.left = {}, !.got = {}]
      OBVIOUS
    <2>2. proc' = [proc EXCEPT ![p] = q]
      BY <1>1, <1>3, <1>6, <2>1
    <2>3. q \in Procs /\ ProcOK(q, file, product)
      BY <1>2, <2>1, ToCompile
    <2> QED  BY <1>4, <2>2, <2>3, OneMoves
  <1> QED  BY <1>5, <1>6

LEMMA HitStep ==
    ASSUME Inv, NEW p \in Proc, Hit(p)
    PROVE  Inv'
  BY EndStep DEF Hit


LEMMA ReadPackageStep ==
    ASSUME Inv, NEW p \in Proc, ReadPackage(p)
    PROVE  Inv'
  <1>1. CASE file[Product] = 0
    BY <1>1, EndStep DEF ReadPackage
  <1>2. CASE file[Product] # 0
    <2>1. PICK o : o = proc[p]
      OBVIOUS
    <2>2. PICK q : q = [o EXCEPT !.pc = "compile", !.tape = @ \union {<<Product, file[Product]>>}]
      OBVIOUS
    <2>3. proc' = [proc EXCEPT ![p] = q] /\ o.pc = "package"
          /\ UNCHANGED <<file, entry, product, edits>>
      BY <1>2, <2>1, <2>2 DEF ReadPackage, At
    <2>4. o \in Procs /\ ProcOK(o, file, product)
      BY <2>1 DEF Inv, Types
    <2>5. <<Product, file[Product]>> \in Reads
      BY SourcePaths DEF Inv, Types, Reads
    <2>6. q \in Procs
      BY <2>2, <2>4, <2>5 DEF Procs, Phases
    <2>7. /\ q.pc = "compile" /\ q.tape = o.tape \union {<<Product, file[Product]>>}
          /\ q.opt = o.opt /\ q.key = o.key /\ q.have = o.have /\ q.miss = o.miss
          /\ q.got = o.got /\ q.broken = o.broken /\ q.quiet = o.quiet
      BY <2>2, <2>4 DEF Procs
    <2>8. q.quiet => Exact(q, file)
      <3>1. SUFFICES ASSUME q.quiet PROVE Exact(q, file)
        OBVIOUS
      <3>2. o.tape = Base(file[Product], file[Source]) /\ q.have = {} /\ q.miss = {}
        BY <2>3, <2>4, <2>7, <3>1 DEF ProcOK, QuietOK
      <3>3. q.tape = Base(file[Product], file[Source])
        BY <2>7, <3>2 DEF Base
      <3> QED  BY <3>2, <3>3 DEF Exact, Noted, AsTheyAre
    <2>9. q.quiet => QuietOK(q, file, product.ident)
      BY <2>3, <2>4, <2>7, <2>8 DEF ProcOK, QuietOK
    <2>10. ProcOK(q, file, product)
      BY <2>3, <2>4, <2>7, <2>9 DEF ProcOK
    <2> QED  BY <2>3, <2>6, <2>10, OneMoves
  <1> QED  BY <1>1, <1>2


LEMMA NoteTypes ==
    ASSUME NEW b \in Procs, NEW f \in Path, NEW n \in rc_on_file(b, f)
    PROVE  /\ n \in Procs
           /\ n.pc = b.pc /\ n.opt = b.opt /\ n.key = b.key /\ n.tape = b.tape
           /\ n.todo = b.todo /\ n.at = b.at /\ n.left = b.left /\ n.got = b.got
           /\ n.quiet = b.quiet
  <1>1. \/ n = b
        \/ n = [b EXCEPT !.have = @ \union {f}]
        \/ n = [b EXCEPT !.miss = @ \union {f}]
        \/ n = [b EXCEPT !.broken = TRUE]
    BY DEF rc_on_file
  <1>2. CASE n = b
    BY <1>2
  <1>3. CASE n = [b EXCEPT !.have = @ \union {f}]
    BY <1>3 DEF Procs
  <1>4. CASE n = [b EXCEPT !.miss = @ \union {f}]
    BY <1>4 DEF Procs
  <1>5. CASE n = [b EXCEPT !.broken = TRUE]
    BY <1>5 DEF Procs
  <1> QED  BY <1>1, <1>2, <1>3, <1>4, <1>5

\* A note that is taken keeps the notes exact.
LEMMA NoteExact ==
    ASSUME NEW o \in Procs, Exact(o, file), ~o.broken, o.key # None, NEW f \in Path,
           NEW b, b = [o EXCEPT !.tape = @ \union {<<f, file[f]>>}],
           NEW n \in rc_on_file(b, f), ~n.broken
    PROVE  Exact(n, file)
  <1>1. /\ b.tape = o.tape \union {<<f, file[f]>>} /\ b.have = o.have /\ b.miss = o.miss
        /\ b.key = o.key /\ b.broken = o.broken /\ b \in [DOMAIN o -> {b[x] : x \in DOMAIN o}]
    BY DEF Procs
  <1>2. CASE f \in o.have
    <2>1. n = b
      BY <1>1, <1>2 DEF rc_on_file
    <2>2. <<f, file[f]>> \in AsTheyAre(o.have, file)
      BY <1>2 DEF AsTheyAre
    <2>3. n.tape = o.tape /\ n.have = o.have /\ n.miss = o.miss
      BY <1>1, <2>1, <2>2 DEF Exact, Noted
    <2> QED  BY <2>3 DEF Exact
  <1>3. CASE file[f] = 0 /\ f \in o.miss
    <2>1. n = b
      BY <1>1, <1>3 DEF rc_on_file
    <2>2. <<f, file[f]>> \in {<<x, 0>> : x \in o.miss}
      BY <1>3
    <2>3. n.tape = o.tape /\ n.have = o.have /\ n.miss = o.miss
      BY <1>1, <2>1, <2>2 DEF Exact, Noted
    <2> QED  BY <2>3 DEF Exact
  <1>4. CASE f \notin o.have /\ file[f] # 0
    <2>1. n = [b EXCEPT !.have = @ \union {f}] \/ n = [b EXCEPT !.broken = TRUE]
      BY <1>1, <1>4 DEF rc_on_file
    <2>2. n = [b EXCEPT !.have = @ \union {f}]
      BY <2>1 DEF Procs
    <2>3. n.tape = b.tape /\ n.have = o.have \union {f} /\ n.miss = o.miss
      BY <1>1, <2>2 DEF Procs
    <2>4. AsTheyAre(n.have, file) = AsTheyAre(o.have, file) \union {<<f, file[f]>>}
      BY <2>3 DEF AsTheyAre
    <2>5. n.tape = Base(file[Product], file[Source]) \union Noted(AsTheyAre(n.have, file), n.miss)
      BY <1>1, <2>3, <2>4 DEF Exact, Noted
    <2> QED  BY <1>4, <2>3, <2>5 DEF Exact
  <1>5. CASE f \notin o.have /\ file[f] = 0 /\ f \notin o.miss
    <2>1. n = [b EXCEPT !.miss = @ \union {f}] \/ n = [b EXCEPT !.broken = TRUE]
      BY <1>1, <1>5 DEF rc_on_file
    <2>2. n = [b EXCEPT !.miss = @ \union {f}]
      BY <2>1 DEF Procs
    <2>3. n.tape = b.tape /\ n.have = o.have /\ n.miss = o.miss \union {f}
      BY <1>1, <2>2 DEF Procs
    <2>4. {<<x, 0>> : x \in n.miss} = {<<x, 0>> : x \in o.miss} \union {<<f, 0>>}
      BY <2>3
    <2>5. n.tape = Base(file[Product], file[Source]) \union Noted(AsTheyAre(n.have, file), n.miss)
      BY <1>1, <1>5, <2>3, <2>4 DEF Exact, Noted
    <2> QED  BY <1>5, <2>3, <2>5 DEF Exact
  <1> QED  BY <1>2, <1>3, <1>4, <1>5

LEMMA IncludeStep ==
    ASSUME Inv, NEW p \in Proc, Include(p)
    PROVE  Inv'
  <1>1. PICK o : o = proc[p]
    OBVIOUS
  <1>2. /\ o \in Procs /\ ProcOK(o, file, product) /\ o.pc = "compile" /\ o.opt \in Opt
        /\ o.todo \in Seq(Header) /\ o.todo # <<>>
    BY <1>1 DEF Inv, Types, Include, At, ProcOK, Procs
  <1>3. UNCHANGED <<file, entry, product, edits>>
    BY DEF Include
  <1>4. CASE o.at > Len(Search[o.opt])
    BY <1>1, <1>4, EndStep DEF Include
  <1>5. CASE ~(o.at > Len(Search[o.opt]))
    <2>1. PICK f : f = <<Search[o.opt][o.at], Head(o.todo)>>
      OBVIOUS
    <2>2. PICK b : b = [o EXCEPT !.tape = @ \union {<<f, file[f]>>}]
      OBVIOUS
    <2>3. PICK n \in rc_on_file(b, f) :
              proc' = [proc EXCEPT ![p] =
                  IF file[f] = 0
                     THEN [n EXCEPT !.at = @ + 1]
                     ELSE [n EXCEPT !.at = 1, !.todo = Includes[f][file[f]] \o Tail(o.todo)]]
      BY <1>1, <1>5, <2>1, <2>2 DEF Include
    <2>4. f \in Dir \X Header
      <3>1. Search[o.opt] \in Seq(Dir) /\ o.at \in Nat \ {0}
        BY <1>2, RunCacheAssumption DEF Procs
      <3>2. o.at \in 1 .. Len(Search[o.opt])
        BY <1>5, <3>1
      <3>3. Search[o.opt][o.at] \in Dir
        BY <3>1, <3>2
      <3>4. Head(o.todo) \in Header
        BY <1>2
      <3> QED  BY <2>1, <3>3, <3>4
    <2>5. f \in Path
      BY <2>4, SourcePaths
    <2>6. <<f, file[f]>> \in Reads
      BY <2>5 DEF Inv, Types, Reads
    <2>7. b \in Procs
      BY <1>2, <2>2, <2>6 DEF Procs
    <2>8. /\ b.pc = o.pc /\ b.opt = o.opt /\ b.key = o.key /\ b.todo = o.todo
          /\ b.got = o.got /\ b.broken = o.broken /\ b.quiet = o.quiet
      BY <1>2, <2>2 DEF Procs
    <2>9. /\ n \in Procs /\ n.pc = "compile" /\ n.opt = o.opt /\ n.key = o.key
          /\ n.todo = o.todo /\ n.got = o.got /\ n.quiet = o.quiet
      BY <1>2, <2>5, <2>7, <2>8, NoteTypes
    <2>10. o.broken => n.broken
      BY <2>7, <2>8, <2>3 DEF rc_on_file, Procs
    <2>11. PICK q : q = IF file[f] = 0
                           THEN [n EXCEPT !.at = @ + 1]
                           ELSE [n EXCEPT !.at = 1, !.todo = Includes[f][file[f]] \o Tail(o.todo)]
      OBVIOUS
    <2>12. proc' = [proc EXCEPT ![p] = q]
      BY <2>3, <2>11
    <2>13. q \in Procs
      <3>1. CASE file[f] = 0
        BY <2>9, <2>11, <3>1 DEF Procs
      <3>2. CASE file[f] # 0
        <4>1. Includes[f][file[f]] \in Seq(Header)
          BY <2>5, <3>2, RunCacheAssumption DEF Inv, Types
        <4>2. Tail(o.todo) \in Seq(Header)
          BY <1>2
        <4>3. PICK t : t = Includes[f][file[f]] \o Tail(o.todo)
          OBVIOUS
        <4>4. t \in Seq(Header)
          BY <4>1, <4>2, <4>3
        <4>5. PICK m : m = [n EXCEPT !.at = 1]
          OBVIOUS
        <4>6. m \in Procs
          BY <2>9, <4>5 DEF Procs
        <4>7. q = [m EXCEPT !.todo = t]
          BY <2>9, <2>11, <3>2, <4>3, <4>5 DEF Procs
        <4> QED  BY <4>4, <4>6, <4>7 DEF Procs
      <3> QED  BY <3>1, <3>2
    <2>14. /\ q.pc = n.pc /\ q.opt = n.opt /\ q.key = n.key /\ q.tape = n.tape
           /\ q.have = n.have /\ q.miss = n.miss
           /\ q.got = n.got /\ q.broken = n.broken /\ q.quiet = n.quiet
      BY <2>9, <2>11 DEF Procs
    <2>15. q.quiet => QuietOK(q, file, product.ident)
      <3>1. SUFFICES ASSUME q.quiet, q.key # None, ~q.broken PROVE Exact(q, file)
        BY <1>2, <2>9, <2>14 DEF ProcOK, QuietOK
      <3>2. Exact(o, file) /\ ~o.broken /\ o.key # None
        BY <1>2, <2>9, <2>10, <2>14, <3>1 DEF ProcOK, QuietOK
      <3>3. Exact(n, file)
        BY <1>2, <2>2, <2>3, <2>5, <2>14, <3>1, <3>2, NoteExact
      <3> QED  BY <2>14, <3>3 DEF Exact
    <2>16. ProcOK(q, file, product)
      BY <1>2, <2>9, <2>14, <2>15 DEF ProcOK
    <2> QED  BY <1>3, <2>12, <2>13, <2>16, OneMoves
  <1> QED  BY <1>4, <1>5


LEMMA CompiledStep ==
    ASSUME Inv, NEW p \in Proc, Compiled(p)
    PROVE  Inv'
  <1>1. PICK o : o = proc[p]
    OBVIOUS
  <1>2. o \in Procs /\ ProcOK(o, file, product) /\ o.pc = "compile" /\ o.opt \in Opt /\ o.got = {}
    BY <1>1 DEF Inv, Types, Compiled, At, ProcOK
  <1>3. CASE o.key = None \/ o.broken
    BY <1>1, <1>3, EndStep DEF Compiled
  <1>4. CASE o.key # None /\ ~o.broken
    <2>1. PICK q : q = [o EXCEPT !.pc = "receipts", !.left = o.have]
      OBVIOUS
    <2>2. proc' = [proc EXCEPT ![p] = q] /\ UNCHANGED <<file, entry, product, edits>>
      BY <1>1, <1>4, <2>1 DEF Compiled
    <2>3. q \in Procs
      BY <1>2, <2>1 DEF Procs, Phases
    <2>4. /\ q.pc = "receipts" /\ q.tape = o.tape /\ q.left = o.have
          /\ q.opt = o.opt /\ q.key = o.key /\ q.have = o.have /\ q.miss = o.miss
          /\ q.got = {} /\ q.broken = o.broken /\ q.quiet = o.quiet
      BY <1>2, <2>1 DEF Procs
    <2>5. q.key \in Key
      BY <1>2, <1>4, <2>4 DEF Procs
    <2>6. q.quiet => QuietOK(q, file, product.ident)
      BY <1>2, <1>4, <2>4 DEF ProcOK, QuietOK, Exact, AsTheyAre
    <2>7. ProcOK(q, file, product)
      BY <1>2, <1>4, <2>4, <2>5, <2>6 DEF ProcOK
    <2> QED  BY <2>2, <2>3, <2>7, OneMoves
  <1> QED  BY <1>3, <1>4

LEMMA ReceiptStep ==
    ASSUME Inv, NEW p \in Proc, Receipt(p)
    PROVE  Inv'
  <1>1. PICK o : o = proc[p]
    OBVIOUS
  <1>2. /\ o \in Procs /\ ProcOK(o, file, product) /\ o.pc = "receipts" /\ o.opt \in Opt
        /\ o.key \in Key /\ o.key # None /\ ~o.broken
        /\ o.left \subseteq o.have /\ o.have \subseteq Path /\ o.got \subseteq Reads
    BY <1>1 DEF Inv, Types, Receipt, At, ProcOK, Procs
  <1>3. PICK f \in o.left :
            IF file[f] = 0
               THEN End(p)
               ELSE proc' = [proc EXCEPT ![p].left = @ \ {f},
                                         ![p].got = @ \union {<<f, file[f]>>}]
    BY <1>1 DEF Receipt
  <1>4. UNCHANGED <<file, entry, product, edits>>
    BY DEF Receipt
  <1>5. CASE file[f] = 0
    BY <1>3, <1>4, <1>5, EndStep
  <1>6. CASE file[f] # 0
    <2>1. PICK q : q = [o EXCEPT !.left = @ \ {f}, !.got = @ \union {<<f, file[f]>>}]
      OBVIOUS
    <2>2. proc' = [proc EXCEPT ![p] = q]
      BY <1>1, <1>3, <1>6, <2>1
    <2>3. <<f, file[f]>> \in Reads
      BY <1>2 DEF Inv, Types, Reads
    <2>4. q \in Procs
      BY <1>2, <2>1, <2>3 DEF Procs
    <2>5. /\ q.pc = "receipts" /\ q.tape = o.tape /\ q.left = o.left \ {f}
          /\ q.opt = o.opt /\ q.key = o.key /\ q.have = o.have /\ q.miss = o.miss
          /\ q.got = o.got \union {<<f, file[f]>>} /\ q.broken = o.broken /\ q.quiet = o.quiet
      BY <1>2, <2>1 DEF Procs
    <2>6. q.quiet => QuietOK(q, file, product.ident)
      <3>1. SUFFICES ASSUME q.quiet PROVE QuietOK(q, file, product.ident)
        OBVIOUS
      <3>2. QuietOK(o, file, product.ident)
        BY <1>2, <2>5, <3>1 DEF ProcOK
      <3>3. q.got = AsTheyAre(q.have \ q.left, file)
        <4>1. o.got = AsTheyAre(o.have \ o.left, file)
          BY <1>2, <3>2 DEF QuietOK
        <4>2. q.have \ q.left = (o.have \ o.left) \union {f}
          BY <1>2, <1>3, <2>5
        <4>3. AsTheyAre(q.have \ q.left, file)
                  = AsTheyAre(o.have \ o.left, file) \union {<<f, file[f]>>}
          BY <4>2 DEF AsTheyAre
        <4> QED  BY <2>5, <4>1, <4>3
      <3> QED  BY <1>2, <2>5, <3>2, <3>3 DEF QuietOK, Exact
    <2>7. ProcOK(q, file, product)
      BY <1>2, <2>3, <2>5, <2>6 DEF ProcOK
    <2> QED  BY <1>4, <2>2, <2>4, <2>7, OneMoves
  <1> QED  BY <1>5, <1>6

LEMMA StoreStep ==
    ASSUME Inv, NEW p \in Proc, Store(p)
    PROVE  Inv'
  <1>1. PICK o : o = proc[p]
    OBVIOUS
  <1>2. /\ o \in Procs /\ ProcOK(o, file, product) /\ o.pc = "receipts" /\ o.opt \in Opt
        /\ o.key \in Key /\ o.key # None /\ ~o.broken /\ o.left = {} /\ o.got \subseteq Reads
    BY <1>1 DEF Inv, Types, Store, At, ProcOK
  <1>3. PICK e : e = [have |-> o.got, miss |-> o.miss, opt |-> o.opt,
                      tape |-> o.tape, quiet |-> o.quiet]
    OBVIOUS
  <1>4. /\ entry' = [entry EXCEPT ![o.key] = e] /\ proc' = [proc EXCEPT ![p] = Fresh]
        /\ UNCHANGED <<file, product, edits>>
    BY <1>1, <1>3 DEF Store, End
  <1>5. e \in Entries
    BY <1>2, <1>3 DEF Entries, Procs
  <1>6. EntryOK(e, o.key, product.stood)
    <2>1. SUFFICES ASSUME o.quiet PROVE EntryOK(e, o.key, product.stood)
      BY <1>3 DEF EntryOK
    <2>2. QuietOK(o, file, product.ident)
      BY <1>2, <2>1 DEF ProcOK
    <2>3. /\ o.key = [opt |-> o.opt, product |-> product.ident, source |-> file[Source]]
          /\ file[Product] # 0
      BY <1>2, <2>2 DEF QuietOK
    <2>4. o.got = AsTheyAre(o.have, file)
      <3>1. o.got = AsTheyAre(o.have \ o.left, file) /\ o.have \ o.left = o.have
        BY <1>2, <2>2 DEF QuietOK
      <3> QED  BY <3>1
    <2>5. o.tape = Base(file[Product], file[Source]) \union Noted(AsTheyAre(o.have, file), o.miss)
      BY <1>2, <2>2 DEF QuietOK, Exact
    <2>6. /\ e.opt = o.key.opt /\ e.have = o.got /\ e.miss = o.miss /\ e.tape = o.tape
          /\ o.key.product = product.ident /\ o.key.source = file[Source]
      BY <1>3, <2>3
    <2>7. file[Product] \in product.stood[o.key.product]
      BY <2>3, <2>6 DEF Inv, Stands
    <2> QED  BY <2>4, <2>5, <2>6, <2>7 DEF EntryOK
  <1>7. Types'
    BY <1>2, <1>4, <1>5, FreshOK DEF Inv, Types
  <1>8. Entered' /\ Stands'
    <2>1. ASSUME NEW k \in Key, entry'[k] # None PROVE EntryOK(entry'[k], k, product'.stood)
      <3>1. CASE k = o.key
        BY <1>4, <1>6, <3>1 DEF Inv, Types
      <3>2. CASE k # o.key
        BY <1>4, <2>1, <3>2 DEF Inv, Types, Entered
      <3> QED  BY <3>1, <3>2
    <2>2. Stands'
      BY <1>4 DEF Inv, Stands
    <2> QED  BY <2>1, <2>2 DEF Entered
  <1>9. ASSUME NEW x \in Proc PROVE ProcOK(proc'[x], file', product')
    <2>1. CASE x = p
      BY <1>4, <2>1, FreshOK DEF Inv, Types
    <2>2. CASE x # p
      BY <1>4, <2>2 DEF Inv, Types
    <2> QED  BY <2>1, <2>2
  <1> QED  BY <1>7, <1>8, <1>9 DEF Inv

LEMMA StoreFailsStep ==
    ASSUME Inv, NEW p \in Proc, StoreFails(p)
    PROVE  Inv'
  BY EndStep DEF StoreFails

LEMMA EvictStep ==
    ASSUME Inv, NEW k \in Key, Evict(k)
    PROVE  Inv'
  <1>1. entry' = [entry EXCEPT ![k] = None] /\ UNCHANGED <<file, proc, product, edits>>
    BY DEF Evict
  <1>2. Types'
    BY <1>1 DEF Inv, Types
  <1>3. ASSUME NEW x \in Key, entry'[x] # None PROVE EntryOK(entry'[x], x, product'.stood)
    BY <1>1, <1>3 DEF Inv, Types, Entered
  <1>4. Entered' /\ Stands'
    BY <1>1, <1>3 DEF Inv, Entered, Stands
  <1> QED  BY <1>1, <1>2, <1>4 DEF Inv

\* What an identity stands for only grows, and the new compiler joins it.
LEMMA ProductStep ==
    ASSUME Inv, NEW f \in Path, Edit(f)
    PROVE  /\ product' \in [ident : Ident, stood : [Ident -> SUBSET Nat]]
           /\ \A i \in Ident : product.stood[i] \subseteq product'.stood[i]
           /\ Stands'
  <1>1. PICK v \in Versions[f] :
            /\ file' = [file EXCEPT ![f] = v]
            /\ IF f = Product /\ v # 0
                  THEN \E i \in Identities(v) :
                           product' = [ident |-> i,
                                       stood |-> [product.stood EXCEPT ![i] = @ \union {v}]]
                  ELSE UNCHANGED product
    BY DEF Edit
  <1>2. /\ product \in [ident : Ident, stood : [Ident -> SUBSET Nat]]
        /\ file \in [Path -> Nat] /\ Product \in Path /\ v \in Nat
    BY SourcePaths, RunCacheAssumption DEF Inv, Types
  <1>3. CASE f = Product /\ v # 0
    <2>1. PICK i \in Identities(v) :
              product' = [ident |-> i, stood |-> [product.stood EXCEPT ![i] = @ \union {v}]]
      BY <1>1, <1>3
    <2>2. i \in Ident
      BY RunCacheAssumption DEF Identities, Ident, Edit, Inv, Types
    <2>3. PICK s : s = [product.stood EXCEPT ![i] = @ \union {v}]
      OBVIOUS
    <2>4. /\ s \in [Ident -> SUBSET Nat] /\ v \in s[i]
          /\ \A j \in Ident : product.stood[j] \subseteq s[j]
      BY <1>2, <2>2, <2>3
    <2>5. product'.ident = i /\ product'.stood = s
      BY <2>1, <2>3
    <2>6. file'[Product] = v
      BY <1>1, <1>2, <1>3
    <2> QED  BY <2>1, <2>2, <2>3, <2>4, <2>5, <2>6 DEF Stands
  <1>4. CASE ~(f = Product /\ v # 0)
    BY <1>1, <1>2, <1>4 DEF Inv, Stands
  <1> QED  BY <1>3, <1>4

LEMMA EditStep ==
    ASSUME Inv, NEW f \in Path, Edit(f)
    PROVE  Inv'
  <1> USE ProductStep
  <1>1. PICK v \in Versions[f] : file' = [file EXCEPT ![f] = v]
    BY DEF Edit
  <1>2. /\ edits' = edits + 1 /\ entry' = entry
        /\ proc' = [p \in Proc |-> IF At(p, "idle") THEN proc[p]
                                                    ELSE [proc[p] EXCEPT !.quiet = FALSE]]
    BY DEF Edit
  <1>3. v \in Nat
    BY <1>1, RunCacheAssumption
  <1>4. file' \in [Path -> Nat] /\ \A g \in Path : file'[g] \in Versions[g]
    BY <1>1, <1>3 DEF Inv, Types
  <1>8. ASSUME NEW e \in Entries, NEW k \in Key, EntryOK(e, k, product.stood)
        PROVE  EntryOK(e, k, product'.stood)
    <2>1. k.product \in Ident
      BY DEF Key
    <2> QED  BY <1>8, <2>1 DEF EntryOK
  <1>5. ASSUME NEW x \in Proc PROVE proc'[x] \in Procs /\ ProcOK(proc'[x], file', product')
    <2>1. PICK o : o = proc[x]
      OBVIOUS
    <2>2. o \in Procs /\ ProcOK(o, file, product)
      BY <2>1 DEF Inv, Types
    <2>3. CASE o.pc = "idle"
      <3>1. proc'[x] = Fresh
        BY <1>2, <2>1, <2>2, <2>3 DEF At, ProcOK
      <3> QED  BY <3>1, FreshOK
    <2>4. CASE o.pc # "idle"
      <3>1. PICK q : q = [o EXCEPT !.quiet = FALSE]
        OBVIOUS
      <3>2. proc'[x] = q
        BY <1>2, <2>1, <2>4, <3>1 DEF At
      <3>3. q \in Procs
        BY <2>2, <3>1 DEF Procs
      <3>4. /\ q.pc = o.pc /\ q.opt = o.opt /\ q.key = o.key /\ q.have = o.have
            /\ q.miss = o.miss /\ q.left = o.left /\ q.got = o.got
            /\ q.broken = o.broken /\ q.quiet = FALSE
        BY <2>2, <3>1 DEF Procs
      <3>5. q.pc = "check" => Checking(q, file', product'.stood)
        BY <1>8, <2>2, <3>4 DEF ProcOK, Checking
      <3>6. ProcOK(q, file', product')
        BY <2>2, <2>4, <3>4, <3>5 DEF ProcOK
      <3> QED  BY <3>2, <3>3, <3>6
    <2> QED  BY <2>3, <2>4
  <1>6. Types'
    <2>1. proc' \in [Proc -> Procs]
      BY <1>2, <1>5
    <2> QED  BY <1>2, <1>4, <2>1 DEF Inv, Types
  <1>7. Entered'
    BY <1>2, <1>8 DEF Inv, Types, Entered
  <1> QED  BY <1>5, <1>6, <1>7 DEF Inv

LEMMA StepInv == Inv /\ [Next]_vars => Inv'
  <1> SUFFICES ASSUME Inv, [Next]_vars PROVE Inv'
    OBVIOUS
  <1>1. CASE UNCHANGED vars
    BY <1>1 DEF vars, Inv, Types, Entered, Stands
  <1>2. ASSUME NEW p \in Proc, NEW o \in Opt, Begin(p, o) PROVE Inv'
    BY <1>2, BeginStep
  <1>3. ASSUME NEW p \in Proc, ReadInput(p) PROVE Inv'
    BY <1>3, ReadInputStep
  <1>4. ASSUME NEW p \in Proc, rc_open(p) PROVE Inv'
    BY <1>4, OpenStep
  <1>5. ASSUME NEW p \in Proc, Lookup(p) PROVE Inv'
    BY <1>5, LookupStep
  <1>6. ASSUME NEW p \in Proc, Check(p) PROVE Inv'
    BY <1>6, CheckStep
  <1>7. ASSUME NEW p \in Proc, Hit(p) PROVE Inv'
    BY <1>7, HitStep
  <1>8. ASSUME NEW p \in Proc, Include(p) PROVE Inv'
    BY <1>8, IncludeStep
  <1>9. ASSUME NEW p \in Proc, Compiled(p) PROVE Inv'
    BY <1>9, CompiledStep
  <1>10. ASSUME NEW p \in Proc, Receipt(p) PROVE Inv'
    BY <1>10, ReceiptStep
  <1>11. ASSUME NEW p \in Proc, Store(p) PROVE Inv'
    BY <1>11, StoreStep
  <1>12. ASSUME NEW p \in Proc, StoreFails(p) PROVE Inv'
    BY <1>12, StoreFailsStep
  <1>13. ASSUME NEW k \in Key, Evict(k) PROVE Inv'
    BY <1>13, EvictStep
  <1>14. ASSUME NEW f \in Path, Edit(f) PROVE Inv'
    BY <1>14, EditStep
  <1>15. ASSUME NEW p \in Proc, ReadPackage(p) PROVE Inv'
    BY <1>15, ReadPackageStep
  <1> QED  BY <1>1, <1>2, <1>3, <1>4, <1>5, <1>6, <1>7, <1>8, <1>9, <1>10, <1>11, <1>12,
              <1>13, <1>14, <1>15 DEF Next

LEMMA AlwaysInv == Spec => []Inv
  BY InitInv, StepInv, PTL DEF Spec


-----------------------------------------------------------------------------
(* What a lookup gives.                                                     *)

\* What Inv says of a process that looks at an entry.
LEMMA Found ==
    ASSUME Inv, NEW p \in Proc, At(p, "check")
    PROVE  \E e \in Entries :
               /\ Taken(p) = e /\ EntryOK(e, proc[p].key, product.stood)
               /\ proc[p].left \subseteq Receipts(e)
               /\ proc[p].quiet => \A r \in Receipts(e) \ proc[p].left : file[r[2]] = r[3]
  <1>1. Checking(proc[p], file, product.stood)
    BY DEF Inv, ProcOK, At
  <1>2. PICK e \in Entries :
            /\ proc[p].got = {e} /\ EntryOK(e, proc[p].key, product.stood)
            /\ proc[p].left \subseteq Receipts(e)
            /\ proc[p].quiet => \A r \in Receipts(e) \ proc[p].left : file[r[2]] = r[3]
    BY <1>1 DEF Checking
  <1>3. Taken(p) = e
    BY <1>2 DEF Taken
  <1> QED  BY <1>2, <1>3

\* When all receipts of an entry and its key hold, all reads of its tape do.
LEMMA ReceiptsSpeakForAll ==
    ASSUME NEW e \in Entries, NEW k, EntryOK(e, k, product.stood), e.quiet,
           k.source = file[Source],
           \A v \in product.stood[k.product] : v = file[Product],
           \A r \in Receipts(e) : file[r[2]] = r[3]
    PROVE  UpToDate(e.tape)
  <1>1. e.tape = Base(file[Product], k.source) \union Noted(e.have, e.miss)
    BY DEF EntryOK
  <1>2. e.have \subseteq Path \X Nat
    BY DEF Entries, Reads
  <1>3. ASSUME NEW r \in e.tape PROVE file[r[1]] = r[2]
    <2>1. CASE r \in Base(file[Product], k.source)
      BY <2>1 DEF Base
    <2>2. CASE r \in e.have
      <3>1. <<"have", r[1], r[2]>> \in Receipts(e)
        BY <2>2 DEF Receipts
      <3> QED  BY <3>1
    <2>3. ASSUME NEW f \in e.miss, r = <<f, 0>> PROVE file[r[1]] = r[2]
      <3>1. <<"miss", f, 0>> \in Receipts(e)
        BY DEF Receipts
      <3> QED  BY <2>3, <3>1
    <2> QED  BY <1>1, <2>1, <2>2, <2>3 DEF Noted
  <1> QED  BY <1>3 DEF UpToDate

\* A receipt that does not hold is a read that would differ.
LEMMA ReceiptsAskNoMore ==
    ASSUME NEW e \in Entries, NEW k, EntryOK(e, k, product.stood), e.quiet,
           NEW r \in Receipts(e), file[r[2]] # r[3]
    PROVE  ~UpToDate(e.tape)
  <1>1. Noted(e.have, e.miss) \subseteq e.tape
    BY DEF EntryOK
  <1>2. ASSUME NEW h \in e.have, r = <<"have", h[1], h[2]>> PROVE ~UpToDate(e.tape)
    BY <1>1, <1>2 DEF Noted, UpToDate
  <1>3. ASSUME NEW f \in e.miss, r = <<"miss", f, 0>> PROVE ~UpToDate(e.tape)
    <2>1. <<f, 0>> \in e.tape
      BY <1>1 DEF Noted
    <2> QED  BY <1>3, <2>1 DEF UpToDate
  <1> QED  BY <1>2, <1>3 DEF Receipts

\* Only a receipt that does not hold turns a lookup into a compile.
LEMMA MissIsAReceipt ==
    ASSUME Inv, [Next]_vars, NEW p \in Proc, Misses(p)
    PROVE  \E r \in proc[p].left : file[r[2]] # r[3]
  <1>1. proc \in [Proc -> Procs] /\ proc[p].pc = "check" /\ proc'[p].pc = "package"
    BY DEF Inv, Types, Misses, At
  <1>2. CASE UNCHANGED vars
    BY <1>1, <1>2 DEF vars
  <1>3. ASSUME NEW q \in Proc, q # p, NEW v, proc' = [proc EXCEPT ![q] = v] PROVE FALSE
    BY <1>1, <1>3
  <1>4. ASSUME NEW q \in Proc, NEW o \in Opt, Begin(q, o) PROVE FALSE
    BY <1>1, <1>3, <1>4 DEF Begin, At
  <1>5. ASSUME NEW q \in Proc, ReadInput(q) \/ rc_open(q) \/ Lookup(q) PROVE FALSE
    BY <1>1, <1>3, <1>5 DEF ReadInput, rc_open, Lookup, At, End
  <1>6. ASSUME NEW q \in Proc, Compiled(q) \/ Receipt(q) \/ Store(q) \/ StoreFails(q) PROVE FALSE
    BY <1>1, <1>3, <1>6 DEF Compiled, Receipt, Store, StoreFails, At, End
  <1>7. ASSUME NEW q \in Proc, ReadPackage(q) \/ Include(q) PROVE FALSE
    BY <1>1, <1>3, <1>7 DEF ReadPackage, Include, At, End
  <1>8. ASSUME NEW q \in Proc, Hit(q) PROVE FALSE
    BY <1>1, <1>3, <1>8 DEF Hit, At, End, Fresh
  <1>9. ASSUME NEW k \in Key, Evict(k) PROVE FALSE
    BY <1>1, <1>9 DEF Evict
  <1>10. ASSUME NEW f \in Path, Edit(f) PROVE FALSE
    <2>1. proc'[p] = [proc[p] EXCEPT !.quiet = FALSE]
      BY <1>1, <1>10 DEF Edit, At
    <2>2. proc'[p].pc = proc[p].pc
      BY <1>1, <2>1 DEF Procs
    <2> QED  BY <1>1, <2>2
  <1>11. ASSUME NEW q \in Proc, Check(q) PROVE \E r \in proc[p].left : file[r[2]] # r[3]
    <2>1. PICK r \in proc[q].left :
              IF Holds(r)
                 THEN proc' = [proc EXCEPT ![q].left = @ \ {r}]
                 ELSE proc' = [proc EXCEPT ![q].pc = "package", ![q].left = {}, ![q].got = {}]
      BY <1>11 DEF Check
    <2>2. q = p
      BY <1>3, <2>1
    <2>3. ~Holds(r)
      <3>1. ASSUME Holds(r) PROVE FALSE
        <4>1. proc'[p] = [proc[p] EXCEPT !.left = @ \ {r}]
          BY <1>1, <2>1, <2>2, <3>1
        <4>2. proc'[p].pc = proc[p].pc
          BY <1>1, <4>1 DEF Procs
        <4> QED  BY <1>1, <4>2
      <3> QED  BY <3>1
    <2> QED  BY <2>2, <2>3 DEF Holds
  <1> QED  BY <1>2, <1>4, <1>5, <1>6, <1>7, <1>8, <1>9, <1>10, <1>11 DEF Next


LEMMA HitIsFresh ==
    ASSUME Inv, NEW p \in Proc, Hits(p), proc[p].quiet, Taken(p).quiet,
           OneCompiler(proc[p].key)
    PROVE  UpToDate(Taken(p).tape) /\ Taken(p).opt = proc[p].opt
  <1>1. At(p, "check") /\ proc[p].left = {}
    BY DEF Hits
  <1>2. PICK e \in Entries :
            /\ Taken(p) = e /\ EntryOK(e, proc[p].key, product.stood)
            /\ proc[p].quiet => \A r \in Receipts(e) \ proc[p].left : file[r[2]] = r[3]
    BY <1>1, Found
  <1>3. e.quiet /\ \A r \in Receipts(e) : file[r[2]] = r[3]
    BY <1>1, <1>2
  <1>4. PICK k : k = proc[p].key
    OBVIOUS
  <1>5. /\ k = [opt |-> proc[p].opt, product |-> product.ident, source |-> file[Source]]
        /\ file[Product] # 0
    BY <1>1, <1>4 DEF Inv, ProcOK, QuietOK, At
  <1>8. \A v \in product.stood[k.product] : v = file[Product]
    BY <1>4, <1>5 DEF Inv, Stands, OneCompiler
  <1>6. UpToDate(e.tape)
    BY <1>2, <1>3, <1>4, <1>5, <1>8, ReceiptsSpeakForAll
  <1>7. e.opt = proc[p].opt
    BY <1>2, <1>3, <1>4, <1>5 DEF EntryOK
  <1> QED  BY <1>2, <1>6, <1>7

LEMMA MissHasCause ==
    ASSUME Inv, [Next]_vars, NEW p \in Proc, Misses(p), proc[p].quiet, Taken(p).quiet
    PROVE  ~UpToDate(Taken(p).tape)
  <1>1. PICK e \in Entries :
            /\ Taken(p) = e /\ EntryOK(e, proc[p].key, product.stood)
            /\ proc[p].left \subseteq Receipts(e)
    BY Found DEF Misses
  <1>2. PICK r \in proc[p].left : file[r[2]] # r[3]
    BY MissIsAReceipt
  <1> QED  BY <1>1, <1>2, ReceiptsAskNoMore

\* A hit gives what a fresh compile with the same options of the files as they
\* are would give, whatever other processes, evictions and edits between the
\* making of the entry and its use did, as long as the compiler's identity has
\* meant one compiler (rc_hex_ident, rc_lookup_kind, rc_store_kind).
THEOREM HitAlwaysFresh == Spec => HitFresh
  <1>1. Inv /\ [Next]_vars =>
            [\A p \in Proc :
                 Hits(p) /\ proc[p].quiet /\ Taken(p).quiet /\ OneCompiler(proc[p].key) =>
                 UpToDate(Taken(p).tape) /\ Taken(p).opt = proc[p].opt]_vars
    BY HitIsFresh
  <1> QED  BY <1>1, AlwaysInv, PTL DEF Spec, HitFresh

\* A lookup that refuses the entry it found does so because a compile would
\* give something else: the receipts ask for no more than the compile read.
THEOREM MissAlwaysForCause == Spec => MissForCause
  <1>1. Inv /\ [Next]_vars =>
            [\A p \in Proc : Misses(p) /\ proc[p].quiet /\ Taken(p).quiet =>
                 ~UpToDate(Taken(p).tape)]_vars
    BY MissHasCause
  <1> QED  BY <1>1, AlwaysInv, PTL DEF Spec, MissForCause
=============================================================================
