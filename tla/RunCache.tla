------------------------------ MODULE RunCache ------------------------------
(* The run cache of the compiler driver (src/runcache.cx, and the calls of  *)
(* src/drive.cx and src/hostres.cx around it): a compile notes every file   *)
(* it read or found absent, stores what it made with a receipt for each,    *)
(* and a later process takes the stored result when the key and all the     *)
(* receipts still hold.  Between any two reads of the file system another   *)
(* compile can run, an entry can be evicted and a user can edit a file.     *)
(*                                                                          *)
(* What a compile makes is a function of its options and of what its reads  *)
(* returned, so a tape is modelled by exactly those: the options and the    *)
(* set of <<path, version>> pairs read, version 0 for "absent".  A hash of  *)
(* a file is its version; the compiler itself is not hashed but told by     *)
(* its stat fields, with times in whole seconds, so that two versions of    *)
(* one size can have the same identity.  That an entry appears whole or not *)
(* at all is CacheDir's subject: here a store and an eviction are one step. *)
EXTENDS Integers, Sequences, FiniteSets

CONSTANTS Proc,      \* driver processes; one that ends is followed by another
          Opt,       \* command lines: what rc_hex_sources hashes besides the source
          Search,    \* Search[o]: the directories an include is looked for in, in order
          Header,    \* names the sources include
          Includes,  \* Includes[path][version]: the names that text includes, in order
          Source, Product,   \* the paths of the source file and of the compiler
          First,     \* the files at the start
          Versions,  \* Versions[path]: what a path can hold, 0 for no file
          Alike,     \* the versions of the compiler that are of one size
          MaxEdits,  \* edits in a behaviour
          None

Dir == UNION {{Search[o][i] : i \in 1 .. Len(Search[o])} : o \in Opt}
Path == {Source, Product} \union (Dir \X Header)

ASSUME RunCacheAssumption ==
    /\ Source # Product /\ {Source, Product} \intersect (Dir \X Header) = {}
    /\ Search \in [Opt -> Seq(Dir)]
    /\ Versions \in [Path -> SUBSET Nat]
    /\ \A f \in Path : Includes[f] \in [Versions[f] \ {0} -> Seq(Header)]
    /\ First \in [Path -> Nat] /\ \A f \in Path : First[f] \in Versions[f]
    /\ First[Product] # 0
    /\ Alike \subseteq Versions[Product] \ {0}
    /\ MaxEdits \in Nat

VARIABLES file,    \* file[path]: the version there, 0 when there is none
          entry,   \* entry[key]: what the cache directory holds, or None
          proc,    \* proc[p]: one driver process
          product, \* ident: the stat identity of the compiler's file; stood[i]: the
                   \* versions the file of identity i has held (a history variable)
          edits

vars == <<file, entry, proc, product, edits>>

Ident == 0 .. MaxEdits
Key == [opt : Opt, product : Ident, source : Versions[Source]]

\* tape: what was read; have, miss: rc_have and rc_miss; todo: the names still
\* to include, at: the directory of the search the first of them is looked for
\* in; left: receipts not yet checked or taken; got: receipts taken; broken:
\* rc_broken; quiet: nobody has edited a file since the process began (a
\* history variable).
Fresh == [pc |-> "idle", opt |-> None, key |-> None, tape |-> {}, have |-> {}, miss |-> {},
          todo |-> <<>>, at |-> 1, left |-> {}, got |-> {}, broken |-> FALSE, quiet |-> TRUE]

Init ==
    /\ file = First
    /\ entry = [k \in Key |-> None]
    /\ proc = [p \in Proc |-> Fresh]
    /\ product = [ident |-> 0, stood |-> [i \in Ident |-> IF i = 0 THEN {First[Product]} ELSE {}]]
    /\ edits = 0

-----------------------------------------------------------------------------
At(p, pc) == proc[p].pc = pc
End(p) == proc' = [proc EXCEPT ![p] = Fresh]

\* The compiler starts: the program in memory is the file as it is now.
Begin(p, o) ==
    /\ At(p, "idle") /\ file[Product] # 0
    /\ proc' = [proc EXCEPT ![p] = [Fresh EXCEPT !.pc = "input", !.opt = o,
                                                 !.tape = {<<Product, file[Product]>>}]]
    /\ UNCHANGED <<file, entry, product, edits>>

\* dv_read_input: the text that will be compiled.
ReadInput(p) ==
    /\ At(p, "input")
    /\ IF file[Source] = 0
          THEN End(p)
          ELSE proc' = [proc EXCEPT ![p].pc = "open",
                                    ![p].tape = @ \union {<<Source, file[Source]>>},
                                    ![p].todo = Includes[Source][file[Source]]]
    /\ UNCHANGED <<file, entry, product, edits>>

\* rc_hex_ident, rc_hex_sources and rc_key: the stat fields of the compiler,
\* the words up to -- and the source, read again.
rc_key(o) == [opt |-> o, product |-> product.ident, source |-> file[Source]]

\* Without a source or a compiler to take the key of there is no cache.
rc_open(p) ==
    /\ At(p, "open")
    /\ IF file[Source] = 0 \/ file[Product] = 0
          THEN proc' = [proc EXCEPT ![p].pc = "package"]
          ELSE proc' = [proc EXCEPT ![p].pc = "lookup", ![p].key = rc_key(proc[p].opt)]
    /\ UNCHANGED <<file, entry, product, edits>>

-----------------------------------------------------------------------------
(* rc_lookup_kind.                                                          *)

Receipts(e) == {<<"have", r[1], r[2]>> : r \in e.have} \union {<<"miss", f, 0>> : f \in e.miss}

\* The entry is read whole; after that the receipts are taken from memory.
Lookup(p) ==
    /\ At(p, "lookup")
    /\ IF entry[proc[p].key] = None
          THEN proc' = [proc EXCEPT ![p].pc = "package"]
          ELSE proc' = [proc EXCEPT ![p].pc = "check",
                                    ![p].got = {entry[proc[p].key]},
                                    ![p].left = Receipts(entry[proc[p].key])]
    /\ UNCHANGED <<file, entry, product, edits>>

\* The files that were there are compared, and nothing is asked about the
\* others.
HoldsIfPresent(r) == r[1] = "miss" \/ file[r[2]] = r[3]

\* rc_hex_file gives the hash of the receipt; rc_still_absent finds nothing.
Holds(r) == file[r[2]] = r[3]

Check(p) ==
    /\ At(p, "check")
    /\ \E r \in proc[p].left :
           \* Files that were there come first; among themselves in any order.
           /\ r[1] = "miss" => \A s \in proc[p].left : s[1] = "miss"
           /\ IF Holds(r)
                 THEN proc' = [proc EXCEPT ![p].left = @ \ {r}]
                 ELSE proc' = [proc EXCEPT ![p].pc = "package", ![p].left = {}, ![p].got = {}]
    /\ UNCHANGED <<file, entry, product, edits>>

\* All receipts hold: the stored image is run, or written out.
Hit(p) ==
    /\ At(p, "check") /\ proc[p].left = {}
    /\ End(p)
    /\ UNCHANGED <<file, entry, product, edits>>

-----------------------------------------------------------------------------
(* rc_arm, the compile, and its notes.                                      *)

\* hs_read of the container: the models come out of the compiler's file as it
\* is by now.
ReadPackage(p) ==
    /\ At(p, "package")
    /\ IF file[Product] = 0
          THEN End(p)
          ELSE proc' = [proc EXCEPT ![p].pc = "compile",
                                    ![p].tape = @ \union {<<Product, file[Product]>>}]
    /\ UNCHANGED <<file, entry, product, edits>>

\* Every path of the search is taken down as absent.
NoteAlwaysAbsent(q, f) ==
    {IF file[f] # 0 THEN [q EXCEPT !.have = @ \union {f}, !.miss = @ \union {f}]
                    ELSE [q EXCEPT !.miss = @ \union {f}]}

\* rc_on_file: the states the process may be in after a note about f.  A path
\* that was there stays noted so; without memory for a note the receipts are
\* broken.  A process that did not get rc_open's consent notes nothing.
rc_on_file(q, f) ==
    IF q.key = None \/ q.broken \/ f \in q.have \/ (file[f] = 0 /\ f \in q.miss)
       THEN {q}
       ELSE {IF file[f] # 0 THEN [q EXCEPT !.have = @ \union {f}]
                            ELSE [q EXCEPT !.miss = @ \union {f}],
             [q EXCEPT !.broken = TRUE]}

\* hs_file for one candidate of one include.  An include that is nowhere ends
\* the compile.
Include(p) ==
    LET q == proc[p] IN
    /\ At(p, "compile") /\ q.todo # <<>>
    /\ IF q.at > Len(Search[q.opt])
          THEN End(p)
          ELSE LET f == <<Search[q.opt][q.at], Head(q.todo)>> IN
               \E noted \in rc_on_file([q EXCEPT !.tape = @ \union {<<f, file[f]>>}], f) :
                   proc' = [proc EXCEPT ![p] =
                       IF file[f] = 0
                          THEN [noted EXCEPT !.at = @ + 1]
                          ELSE [noted EXCEPT !.at = 1,
                                             !.todo = Includes[f][file[f]] \o Tail(q.todo)]]
    /\ UNCHANGED <<file, entry, product, edits>>

-----------------------------------------------------------------------------
(* rc_store_kind.                                                           *)

\* A compile that is done with a key and with all its notes begins to store.
StoreBrokenToo(p) ==
    LET q == proc[p] IN
    /\ At(p, "compile") /\ q.todo = <<>>
    /\ IF q.key = None
          THEN End(p)
          ELSE proc' = [proc EXCEPT ![p].pc = "receipts", ![p].left = q.have]
    /\ UNCHANGED <<file, entry, product, edits>>

Compiled(p) ==
    LET q == proc[p] IN
    /\ At(p, "compile") /\ q.todo = <<>>
    /\ IF q.key = None \/ q.broken
          THEN End(p)
          ELSE proc' = [proc EXCEPT ![p].pc = "receipts", ![p].left = q.have]
    /\ UNCHANGED <<file, entry, product, edits>>

\* The files read are read again, now for their hashes.
Receipt(p) ==
    /\ At(p, "receipts")
    /\ \E f \in proc[p].left :
           IF file[f] = 0
              THEN End(p)
              ELSE proc' = [proc EXCEPT ![p].left = @ \ {f}, ![p].got = @ \union {<<f, file[f]>>}]
    /\ UNCHANGED <<file, entry, product, edits>>

\* rc_atomic: the entry replaces one of the same key.
Store(p) ==
    LET q == proc[p] IN
    /\ At(p, "receipts") /\ q.left = {}
    /\ entry' = [entry EXCEPT ![q.key] = [have |-> q.got, miss |-> q.miss, opt |-> q.opt,
                                          tape |-> q.tape, quiet |-> q.quiet]]
    /\ End(p)
    /\ UNCHANGED <<file, product, edits>>

\* The lock was held, the disk was full, or the process ended early.
StoreFails(p) ==
    /\ At(p, "receipts") /\ proc[p].left = {}
    /\ End(p)
    /\ UNCHANGED <<file, entry, product, edits>>

-----------------------------------------------------------------------------
(* The environment.                                                         *)

\* mc_trim takes any entry at any time.
Evict(k) ==
    /\ entry[k] # None
    /\ entry' = [entry EXCEPT ![k] = None]
    /\ UNCHANGED <<file, proc, product, edits>>

\* rc_hex_ident: what the identity can be when the compiler's file comes to
\* hold v: another one, or within a second that of a file of the same size.
Identities(v) ==
    {edits + 1} \union {i \in Ident : product.stood[i] # {} /\ product.stood[i] \union {v} \subseteq Alike}

\* Somebody saves, adds or removes a file, or installs another compiler.
Edit(f) ==
    /\ edits < MaxEdits /\ edits' = edits + 1
    /\ \E v \in Versions[f] \ {file[f]} :
           /\ file' = [file EXCEPT ![f] = v]
           /\ IF f = Product /\ v # 0
                 THEN \E i \in Identities(v) :
                          product' = [ident |-> i,
                                      stood |-> [product.stood EXCEPT ![i] = @ \union {v}]]
                 ELSE UNCHANGED product
    /\ proc' = [p \in Proc |-> IF At(p, "idle") THEN proc[p] ELSE [proc[p] EXCEPT !.quiet = FALSE]]
    /\ UNCHANGED entry

Next ==
    \/ \E p \in Proc :
           \/ \E o \in Opt : Begin(p, o)
           \/ ReadInput(p) \/ rc_open(p) \/ Lookup(p) \/ Check(p) \/ Hit(p)
           \/ ReadPackage(p) \/ Include(p) \/ Compiled(p) \/ Receipt(p) \/ Store(p) \/ StoreFails(p)
    \/ \E k \in Key : Evict(k)
    \/ \E f \in Path : Edit(f)

Spec == Init /\ [][Next]_vars

-----------------------------------------------------------------------------
(* Properties.                                                              *)

\* What a tape was made from is what a compile would read now.  Reads are
\* adaptive, so agreeing on every read is agreeing on which reads there are.
UpToDate(tape) == \A r \in tape : file[r[1]] = r[2]

Taken(p) == CHOOSE e \in proc[p].got : TRUE
Hits(p) == At(p, "check") /\ proc[p].left = {} /\ proc'[p].pc = "idle"
Misses(p) == At(p, "check") /\ proc'[p].pc = "package"

\* The identity in the key has meant one compiler only.
OneCompiler(k) == \A v, w \in product.stood[k.product] : v = w

\* A hit gives what a fresh compile with the same options of the files as they
\* are would give, when nobody edited a file while the entry was made or while
\* it was looked up and the compiler's identity never stood for two compilers;
\* edits between the two, evictions and other processes are all allowed.
HitFresh ==
    [][\A p \in Proc :
           Hits(p) /\ proc[p].quiet /\ Taken(p).quiet /\ OneCompiler(proc[p].key) =>
           UpToDate(Taken(p).tape) /\ Taken(p).opt = proc[p].opt]_vars

\* The receipts ask for no more than that: a lookup that finds an entry and
\* refuses it does so because a compile would give something else.
MissForCause ==
    [][\A p \in Proc : Misses(p) /\ proc[p].quiet /\ Taken(p).quiet =>
           ~UpToDate(Taken(p).tape)]_vars

\* The same of every hit, also from an entry made while files were edited: "A
\* cached -run must give the same stdout as a fresh compile, for every change
\* the key or the include receipts are meant to see."
CachedAsFresh ==
    [][\A p \in Proc : Hits(p) /\ proc[p].quiet => UpToDate(Taken(p).tape)]_vars

=============================================================================
