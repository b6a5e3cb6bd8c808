-------------------------- MODULE CacheDirProofs --------------------------
(* Proofs about CacheDir, for any number of processes, keys, inodes, faults *)
(* and edits: what an entry holds, what a reader and a trim may rely on,    *)
(* and how far over its budget the directory can be.                        *)
EXTENDS CacheDir, SumFacts

-----------------------------------------------------------------------------
(* The inductive invariant.                                                 *)

Reading == {"stat", "open", "read"}
Trimming == {"scan", "evict", "unlock"}
Writing == {"header", "payload"}
Holding == {"touching", "unlink", "create", "rename"} \union Writing \union Trimming
Storing == {"lock", "cleanup"} \union (Holding \ {"touching"})
Calls == {"idle", "touch"} \union Reading \union Holding \union Storing

Candidates == [name : Key, ino : Ino, mtime : Nat, size : Nat]

ProcType == [at : Calls, key : Key \union {0}, seq : 0 .. MaxSeq, fd : Ino \union {0},
             total : Int, seen : SUBSET Candidates, clean : BOOLEAN]

FileType == [key : Key \union {0}, body : Bodies, mtime : Nat]

Types ==
    /\ dir \in [Names -> Ino \union {0}]
    /\ file \in [Ino -> FileType]
    /\ lock \in Proc \union {None}
    /\ now \in Nat /\ faults \in Nat /\ damage \in Nat
    /\ proc \in [Proc -> ProcType]

\* The lock is held by exactly the process that is in a call under it, and the
\* descriptor and the counter are those of the call.
Local(p) ==
    /\ lock = p <=> proc[p].at \in Holding
    /\ proc[p].fd # 0 <=> proc[p].at \in {"read"} \union Writing
    /\ proc[p].at # "idle" => proc[p].key \in Key
    /\ proc[p].at \in Reading => proc[p].seq < MaxSeq
    /\ proc[p].at \in Storing => proc[p].seq > 0

Locals == \A p \in Proc : Local(p)

\* No inode has two names.
OneName == \A m, n \in Names : dir[m] = dir[n] /\ dir[m] # 0 => m = n

\* A file that is written has no name but the writer's temp, and nobody else
\* has it open; the temp has no other file.
WriterAlone ==
    \A p \in Proc : proc[p].at \in Writing =>
        /\ file[proc[p].fd].key = proc[p].key
        /\ dir[Temp(p)] \in {0, proc[p].fd}
        /\ \A n \in Names : dir[n] = proc[p].fd => n = Temp(p)
        /\ \A q \in Proc \ {p} : proc[q].fd # proc[p].fd

\* What is renamed is the whole file.
RenamedWhole ==
    \A p \in Proc : At(p, "rename") /\ dir[Temp(p)] # 0 =>
        file[dir[Temp(p)]].key = proc[p].key /\ file[dir[Temp(p)]].body = "whole"

\* A file that is read was made for the key that is looked up, and has no name
\* but an entry's.
ReaderOfEntry ==
    \A p \in Proc : At(p, "read") =>
        /\ file[proc[p].fd].key = proc[p].key
        /\ \A n \in Names : dir[n] = proc[p].fd => \E k \in Key : n = Entry(k)

\* Whatever the trim listed is still so, if nobody but the cache changed it; and
\* it listed every entry once.
Listed ==
    \A p \in Proc : At(p, "evict") =>
        /\ damage = 0 => \A x \in proc[p].seen : mc_same(x)
        /\ \A x, y \in proc[p].seen : x.name = y.name => x = y

\* What the listed candidates of a name count for.
ListedBytes(S) == [k \in Key |-> (CHOOSE x \in S : x.name = k).size]

\* The sum of a trim is never below the bytes in the directory, it is exact if
\* nobody but the cache changed them, and it is the sum of what is still to be
\* looked at, until a removal fails.
Summed ==
    \A p \in Proc : At(p, "evict") =>
        /\ Total <= proc[p].total
        /\ damage = 0 => proc[p].total = Total
        /\ proc[p].clean => proc[p].total = SumFunctionOnSet(ListedBytes(proc[p].seen),
                                                            {x.name : x \in proc[p].seen})

\* Without a fault or an edit a trim meets no failing call, and the directory
\* is within a budget whenever no trim is due.
Budgeted ==
    faults = 0 /\ damage = 0 =>
        /\ \A p \in Proc : proc[p].at \in {"evict", "unlock"} => proc[p].clean
        /\ (\A p \in Proc : proc[p].at \notin Trimming) => \E p \in Proc : Total <= Limit[p]

\* What concerns the files, and what concerns the sums.
FilesInv == Types /\ Locals /\ OneName /\ WriterAlone /\ RenamedWhole /\ ReaderOfEntry /\ NoTornEntry

IInv == FilesInv /\ Listed /\ Summed /\ TrimmedToLimit /\ Budgeted /\ OneEntryOver
-----------------------------------------------------------------------------
(* Lemmas about names and files.                                            *)

LEMMA NameFacts ==
    /\ \A k \in Key : Entry(k) \in Names
    /\ \A k, j \in Key : Entry(k) = Entry(j) => k = j
    /\ \A p \in Proc : proc[p].key \in Key /\ proc[p].seq \in 1 .. MaxSeq =>
           Temp(p) \in Names /\ \A k \in Key : Temp(p) # Entry(k)
  <1>1. \A k \in Key : Entry(k) \in Names
    BY DEF Names, Entry
  <1>2. \A k, j \in Key : Entry(k) = Entry(j) => k = j
    BY DEF Entry
  <1>3. ASSUME NEW p \in Proc, proc[p].key \in Key, proc[p].seq \in 1 .. MaxSeq
        PROVE  Temp(p) \in Names /\ \A k \in Key : Temp(p) # Entry(k)
    <2>1. CASE proc[p].key \in ModelKey
      <3>1. Temp(p) = <<proc[p].key, "temp", proc[p].seq>>
        BY <2>1 DEF Temp
      <3> QED  BY <3>1, <2>1, <1>3 DEF Names, Entry
    <2>2. CASE proc[p].key \notin ModelKey
      <3>1. Temp(p) = <<proc[p].key, p, 0>> /\ proc[p].key \in RunKey
        BY <2>2, <1>3 DEF Temp, Key
      <3>2. p # "entry"
        BY CacheAssumption
      <3> QED  BY <3>1, <3>2 DEF Names, Entry
    <2> QED  BY <2>1, <2>2
  <1> QED  BY <1>1, <1>2, <1>3

\* A process that returns or is gone.
LEMMA FreshType ==
    ASSUME Types, NEW p \in Proc
    PROVE  Fresh \in ProcType /\ [Fresh EXCEPT !.seq = proc[p].seq] \in ProcType
  <1>1. 0 \in 0 .. MaxSeq /\ "idle" \in Calls
    BY CacheAssumption DEF Calls
  <1>2. Fresh \in ProcType
    BY <1>1 DEF Fresh, ProcType
  <1> QED  BY <1>2 DEF Fresh, ProcType, Types

LEMMA CallNames ==
    \A c \in {"stat", "open", "read", "touch", "touching", "lock", "unlink", "create", "header",
               "payload", "rename", "cleanup", "scan", "evict", "unlock"} : c \in Calls
  BY DEF Calls, Reading, Holding, Writing, Trimming, Storing

LEMMA BlankTypes ==
    ASSUME Types
    PROVE  NoFile \in FileType /\ \A k \in Key : Blank(k) \in FileType
  BY DEF Types, NoFile, Blank, FileType, Bodies

LEMMA FaultType ==
    ASSUME Types, Fault
    PROVE  faults' \in Nat /\ damage' = damage
  BY DEF Types, Fault

LEMMA ReclaimType ==
    ASSUME Types, Reclaim
    PROVE  file' \in [Ino -> FileType]
  BY BlankTypes DEF Types, Reclaim

\* An entry never counts for more than a whole one.
LEMMA BytesFacts ==
    /\ \A k \in Key : Size[k] \in Nat
    /\ \A k \in Key : Bytes[k] \in Nat /\ Bytes[k] <= Size[k]
    /\ \A k \in Key : Bytes'[k] \in Nat /\ Bytes'[k] <= Size[k]
  <1>1. \A k \in Key : Size[k] \in Nat /\ Short[k] \in Nat /\ Short[k] <= Size[k]
    BY CacheAssumption
  <1> QED  BY <1>1 DEF Bytes

LEMMA CompleteFacts ==
    ASSUME Types
    PROVE  /\ Complete \in SUBSET Key /\ IsFiniteSet(Complete)
           /\ \A k \in Key : Bytes[k] \in Nat
           /\ Total \in Nat
           /\ \A k \in Complete : Seen(k) \in Candidates /\ mc_same(Seen(k))
  <1>1. Complete \in SUBSET Key /\ IsFiniteSet(Complete)
    BY CacheAssumption, FS_Subset DEF Complete
  <1>2. \A k \in Key : Bytes[k] \in Nat
    BY BytesFacts
  <1>3. Total \in Nat
    BY <1>1, <1>2, SumIsNatural DEF Total
  <1>4. ASSUME NEW k \in Complete PROVE Seen(k) \in Candidates /\ mc_same(Seen(k))
    <2>1. dir[Entry(k)] \in Ino /\ Recognised(dir[Entry(k)]) /\ k \in Key
      BY <1>1, NameFacts DEF Types, Complete
    <2>2. file[dir[Entry(k)]].mtime \in Nat
      BY <2>1 DEF Types, FileType
    <2> QED  BY <1>2, <2>1, <2>2 DEF Seen, Candidates, mc_same
  <1> QED  BY <1>1, <1>2, <1>3, <1>4

-----------------------------------------------------------------------------
(* Types.                                                                   *)

\* The calls under which the current key and temp are in use.
LEMMA InCall ==
    ASSUME Types, Locals, NEW p \in Proc, proc[p].at # "idle"
    PROVE  /\ proc[p].key \in Key
           /\ Entry(proc[p].key) \in Names
           /\ dir[Entry(proc[p].key)] \in Ino \union {0}
           /\ proc[p].at \in Storing => /\ proc[p].seq \in 1 .. MaxSeq
                                        /\ Temp(p) \in Names
                                        /\ dir[Temp(p)] \in Ino \union {0}
                                        /\ \A k \in Key : Temp(p) # Entry(k)
  <1>1. proc[p].key \in Key /\ Entry(proc[p].key) \in Names
    BY NameFacts DEF Locals, Local
  <1>2. proc[p].at \in Storing => proc[p].seq \in 1 .. MaxSeq
    BY CacheAssumption DEF Types, ProcType, Locals, Local
  <1> QED  BY <1>1, <1>2, NameFacts DEF Types

LEMMA TypesLookup ==
    ASSUME Types, Locals, NEW p \in Proc,
           \/ \E k \in Key : Start(p, k)
           \/ Stat(p) \/ Open(p) \/ Read(p) \/ TouchLock(p) \/ Touch(p)
    PROVE  Types'
  <1> USE DEF Types, At, Go, Miss, Return
  <1>1. CASE \E k \in Key : Start(p, k)
    <2>1. PICK k \in Key : Start(p, k)
      BY <1>1
    <2>2. [proc[p] EXCEPT !.at = "stat", !.key = k] \in ProcType
      BY CallNames DEF ProcType
    <2> QED  BY <2>1, <2>2 DEF Start
  <1>2. CASE Stat(p)
    BY <1>2, CallNames, CacheAssumption DEF Stat, ProcType, Locals, Local, Reading
  <1>3. CASE Open(p)
    <2>1. dir[Entry(proc[p].key)] \in Ino \union {0} /\ proc[p].seq + 1 \in 0 .. MaxSeq
      BY <1>3, InCall, CacheAssumption DEF Open, ProcType, Locals, Local, Reading
    <2>2. [proc[p] EXCEPT !.at = "read", !.fd = dir[Entry(proc[p].key)]] \in ProcType
      BY <2>1, CallNames DEF ProcType
    <2>3. [proc[p] EXCEPT !.at = "lock", !.seq = @ + 1, !.fd = 0] \in ProcType
      BY <2>1, CallNames DEF ProcType
    <2> QED  BY <1>3, <2>2, <2>3 DEF Open
  <1>4. CASE Read(p)
    BY <1>4, CallNames, ReclaimType, CacheAssumption DEF Read, ProcType, Locals, Local, Reading
  <1>5. CASE TouchLock(p)
    BY <1>5, FreshType, CallNames DEF TouchLock, TryLock, ProcType
  <1>6. CASE Touch(p)
    <2>1. file' \in [Ino -> FileType]
      BY <1>6 DEF Touch, FileType
    <2> QED  BY <1>6, <2>1, FreshType DEF Touch
  <1> QED  BY <1>1, <1>2, <1>3, <1>4, <1>5, <1>6

LEMMA TypesStore ==
    ASSUME Types, Locals, NEW p \in Proc,
           \/ Lock(p) \/ UnlinkTemp(p) \/ Create(p) \/ Header(p) \/ Payload(p) \/ Rename(p)
           \/ Cleanup(p) \/ WriteFails(p) \/ RenameFails(p)
    PROVE  Types'
  <1> USE DEF Types, At, Go
  <1>1. CASE Lock(p)
    BY <1>1, FreshType, CallNames DEF Lock, TryLock, Return, ProcType
  <1>2. CASE UnlinkTemp(p)
    BY <1>2, ReclaimType, CallNames DEF UnlinkTemp, Unlinked, ProcType
  <1>3. CASE Create(p)
    <2>1. proc[p].at \in Storing /\ proc[p].at # "idle"
      BY <1>3 DEF Create, Storing, Holding
    <2>2. \A i \in Ino : [file EXCEPT ![i] = Blank(proc[p].key)] \in [Ino -> FileType]
      BY <2>1, InCall, BlankTypes
    <2>3. \A i \in Ino : [proc EXCEPT ![p].at = "header", ![p].fd = i] \in [Proc -> ProcType]
      BY ZenonT(30), CallNames DEF ProcType
    <2>4. \A i \in Ino : [dir EXCEPT ![Temp(p)] = i] \in [Names -> Ino \union {0}]
      OBVIOUS
    <2>5. CASE dir[Temp(p)] = 0
      <3>1. PICK i \in Ino : /\ dir' = [dir EXCEPT ![Temp(p)] = i]
                             /\ file' = [file EXCEPT ![i] = Blank(proc[p].key)]
                             /\ proc' = [proc EXCEPT ![p].at = "header", ![p].fd = i]
        BY <1>3, <2>5 DEF Create, Free
      <3> QED  BY <1>3, <2>2, <2>3, <2>4, <3>1 DEF Create
    <2>6. CASE dir[Temp(p)] # 0
      <3>1. dir[Temp(p)] \in Ino
        BY <2>1, <2>6, InCall
      <3> QED  BY <1>3, <2>2, <2>3, <2>6, <3>1 DEF Create
    <2> QED  BY <2>5, <2>6
  <1>4. CASE Header(p)
    <2>1. \A i \in Ino : [file EXCEPT ![i].body = "partial", ![i].mtime = now] \in [Ino -> FileType]
      BY DEF FileType, Bodies
    <2>2. proc[p].fd \in Ino
      BY <1>4 DEF Header, Locals, Local, ProcType, Writing
    <2>3. proc' \in [Proc -> ProcType]
      BY <1>4, CallNames DEF Header, ProcType
    <2> QED  BY <1>4, <2>1, <2>2, <2>3 DEF Header
  <1>5. CASE Payload(p)
    <2>1. \A i \in Ino : [file EXCEPT ![i].body = "whole", ![i].mtime = now] \in [Ino -> FileType]
      BY DEF FileType, Bodies
    <2>2. proc[p].fd \in Ino
      BY <1>5 DEF Payload, Locals, Local, ProcType, Writing
    <2>3. proc' \in [Proc -> ProcType]
      BY ZenonT(30), <1>5, CallNames DEF Payload, ProcType
    <2> QED  BY <1>5, <2>1, <2>2, <2>3 DEF Payload
  <1>6. CASE Rename(p)
    <2>1. proc[p].at \in Storing /\ proc[p].at # "idle"
      BY <1>6 DEF Rename, Storing, Holding
    <2>2. dir' \in [Names -> Ino \union {0}]
      BY <1>6, <2>1, InCall DEF Rename
    <2> QED  BY <1>6, <2>2, ReclaimType, CallNames DEF Rename, ProcType
  <1>7. CASE Cleanup(p)
    BY <1>7, FreshType, ReclaimType DEF Cleanup, Unlinked, Return
  <1>8. CASE WriteFails(p)
    BY <1>8, FreshType, ReclaimType, FaultType DEF WriteFails, Unlinked, Return
  <1>9. CASE RenameFails(p)
    BY <1>9, CallNames, FaultType DEF RenameFails, ProcType
  <1> QED  BY <1>1, <1>2, <1>3, <1>4, <1>5, <1>6, <1>7, <1>8, <1>9

LEMMA TypesTrim ==
    ASSUME Types, Locals, NEW p \in Proc,
           Scan(p) \/ Evict(p) \/ Trimmed(p) \/ Unlock(p) \/ ScanFails(p) \/ EvictFails(p)
    PROVE  Types'
  <1> USE DEF Types, At, Go
  <1>1. CASE Scan(p)
    <2>1. Total \in Int /\ {Seen(k) : k \in Complete} \in SUBSET Candidates
      BY CompleteFacts
    <2>2. [proc[p] EXCEPT !.at = "evict", !.seen = {Seen(k) : k \in Complete}, !.total = Total,
                          !.clean = TRUE] \in ProcType
      BY <2>1, CallNames DEF ProcType
    <2> QED  BY <1>1, <2>2 DEF Scan
  <1>2. CASE Evict(p)
    <2>1. PICK x \in proc[p].seen : Evict(p)!(x)
      BY <1>2 DEF Evict
    <2>3. x.size \in Int
      BY <2>1 DEF ProcType, Candidates
    <2>4. proc' \in [Proc -> ProcType]
      BY <2>1, <2>3 DEF ProcType
    <2> QED  BY <2>1, <2>4, ReclaimType DEF Unlinked
  <1>3. CASE Trimmed(p)
    BY <1>3, CallNames DEF Trimmed, ProcType
  <1>4. CASE Unlock(p)
    BY <1>4, FreshType DEF Unlock, Return
  <1>5. CASE ScanFails(p)
    <2>1. [proc[p] EXCEPT !.at = "unlock", !.clean = FALSE] \in ProcType
      BY CallNames DEF ProcType
    <2> QED  BY <1>5, <2>1, FaultType DEF ScanFails
  <1>6. CASE EvictFails(p)
    <2>1. \A x : [proc[p] EXCEPT !.seen = @ \ {x}, !.clean = FALSE] \in ProcType
      BY DEF ProcType
    <2>2. PICK x \in proc[p].seen : proc' = [proc EXCEPT ![p].seen = @ \ {x}, ![p].clean = FALSE]
      BY <1>6 DEF EvictFails
    <2>3. proc' \in [Proc -> ProcType]
      BY <2>1, <2>2
    <2> QED  BY <1>6, <2>3, FaultType DEF EvictFails
  <1> QED  BY <1>1, <1>2, <1>3, <1>4, <1>5, <1>6

LEMMA TypesEnvironment ==
    ASSUME Types, Locals,
           \/ \E p \in Proc : Crash(p) \/ Exit(p)
           \/ \E k \in Key : Damage(k)
           \/ Tick
    PROVE  Types'
  <1> USE DEF Types, At
  <1>1. CASE \E p \in Proc : Crash(p)
    BY <1>1, FreshType, ReclaimType, FaultType DEF Crash
  <1>2. CASE \E p \in Proc : Exit(p)
    BY <1>2, FreshType DEF Exit
  <1>3. CASE \E k \in Key : Damage(k)
    <2>1. PICK k \in Key : Damage(k)
      BY <1>3
    <2>2. PICK b \in {"damaged", "cut", "short"} : file' = [file EXCEPT ![dir[Entry(k)]].body = b,
                                                                       ![dir[Entry(k)]].mtime = now]
      BY <2>1 DEF Damage
    <2>3. file' \in [Ino -> FileType]
      BY ZenonT(30), <2>2 DEF FileType, Bodies
    <2> QED  BY <2>1, <2>3 DEF Damage
  <1>4. CASE Tick
    BY <1>4 DEF Tick
  <1> QED  BY <1>1, <1>2, <1>3, <1>4

LEMMA TypesStep ==
    ASSUME Types, Locals, [Next]_vars
    PROVE  Types'
  <1>1. CASE UNCHANGED vars
    BY <1>1 DEF vars, Types
  <1>2. CASE \E p \in Proc : Step(p)
    BY <1>2, TypesLookup, TypesStore, TypesTrim DEF Step
  <1> QED  BY <1>1, <1>2, TypesLookup, TypesStore, TypesTrim, TypesEnvironment DEF Next

-----------------------------------------------------------------------------
(* Locals.                                                                  *)

LEMMA Sets ==
    /\ Holding = {"touching", "unlink", "create", "rename", "header", "payload", "scan", "evict", "unlock"}
    /\ Storing = {"lock", "cleanup", "unlink", "create", "rename", "header", "payload", "scan", "evict",
                  "unlock"}
    /\ Reading = {"stat", "open", "read"}
    /\ Writing = {"header", "payload"}
    /\ Trimming = {"scan", "evict", "unlock"}
  BY DEF Holding, Storing, Reading, Writing, Trimming

\* What a step of one process does to the others.
LEMMA LocalsOfOne ==
    ASSUME Locals, NEW p \in Proc, \A q \in Proc \ {p} : proc'[q] = proc[q],
           \/ lock' = lock
           \/ lock = None /\ lock' = p
           \/ lock = p /\ lock' = None,
           Local(p)'
    PROVE  Locals'
  <1> SUFFICES ASSUME NEW q \in Proc, q # p PROVE Local(q)'
    BY DEF Locals
  <1>1. None \notin Proc
    BY CacheAssumption
  <1> QED  BY <1>1 DEF Locals, Local

LEMMA LocalsLookup ==
    ASSUME Types, Locals, NEW p \in Proc,
           \/ \E k \in Key : Start(p, k)
           \/ Stat(p) \/ Open(p) \/ Read(p) \/ TouchLock(p) \/ Touch(p)
    PROVE  Locals'
  <1>1. \A q \in Proc \ {p} : proc'[q] = proc[q]
    BY DEF Types, Start, Stat, Open, Read, TouchLock, Touch, TryLock, Go, Miss, Return
  <1>2. proc[p] \in ProcType /\ Local(p)
    BY DEF Types, Locals
  <1>3. None \notin Proc
    BY CacheAssumption
  <1>4. /\ \/ lock' = lock
           \/ lock = None /\ lock' = p
           \/ lock = p /\ lock' = None
        /\ Local(p)'
    <2> USE <1>2, <1>3, Sets DEF Types, ProcType, Local, At, Go, Miss, Return, Fresh
    <2>1. CASE \E k \in Key : Start(p, k)
      <3>1. PICK k \in Key : Start(p, k)
        BY <2>1
      <3> QED  BY <3>1 DEF Start
    <2>2. CASE Stat(p)
      BY <2>2 DEF Stat
    <2>3. CASE Open(p)
      BY <2>3, InCall DEF Open
    <2>4. CASE Read(p)
      BY <2>4 DEF Read
    <2>5. CASE TouchLock(p)
      BY <2>5 DEF TouchLock, TryLock
    <2>6. CASE Touch(p)
      BY <2>6 DEF Touch
    <2> QED  BY <2>1, <2>2, <2>3, <2>4, <2>5, <2>6
  <1> QED  BY <1>1, <1>4, LocalsOfOne

LEMMA LocalsStore ==
    ASSUME Types, Locals, NEW p \in Proc,
           \/ Lock(p) \/ UnlinkTemp(p) \/ Create(p) \/ Header(p) \/ Payload(p) \/ Rename(p)
           \/ Cleanup(p) \/ WriteFails(p) \/ RenameFails(p)
    PROVE  Locals'
  <1>1. \A q \in Proc \ {p} : proc'[q] = proc[q]
    BY DEF Types, Lock, UnlinkTemp, Create, Header, Payload, Rename, Cleanup, WriteFails,
           RenameFails, TryLock, Go, Return
  <1>2. proc[p] \in ProcType /\ Local(p)
    BY DEF Types, Locals
  <1>3. None \notin Proc
    BY CacheAssumption
  <1>4. /\ \/ lock' = lock
           \/ lock = None /\ lock' = p
           \/ lock = p /\ lock' = None
        /\ Local(p)'
    <2> USE <1>2, <1>3, Sets DEF Types, ProcType, Local, At, Go, Return, Fresh
    <2>1. CASE Lock(p)
      BY <2>1 DEF Lock, TryLock
    <2>2. CASE UnlinkTemp(p)
      BY <2>2 DEF UnlinkTemp
    <2>3. CASE Create(p)
      <3>1. PICK i \in Ino : proc' = [proc EXCEPT ![p].at = "header", ![p].fd = i]
        BY <2>3, InCall DEF Create, Free
      <3>2. i # 0
        BY CacheAssumption
      <3> QED  BY <2>3, <3>1, <3>2 DEF Create
    <2>4. CASE Header(p)
      BY <2>4 DEF Header
    <2>5. CASE Payload(p)
      BY <2>5 DEF Payload
    <2>6. CASE Rename(p)
      BY <2>6 DEF Rename
    <2>7. CASE Cleanup(p)
      BY <2>7 DEF Cleanup
    <2>8. CASE WriteFails(p)
      BY <2>8 DEF WriteFails
    <2>9. CASE RenameFails(p)
      BY <2>9 DEF RenameFails
    <2> QED  BY <2>1, <2>2, <2>3, <2>4, <2>5, <2>6, <2>7, <2>8, <2>9
  <1> QED  BY <1>1, <1>4, LocalsOfOne

LEMMA LocalsTrim ==
    ASSUME Types, Locals, NEW p \in Proc,
           \/ Scan(p) \/ Evict(p) \/ Trimmed(p) \/ Unlock(p) \/ ScanFails(p) \/ EvictFails(p)
           \/ Crash(p) \/ Exit(p)
    PROVE  Locals'
  <1>1. \A q \in Proc \ {p} : proc'[q] = proc[q]
    BY DEF Types, Scan, Evict, Trimmed, Unlock, ScanFails, EvictFails, Crash, Exit, Go, Return
  <1>2. proc[p] \in ProcType /\ Local(p)
    BY DEF Types, Locals
  <1>3. None \notin Proc
    BY CacheAssumption
  <1>4. /\ \/ lock' = lock
           \/ lock = None /\ lock' = p
           \/ lock = p /\ lock' = None
        /\ Local(p)'
    <2> USE <1>2, <1>3, Sets DEF Types, ProcType, Local, At, Go, Return, Fresh
    <2>1. CASE Scan(p)
      BY <2>1 DEF Scan
    <2>2. CASE Evict(p)
      BY <2>2 DEF Evict
    <2>3. CASE Trimmed(p)
      BY <2>3 DEF Trimmed
    <2>4. CASE Unlock(p)
      BY <2>4 DEF Unlock
    <2>5. CASE ScanFails(p)
      BY <2>5 DEF ScanFails
    <2>6. CASE EvictFails(p)
      <3>1. PICK x \in proc[p].seen : proc' = [proc EXCEPT ![p].seen = @ \ {x}, ![p].clean = FALSE]
        BY <2>6 DEF EvictFails
      <3>2. /\ proc'[p].at = proc[p].at /\ proc'[p].fd = proc[p].fd
            /\ proc'[p].key = proc[p].key /\ proc'[p].seq = proc[p].seq
        BY <3>1
      <3> QED  BY <2>6, <3>2 DEF EvictFails
    <2>7. CASE Crash(p)
      BY <2>7 DEF Crash
    <2>8. CASE Exit(p)
      BY <2>8 DEF Exit
    <2> QED  BY <2>1, <2>2, <2>3, <2>4, <2>5, <2>6, <2>7, <2>8
  <1> QED  BY <1>1, <1>4, LocalsOfOne

LEMMA LocalsStep ==
    ASSUME Types, Locals, [Next]_vars
    PROVE  Locals'
  <1>1. CASE UNCHANGED vars \/ Tick \/ \E k \in Key : Damage(k)
    BY <1>1 DEF vars, Tick, Damage, Locals, Local
  <1>2. CASE \E p \in Proc : Step(p)
    BY <1>2, LocalsLookup, LocalsStore, LocalsTrim DEF Step
  <1> QED  BY <1>1, <1>2, LocalsLookup, LocalsStore, LocalsTrim DEF Next

-----------------------------------------------------------------------------
(* Files.                                                                   *)

\* A name loses its file or keeps it, what is still in use keeps its content,
\* and the process that steps has no file open after it.
LEMMA FilesKept ==
    ASSUME FilesInv, Types', Locals', NEW p \in Proc,
           \A q \in Proc \ {p} : proc'[q] = proc[q],
           \A n \in Names : dir'[n] \in {dir[n], 0},
           \A i \in Ino : i \notin Free' => file'[i].key = file[i].key /\ file'[i].body = file[i].body,
           proc'[p].at \notin {"read", "rename"} \union Writing
    PROVE  FilesInv'
  <1> USE DEF FilesInv
  <1>1. OneName'
    BY DEF OneName
  <1>2. \A q \in Proc \ {p} : Temp(q)' = Temp(q)
    BY DEF Temp
  <1>3. \A n \in Names : dir'[n] # 0 => /\ dir'[n] = dir[n]
                                        /\ dir[n] \in Ino
                                        /\ file'[dir[n]].key = file[dir[n]].key
                                        /\ file'[dir[n]].body = file[dir[n]].body
    BY DEF Types, Free
  <1>4. proc'[p].fd = 0
    BY DEF Locals, Local
  <1>5. WriterAlone'
    <2> SUFFICES ASSUME NEW q \in Proc, proc'[q].at \in Writing
                 PROVE  /\ file'[proc'[q].fd].key = proc'[q].key
                        /\ dir'[Temp(q)'] \in {0, proc'[q].fd}
                        /\ \A n \in Names : dir'[n] = proc'[q].fd => n = Temp(q)'
                        /\ \A r \in Proc \ {q} : proc'[r].fd # proc'[q].fd
      BY DEF WriterAlone
    <2>1. q # p /\ proc'[q] = proc[q] /\ Temp(q)' = Temp(q)
      BY <1>2
    <2>2. proc[q].fd \in Ino /\ proc[q].fd # 0
      BY <2>1 DEF Types, ProcType, Locals, Local
    <2>3. proc[q].fd \notin Free'
      BY <2>1, <2>2 DEF Free
    <2>4. Temp(q) \in Names
      BY <2>1, InCall DEF Writing, Storing, Holding
    <2> QED  BY <2>1, <2>2, <2>3, <2>4, <1>3, <1>4 DEF WriterAlone
  <1>6. RenamedWhole'
    <2> SUFFICES ASSUME NEW q \in Proc, proc'[q].at = "rename", dir'[Temp(q)'] # 0
                 PROVE  /\ file'[dir'[Temp(q)']].body = "whole"
                        /\ file'[dir'[Temp(q)']].key = proc'[q].key
      BY DEF RenamedWhole, At
    <2>1. q # p /\ proc'[q] = proc[q] /\ Temp(q)' = Temp(q)
      BY <1>2
    <2>2. Temp(q) \in Names
      BY <2>1, InCall DEF Storing, Holding
    <2> QED  BY <2>1, <2>2, <1>3 DEF RenamedWhole, At
  <1>7. ReaderOfEntry'
    <2> SUFFICES ASSUME NEW q \in Proc, proc'[q].at = "read"
                 PROVE  /\ file'[proc'[q].fd].key = proc'[q].key
                        /\ \A n \in Names : dir'[n] = proc'[q].fd => \E k \in Key : n = Entry(k)
      BY DEF ReaderOfEntry, At, Entry
    <2>1. q # p /\ proc'[q] = proc[q]
      OBVIOUS
    <2>2. proc[q].fd \in Ino /\ proc[q].fd # 0
      BY <2>1 DEF Types, ProcType, Locals, Local
    <2>3. proc[q].fd \notin Free'
      BY <2>1, <2>2 DEF Free
    <2> QED  BY <2>1, <2>2, <2>3, <1>3 DEF ReaderOfEntry, At
  <1>8. NoTornEntry'
    <2>1. \A k \in Key : Entry(k) \in Names /\ Entry(k)' = Entry(k)
      BY NameFacts DEF Entry
    <2> QED  BY <2>1, <1>3 DEF NoTornEntry
  <1> QED  BY <1>1, <1>5, <1>6, <1>7, <1>8

\* The steps that only pass on, return, or take a name away.
LEMMA FilesOfMost ==
    ASSUME FilesInv, Types', Locals', NEW p \in Proc,
           \/ \E k \in Key : Start(p, k)
           \/ Stat(p) \/ Read(p) \/ TouchLock(p) \/ Touch(p) \/ Lock(p) \/ UnlinkTemp(p)
           \/ Cleanup(p) \/ Scan(p) \/ Evict(p) \/ Trimmed(p) \/ Unlock(p)
           \/ WriteFails(p) \/ ScanFails(p) \/ EvictFails(p) \/ RenameFails(p) \/ Crash(p) \/ Exit(p)
    PROVE  FilesInv'
  <1> USE Sets DEF FilesInv, Types
  <1>1. \A q \in Proc \ {p} : proc'[q] = proc[q]
    BY DEF Start, Stat, Read, TouchLock, Touch, Lock, UnlinkTemp, Cleanup, Scan, Evict, Trimmed,
           Unlock, WriteFails, ScanFails, EvictFails, RenameFails, Crash, Exit, TryLock, Go, Miss, Return
  <1>2. proc'[p].at \notin {"read", "rename", "header", "payload"}
    <2> USE DEF Go, Miss, Return, Fresh, At, ProcType
    <2>1. CASE \E k \in Key : Start(p, k)
      <3>1. PICK k \in Key : Start(p, k)
        BY <2>1
      <3> QED  BY <3>1 DEF Start
    <2>2. CASE Evict(p) \/ EvictFails(p)
      <3>1. proc'[p].at = "evict"
        <4>1. \A x : /\ [proc EXCEPT ![p].seen = @ \ {x}, ![p].clean = FALSE][p].at = proc[p].at
                     /\ [proc EXCEPT ![p].seen = @ \ {x}, ![p].total = @ - x.size][p].at = proc[p].at
          OBVIOUS
        <4>2. CASE Evict(p)
          <5>1. PICK x \in proc[p].seen : Evict(p)!(x)
            BY <4>2 DEF Evict
          <5> QED  BY <5>1, <4>1
        <4>3. CASE EvictFails(p)
          <5>1. PICK x \in proc[p].seen : EvictFails(p)!(x)
            BY <4>3 DEF EvictFails
          <5> QED  BY <5>1, <4>1
        <4> QED  BY <2>2, <4>2, <4>3
      <3> QED  BY <3>1
    <2>3. CASE Stat(p) \/ Read(p) \/ TouchLock(p) \/ Touch(p) \/ Lock(p)
      <3>1. CASE Stat(p) \/ Read(p) \/ Touch(p)
        BY <3>1 DEF Stat, Read, Touch
      <3>2. CASE TouchLock(p)
        BY <3>2 DEF TouchLock, TryLock
      <3>3. CASE Lock(p)
        BY <3>3 DEF Lock, TryLock
      <3> QED  BY <2>3, <3>1, <3>2, <3>3
    <2>4. CASE UnlinkTemp(p) \/ Cleanup(p) \/ Trimmed(p) \/ Unlock(p)
      BY <2>4 DEF UnlinkTemp, Cleanup, Trimmed, Unlock
    <2>6. CASE Scan(p)
      BY <2>6 DEF Scan
    <2>5. CASE WriteFails(p) \/ ScanFails(p) \/ RenameFails(p) \/ Crash(p) \/ Exit(p)
      BY <2>5 DEF WriteFails, ScanFails, RenameFails, Crash, Exit
    <2> QED  BY <2>1, <2>2, <2>3, <2>4, <2>5, <2>6
  <1>3. \A n \in Names : dir'[n] \in {dir[n], 0}
    BY DEF Start, Stat, Read, TouchLock, Touch, Lock, UnlinkTemp, Cleanup, Scan, Evict, Trimmed,
           Unlock, WriteFails, ScanFails, EvictFails, RenameFails, Crash, Exit, Unlinked
  <1>4. \A i \in Ino : i \notin Free' => file'[i].key = file[i].key /\ file'[i].body = file[i].body
    <2>1. CASE Reclaim
      BY <2>1 DEF Reclaim
    <2>2. CASE UNCHANGED file
      BY <2>2
    <2>3. CASE Touch(p)
      BY <2>3 DEF Touch, FileType
    <2> QED
      BY <2>1, <2>2, <2>3 DEF Start, Stat, Read, TouchLock, Lock, UnlinkTemp, Cleanup, Scan, Evict,
           Trimmed, Unlock, WriteFails, ScanFails, EvictFails, RenameFails, Crash, Exit
  <1> QED  BY <1>1, <1>2, <1>3, <1>4, FilesKept

\* A reader opens an entry, which is no file anybody writes.
LEMMA FilesOpen ==
    ASSUME FilesInv, Types', Locals', NEW p \in Proc, Open(p)
    PROVE  FilesInv'
  <1> USE Sets DEF FilesInv
  <1> DEFINE i == dir[Entry(proc[p].key)]
  <1>1. \A q \in Proc \ {p} : proc'[q] = proc[q]
    BY DEF Types, Open, Miss
  <1>2. CASE i = 0
    <2>1. proc'[p].at = "lock" /\ UNCHANGED <<dir, file>>
      BY <1>2 DEF Open, Miss, Types, ProcType
    <2> QED  BY <1>1, <2>1, FilesKept
  <1>3. CASE i # 0
    <2>1. /\ proc'[p].at = "read" /\ proc'[p].fd = i /\ proc'[p].key = proc[p].key
          /\ UNCHANGED <<dir, file>>
      BY <1>3 DEF Open, Types, ProcType
    <2>2. \A q \in Proc \ {p} : Temp(q)' = Temp(q)
      BY <1>1 DEF Temp
    <2>3. OneName' /\ NoTornEntry'
      BY <2>1 DEF OneName, NoTornEntry, Entry
    <2>4. RenamedWhole'
      BY <1>1, <2>1, <2>2 DEF RenamedWhole, At
    <2>5. Entry(proc[p].key) \in Names /\ proc[p].key \in Key
      BY InCall DEF Open, At
    <2>6. ReaderOfEntry'
      <3>1. file[i].key = proc[p].key
        BY <1>3, <2>5 DEF NoTornEntry
      <3> QED  BY <1>1, <1>3, <2>1, <2>5, <3>1 DEF ReaderOfEntry, OneName, At, Entry
    <2>7. \A q \in Proc \ {p} : proc[q].at \in Writing => proc[q].fd # i
      <3> SUFFICES ASSUME NEW q \in Proc \ {p}, proc[q].at \in Writing, proc[q].fd = i PROVE FALSE
        OBVIOUS
      <3>1. Entry(proc[p].key) = Temp(q)
        BY <2>5 DEF WriterAlone
      <3> QED  BY <3>1, <2>5, InCall
    <2>8. WriterAlone'
      BY <1>1, <2>1, <2>2, <2>7 DEF WriterAlone
    <2> QED  BY <2>3, <2>4, <2>6, <2>8
  <1> QED  BY <1>2, <1>3

\* The process under the lock is the only one that writes, renames or trims.
LEMMA HolderAlone ==
    ASSUME Locals, NEW p \in Proc, proc[p].at \in Holding
    PROVE  \A q \in Proc \ {p} : proc[q].at \notin Holding
  BY DEF Locals, Local

\* The temp gets an empty file: a new one, or the one it had.
LEMMA FilesCreate ==
    ASSUME FilesInv, Types', Locals', NEW p \in Proc, Create(p)
    PROVE  FilesInv'
  <1> USE DEF FilesInv
  <1>1. proc[p].at = "create" /\ proc[p].key \in Key /\ Temp(p) \in Names /\ dir[Temp(p)] \in Ino \union {0}
          /\ \A k \in Key : Temp(p) # Entry(k) /\ Entry(k) \in Names
    BY InCall, NameFacts DEF Create, At, Storing, Holding
  <1>2. \A q \in Proc \ {p} : proc[q].at \notin Holding
    BY <1>1, HolderAlone DEF Holding
  <1>3. PICK i \in Ino :
           /\ dir' = [dir EXCEPT ![Temp(p)] = i]
           /\ file' = [file EXCEPT ![i] = Blank(proc[p].key)]
           /\ proc' = [proc EXCEPT ![p].at = "header", ![p].fd = i]
           /\ \A n \in Names \ {Temp(p)} : dir[n] # i
           /\ \A q \in Proc : proc[q].fd # i
    <2>1. CASE dir[Temp(p)] = 0
      BY <2>1, <1>1 DEF Create, Free
    <2>2. CASE dir[Temp(p)] # 0
      <3>1. /\ dir' = dir
            /\ file' = [file EXCEPT ![dir[Temp(p)]] = Blank(proc[p].key)]
            /\ proc' = [proc EXCEPT ![p].at = "header", ![p].fd = dir[Temp(p)]]
        BY <2>2 DEF Create
      <3>2. dir = [dir EXCEPT ![Temp(p)] = dir[Temp(p)]]
        BY <1>1 DEF Types
      <3>3. \A n \in Names \ {Temp(p)} : dir[n] # dir[Temp(p)]
        BY <1>1, <2>2 DEF OneName
      <3>4. ASSUME NEW q \in Proc PROVE proc[q].fd # dir[Temp(p)]
        <4>1. CASE proc[q].at = "read"
          BY <4>1, <1>1 DEF ReaderOfEntry, At
        <4>2. CASE proc[q].at # "read"
          BY <4>2, <1>1, <1>2, <2>2, Sets DEF Locals, Local
        <4> QED  BY <4>1, <4>2
      <3> QED  BY <1>1, <2>2, <3>1, <3>2, <3>3, <3>4
    <2> QED  BY <2>1, <2>2
  <1>4. i # 0
    BY CacheAssumption
  <1>5. /\ \A q \in Proc \ {p} : proc'[q] = proc[q] /\ Temp(q)' = Temp(q)
        /\ proc'[p].at = "header" /\ proc'[p].fd = i /\ proc'[p].key = proc[p].key
        /\ Temp(p)' = Temp(p)
    BY <1>3 DEF Types, ProcType, Temp
  <1>6. /\ dir'[Temp(p)] = i
        /\ \A n \in Names \ {Temp(p)} : dir'[n] = dir[n] /\ dir'[n] # i
        /\ file'[i].key = proc[p].key
        /\ \A j \in Ino \ {i} : file'[j] = file[j]
    BY <1>1, <1>3 DEF Types, Blank
  <1>7. OneName'
    BY <1>6 DEF OneName
  <1>8. WriterAlone'
    <2> SUFFICES ASSUME NEW q \in Proc, proc'[q].at \in Writing
                 PROVE  /\ file'[proc'[q].fd].key = proc'[q].key
                        /\ dir'[Temp(q)'] \in {0, proc'[q].fd}
                        /\ \A n \in Names : dir'[n] = proc'[q].fd => n = Temp(q)'
                        /\ \A r \in Proc \ {q} : proc'[r].fd # proc'[q].fd
      BY DEF WriterAlone
    <2>1. q = p
      BY <1>2, <1>5, Sets
    <2> QED  BY <2>1, <1>3, <1>5, <1>6
  <1>9. RenamedWhole'
    BY <1>2, <1>5, Sets DEF RenamedWhole, At
  <1>10. ReaderOfEntry'
    <2> SUFFICES ASSUME NEW q \in Proc, proc'[q].at = "read"
                 PROVE  /\ file'[proc'[q].fd].key = proc'[q].key
                        /\ \A n \in Names : dir'[n] = proc'[q].fd => \E k \in Key : n = Entry(k)
      BY DEF ReaderOfEntry, At, Entry
    <2>1. proc'[q] = proc[q] /\ proc[q].fd # i
      BY <1>3, <1>5
    <2>2. proc[q].fd \in Ino
      BY <2>1 DEF Types, ProcType, Locals, Local
    <2>3. \A n \in Names : dir'[n] = proc[q].fd => dir'[n] = dir[n]
      BY <1>6, <2>1
    <2> QED  BY <1>6, <2>1, <2>2, <2>3 DEF ReaderOfEntry, At
  <1>11. NoTornEntry'
    <2>1. \A k \in Key : dir'[Entry(k)] = dir[Entry(k)] /\ dir'[Entry(k)] # i
      BY <1>1, <1>6
    <2> QED  BY <1>1, <1>6, <2>1 DEF NoTornEntry, Entry, Types
  <1> QED  BY <1>7, <1>8, <1>9, <1>10, <1>11

\* The writer's file gets its bytes.
LEMMA FilesWrite ==
    ASSUME FilesInv, Types', Locals', NEW p \in Proc, Header(p) \/ Payload(p)
    PROVE  FilesInv'
  <1> USE DEF FilesInv
  <1> DEFINE i == proc[p].fd
  <1>1. proc[p].at \in Writing /\ proc[p].key \in Key /\ Temp(p) \in Names
          /\ \A k \in Key : Temp(p) # Entry(k) /\ Entry(k) \in Names
    BY InCall, NameFacts DEF Header, Payload, At, Storing, Holding, Writing
  <1>2. \A q \in Proc \ {p} : proc[q].at \notin Holding
    BY <1>1, HolderAlone DEF Holding
  <1>3. i \in Ino /\ i # 0
    BY <1>1 DEF Locals, Local, Types, ProcType
  <1>4. /\ dir' = dir
        /\ \A q \in Proc \ {p} : proc'[q] = proc[q] /\ Temp(q)' = Temp(q)
        /\ proc'[p].key = proc[p].key /\ Temp(p)' = Temp(p)
        /\ \A j \in Ino \ {i} : file'[j] = file[j]
        /\ file'[i].key = file[i].key
    <2>1. proc \in [Proc -> ProcType] /\ file \in [Ino -> FileType]
      BY DEF Types
    <2>2. CASE Header(p)
      BY <1>3, <2>1, <2>2 DEF Header, Go, ProcType, FileType, Temp
    <2>3. CASE Payload(p)
      BY <1>3, <2>1, <2>3 DEF Payload, ProcType, FileType, Temp
    <2> QED  BY <2>2, <2>3
  <1>5. \/ proc'[p].at = "payload" /\ proc'[p].fd = i
        \/ proc'[p].at = "rename" /\ proc'[p].fd = 0 /\ file'[i].body = "whole"
    BY <1>3 DEF Header, Payload, Go, Types, ProcType, FileType
  <1>6. OneName'
    BY <1>4 DEF OneName
  <1>7. WriterAlone'
    BY <1>1, <1>2, <1>4, <1>5, Sets DEF WriterAlone
  <1>8. RenamedWhole'
    BY <1>1, <1>2, <1>4, <1>5, Sets DEF RenamedWhole, WriterAlone, At
  <1>9. ReaderOfEntry'
    <2>1. \A q \in Proc : proc[q].at = "read" => proc[q].fd \in Ino
      BY DEF Types, ProcType, Locals, Local
    <2>2. \A j \in Ino : file'[j].key = file[j].key
      BY <1>4
    <2>3. \A q \in Proc : proc'[q].at = "read" => q # p
      BY <1>5
    <2> QED  BY <1>4, <2>1, <2>2, <2>3 DEF ReaderOfEntry, At, Entry
  <1>10. NoTornEntry'
    <2>1. \A k \in Key : dir[Entry(k)] # i
      BY <1>1 DEF WriterAlone
    <2> QED  BY <1>1, <1>4, <2>1 DEF NoTornEntry, Entry, Types
  <1> QED  BY <1>6, <1>7, <1>8, <1>9, <1>10

\* The temp's file, which is whole, becomes the entry's.
LEMMA FilesRename ==
    ASSUME FilesInv, Types', Locals', NEW p \in Proc, Rename(p)
    PROVE  FilesInv'
  <1> USE DEF FilesInv
  <1>1. proc[p].at = "rename" /\ proc[p].key \in Key /\ Temp(p) \in Names /\ dir[Temp(p)] \in Ino \union {0}
          /\ \A k \in Key : Temp(p) # Entry(k) /\ Entry(k) \in Names
    BY InCall, NameFacts DEF Rename, At, Storing, Holding
  <1>2. \A q \in Proc \ {p} : proc[q].at \notin Holding
    BY <1>1, HolderAlone DEF Holding
  <1>3. /\ \A q \in Proc \ {p} : proc'[q] = proc[q]
        /\ proc'[p].at \in {"scan", "cleanup"}
    BY DEF Rename, Go, Types, ProcType
  <1>4. \A j \in Ino : j \notin Free' => file'[j] = file[j]
    BY DEF Rename, Reclaim
  <1>5. CASE dir[Temp(p)] = 0
    BY <1>3, <1>4, <1>5, FilesKept, Sets DEF Rename
  <1>6. CASE dir[Temp(p)] # 0
    <2> DEFINE e == Entry(proc[p].key)
               i == dir[Temp(p)]
    <2>1. dir' = [dir EXCEPT ![e] = i, ![Temp(p)] = 0]
      BY <1>6 DEF Rename
    <2>2. e \in Names /\ e # Temp(p) /\ file[i].key = proc[p].key /\ file[i].body = "whole"
      BY <1>1, <1>6 DEF RenamedWhole, At
    <2>3. /\ dir'[e] = i /\ dir'[Temp(p)] = 0
          /\ \A n \in Names \ {e, Temp(p)} : dir'[n] = dir[n] /\ dir'[n] # i
      BY <1>1, <1>6, <2>1, <2>2 DEF Types, OneName
    <2>4. \A n \in Names : dir'[n] # 0 => /\ dir'[n] \in Ino
                                          /\ file'[dir'[n]] = file[dir'[n]]
      BY <1>4 DEF Types, Free
    <2>5. OneName'
      BY <2>3 DEF OneName
    <2>6. \A q \in Proc : proc'[q].at \notin {"rename", "header", "payload"}
      BY <1>2, <1>3, Sets
    <2>7. WriterAlone' /\ RenamedWhole'
      BY <2>6, Sets DEF WriterAlone, RenamedWhole, At
    <2>8. ReaderOfEntry'
      <3> SUFFICES ASSUME NEW q \in Proc, proc'[q].at = "read"
                   PROVE  /\ file'[proc'[q].fd].key = proc'[q].key
                          /\ \A n \in Names : dir'[n] = proc'[q].fd => \E k \in Key : n = Entry(k)
        BY DEF ReaderOfEntry, At, Entry
      <3>1. proc'[q] = proc[q] /\ proc[q].fd # 0 /\ proc[q].fd \in Ino
        BY <1>3 DEF Types, ProcType, Locals, Local
      <3>2. file'[proc[q].fd] = file[proc[q].fd]
        BY <1>4, <3>1 DEF Free
      <3>3. \A n \in Names : dir'[n] = proc[q].fd => \E k \in Key : n = Entry(k)
        BY <1>1, <2>3, <3>1 DEF ReaderOfEntry, At
      <3> QED  BY <3>1, <3>2, <3>3 DEF ReaderOfEntry, At
    <2>9. NoTornEntry'
      <3> SUFFICES ASSUME NEW k \in Key, dir'[Entry(k)] # 0
                   PROVE  /\ file'[dir'[Entry(k)]].key = k
                          /\ file'[dir'[Entry(k)]].body \notin {"empty", "partial"}
        BY DEF NoTornEntry, Entry
      <3>1. CASE k = proc[p].key
        BY <3>1, <1>1, <2>2, <2>3, <2>4
      <3>2. CASE k # proc[p].key
        <4>1. Entry(k) # e
          BY <3>2, <1>1, NameFacts
        <4> QED  BY <4>1, <1>1, <2>3, <2>4 DEF NoTornEntry
      <3> QED  BY <3>1, <3>2
    <2> QED  BY <2>5, <2>7, <2>8, <2>9
  <1> QED  BY <1>5, <1>6

\* An edit changes an entry, and nothing that is still being written.
LEMMA FilesDamage ==
    ASSUME FilesInv, Types', Locals', NEW k \in Key, Damage(k)
    PROVE  FilesInv'
  <1> USE DEF FilesInv
  <1> DEFINE i == dir[Entry(k)]
  <1>1. i \in Ino /\ Entry(k) \in Names /\ i # 0
    BY NameFacts DEF Damage, Types
  <1>2. UNCHANGED <<dir, proc>> /\ \A q \in Proc : Temp(q)' = Temp(q)
    BY DEF Damage, Temp
  <1>3. PICK body \in {"damaged", "cut", "short"} :
           file' = [file EXCEPT ![i].body = body, ![i].mtime = now]
    BY DEF Damage
  <1>4. /\ \A j \in Ino \ {i} : file'[j] = file[j]
        /\ file'[i].key = file[i].key /\ file'[i].body \notin {"empty", "partial"}
    BY <1>1, <1>3 DEF Types, FileType
  <1>5. \A q \in Proc : proc[q].at \in {"header", "payload", "rename"} =>
            Temp(q) \in Names /\ Temp(q) # Entry(k)
    BY InCall, Sets
  <1>6. OneName' /\ ReaderOfEntry'
    <2>1. \A q \in Proc : proc[q].at = "read" => proc[q].fd \in Ino
      BY DEF Types, ProcType, Locals, Local
    <2>2. \A j \in Ino : file'[j].key = file[j].key
      BY <1>4
    <2> QED  BY <1>2, <2>1, <2>2 DEF OneName, ReaderOfEntry, At, Entry
  <1>7. NoTornEntry'
    BY <1>2, <1>4, NameFacts DEF NoTornEntry, Entry, Types
  <1>8. WriterAlone'
    <2>1. \A q \in Proc : proc[q].at \in Writing => proc[q].fd \in Ino
      BY DEF Types, ProcType, Locals, Local
    <2> QED  BY <1>2, <1>4, <2>1 DEF WriterAlone
  <1>9. RenamedWhole'
    <2>1. \A q \in Proc : proc[q].at = "rename" => dir[Temp(q)] # i
      BY <1>1, <1>5 DEF OneName
    <2> QED  BY <1>2, <1>4, <1>5, <2>1 DEF RenamedWhole, At, Types
  <1> QED  BY <1>6, <1>7, <1>8, <1>9

LEMMA FilesStep ==
    ASSUME FilesInv, [Next]_vars
    PROVE  FilesInv'
  <1>1. Types' /\ Locals'
    BY TypesStep, LocalsStep DEF FilesInv
  <1>2. CASE UNCHANGED vars \/ Tick
    <2>1. UNCHANGED <<dir, file, lock, proc>>
      BY <1>2 DEF vars, Tick
    <2> QED
      BY <1>1, <2>1 DEF FilesInv, OneName, WriterAlone, RenamedWhole, ReaderOfEntry, NoTornEntry, At, Temp,
                        Entry
  <1>3. CASE \E p \in Proc : Step(p)
    BY <1>1, <1>3, FilesOfMost, FilesOpen, FilesCreate, FilesWrite, FilesRename DEF Step
  <1> QED  BY <1>1, <1>2, <1>3, FilesOfMost, FilesDamage DEF Next

-----------------------------------------------------------------------------
(* What a step does to the entries.                                         *)

BodyKept(k) ==
    /\ dir'[Entry(k)] = dir[Entry(k)]
    /\ dir[Entry(k)] # 0 => file'[dir[Entry(k)]].body = file[dir[Entry(k)]].body

EntryKept(k) ==
    /\ BodyKept(k)
    /\ dir[Entry(k)] # 0 => file'[dir[Entry(k)]].mtime = file[dir[Entry(k)]].mtime

\* An entry that keeps its name and its bytes counts as before.
LEMMA KeptBytes ==
    ASSUME NEW k \in Key, BodyKept(k)
    PROVE  (k \in Complete' <=> k \in Complete) /\ Bytes'[k] = Bytes[k]
  BY DEF BodyKept, Complete, Recognised, Bytes, Entry

LEMMA SameTotal ==
    ASSUME \A k \in Key : BodyKept(k)
    PROVE  Complete' = Complete /\ Bytes' = Bytes /\ Total' = Total
  <1>1. \A k \in Key : (k \in Complete' <=> k \in Complete) /\ Bytes'[k] = Bytes[k]
    BY KeptBytes
  <1>2. Complete' \in SUBSET Key /\ Complete \in SUBSET Key
    BY DEF Complete, Entry
  <1>3. Complete' = Complete
    BY <1>1, <1>2
  <1>4. Bytes' = Bytes
    BY <1>1 DEF Bytes
  <1> QED  BY <1>3, <1>4 DEF Total

LEMMA KeptEntries ==
    ASSUME Types, NEW K \in SUBSET Key, \A k \in Key \ K : EntryKept(k)
    PROVE  /\ Complete' \ K = Complete \ K
           /\ \A x \in Candidates : x.name \notin K => mc_same(x)' = mc_same(x)
  <1>1. \A k \in Key \ K : k \in Complete' <=> k \in Complete
    BY KeptBytes DEF EntryKept
  <1>2. Complete' \in SUBSET Key /\ Complete \in SUBSET Key
    BY DEF Complete, Entry
  <1>3. ASSUME NEW x \in Candidates, x.name \notin K
        PROVE  mc_same(x)' = mc_same(x)
    <2>1. x.name \in Key /\ x.ino \in Ino /\ x.ino # 0
      BY CacheAssumption DEF Candidates
    <2>2. dir'[Entry(x.name)] = dir[Entry(x.name)]
      BY <1>3, <2>1 DEF EntryKept, BodyKept
    <2>4. Bytes'[x.name] = Bytes[x.name]
      BY <1>3, <2>1, KeptBytes DEF EntryKept
    <2>3. CASE dir[Entry(x.name)] = x.ino
      <3>1. file'[x.ino].body = file[x.ino].body /\ file'[x.ino].mtime = file[x.ino].mtime
        BY <1>3, <2>1, <2>3 DEF EntryKept, BodyKept
      <3> QED  BY <2>2, <2>3, <2>4, <3>1 DEF mc_same, Recognised, Entry
    <2>5. CASE dir[Entry(x.name)] # x.ino
      BY <2>2, <2>5 DEF mc_same, Entry
    <2> QED  BY <2>3, <2>5
  <1> QED  BY <1>1, <1>2, <1>3

\* Reclaiming leaves the entries that keep their names alone.
LEMMA ReclaimKeeps ==
    ASSUME Types, Reclaim, NEW k \in Key, dir'[Entry(k)] = dir[Entry(k)]
    PROVE  EntryKept(k)
  <1>1. Entry(k) \in Names
    BY NameFacts
  <1>2. dir[Entry(k)] # 0 => dir[Entry(k)] \in Ino \ Free'
    BY <1>1 DEF Types, Free
  <1> QED  BY <1>2 DEF Reclaim, EntryKept, BodyKept

\* Every step but these four leaves all entries as they are.
LEMMA MostKeepEntries ==
    ASSUME FilesInv, NEW p \in Proc,
           \/ \E k \in Key : Start(p, k)
           \/ Step(p) /\ ~Touch(p) /\ ~Rename(p) /\ ~Evict(p)
           \/ WriteFails(p) \/ RenameFails(p) \/ ScanFails(p) \/ EvictFails(p) \/ Crash(p) \/ Exit(p)
    PROVE  \A k \in Key : EntryKept(k)
  <1> USE DEF FilesInv
  <1>1. CASE UNCHANGED <<dir, file>>
    BY <1>1 DEF EntryKept, BodyKept
  <1>2. CASE UNCHANGED dir /\ Reclaim
    BY <1>2, ReclaimKeeps
  <1>3. CASE UnlinkTemp(p) \/ Cleanup(p) \/ WriteFails(p)
    <2>1. proc[p].at # "idle" /\ proc[p].at \in Storing
      BY <1>3, Sets DEF UnlinkTemp, Cleanup, WriteFails, At
    <2>2. Reclaim /\ \A k \in Key : dir'[Entry(k)] = dir[Entry(k)]
      BY <1>3, <2>1, InCall, NameFacts DEF UnlinkTemp, Cleanup, WriteFails, Unlinked, Types
    <2> QED  BY <2>2, ReclaimKeeps
  <1>4. CASE Create(p)
    <2>1. proc[p].at = "create" /\ Temp(p) \in Names /\ dir[Temp(p)] \in Ino \union {0}
            /\ \A k \in Key : Temp(p) # Entry(k) /\ Entry(k) \in Names
      BY <1>4, InCall, NameFacts, Sets DEF Create, At
    <2>2. PICK i \in Ino : /\ \A k \in Key : dir'[Entry(k)] = dir[Entry(k)] /\ dir[Entry(k)] # i
                           /\ \A j \in Ino \ {i} : file'[j] = file[j]
      <3>1. CASE dir[Temp(p)] = 0
        BY <1>4, <2>1, <3>1 DEF Create, Free, Types
      <3>2. CASE dir[Temp(p)] # 0
        <4>1. /\ dir' = dir
              /\ file' = [file EXCEPT ![dir[Temp(p)]] = Blank(proc[p].key)]
          BY <1>4, <3>2 DEF Create
        <4>2. \A k \in Key : dir[Entry(k)] # dir[Temp(p)]
          BY <2>1, <3>2 DEF OneName
        <4> QED  BY <2>1, <3>2, <4>1, <4>2 DEF Types
      <3> QED  BY <3>1, <3>2
    <2> QED  BY <2>1, <2>2 DEF EntryKept, BodyKept, Types
  <1>5. CASE Header(p) \/ Payload(p)
    <2>1. proc[p].at \in Writing /\ Temp(p) \in Names
            /\ \A k \in Key : Temp(p) # Entry(k) /\ Entry(k) \in Names
      BY <1>5, InCall, NameFacts, Sets DEF Header, Payload, At
    <2>2. \A k \in Key : dir[Entry(k)] # proc[p].fd
      BY <2>1 DEF WriterAlone
    <2>3. dir' = dir /\ \A j \in Ino \ {proc[p].fd} : file'[j] = file[j]
      BY <1>5 DEF Header, Payload, Types
    <2> QED  BY <2>1, <2>2, <2>3 DEF EntryKept, BodyKept, Types
  <1> QED
    BY <1>1, <1>2, <1>3, <1>4, <1>5 DEF Step, Start, Stat, Open, Read, TouchLock, Lock, Scan, Trimmed,
       Unlock, RenameFails, ScanFails, EvictFails, Crash, Exit

LEMMA NextTotal == Total' \in Nat
  <1>1. Complete' \in SUBSET Key
    BY DEF Complete
  <1>2. IsFiniteSet(Complete') /\ \A k \in Complete' : Bytes'[k] \in Nat
    BY <1>1, FS_Subset, CacheAssumption, BytesFacts
  <1> QED  BY <1>2, SumIsNatural DEF Total

\* The total when every entry but one keeps what it counts for.
LEMMA TotalOf ==
    ASSUME Types, NEW k \in Key, \A j \in Key \ {k} : EntryKept(j)
    PROVE  /\ k \in Complete /\ k \in Complete' => Total' = Total - Bytes[k] + Bytes'[k]
           /\ k \in Complete /\ k \notin Complete' => Total' = Total - Bytes[k]
           /\ k \notin Complete /\ k \in Complete' => Total' = Total + Bytes'[k]
           /\ k \notin Complete /\ k \notin Complete' => Total' = Total
  <1> DEFINE R == Complete \ {k}
             rest == SumFunctionOnSet(Bytes, R)
  <1>1. /\ Complete \in SUBSET Key /\ IsFiniteSet(Complete) /\ IsFiniteSet(R)
        /\ \A j \in Key : Bytes[j] \in Nat /\ Bytes'[j] \in Nat
    BY CompleteFacts, BytesFacts, FS_RemoveElement
  <1>2. Complete' \in SUBSET Key /\ IsFiniteSet(Complete') /\ Complete' \ {k} = R
    <2>1. Complete' \in SUBSET Key
      BY DEF Complete, Entry
    <2>2. Complete' \ {k} = Complete \ {k}
      BY KeptEntries
    <2> QED  BY <2>1, <2>2, FS_Subset, CacheAssumption
  <1>3. SumFunctionOnSet(Bytes', R) = rest
    <2>1. \A j \in R : Bytes[j] = Bytes'[j] /\ Bytes[j] \in Nat
      BY <1>1, KeptBytes DEF EntryKept
    <2> QED  BY <1>1, <2>1, SumSame
  <1>4. rest \in Nat
    BY <1>1, SumIsNatural
  <1>5. Total = IF k \in Complete THEN Bytes[k] + rest ELSE rest
    <2>1. CASE k \in Complete
      BY <1>1, <2>1, SumRemove DEF Total
    <2>2. CASE k \notin Complete
      <3>1. R = Complete
        BY <2>2
      <3> QED  BY <2>2, <3>1 DEF Total
    <2> QED  BY <2>1, <2>2
  <1>6. Total' = IF k \in Complete' THEN Bytes'[k] + rest ELSE rest
    <2>1. CASE k \in Complete'
      <3>1. SumFunctionOnSet(Bytes', Complete')
              = Bytes'[k] + SumFunctionOnSet(Bytes', Complete' \ {k})
        BY <1>1, <1>2, <2>1, SumRemove
      <3> QED  BY <1>2, <1>3, <2>1, <3>1 DEF Total
    <2>2. CASE k \notin Complete'
      <3>1. Complete' = R
        BY <1>2, <2>2
      <3> QED  BY <1>3, <2>2, <3>1 DEF Total
    <2> QED  BY <2>1, <2>2
  <1> HIDE DEF rest
  <1> QED  BY <1>1, <1>4, <1>5, <1>6

\* A victim that is still the file that was listed goes, and nothing else does;
\* one that is not stays.
LEMMA EvictEffect ==
    ASSUME FilesInv, Types', NEW p \in Proc, NEW x \in proc[p].seen, Evict(p)!(x)
    PROVE  /\ x \in Candidates
           /\ mc_same(x) => /\ \A k \in Key \ {x.name} : EntryKept(k)
                            /\ x.name \in Complete /\ x.name \notin Complete'
                            /\ Total' = Total - x.size
           /\ ~mc_same(x) => (\A k \in Key : EntryKept(k)) /\ Complete' = Complete /\ Total' = Total
  <1> USE DEF FilesInv
  <1>1. x \in Candidates /\ x.name \in Key /\ x.ino \in Ino /\ x.ino # 0 /\ Entry(x.name) \in Names
    <2>1. proc[p].seen \in SUBSET Candidates
      BY DEF Types, ProcType
    <2> QED  BY <2>1, NameFacts, CacheAssumption DEF Candidates
  <1>2. Reclaim /\ x \in proc[p].seen
    OBVIOUS
  <1>3. CASE mc_same(x)
    <2>1. dir' = [dir EXCEPT ![Entry(x.name)] = 0]
      BY <1>3 DEF Unlinked
    <2>2. \A k \in Key \ {x.name} : dir'[Entry(k)] = dir[Entry(k)]
      BY <1>1, <2>1, NameFacts DEF Types
    <2>3. \A k \in Key \ {x.name} : EntryKept(k)
      BY <1>2, <2>2, ReclaimKeeps
    <2>4. x.name \in Complete
      BY <1>1, <1>3 DEF mc_same, Complete
    <2>5. dir'[Entry(x.name)] = 0
      BY <1>1, <2>1 DEF Types
    <2>6. x.name \notin Complete'
      BY <2>5 DEF Complete, Entry
    <2>7. Bytes[x.name] = x.size
      BY <1>3 DEF mc_same
    <2> QED  BY <1>1, <1>3, <2>3, <2>4, <2>6, <2>7, TotalOf
  <1>4. CASE ~mc_same(x)
    <2>1. dir' = dir
      BY <1>4
    <2>2. \A k \in Key : EntryKept(k)
      BY <1>2, <2>1, ReclaimKeeps
    <2>3. Complete' = Complete /\ Total' = Total
      BY <2>2, SameTotal DEF EntryKept
    <2> QED  BY <1>1, <1>4, <2>2, <2>3
  <1> QED  BY <1>1, <1>3, <1>4

\* An edit leaves the other entries alone and never completes one.
LEMMA DamageEffect ==
    ASSUME FilesInv, Types', NEW k \in Key, Damage(k)
    PROVE  /\ \A j \in Key \ {k} : EntryKept(j)
           /\ k \in Complete' => k \in Complete /\ Bytes'[k] <= Bytes[k]
           /\ Total' <= Total
  <1> USE DEF FilesInv
  <1> DEFINE i == dir[Entry(k)]
  <1>1. i \in Ino /\ i # 0 /\ Entry(k) \in Names /\ dir' = dir
    BY NameFacts DEF Damage, Types
  <1>2. PICK body \in {"damaged", "cut", "short"} :
           /\ file[i].body = "cut" => body = "cut"
           /\ file[i].body = "short" => body \in {"short", "cut"}
           /\ file' = [file EXCEPT ![i].body = body, ![i].mtime = now]
    BY DEF Damage
  <1>3. \A j \in Key \ {k} : dir[Entry(j)] # i /\ Entry(j) \in Names
    BY <1>1, NameFacts DEF OneName
  <1>4. \A j \in Key \ {k} : EntryKept(j)
    BY <1>1, <1>2, <1>3 DEF EntryKept, BodyKept, Types
  <1>5. k \in Complete' => k \in Complete
    <2> SUFFICES ASSUME k \in Complete' PROVE Recognised(i)
      BY <1>1 DEF Complete
    <2>1. file'[i].body \in {"whole", "damaged", "short"}
      BY <1>1 DEF Complete, Recognised, Entry
    <2>2. file[i].body # "cut"
      BY <1>1, <1>2, <2>1 DEF Types, FileType
    <2>3. file[i].body \in {"whole", "damaged", "short", "cut"}
      BY <1>1 DEF NoTornEntry, Types, FileType, Bodies
    <2> QED  BY <2>2, <2>3 DEF Recognised
  <1>6. k \in Complete' => Bytes'[k] <= Bytes[k]
    <2> SUFFICES ASSUME k \in Complete' PROVE Bytes'[k] <= Bytes[k]
      OBVIOUS
    <2>1. Size[k] \in Nat /\ Short[k] \in Nat /\ Short[k] <= Size[k]
      BY CacheAssumption
    <2>2. file[i].body = "short" => file'[i].body = "short"
      <3>1. file'[i].body # "cut"
        BY <1>1 DEF Complete, Recognised, Entry
      <3> QED  BY <1>1, <1>2, <3>1 DEF Types, FileType
    <2> QED  BY <1>1, <2>1, <2>2 DEF Bytes, Entry
  <1>7. Total' <= Total
    <2>1. Total \in Nat /\ Bytes[k] \in Nat /\ Bytes'[k] \in Nat
      BY CompleteFacts, BytesFacts
    <2> QED  BY <1>4, <1>5, <1>6, <2>1, TotalOf
  <1> QED  BY <1>4, <1>5, <1>6, <1>7

-----------------------------------------------------------------------------
(* Trims.                                                                   *)

TrimInv == Listed /\ Summed /\ TrimmedToLimit

\* The trim of another process than the one that steps, and no trim in a step
\* that leaves the entries alone.
LEMMA TrimKept ==
    ASSUME FilesInv, TrimInv, Types', NEW P \in SUBSET Proc,
           \A q \in P : proc'[q] = proc[q],
           \A q \in Proc \ P : proc'[q].at \notin {"evict", "unlock"},
           \A k \in Key : EntryKept(k),
           damage' = 0 => damage = 0
    PROVE  TrimInv'
  <1> USE DEF FilesInv, TrimInv
  <1>2. Total' = Total
    BY SameTotal DEF EntryKept
  <1>3. \A x \in Candidates : mc_same(x)' = mc_same(x)
    <2>1. {} \in SUBSET Key /\ \A k \in Key \ {} : EntryKept(k)
      OBVIOUS
    <2>2. \A x \in Candidates : x.name \notin {} => mc_same(x)' = mc_same(x)
      BY <2>1, KeptEntries, Zenon
    <2> QED  BY <2>2
  <1>4. \A q \in P : proc[q].seen \in SUBSET Candidates
    BY DEF Types, ProcType
  <1>5. Listed'
    <2> SUFFICES ASSUME NEW q \in Proc, proc'[q].at = "evict"
                 PROVE  /\ damage' = 0 => \A x \in proc'[q].seen : mc_same(x)'
                        /\ \A x, y \in proc'[q].seen : x.name = y.name => x = y
      BY DEF Listed, At
    <2>1. q \in P /\ proc'[q] = proc[q]
      OBVIOUS
    <2> QED  BY <2>1, <1>3, <1>4 DEF Listed, At
  <1>6. Summed'
    <2> SUFFICES ASSUME NEW q \in Proc, proc'[q].at = "evict"
                 PROVE  /\ Total' <= proc'[q].total
                        /\ damage' = 0 => proc'[q].total = Total'
                        /\ proc'[q].clean =>
                               proc'[q].total = SumFunctionOnSet(ListedBytes(proc'[q].seen),
                                                                 {x.name : x \in proc'[q].seen})
      BY DEF Summed, At, ListedBytes
    <2>1. q \in P /\ proc'[q] = proc[q]
      OBVIOUS
    <2> QED  BY <2>1, <1>2 DEF Summed, At
  <1>7. TrimmedToLimit'
    <2> SUFFICES ASSUME NEW q \in Proc, proc'[q].at = "unlock", proc'[q].clean
                 PROVE  Total' <= Limit[q]
      BY DEF TrimmedToLimit, At
    <2>1. q \in P /\ proc'[q] = proc[q]
      OBVIOUS
    <2> QED  BY <2>1, <1>2 DEF TrimmedToLimit, At
  <1> QED  BY <1>5, <1>6, <1>7

\* The process that steps is the one that trims: the others' part of the
\* invariant is empty.
LEMMA TrimOfOne ==
    ASSUME Locals', NEW p \in Proc, proc'[p].at \in Holding,
           proc'[p].at = "evict" =>
               /\ damage' = 0 => \A x \in proc'[p].seen : mc_same(x)'
               /\ \A x, y \in proc'[p].seen : x.name = y.name => x = y
               /\ Total' <= proc'[p].total
               /\ damage' = 0 => proc'[p].total = Total'
               /\ proc'[p].clean =>
                      proc'[p].total = SumFunctionOnSet(ListedBytes(proc'[p].seen),
                                                        {x.name : x \in proc'[p].seen}),
           proc'[p].at = "unlock" /\ proc'[p].clean => Total' <= Limit[p]
    PROVE  TrimInv'
  <1>1. \A q \in Proc \ {p} : proc'[q].at \notin {"evict", "unlock"}
    BY Sets DEF Locals, Local
  <1>2. Listed'
    BY <1>1 DEF Listed, At
  <1>3. Summed'
    <2> SUFFICES ASSUME NEW q \in Proc, proc'[q].at = "evict"
                 PROVE  /\ Total' <= proc'[q].total
                        /\ damage' = 0 => proc'[q].total = Total'
                        /\ proc'[q].clean =>
                               proc'[q].total = SumFunctionOnSet(ListedBytes(proc'[q].seen),
                                                                 {x.name : x \in proc'[q].seen})
      BY DEF Summed, At, ListedBytes
    <2>1. q = p
      BY <1>1
    <2> QED  BY <2>1
  <1>4. TrimmedToLimit'
    BY <1>1 DEF TrimmedToLimit, At
  <1> QED  BY <1>2, <1>3, <1>4 DEF TrimInv

\* If the names differ, the one candidate of a name is found by it.
LEMMA ListedOnce ==
    ASSUME NEW S, \A x, y \in S : x.name = y.name => x = y, NEW z \in S, z.name \in Key
    PROVE  ListedBytes(S)[z.name] = z.size
  <1>1. (CHOOSE x \in S : x.name = z.name) = z
    OBVIOUS
  <1> QED  BY <1>1 DEF ListedBytes

LEMMA TrimScan ==
    ASSUME FilesInv, TrimInv, FilesInv', NEW p \in Proc, Scan(p)
    PROVE  TrimInv'
  <1> USE DEF FilesInv
  <1>1. /\ proc'[p].at = "evict" /\ proc'[p].seen = {Seen(k) : k \in Complete}
        /\ proc'[p].total = Total /\ UNCHANGED <<dir, file, damage>>
    <2>1. proc[p] \in ProcType /\ p \in DOMAIN proc
      BY DEF Types
    <2> QED  BY <2>1 DEF Scan, ProcType
  <1>2. Total' = Total /\ \A x : mc_same(x)' = mc_same(x)
    BY <1>1 DEF Total, Bytes, Complete, Recognised, mc_same, Entry
  <1>3. \A x \in proc'[p].seen : mc_same(x)'
    BY <1>1, <1>2, CompleteFacts
  <1>4. \A x, y \in proc'[p].seen : x.name = y.name => x = y
    <2> SUFFICES ASSUME NEW k \in Complete, NEW j \in Complete, Seen(k).name = Seen(j).name
                 PROVE  Seen(k) = Seen(j)
      BY <1>1
    <2> QED  BY DEF Seen
  <1>5. {x.name : x \in proc'[p].seen} = Complete
    <2>1. \A k \in Complete : Seen(k).name = k
      BY DEF Seen
    <2>2. \A n : n \in {x.name : x \in {Seen(k) : k \in Complete}} <=> n \in Complete
      BY <2>1
    <2>3. {x.name : x \in {Seen(k) : k \in Complete}} = Complete
      BY <2>2
    <2> QED  BY <1>1, <2>3
  <1>6. proc'[p].total = SumFunctionOnSet(ListedBytes(proc'[p].seen), {x.name : x \in proc'[p].seen})
    <2> DEFINE L == ListedBytes(proc'[p].seen)
    <2>1. ASSUME NEW k \in Complete PROVE Bytes[k] = L[k] /\ Bytes[k] \in Nat
      <3>1. Seen(k) \in proc'[p].seen /\ Seen(k).name = k /\ Seen(k).size = Bytes[k] /\ k \in Key
        BY <1>1, CompleteFacts DEF Seen
      <3>2. L[Seen(k).name] = Seen(k).size
        BY <1>4, <3>1, ListedOnce
      <3> QED  BY <3>1, <3>2, BytesFacts
    <2> HIDE DEF L
    <2>2. Total = SumFunctionOnSet(L, Complete)
      BY <2>1, CompleteFacts, SumSame DEF Total
    <2> QED  BY <1>1, <1>5, <2>2 DEF L
  <1>7. Total' <= proc'[p].total /\ proc'[p].total = Total'
    BY <1>1, <1>2, CompleteFacts
  <1>8. proc'[p].at \in Holding /\ proc'[p].at # "unlock"
    BY <1>1, Sets
  <1> QED  BY <1>3, <1>4, <1>6, <1>7, <1>8, TrimOfOne

LEMMA TrimEvict ==
    ASSUME FilesInv, TrimInv, FilesInv', NEW p \in Proc, Evict(p)
    PROVE  TrimInv'
  <1> USE DEF FilesInv, TrimInv
  <1>1. PICK x \in proc[p].seen : Evict(p)!(x)
    BY DEF Evict
  <1>2. /\ proc[p].at = "evict" /\ proc[p].seen \in SUBSET Candidates
        /\ proc[p].total \in Int /\ Total \in Nat
        /\ x.name \in Key /\ x.size \in Nat
        /\ UNCHANGED damage
    BY <1>1, CompleteFacts DEF At, Types, ProcType, Candidates
  <1>3. /\ damage = 0 => \A y \in proc[p].seen : mc_same(y)
        /\ \A y, z \in proc[p].seen : y.name = z.name => y = z
        /\ Total <= proc[p].total
        /\ damage = 0 => proc[p].total = Total
        /\ proc[p].clean => proc[p].total = SumFunctionOnSet(ListedBytes(proc[p].seen),
                                                            {y.name : y \in proc[p].seen})
    BY <1>2 DEF Listed, Summed, At
  <1>4. CASE mc_same(x)
    <2>1. /\ proc'[p].at = "evict" /\ proc'[p].seen = proc[p].seen \ {x}
          /\ proc'[p].total = proc[p].total - x.size
          /\ proc'[p].clean = proc[p].clean
      BY <1>1, <1>2, <1>4 DEF Types, ProcType
    <2>2. /\ \A k \in Key \ {x.name} : EntryKept(k)
          /\ Total' = Total - x.size
      BY <1>1, <1>4, EvictEffect
    <2>3. \A y \in proc'[p].seen : y.name \notin {x.name} /\ y \in Candidates
      BY <1>2, <1>3, <2>1
    <2>4. \A y \in proc'[p].seen : mc_same(y)' = mc_same(y)
      BY <1>2, <2>2, <2>3, KeptEntries
    <2>5. damage' = 0 => \A y \in proc'[p].seen : mc_same(y)'
      BY <1>2, <1>3, <2>1, <2>4
    <2>6. proc'[p].clean => proc'[p].total = SumFunctionOnSet(ListedBytes(proc'[p].seen),
                                                              {y.name : y \in proc'[p].seen})
      <3> DEFINE N == {y.name : y \in proc[p].seen}
                 L == ListedBytes(proc[p].seen)
                 M == ListedBytes(proc'[p].seen)
                 rest == SumFunctionOnSet(L, N \ {x.name})
      <3>1. N \in SUBSET Key /\ x.name \in N
        BY <1>2 DEF Candidates
      <3>2. ASSUME NEW y \in proc[p].seen
            PROVE  /\ y.name \in Key /\ L[y.name] \in Nat
                   /\ y # x => M[y.name] = L[y.name]
        <4>1. y.name \in Key /\ y.size \in Nat
          BY <1>2 DEF Candidates
        <4>2. L[y.name] = y.size
          BY <1>3, <4>1, ListedOnce
        <4>3. ASSUME y # x PROVE M[y.name] = y.size
          <5>1. y \in proc'[p].seen /\ \A u, v \in proc'[p].seen : u.name = v.name => u = v
            BY <1>3, <2>1, <4>3
          <5> QED  BY <4>1, <5>1, ListedOnce
        <4> QED  BY <4>1, <4>2, <4>3
      <3>3. L[x.name] = x.size
        BY <1>2, <1>3, ListedOnce
      <3>4. {y.name : y \in proc'[p].seen} = N \ {x.name}
        BY <1>3, <2>1
      <3> HIDE DEF L, M
      <3>5. IsFiniteSet(N) /\ IsFiniteSet(N \ {x.name}) /\ \A k \in N : L[k] \in Nat
        BY <3>1, <3>2, FS_Subset, FS_RemoveElement, CacheAssumption
      <3>6. \A k \in N \ {x.name} : L[k] = M[k]
        BY <3>2
      <3>7. proc[p].clean => proc[p].total = SumFunctionOnSet(L, N)
        BY <1>3 DEF L
      <3> HIDE DEF N
      <3>8. SumFunctionOnSet(L, N) = L[x.name] + rest
        BY <3>1, <3>5, SumRemove
      <3>9. rest \in Nat /\ SumFunctionOnSet(M, N \ {x.name}) = rest
        BY <3>5, <3>6, SumIsNatural, SumSame
      <3> HIDE DEF rest
      <3>10. proc[p].clean => proc'[p].total = SumFunctionOnSet(M, N \ {x.name})
        BY <1>2, <2>1, <3>3, <3>7, <3>8, <3>9
      <3> QED  BY <2>1, <3>4, <3>10 DEF M
    <2>7. Total' <= proc'[p].total /\ (damage' = 0 => proc'[p].total = Total')
      BY <1>2, <1>3, <2>1, <2>2
    <2>8. \A y, z \in proc'[p].seen : y.name = z.name => y = z
      BY <1>3, <2>1
    <2> QED  BY <2>1, <2>5, <2>6, <2>7, <2>8, TrimOfOne, Sets
  <1>5. CASE ~mc_same(x)
    <2>1. /\ proc'[p].at = "evict" /\ proc'[p].seen = proc[p].seen \ {x}
          /\ proc'[p].total = proc[p].total /\ proc'[p].clean = FALSE
      BY <1>1, <1>2, <1>5 DEF Types, ProcType
    <2>2. damage # 0 /\ damage' # 0
      BY <1>2, <1>3, <1>5
    <2>3. Total' = Total
      BY <1>1, <1>5, EvictEffect
    <2> QED  BY <1>3, <2>1, <2>2, <2>3, TrimOfOne, Sets
  <1> QED  BY <1>4, <1>5

LEMMA TrimEnd ==
    ASSUME FilesInv, TrimInv, FilesInv', NEW p \in Proc,
           Trimmed(p) \/ ScanFails(p) \/ EvictFails(p)
    PROVE  TrimInv'
  <1> USE DEF FilesInv, TrimInv
  <1>1. \A k \in Key : EntryKept(k)
    BY MostKeepEntries DEF Step, Trimmed, ScanFails, EvictFails, EntryKept, BodyKept
  <1>2. UNCHANGED <<dir, file, damage>>
    BY FaultType DEF Trimmed, ScanFails, EvictFails
  <1>3. Total' = Total /\ \A x : mc_same(x)' = mc_same(x)
    BY <1>2 DEF Total, Bytes, Complete, Recognised, mc_same, Entry
  <1>4. CASE Trimmed(p)
    <2>1. /\ proc[p].at = "evict" /\ proc'[p].at = "unlock" /\ proc'[p].clean = proc[p].clean
          /\ proc[p].total <= Limit[p] \/ proc[p].seen = {}
      BY <1>4 DEF Trimmed, At, Go, Types, ProcType
    <2>2. Total \in Nat /\ proc[p].total \in Int /\ Limit[p] \in Nat
      BY CompleteFacts, CacheAssumption DEF Types, ProcType
    <2>3. proc[p].clean => Total <= Limit[p]
      <3>1. CASE proc[p].total <= Limit[p]
        <4>1. Total <= proc[p].total
          BY <2>1 DEF Summed, At
        <4>2. Total <= Limit[p]
          BY <2>2, <3>1, <4>1
        <4> QED  BY <4>2
      <3>2. CASE proc[p].seen = {}
        <4>1. {x.name : x \in proc[p].seen} = {}
          BY <3>2
        <4>2. proc[p].clean => proc[p].total = 0
          BY <2>1, <4>1, SumEmpty DEF Summed, At
        <4>3. Total <= proc[p].total
          BY <2>1 DEF Summed, At
        <4>4. proc[p].total = 0 => Total <= Limit[p]
          BY <2>2, <4>3
        <4> QED  BY <4>2, <4>4
      <3> QED  BY <2>1, <3>1, <3>2
    <2> QED  BY <1>3, <2>1, <2>3, TrimOfOne, Sets
  <1>5. CASE ScanFails(p)
    <2>1. proc'[p].at = "unlock" /\ proc'[p].clean = FALSE
      BY <1>5 DEF ScanFails, Types, ProcType
    <2> QED  BY <2>1, TrimOfOne, Sets
  <1>6. CASE EvictFails(p)
    <2>1. PICK x \in proc[p].seen : proc' = [proc EXCEPT ![p].seen = @ \ {x}, ![p].clean = FALSE]
      BY <1>6 DEF EvictFails
    <2>2. /\ proc[p].at = "evict" /\ proc'[p].at = "evict" /\ proc'[p].seen = proc[p].seen \ {x}
          /\ proc'[p].total = proc[p].total /\ proc'[p].clean = FALSE
      BY ZenonT(30), <1>6, <2>1 DEF EvictFails, At, Types, ProcType
    <2>3. Total <= proc[p].total /\ (damage = 0 => proc[p].total = Total)
            /\ (damage = 0 => \A y \in proc[p].seen : mc_same(y))
            /\ \A y, z \in proc[p].seen : y.name = z.name => y = z
      BY <2>2 DEF Listed, Summed, At
    <2> QED  BY <1>2, <1>3, <2>2, <2>3, TrimOfOne, Sets
  <1> QED  BY <1>4, <1>5, <1>6

LEMMA TrimStep ==
    ASSUME FilesInv, TrimInv, [Next]_vars
    PROVE  TrimInv'
  <1>1. FilesInv'
    BY FilesStep
  <1>2. Types' /\ Locals' /\ Types /\ Locals
    BY <1>1 DEF FilesInv
  <1>3. CASE UNCHANGED vars \/ Tick
    <2>1. UNCHANGED <<dir, file, proc, damage>>
      BY <1>3 DEF vars, Tick
    <2>2. \A k \in Key : EntryKept(k)
      BY <2>1 DEF EntryKept, BodyKept
    <2> QED  BY <1>2, <2>1, <2>2, TrimKept
  <1>4. ASSUME NEW k \in Key, Damage(k) PROVE TrimInv'
    <2>1. proc' = proc /\ damage' # 0
      BY <1>2, <1>4 DEF Damage, Types
    <2>2. Total' <= Total /\ Total \in Nat /\ Total' \in Nat
      BY <1>1, <1>2, <1>4, DamageEffect, CompleteFacts, NextTotal
    <2>3. Listed'
      BY <2>1 DEF TrimInv, Listed, At
    <2>4. Summed'
      <3> SUFFICES ASSUME NEW q \in Proc, proc[q].at = "evict"
                   PROVE  /\ Total' <= proc[q].total
                          /\ proc[q].clean =>
                                 proc[q].total = SumFunctionOnSet(ListedBytes(proc[q].seen),
                                                                  {x.name : x \in proc[q].seen})
        BY <2>1 DEF Summed, At, ListedBytes
      <3>1. /\ Total <= proc[q].total
            /\ proc[q].clean => proc[q].total = SumFunctionOnSet(ListedBytes(proc[q].seen),
                                                                {x.name : x \in proc[q].seen})
        BY DEF TrimInv, Summed, At
      <3>2. proc[q].total \in Int
        BY <1>2 DEF Types, ProcType
      <3>3. Total' <= proc[q].total
        BY <2>2, <3>1, <3>2
      <3> QED  BY <3>1, <3>3
    <2>5. TrimmedToLimit'
      <3> SUFFICES ASSUME NEW q \in Proc, proc[q].at = "unlock", proc[q].clean PROVE Total' <= Limit[q]
        BY <2>1 DEF TrimmedToLimit, At
      <3>1. Total <= Limit[q] /\ Limit[q] \in Nat
        BY CacheAssumption DEF TrimInv, TrimmedToLimit, At
      <3> QED  BY <2>2, <3>1
    <2> QED  BY <2>3, <2>4, <2>5 DEF TrimInv
  <1>5. ASSUME NEW p \in Proc,
               \/ \E k \in Key : Start(p, k)
               \/ Step(p) /\ ~Rename(p) /\ ~Touch(p) /\ ~Scan(p) /\ ~Evict(p) /\ ~Trimmed(p)
               \/ WriteFails(p) \/ RenameFails(p) \/ Crash(p) \/ Exit(p)
        PROVE  TrimInv'
    <2>1. \A k \in Key : EntryKept(k)
      BY <1>5, MostKeepEntries
    <2>2. \A q \in Proc \ {p} : proc'[q] = proc[q]
      BY <1>2, <1>5 DEF Step, Types, Start, Stat, Open, Read, TouchLock, Lock, UnlinkTemp, Create, Header,
         Payload, Cleanup, Unlock, WriteFails, RenameFails, Crash, Exit, TryLock, Go, Miss, Return
    <2>3. proc'[p].at \notin {"evict", "unlock"}
      <3> USE <1>2 DEF Types, ProcType, Go, Miss, Return, Fresh
      <3>1. CASE \E k \in Key : Start(p, k)
        <4>1. PICK k \in Key : Start(p, k)
          BY <3>1
        <4> QED  BY <4>1 DEF Start
      <3>2. CASE Stat(p) \/ Open(p) \/ Read(p) \/ TouchLock(p) \/ Lock(p)
        BY <3>2 DEF Stat, Open, Read, TouchLock, Lock, TryLock
      <3>3. CASE UnlinkTemp(p) \/ Header(p) \/ Payload(p) \/ Cleanup(p) \/ Unlock(p)
        BY <3>3 DEF UnlinkTemp, Header, Payload, Cleanup, Unlock
      <3>4. CASE Create(p)
        <4>1. PICK i : proc' = [proc EXCEPT ![p].at = "header", ![p].fd = i]
          BY <3>4 DEF Create
        <4> QED  BY <4>1
      <3>5. CASE WriteFails(p) \/ RenameFails(p) \/ Crash(p) \/ Exit(p)
        BY <3>5 DEF WriteFails, RenameFails, Crash, Exit
      <3> QED  BY <1>5, <3>1, <3>2, <3>3, <3>4, <3>5 DEF Step
    <2>4. damage' = damage
      BY <1>5, <1>2, FaultType DEF Step, Start, Stat, Open, Read, TouchLock, Lock, UnlinkTemp, Create, Header,
         Payload, Cleanup, Unlock, WriteFails, RenameFails, Crash, Exit
    <2> DEFINE P == Proc \ {p}
    <2>5. /\ P \in SUBSET Proc /\ \A q \in P : proc'[q] = proc[q]
          /\ \A q \in Proc \ P : proc'[q].at \notin {"evict", "unlock"}
      BY <2>2, <2>3
    <2> HIDE DEF P
    <2> QED  BY <1>2, <2>1, <2>4, <2>5, TrimKept
  <1>6. ASSUME NEW p \in Proc, Rename(p) \/ Touch(p) PROVE TrimInv'
    <2>1. \A q \in Proc \ {p} : proc'[q] = proc[q] /\ proc[q].at \notin Holding
      BY <1>2, <1>6, HolderAlone, Sets DEF Types, Rename, Touch, Go, Return, At
    <2>2. proc'[p].at \notin {"evict", "unlock"}
      BY <1>2, <1>6 DEF Types, ProcType, Rename, Touch, Go, Return, Fresh
    <2>3. \A q \in Proc : proc'[q].at \notin {"evict", "unlock"}
      BY <2>1, <2>2, Sets
    <2> QED  BY <2>3 DEF TrimInv, Listed, Summed, TrimmedToLimit, At
  <1> QED
    BY <1>1, <1>3, <1>4, <1>5, <1>6, TrimScan, TrimEvict, TrimEnd DEF Next, Step

-----------------------------------------------------------------------------
(* The budget.                                                              *)

BudgetInv == Budgeted /\ OneEntryOver

InLimit == \E p \in Proc : Total <= Limit[p]

Over == \E p \in Proc, k \in Key : Total <= Limit[p] + Size[k]

NoTrim == \A p \in Proc : proc[p].at \notin Trimming

LEMMA InLimitIsOver ==
    ASSUME Types, InLimit
    PROVE  Over
  <1>1. PICK p \in Proc : Total <= Limit[p]
    BY DEF InLimit
  <1>2. PICK k \in Key : TRUE
    BY CacheAssumption
  <1>3. Total \in Nat /\ Limit[p] \in Nat /\ Size[k] \in Nat
    BY CompleteFacts, CacheAssumption
  <1> QED  BY <1>1, <1>3 DEF Over

\* The step of one process: what it owes while no trim is due is owed if its
\* own is over, since only one can be under way.
LEMMA BudgetOfOne ==
    ASSUME BudgetInv, faults' = faults, damage' = damage, NEW p \in Proc,
           \A q \in Proc \ {p} : proc'[q] = proc[q],
           faults = 0 /\ damage = 0 =>
               /\ proc'[p].at \in {"evict", "unlock"} => proc'[p].clean
               /\ NoTrim' => InLimit'
               /\ Over'
    PROVE  BudgetInv'
  <1>1. Budgeted'
    BY DEF BudgetInv, Budgeted, NoTrim, InLimit
  <1>2. OneEntryOver'
    BY DEF OneEntryOver, Over
  <1> QED  BY <1>1, <1>2 DEF BudgetInv

\* The call goes on outside the trim, or begins one, and the entries stay.
LEMMA BudgetKept ==
    ASSUME FilesInv, BudgetInv, NEW p \in Proc, Total' = Total,
           \A q \in Proc \ {p} : proc'[q] = proc[q],
           faults' = faults, damage' = damage,
           proc[p].at \notin Trimming, proc'[p].at \notin Trimming
    PROVE  BudgetInv'
  <1>1. NoTrim' => NoTrim
    BY DEF NoTrim
  <1>2. InLimit' = InLimit /\ Over' = Over
    BY DEF InLimit, Over
  <1>3. faults = 0 /\ damage = 0 => Over /\ (NoTrim => InLimit)
    BY DEF BudgetInv, Budgeted, OneEntryOver, Over, NoTrim, InLimit
  <1>4. proc'[p].at \notin {"evict", "unlock"}
    BY Sets
  <1> QED  BY <1>1, <1>2, <1>3, <1>4, BudgetOfOne

\* A store adds one entry to a directory within a budget.
LEMMA BudgetRename ==
    ASSUME FilesInv, BudgetInv, FilesInv', NEW p \in Proc, Rename(p)
    PROVE  BudgetInv'
  <1> USE DEF FilesInv
  <1>1. /\ proc[p].at = "rename" /\ proc[p].key \in Key /\ Temp(p) \in Names
        /\ dir[Temp(p)] \in Ino \union {0}
        /\ \A k \in Key : Temp(p) # Entry(k) /\ Entry(k) \in Names
    BY InCall, NameFacts, Sets DEF Rename, At
  <1>2. \A q \in Proc \ {p} : proc'[q] = proc[q] /\ proc[q].at \notin Holding
    BY <1>1, HolderAlone, Sets DEF Rename, Go, Types
  <1>3. faults' = faults /\ damage' = damage
    BY DEF Rename
  <1>4. NoTrim /\ (faults = 0 /\ damage = 0 => InLimit)
    BY <1>1, <1>2, Sets DEF NoTrim, BudgetInv, Budgeted, InLimit
  <1>5. CASE dir[Temp(p)] = 0
    <2>1. Reclaim /\ dir' = dir /\ proc'[p].at = "cleanup"
      BY <1>5 DEF Rename, Go, Types, ProcType
    <2>2. \A k \in Key : EntryKept(k)
      BY <2>1, ReclaimKeeps
    <2>4. Total' = Total
      BY <2>2, SameTotal DEF EntryKept
    <2> QED  BY <1>1, <1>2, <1>3, <2>1, <2>4, BudgetKept, Sets
  <1>6. CASE dir[Temp(p)] # 0
    <2> DEFINE k == proc[p].key
    <2>1. /\ Reclaim /\ proc'[p].at = "scan"
          /\ dir' = [dir EXCEPT ![Entry(k)] = dir[Temp(p)], ![Temp(p)] = 0]
      BY <1>6 DEF Rename, Go, Types, ProcType
    <2>2. \A j \in Key \ {k} : dir'[Entry(j)] = dir[Entry(j)]
      BY <1>1, <2>1, NameFacts DEF Types
    <2>3. \A j \in Key \ {k} : EntryKept(j)
      BY <2>1, <2>2, ReclaimKeeps
    <2>5. /\ Total \in Nat /\ Total' \in Nat /\ Size[k] \in Nat
          /\ Bytes[k] \in Nat /\ Bytes'[k] \in Nat /\ Bytes'[k] <= Size[k]
      BY <1>1, CompleteFacts, NextTotal, BytesFacts
    <2>6. Total' <= Total + Size[k]
      <3> HIDE DEF k
      <3>1. k \in Key
        BY <1>1 DEF k
      <3> QED  BY <2>3, <2>5, <3>1, TotalOf
    <2>7. InLimit => Over'
      <3> SUFFICES ASSUME NEW q \in Proc, Total <= Limit[q] PROVE Total' <= Limit[q] + Size[k]
        BY <1>1 DEF InLimit, Over
      <3>1. Limit[q] \in Nat
        BY CacheAssumption
      <3> QED  BY <2>5, <2>6, <3>1
    <2>8. ~NoTrim' /\ proc'[p].at \notin {"evict", "unlock"}
      BY <2>1, Sets DEF NoTrim
    <2> QED  BY <1>2, <1>3, <1>4, <2>7, <2>8, BudgetOfOne
  <1> QED  BY <1>5, <1>6

\* A trim that meets no failing call only makes the directory smaller, and
\* leaves it within the budget of its process.
LEMMA BudgetTrim ==
    ASSUME FilesInv, TrimInv, BudgetInv, FilesInv', TrimInv', NEW p \in Proc,
           Scan(p) \/ Evict(p) \/ Trimmed(p) \/ Unlock(p)
    PROVE  BudgetInv'
  <1> USE DEF FilesInv
  <1>1. /\ \A q \in Proc \ {p} : proc'[q] = proc[q]
        /\ faults' = faults /\ damage' = damage
    BY DEF Types, Scan, Evict, Trimmed, Unlock, Go, Return
  <1>2. proc[p].at \in Trimming /\ (faults = 0 /\ damage = 0 => Over)
    BY Sets DEF Scan, Evict, Trimmed, Unlock, At, BudgetInv, OneEntryOver, Over
  <1>3. CASE Evict(p)
    <2>1. PICK x \in proc[p].seen : Evict(p)!(x)
      BY <1>3 DEF Evict
    <2>2. x.size \in Nat /\ proc[p].at = "evict"
      BY <2>1 DEF Types, ProcType, Candidates, At
    <2>3. Total \in Nat /\ Total' \in Nat /\ Total' <= Total
      BY <2>1, <2>2, EvictEffect, CompleteFacts, NextTotal
    <2>4. damage = 0 => mc_same(x)
      BY <2>2 DEF TrimInv, Listed, At
    <2>5. proc'[p].at = "evict" /\ (damage = 0 => proc'[p].clean = proc[p].clean)
      <3>1. CASE mc_same(x)
        BY <2>1, <2>2, <3>1 DEF Types, ProcType
      <3>2. CASE ~mc_same(x)
        BY <2>1, <2>2, <2>4, <3>2 DEF Types, ProcType
      <3> QED  BY <3>1, <3>2
    <2>6. Over => Over'
      <3> SUFFICES ASSUME NEW q \in Proc, NEW k \in Key, Total <= Limit[q] + Size[k]
                   PROVE  Total' <= Limit[q] + Size[k]
        BY DEF Over
      <3>1. Limit[q] \in Nat /\ Size[k] \in Nat
        BY CacheAssumption
      <3> QED  BY <2>3, <3>1
    <2>7. faults = 0 /\ damage = 0 => proc[p].clean
      BY <2>2 DEF BudgetInv, Budgeted
    <2>8. ~NoTrim'
      BY <2>5, Sets DEF NoTrim
    <2> QED  BY <1>1, <1>2, <2>5, <2>6, <2>7, <2>8, BudgetOfOne
  <1>4. CASE Scan(p) \/ Trimmed(p) \/ Unlock(p)
    <2>1. UNCHANGED <<dir, file>>
      BY <1>4 DEF Scan, Trimmed, Unlock
    <2>2. Total' = Total
      BY <2>1 DEF Total, Bytes, Complete, Recognised, Entry
    <2>3. Over' = Over /\ InLimit' = InLimit
      BY <2>2 DEF Over, InLimit
    <2>4. CASE Scan(p)
      <3>1. proc'[p].at = "evict" /\ proc'[p].clean = TRUE
        <4>1. proc[p] \in ProcType /\ p \in DOMAIN proc
          BY DEF Types
        <4> QED  BY <2>4, <4>1 DEF Scan, ProcType
      <3>2. ~NoTrim'
        BY <3>1, Sets DEF NoTrim
      <3> QED  BY <1>1, <1>2, <2>3, <3>1, <3>2, BudgetOfOne
    <2>5. CASE Trimmed(p)
      <3>1. proc[p].at = "evict" /\ proc'[p].at = "unlock" /\ proc'[p].clean = proc[p].clean
        BY <2>5 DEF Trimmed, Go, At, Types, ProcType
      <3>2. ~NoTrim'
        BY <3>1, Sets DEF NoTrim
      <3>3. faults = 0 /\ damage = 0 => proc[p].clean
        BY <3>1 DEF BudgetInv, Budgeted
      <3> QED  BY <1>1, <1>2, <2>3, <3>1, <3>2, <3>3, BudgetOfOne
    <2>6. CASE Unlock(p)
      <3>1. proc[p].at = "unlock" /\ proc'[p].at = "idle"
        BY <2>6 DEF Unlock, At, Return, Fresh, Types, ProcType
      <3>2. faults = 0 /\ damage = 0 => InLimit
        BY <3>1 DEF BudgetInv, Budgeted, TrimInv, TrimmedToLimit, At, InLimit
      <3> QED  BY <1>1, <1>2, <2>3, <3>1, <3>2, BudgetOfOne
    <2> QED  BY <1>4, <2>4, <2>5, <2>6
  <1> QED  BY <1>3, <1>4

LEMMA BudgetStep ==
    ASSUME FilesInv, TrimInv, BudgetInv, [Next]_vars
    PROVE  BudgetInv'
  <1>1. FilesInv' /\ TrimInv'
    BY FilesStep, TrimStep
  <1>2. Types' /\ Locals' /\ Types /\ Locals
    BY <1>1 DEF FilesInv
  <1>3. CASE UNCHANGED vars \/ Tick
    <2>1. UNCHANGED <<dir, file, proc, faults, damage>>
      BY <1>3 DEF vars, Tick
    <2>2. Total' = Total
      BY <2>1 DEF Total, Bytes, Complete, Recognised, Entry
    <2> QED  BY <2>1, <2>2 DEF BudgetInv, Budgeted, OneEntryOver
  <1>4. CASE faults' # 0 \/ damage' # 0
    BY <1>4 DEF BudgetInv, Budgeted, OneEntryOver
  <1>5. ASSUME \/ \E k \in Key : Damage(k)
               \/ \E p \in Proc : WriteFails(p) \/ RenameFails(p) \/ ScanFails(p) \/ EvictFails(p) \/ Crash(p)
        PROVE  BudgetInv'
    <2>1. faults' # 0 \/ damage' # 0
      <3>1. faults \in Nat /\ damage \in Nat
        BY <1>2 DEF Types
      <3>2. CASE \E k \in Key : Damage(k)
        BY <3>1, <3>2 DEF Damage
      <3>3. CASE Fault
        BY <3>1, <3>3 DEF Fault
      <3> QED  BY <1>5, <3>2, <3>3 DEF WriteFails, RenameFails, ScanFails, EvictFails, Crash
    <2> QED  BY <2>1, <1>4
  <1>6. ASSUME NEW p \in Proc,
               \/ \E k \in Key : Start(p, k)
               \/ Step(p) /\ ~Rename(p) /\ ~Scan(p) /\ ~Evict(p) /\ ~Trimmed(p) /\ ~Unlock(p)
               \/ Exit(p)
        PROVE  BudgetInv'
    <2>1. Total' = Total
      <3>1. CASE Touch(p)
        <4>1. dir' = dir /\ \A i \in Ino : file'[i].body = file[i].body
          BY <1>2, <3>1 DEF Touch, Types, FileType
        <4>2. \A k \in Key : dir[Entry(k)] # 0 => file'[dir[Entry(k)]].body = file[dir[Entry(k)]].body
          BY <1>2, <4>1, NameFacts DEF Types
        <4> QED  BY <4>1, <4>2, SameTotal DEF BodyKept
      <3>2. CASE ~Touch(p)
        <4>1. \A k \in Key : EntryKept(k)
          BY <1>6, <3>2, MostKeepEntries
        <4> QED  BY <4>1, SameTotal DEF EntryKept
      <3> QED  BY <3>1, <3>2
    <2>2. \A q \in Proc \ {p} : proc'[q] = proc[q]
      BY <1>2, <1>6 DEF Step, Types, Start, Stat, Open, Read, TouchLock, Touch, Lock, UnlinkTemp, Create,
         Header, Payload, Cleanup, Exit, TryLock, Go, Miss, Return
    <2>3. faults' = faults /\ damage' = damage
      BY <1>6 DEF Step, Start, Stat, Open, Read, TouchLock, Touch, Lock, UnlinkTemp, Create, Header,
         Payload, Cleanup, Exit
    <2>4. proc[p].at \notin Trimming
      BY <1>6, Sets DEF Step, Start, Stat, Open, Read, TouchLock, Touch, Lock, UnlinkTemp, Create, Header,
         Payload, Cleanup, Exit, At
    <2>5. proc'[p].at \notin Trimming
      <3> USE <1>2, Sets DEF Types, ProcType, Go, Miss, Return, Fresh
      <3>1. CASE \E k \in Key : Start(p, k)
        <4>1. PICK k \in Key : Start(p, k)
          BY <3>1
        <4> QED  BY <4>1 DEF Start
      <3>2. CASE Stat(p) \/ Open(p) \/ Read(p) \/ TouchLock(p) \/ Lock(p)
        BY <3>2 DEF Stat, Open, Read, TouchLock, Lock, TryLock
      <3>3. CASE Touch(p) \/ UnlinkTemp(p) \/ Header(p) \/ Payload(p) \/ Cleanup(p) \/ Exit(p)
        BY <3>3 DEF Touch, UnlinkTemp, Header, Payload, Cleanup, Exit
      <3>4. CASE Create(p)
        <4>1. PICK i : proc' = [proc EXCEPT ![p].at = "header", ![p].fd = i]
          BY <3>4 DEF Create
        <4> QED  BY <4>1
      <3> QED  BY <1>6, <3>1, <3>2, <3>3, <3>4 DEF Step
    <2> QED  BY <2>1, <2>2, <2>3, <2>4, <2>5, BudgetKept
  <1> QED
    BY <1>1, <1>3, <1>5, <1>6, BudgetRename, BudgetTrim DEF Next, Step

-----------------------------------------------------------------------------
(* The inductive invariant holds.                                           *)

LEMMA InitIInv == Init => IInv
  <1> SUFFICES ASSUME Init PROVE IInv
    OBVIOUS
  <1> USE DEF Init
  <1>1. \A p \in Proc : proc[p] = Fresh /\ proc[p].at = "idle"
    BY DEF Fresh
  <1>2. Types
    <2>1. Fresh \in ProcType
      <3>1. 0 \in 0 .. MaxSeq /\ "idle" \in Calls
        BY CacheAssumption DEF Calls
      <3> QED  BY <3>1 DEF Fresh, ProcType
    <2>2. NoFile \in FileType
      BY DEF NoFile, FileType, Bodies
    <2> QED  BY <2>1, <2>2 DEF Types
  <1>3. Locals
    BY <1>1, CacheAssumption, Sets DEF Locals, Local, Fresh
  <1>4. OneName /\ WriterAlone /\ RenamedWhole /\ ReaderOfEntry /\ NoTornEntry
    BY <1>1, NameFacts, Sets DEF OneName, WriterAlone, RenamedWhole, ReaderOfEntry, NoTornEntry, At
  <1>5. Listed /\ Summed /\ TrimmedToLimit
    BY <1>1 DEF Listed, Summed, TrimmedToLimit, At
  <1>6. Total = 0
    <2>1. Complete = {}
      BY NameFacts DEF Complete
    <2> QED  BY <2>1, SumEmpty DEF Total
  <1>7. InLimit
    BY <1>6, CacheAssumption DEF InLimit
  <1>8. Budgeted
    BY <1>1, <1>7 DEF Budgeted, InLimit
  <1>9. OneEntryOver
    BY <1>2, <1>7, InLimitIsOver DEF OneEntryOver, Over
  <1> QED  BY <1>2, <1>3, <1>4, <1>5, <1>8, <1>9 DEF IInv, FilesInv

LEMMA StepIInv == IInv /\ [Next]_vars => IInv'
  BY FilesStep, TrimStep, BudgetStep DEF IInv, TrimInv, BudgetInv

THEOREM AlwaysIInv == Spec => []IInv
  BY InitIInv, StepIInv, PTL DEF Spec

\* A final name never leads to a file that is not finished, or to another key's:
\* mc_put and rc_atomic rename what is whole, whoever crashes or fails.
THEOREM EntriesNeverTorn == Spec => []NoTornEntry
  <1>1. IInv => NoTornEntry
    BY DEF IInv, FilesInv
  <1> QED  BY <1>1, AlwaysIInv, PTL

\* mc_trim ends within the budget of its process, unless a call failed.
THEOREM TrimsEndInLimit == Spec => []TrimmedToLimit
  <1>1. IInv => TrimmedToLimit
    BY DEF IInv
  <1> QED  BY <1>1, AlwaysIInv, PTL

\* However many processes store, the directory is at most one entry over.
THEOREM OneEntryOverAtMost == Spec => []OneEntryOver
  <1>1. IInv => OneEntryOver
    BY DEF IInv
  <1> QED  BY <1>1, AlwaysIInv, PTL

-----------------------------------------------------------------------------
(* Action properties.                                                       *)

Own(p) ==
    \/ Step(p)
    \/ \E k \in Key : Start(p, k)
    \/ WriteFails(p) \/ RenameFails(p) \/ ScanFails(p) \/ EvictFails(p) \/ Crash(p) \/ Exit(p)

\* A process only moves by a step of its own.
LEMMA OwnStep ==
    ASSUME Types, Next, NEW p \in Proc, proc'[p] # proc[p]
    PROVE  Own(p)
  <1>1. ASSUME NEW q \in Proc, Own(q) PROVE q = p
    <2>1. \A r \in Proc \ {q} : proc'[r] = proc[r]
      BY <1>1 DEF Types, Own, Step, Start, Stat, Open, Read, TouchLock, Touch, Lock, UnlinkTemp, Create,
         Header, Payload, Rename, Cleanup, Scan, Evict, Trimmed, Unlock, WriteFails, RenameFails, ScanFails,
         EvictFails, Crash, Exit, TryLock, Go, Miss, Return
    <2> QED  BY <2>1
  <1>2. CASE Tick \/ \E k \in Key : Damage(k)
    BY <1>2 DEF Tick, Damage
  <1> QED  BY <1>1, <1>2 DEF Next, Own

\* What a hit returns is whole, and it is of the key that was asked for: no check
\* of the read says so, but the file was opened under its entry's name, no name
\* leads to another key's file, and what is open is never made another's.
THEOREM HitsAreExact == Spec => HitExact
  <1> DEFINE Exact == \A p \in Proc : At(p, "read") /\ proc'[p].at = "touch" =>
                  file[proc[p].fd].key = proc[p].key /\ file[proc[p].fd].body = "whole"
  <1>1. IInv /\ [Next]_vars => Exact
    <2> SUFFICES ASSUME IInv, [Next]_vars, NEW p \in Proc, proc[p].at = "read", proc'[p].at = "touch"
                 PROVE  file[proc[p].fd].key = proc[p].key /\ file[proc[p].fd].body = "whole"
      BY DEF At
    <2>1. Types /\ Locals
      BY DEF IInv, FilesInv
    <2>2. proc'[p] # proc[p] /\ Next
      BY DEF vars
    <2>3. Own(p)
      BY <2>1, <2>2, OwnStep
    <2>4. Read(p) \/ Crash(p)
      BY <2>3, Sets DEF Own, Step, Start, Stat, Open, TouchLock, Touch, Lock, UnlinkTemp, Create, Header,
         Payload, Rename, Cleanup, Scan, Evict, Trimmed, Unlock, WriteFails, RenameFails, ScanFails,
         EvictFails, Exit, At
    <2>5. ~Crash(p)
      BY <2>1 DEF Crash, Fresh, Types
    <2>6. Valid(proc[p].fd)
      BY <2>1, <2>4, <2>5 DEF Read, Miss, Types, ProcType
    <2>7. file[proc[p].fd].key = proc[p].key
      BY DEF IInv, FilesInv, ReaderOfEntry, At
    <2> QED  BY <2>6, <2>7 DEF Valid
  <1>2. IInv /\ [Next]_vars => [Exact]_vars
    BY <1>1
  <1> QED  BY <1>2, AlwaysIInv, PTL DEF Spec, HitExact

\* A file that is read keeps its bytes: what is written is another file, and a
\* file that loses its name lives on.
THEOREM OpenFilesKept == Spec => OpenFileKept
  <1> DEFINE Kept == \A p \in Proc : At(p, "read") /\ proc'[p].at = "read" /\ damage' = damage =>
                  /\ file'[proc[p].fd].key = file[proc[p].fd].key
                  /\ file'[proc[p].fd].body = file[proc[p].fd].body
  <1>1. IInv /\ [Next]_vars => Kept
    <2> SUFFICES ASSUME IInv, [Next]_vars, NEW p \in Proc, proc[p].at = "read", proc'[p].at = "read",
                        damage' = damage
                 PROVE  /\ file'[proc[p].fd].key = file[proc[p].fd].key
                        /\ file'[proc[p].fd].body = file[proc[p].fd].body
      BY DEF At
    <2> USE DEF IInv, FilesInv
    <2> DEFINE i == proc[p].fd
    <2>1. i \in Ino /\ i # 0
      BY DEF Types, ProcType, Locals, Local
    <2>2. proc'[p] = proc[p]
      <3> SUFFICES ASSUME proc'[p] # proc[p] PROVE FALSE
        OBVIOUS
      <3>1. Own(p)
        BY OwnStep DEF vars
      <3>2. Read(p) \/ Crash(p)
        BY <3>1, Sets DEF Own, Step, Start, Stat, Open, TouchLock, Touch, Lock, UnlinkTemp, Create, Header,
           Payload, Rename, Cleanup, Scan, Evict, Trimmed, Unlock, WriteFails, RenameFails, ScanFails,
           EvictFails, Exit, At
      <3> QED  BY <3>2 DEF Read, Crash, Miss, Fresh, Types, ProcType
    <2>3. i \notin Free'
      BY <2>2 DEF Free
    <2>4. CASE Reclaim
      BY <2>1, <2>3, <2>4 DEF Reclaim
    <2>5. CASE UNCHANGED file
      BY <2>5
    <2>6. ASSUME NEW q \in Proc, Touch(q) PROVE file'[i].key = file[i].key /\ file'[i].body = file[i].body
      BY <2>1, <2>6 DEF Touch, Types, FileType
    <2>7. ASSUME NEW q \in Proc, Header(q) \/ Payload(q) PROVE file'[i] = file[i]
      <3>1. proc[q].at \in Writing /\ q # p
        BY <2>7, Sets DEF Header, Payload, At
      <3>2. proc[q].fd # i
        BY <3>1 DEF WriterAlone
      <3> QED  BY <2>1, <2>7, <3>2 DEF Header, Payload, Types
    <2>8. ASSUME NEW q \in Proc, Create(q) PROVE file'[i] = file[i]
      <3>1. /\ Temp(q) \in Names /\ dir[Temp(q)] \in Ino \union {0}
            /\ \A k \in Key : Temp(q) # Entry(k)
        BY <2>8, InCall, Sets DEF Create, At
      <3>2. dir[Temp(q)] # i
        BY <3>1 DEF ReaderOfEntry, At
      <3> QED  BY <2>1, <2>8, <3>1, <3>2 DEF Create, Free, Types
    <2>9. \A k \in Key : ~Damage(k)
      BY DEF Damage, Types
    <2>10. CASE UNCHANGED vars
      BY <2>10 DEF vars
    <2> QED
      BY ZenonT(30), <2>4, <2>5, <2>6, <2>7, <2>8, <2>9, <2>10 DEF Next, Step, Start, Stat, Open, Read, TouchLock, Lock,
         UnlinkTemp, Rename, Cleanup, Scan, Evict, Trimmed, Unlock, WriteFails, RenameFails, ScanFails,
         EvictFails, Crash, Exit, Tick, Fault
  <1>2. IInv /\ [Next]_vars => [Kept]_vars
    BY <1>1
  <1> QED  BY <1>2, AlwaysIInv, PTL DEF Spec, OpenFileKept

\* An entry only goes, in a directory nobody else has changed, because it is the
\* victim a trim has chosen.
LEMMA RemovedByTrim ==
    ASSUME IInv, [Next]_vars, NEW p \in Proc, NEW k \in Key, Removes(p, k)
    PROVE  \E x \in proc[p].seen : /\ Victim(p, x) /\ mc_same(x) /\ x.name = k
                                   /\ x \in Candidates /\ proc[p].seen \in SUBSET Candidates
  <1> USE DEF IInv
  <1>1. Types /\ Locals /\ proc[p].at = "evict" /\ ~EntryKept(k)
    BY DEF FilesInv, Removes, At, EntryKept, BodyKept
  <1>2. \A q \in Proc \ {p} : proc[q].at \notin Holding
    BY <1>1, HolderAlone, Sets
  <1>3. Next
    BY <1>1 DEF vars, EntryKept, BodyKept
  <1>4. ~Tick /\ (\A j \in Key : ~Damage(j)) /\ (\A q \in Proc : ~Touch(q))
    BY DEF Tick, Damage, Touch, Removes
  <1>5. \A q \in Proc : ~Rename(q)
    BY <1>1, <1>2, Sets DEF Rename, At
  <1>6. PICK q \in Proc : Evict(q)
    BY <1>1, <1>3, <1>4, <1>5, MostKeepEntries DEF Next
  <1>7. q = p
    BY <1>2, <1>6, Sets DEF Evict, At
  <1>8. PICK x \in proc[p].seen : Evict(p)!(x)
    BY <1>6, <1>7 DEF Evict
  <1>9. Types'
    BY <1>1, TypesStep
  <1>10. x \in Candidates /\ mc_same(x) /\ x.name = k
    BY <1>1, <1>8, <1>9, EvictEffect
  <1> QED  BY <1>1, <1>8, <1>10 DEF Types, ProcType

\* The victim is older than every other entry the trim has not given up.
THEOREM OldestIsEvicted == Spec => EvictsOldest
  <1> DEFINE Oldest == \A p \in Proc, k \in Key : Removes(p, k) =>
                  \A j \in Complete \ {k} :
                      \/ Used(k) < Used(j) \/ (Used(k) = Used(j) /\ k < j)
                      \/ \A x \in proc[p].seen : x.name # j
  <1>1. IInv /\ [Next]_vars => Oldest
    <2> SUFFICES ASSUME IInv, [Next]_vars, NEW p \in Proc, NEW k \in Key, Removes(p, k),
                        NEW j \in Complete \ {k}, NEW y \in proc[p].seen, y.name = j
                 PROVE  Used(k) < Used(j) \/ (Used(k) = Used(j) /\ k < j)
      OBVIOUS
    <2>1. PICK x \in proc[p].seen : /\ Victim(p, x) /\ mc_same(x) /\ x.name = k
                                    /\ x \in Candidates /\ proc[p].seen \in SUBSET Candidates
      BY RemovedByTrim
    <2>2. mc_same(y)
      BY DEF IInv, Listed, Removes
    <2>3. Used(k) = x.mtime /\ Used(j) = y.mtime
      BY <2>1, <2>2 DEF Used, mc_same
    <2>4. mc_older(x, y)
      BY <2>1 DEF Victim
    <2> QED  BY <2>1, <2>3, <2>4 DEF mc_older
  <1>2. IInv /\ [Next]_vars => [Oldest]_vars
    BY <1>1
  <1> QED  BY <1>2, AlwaysIInv, PTL DEF Spec, EvictsOldest

\* and it goes only while the entries do not fit the budget.
THEOREM OverBudgetIsEvicted == Spec => EvictsOverBudgetOnly
  <1> DEFINE Needed == \A p \in Proc, k \in Key : Removes(p, k) => Total > Limit[p]
  <1>1. IInv /\ [Next]_vars => Needed
    <2> SUFFICES ASSUME IInv, [Next]_vars, NEW p \in Proc, NEW k \in Key, Removes(p, k)
                 PROVE  Total > Limit[p]
      OBVIOUS
    <2>1. proc[p].total > Limit[p]
      BY RemovedByTrim DEF Victim
    <2>2. proc[p].total = Total
      BY DEF IInv, Summed, Removes
    <2> QED  BY <2>1, <2>2
  <1>2. IInv /\ [Next]_vars => [Needed]_vars
    BY <1>1
  <1> QED  BY <1>2, AlwaysIInv, PTL DEF Spec, EvictsOverBudgetOnly
=============================================================================
