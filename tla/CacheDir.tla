----------------------------- MODULE CacheDir -----------------------------
(* The cache directory the compiler's processes share: lookup, store and   *)
(* eviction of cx/runtime/modelcache.cx, and the store of src/runcache.cx, *)
(* over the file system calls they are made of.  Every call is a step of   *)
(* its own where another process, a reader with the file open or a crash   *)
(* can come between; steps that only touch what the budget lock protects   *)
(* are still separate, because a crash can end the process at any of them. *)
(*                                                                         *)
(* A key is the hash of what an entry was made from, so the right content  *)
(* of an entry is a function of its key.  Keys are numbers in the order of *)
(* the entry file names.                                                   *)
EXTENDS Integers, FiniteSets, FiniteSetsExt

CONSTANTS Proc,       \* compiler processes; one that ends is replaced by another
          ModelKey,   \* entries named mc-<key>-<len>, stored by mc_put
          RunKey,     \* entries named <key> or <key>.host, stored by rc_atomic
          Size,       \* bytes of a whole entry
          Short,      \* bytes of an entry that lost its end and still counts
          Limit,      \* Limit[p]: mc_limit in the environment of p
          Ino,        \* inodes
          MaxSeq,     \* stores one process makes (the counter seq of mc_put)
          MaxClock,   \* last second of the wall clock
          MaxFaults,  \* crashes and failing calls in a behaviour
          MaxDamage,  \* entries an outsider edits in a behaviour
          None

Key == ModelKey \union RunKey

ASSUME CacheAssumption ==
    /\ ModelKey \subseteq Nat /\ RunKey \subseteq Nat /\ ModelKey \intersect RunKey = {}
    /\ Size \in [Key -> Nat] /\ Limit \in [Proc -> Nat]
    /\ Short \in [Key -> Nat] /\ \A k \in Key : Short[k] <= Size[k]
    /\ Ino \subseteq Nat \ {0}
    /\ MaxSeq \in Nat /\ MaxClock \in Nat /\ MaxFaults \in Nat /\ MaxDamage \in Nat
    /\ None \notin Proc /\ "entry" \notin Proc
    /\ IsFiniteSet(Key) /\ Key # {} /\ Proc # {}

VARIABLES dir,    \* dir[n]: the inode a name is linked to, or 0
          file,   \* file[i]: what inode i holds
          lock,   \* the process with the flock on .budget.lock, or None
          now,    \* sy_wall_s
          proc,   \* proc[p]: where p is in which call, and the locals of the call
          faults, damage

vars == <<dir, file, lock, now, proc, faults, damage>>

Entry(k) == <<k, "entry", 0>>
Names == {Entry(k) : k \in Key} \union (ModelKey \X {"temp"} \X (1 .. MaxSeq))
             \union (RunKey \X Proc \X {0})

\* body: how far the writer got, or what an outsider made of the file: damaged
\* bytes under the hash; short, a run entry of which enough is left to be taken
\* for one; cut, a file that is no entry any more.
Bodies == {"empty", "partial", "whole", "damaged", "short", "cut"}
Blank(k) == [key |-> k, body |-> "empty", mtime |-> now]
NoFile == [key |-> 0, body |-> "empty", mtime |-> 0]

Fresh == [at |-> "idle", key |-> 0, seq |-> 0, fd |-> 0, total |-> 0, seen |-> {}, clean |-> TRUE]

Init ==
    /\ dir = [n \in Names |-> 0]
    /\ file = [i \in Ino |-> NoFile]
    /\ lock = None
    /\ now = 0
    /\ proc = [p \in Proc |-> Fresh]
    /\ faults = 0 /\ damage = 0

-----------------------------------------------------------------------------
At(p, call) == proc[p].at = call
Go(p, call) == proc' = [proc EXCEPT ![p].at = call]
Return(p) == proc' = [proc EXCEPT ![p] = [Fresh EXCEPT !.seq = proc[p].seq]]

\* A temp is named after the key and a counter of the process (mc_put), or
\* after the final path, the pid and the time (rc_atomic), one at a time here.
\* The run cache writes the entry itself, in place.
TempInPlace(p) ==
    IF proc[p].key \in ModelKey THEN <<proc[p].key, "temp", proc[p].seq>> ELSE Entry(proc[p].key)
Temp(p) ==
    IF proc[p].key \in ModelKey THEN <<proc[p].key, "temp", proc[p].seq>>
                                ELSE <<proc[p].key, p, 0>>

Free == {i \in Ino : (\A n \in Names : dir[n] # i) /\ (\A p \in Proc : proc[p].fd # i)}

\* An inode with no name and no open descriptor after the step is gone.
Reclaim == file' = [i \in Ino |-> IF i \in Free' THEN NoFile ELSE file[i]]

\* sy_rename, sy_unlink: names change, the inode lives on in open descriptors.
Unlinked(n) == [dir EXCEPT ![n] = 0]

\* mc_complete: a model of the length its name gives, a run entry of any length
\* from its header on, each with its magic.
Recognised(i) == file[i].body \in {"whole", "damaged", "short"}

\* The files mc_trim counts: final names (mc_entry_name) of recognised files.
CompleteModels == {k \in ModelKey : dir[Entry(k)] # 0 /\ Recognised(dir[Entry(k)])}
Complete == {k \in Key : dir[Entry(k)] # 0 /\ Recognised(dir[Entry(k)])}

\* st_size of the entries.
Bytes == [k \in Key |-> IF dir[Entry(k)] # 0 /\ file[dir[Entry(k)]].body = "short"
                           THEN Short[k] ELSE Size[k]]
Total == SumFunctionOnSet(Bytes, Complete)

\* What a process sees of an entry when it lists the directory.
Seen(k) == [name |-> k, ino |-> dir[Entry(k)], mtime |-> file[dir[Entry(k)]].mtime,
            size |-> Bytes[k]]

\* Newest first.
mc_newer(x, y) == x.mtime > y.mtime \/ (x.mtime = y.mtime /\ x.name < y.name)

\* Seconds, and the name within one second.
mc_older(x, y) == x.mtime < y.mtime \/ (x.mtime = y.mtime /\ x.name < y.name)

\* The entry a candidate names is still the file that was listed.
mc_same(x) ==
    /\ dir[Entry(x.name)] = x.ino /\ file[x.ino].mtime = x.mtime
    /\ Recognised(x.ino) /\ Bytes[x.name] = x.size

-----------------------------------------------------------------------------
(* Lookup: mc_get and the reading half of rc_lookup_kind.                  *)

Start(p, k) ==
    /\ At(p, "idle") /\ proc[p].seq < MaxSeq
    /\ proc' = [proc EXCEPT ![p].at = "stat", ![p].key = k]
    /\ UNCHANGED <<dir, file, lock, now, faults, damage>>

\* The caller makes the value itself and stores it.
Miss(p) ==
    proc' = [proc EXCEPT ![p].at = "lock", ![p].seq = @ + 1, ![p].fd = 0]

Stat(p) ==
    LET i == dir[Entry(proc[p].key)] IN
    /\ At(p, "stat")
    /\ IF i # 0 /\ Recognised(i) THEN Go(p, "open") ELSE Miss(p)
    /\ UNCHANGED <<dir, file, lock, now, faults, damage>>

Open(p) ==
    LET i == dir[Entry(proc[p].key)] IN
    /\ At(p, "open")
    /\ IF i # 0 THEN proc' = [proc EXCEPT ![p].at = "read", ![p].fd = i] ELSE Miss(p)
    /\ UNCHANGED <<dir, file, lock, now, faults, damage>>

\* The header alone decides.
ValidByHeader(i) == Recognised(i)

\* Magic, length and the payload hash the file carries.  Nothing in the file
\* says what key it is of.
Valid(i) == file[i].body = "whole"

Read(p) ==
    /\ At(p, "read")
    /\ IF Valid(proc[p].fd)
          THEN proc' = [proc EXCEPT ![p].at = "touch", ![p].fd = 0]
          ELSE Miss(p)
    /\ UNCHANGED <<dir, lock, now, faults, damage>>
    /\ Reclaim

\* The lock is never waited for: a process that does not get it skips what it
\* wanted it for.
TryLock(p, call) ==
    IF lock = None THEN lock' = p /\ Go(p, call) ELSE UNCHANGED lock /\ Return(p)

TouchLock(p) ==
    /\ At(p, "touch")
    /\ TryLock(p, "touching")
    /\ UNCHANGED <<dir, file, now, faults, damage>>

\* mc_cache_touch, the part under the lock.
Touch(p) ==
    LET i == dir[Entry(proc[p].key)] IN
    /\ At(p, "touching")
    /\ file' = IF i # 0 /\ now > file[i].mtime THEN [file EXCEPT ![i].mtime = now] ELSE file
    /\ lock' = None
    /\ Return(p)
    /\ UNCHANGED <<dir, now, faults, damage>>

-----------------------------------------------------------------------------
(* Store: mc_put, rc_atomic and mc_cache_publish.                          *)

\* A process that does not get the lock tries again.
LockRetry(p) ==
    /\ At(p, "lock")
    /\ lock = None
    /\ lock' = p /\ Go(p, IF proc[p].key \in ModelKey THEN "unlink" ELSE "create")
    /\ UNCHANGED <<dir, file, now, faults, damage>>

Lock(p) ==
    /\ At(p, "lock")
    /\ TryLock(p, IF proc[p].key \in ModelKey THEN "unlink" ELSE "create")
    /\ UNCHANGED <<dir, file, now, faults, damage>>

UnlinkTemp(p) ==
    /\ At(p, "unlink")
    /\ dir' = Unlinked(Temp(p))
    /\ Go(p, "create")
    /\ UNCHANGED <<lock, now, faults, damage>>
    /\ Reclaim

\* mc_put opens a name that must be new; cx_write truncates one that is there.
Create(p) ==
    /\ At(p, "create")
    /\ LET old == dir[Temp(p)] IN
       \/ /\ old = 0
          /\ \E i \in Free :
                 /\ \A j \in Free : i <= j
                 /\ dir' = [dir EXCEPT ![Temp(p)] = i]
                 /\ file' = [file EXCEPT ![i] = Blank(proc[p].key)]
                 /\ proc' = [proc EXCEPT ![p].at = "header", ![p].fd = i]
          /\ UNCHANGED lock
       \/ /\ old # 0 /\ proc[p].key \in RunKey
          /\ file' = [file EXCEPT ![old] = Blank(proc[p].key)]
          /\ proc' = [proc EXCEPT ![p].at = "header", ![p].fd = old]
          /\ UNCHANGED <<dir, lock>>
    /\ UNCHANGED <<now, faults, damage>>

Header(p) ==
    /\ At(p, "header")
    /\ file' = [file EXCEPT ![proc[p].fd].body = "partial", ![proc[p].fd].mtime = now]
    /\ Go(p, "payload")
    /\ UNCHANGED <<dir, lock, now, faults, damage>>

\* The rest of the bytes, sy_fsync and sy_close.
Payload(p) ==
    /\ At(p, "payload")
    /\ file' = [file EXCEPT ![proc[p].fd].body = "whole", ![proc[p].fd].mtime = now]
    /\ proc' = [proc EXCEPT ![p].at = "rename", ![p].fd = 0]
    /\ UNCHANGED <<dir, lock, now, faults, damage>>

\* The lock goes before the directory is trimmed.
RenameUnlocks(p) ==
    /\ At(p, "rename")
    /\ IF dir[Temp(p)] # 0
          THEN /\ dir' = [dir EXCEPT ![Entry(proc[p].key)] = dir[Temp(p)], ![Temp(p)] = 0]
               /\ Go(p, "scan")
          ELSE UNCHANGED dir /\ Go(p, "cleanup")
    /\ lock' = None
    /\ UNCHANGED <<now, faults, damage>>
    /\ Reclaim

\* A failed rename gives the lock up; the caller removes its temp after that.
Rename(p) ==
    /\ At(p, "rename")
    /\ IF dir[Temp(p)] # 0
          THEN /\ dir' = [dir EXCEPT ![Entry(proc[p].key)] = dir[Temp(p)], ![Temp(p)] = 0]
               /\ Go(p, "scan")
               /\ UNCHANGED lock
          ELSE /\ lock' = None
               /\ Go(p, "cleanup")
               /\ UNCHANGED dir
    /\ UNCHANGED <<now, faults, damage>>
    /\ Reclaim

Cleanup(p) ==
    /\ At(p, "cleanup")
    /\ dir' = Unlinked(Temp(p))
    /\ Return(p)
    /\ UNCHANGED <<lock, now, faults, damage>>
    /\ Reclaim

-----------------------------------------------------------------------------
(* Eviction: mc_trim, one listing and then one victim at a time.           *)

\* Only the models are recognised as entries.
ScanModels(p) ==
    /\ At(p, "scan")
    /\ proc' = [proc EXCEPT ![p].at = "evict", ![p].seen = {Seen(k) : k \in CompleteModels},
                            ![p].total = SumFunctionOnSet(Bytes, CompleteModels),
                            ![p].clean = TRUE]
    /\ UNCHANGED <<dir, file, lock, now, faults, damage>>

Scan(p) ==
    /\ At(p, "scan")
    /\ proc' = [proc EXCEPT ![p].at = "evict", ![p].seen = {Seen(k) : k \in Complete},
                            ![p].total = Total,
                            ![p].clean = TRUE]
    /\ UNCHANGED <<dir, file, lock, now, faults, damage>>

Victim(p, x) ==
    /\ proc[p].total > Limit[p]
    /\ x \in proc[p].seen
    /\ \A y \in proc[p].seen \ {x} : mc_older(x, y)

\* The bytes of a removed entry stay in the sum.
EvictKeepsTotal(p) ==
    \E x \in proc[p].seen :
        /\ At(p, "evict")
        /\ Victim(p, x)
        /\ mc_same(x)
        /\ dir' = Unlinked(Entry(x.name))
        /\ proc' = [proc EXCEPT ![p].seen = @ \ {x}]
        /\ UNCHANGED <<lock, now, faults, damage>>
        /\ Reclaim

Evict(p) ==
    \E x \in proc[p].seen :
        /\ At(p, "evict")
        /\ Victim(p, x)
        /\ IF mc_same(x)
              THEN /\ dir' = Unlinked(Entry(x.name))
                   /\ proc' = [proc EXCEPT ![p].seen = @ \ {x},
                                           ![p].total = @ - x.size]
              ELSE /\ proc' = [proc EXCEPT ![p].seen = @ \ {x}, ![p].clean = FALSE]
                   /\ UNCHANGED dir
        /\ UNCHANGED <<lock, now, faults, damage>>
        /\ Reclaim

\* The loop of mc_trim is over.
Trimmed(p) ==
    /\ At(p, "evict")
    /\ proc[p].total <= Limit[p] \/ proc[p].seen = {}
    /\ Go(p, "unlock")
    /\ UNCHANGED <<dir, file, lock, now, faults, damage>>

Unlock(p) ==
    /\ At(p, "unlock")
    /\ lock' = None
    /\ Return(p)
    /\ UNCHANGED <<dir, file, now, faults, damage>>

-----------------------------------------------------------------------------
(* The environment.                                                        *)

Fault == faults < MaxFaults /\ faults' = faults + 1 /\ UNCHANGED damage

\* An open, write, fsync or close fails: the temp goes and the lock with it.
\* What the next writer of the name finds is the same if the unlink fails too.
WriteFails(p) ==
    /\ proc[p].at \in {"create", "header", "payload"}
    /\ Fault
    /\ dir' = IF At(p, "create") /\ proc[p].key \in ModelKey THEN dir ELSE Unlinked(Temp(p))
    /\ lock' = None
    /\ Return(p)
    /\ UNCHANGED now
    /\ Reclaim

RenameFails(p) ==
    /\ At(p, "rename")
    /\ Fault
    /\ lock' = None
    /\ Go(p, "cleanup")
    /\ UNCHANGED <<dir, file, now>>

\* No memory or no listing: the directory stays as large as it is.
ScanFails(p) ==
    /\ At(p, "scan")
    /\ Fault
    /\ proc' = [proc EXCEPT ![p].at = "unlock", ![p].clean = FALSE]
    /\ UNCHANGED <<dir, file, lock, now>>

EvictFails(p) ==
    \E x \in proc[p].seen :
        /\ At(p, "evict")
        /\ Victim(p, x)
        /\ Fault
        /\ proc' = [proc EXCEPT ![p].seen = @ \ {x}, ![p].clean = FALSE]
        /\ UNCHANGED <<dir, file, lock, now>>

\* The lock is a file that names its holder, and the holder is gone.
CrashKeepsLock(p) ==
    /\ ~At(p, "idle")
    /\ Fault
    /\ proc' = [proc EXCEPT ![p] = Fresh]
    /\ UNCHANGED <<dir, lock, now>>
    /\ Reclaim

\* The kernel closes what the process had open, the lock among it; its temp
\* stays.
Crash(p) ==
    /\ ~At(p, "idle")
    /\ Fault
    /\ lock' = IF lock = p THEN None ELSE lock
    /\ proc' = [proc EXCEPT ![p] = Fresh]
    /\ UNCHANGED <<dir, now>>
    /\ Reclaim

\* A process that is done is followed by a new one, which counts from zero.
Exit(p) ==
    /\ At(p, "idle") /\ proc[p] # Fresh
    /\ proc' = [proc EXCEPT ![p] = Fresh]
    /\ UNCHANGED <<dir, file, lock, now, faults, damage>>

\* Somebody edits or truncates an entry; what was taken away stays away.
Damage(k) ==
    /\ dir[Entry(k)] # 0
    /\ damage < MaxDamage /\ damage' = damage + 1
    /\ \E body \in {"damaged", "cut"} \union (IF k \in RunKey THEN {"short"} ELSE {}) :
           /\ file[dir[Entry(k)]].body = "cut" => body = "cut"
           /\ file[dir[Entry(k)]].body = "short" => body \in {"short", "cut"}
           /\ file' = [file EXCEPT ![dir[Entry(k)]].body = body, ![dir[Entry(k)]].mtime = now]
    /\ UNCHANGED <<dir, lock, now, proc, faults>>

Tick ==
    /\ now < MaxClock
    /\ now' = now + 1
    /\ UNCHANGED <<dir, file, lock, proc, faults, damage>>

-----------------------------------------------------------------------------
\* What a process does of itself once a call has begun.
Step(p) ==
    \/ Stat(p) \/ Open(p) \/ Read(p) \/ TouchLock(p) \/ Touch(p)
    \/ Lock(p) \/ UnlinkTemp(p) \/ Create(p) \/ Header(p) \/ Payload(p) \/ Rename(p)
    \/ Cleanup(p) \/ Scan(p) \/ Evict(p) \/ Trimmed(p) \/ Unlock(p)

Next ==
    \/ \E p \in Proc :
           \/ Step(p)
           \/ \E k \in Key : Start(p, k)
           \/ WriteFails(p) \/ RenameFails(p) \/ ScanFails(p) \/ EvictFails(p)
           \/ Crash(p) \/ Exit(p)
    \/ \E k \in Key : Damage(k)
    \/ Tick

\* A process that is running goes on running.  Nothing else is owed.
Fairness == \A p \in Proc : WF_vars(Step(p))

Spec == Init /\ [][Next]_vars /\ Fairness

-----------------------------------------------------------------------------
(* Properties.                                                             *)

\* A final name never leads to a file its writer has not finished, or to
\* another key's, whatever crashes, fails or interleaves: the reason mc_put
\* writes to a temp that is locked, synced and renamed.
NoTornEntry ==
    \A k \in Key : dir[Entry(k)] # 0 =>
        file[dir[Entry(k)]].key = k /\ file[dir[Entry(k)]].body \notin {"empty", "partial"}

\* A lookup that hits returns the whole, undamaged content of its own key.  The
\* hash mc_read checks is the one the file carries, so that it is the right key's
\* file rests on the names: whatever stores, renames, crashes and truncates came
\* before, and whatever happened to the name since the open, the open file is one
\* that was made for this key.
HitExact ==
    [][\A p \in Proc : At(p, "read") /\ proc'[p].at = "touch" =>
           file[proc[p].fd].key = proc[p].key /\ file[proc[p].fd].body = "whole"]_vars

\* A file somebody has open for reading keeps its bytes, whoever stores, trims
\* or touches (mc_trim may take its name away); only an outsider edits it.
OpenFileKept ==
    [][\A p \in Proc : At(p, "read") /\ proc'[p].at = "read" /\ damage' = damage =>
           /\ file'[proc[p].fd].key = file[proc[p].fd].key
           /\ file'[proc[p].fd].body = file[proc[p].fd].body]_vars

\* A trim that met no failing call leaves the directory within the budget of
\* the process that trimmed: its sum, taken once, is still right at the end.
TrimmedToLimit ==
    \A p \in Proc : At(p, "unlock") /\ proc[p].clean => Total <= Limit[p]

\* The step is one in which the trim of p takes an entry away, in a directory
\* only the cache has changed.
Removes(p, k) == damage = 0 /\ At(p, "evict") /\ dir[Entry(k)] # 0 /\ dir'[Entry(k)] = 0

\* An entry is evicted only while the directory really is over the budget.
EvictsOverBudgetOnly ==
    [][\A p \in Proc, k \in Key : Removes(p, k) => Total > Limit[p]]_vars

Used(k) == file[dir[Entry(k)]].mtime

\* The victim is the entry of the oldest modification time in the directory at
\* the moment it goes, except for those this trim has already failed to remove:
\* the order taken at the listing is still right after every failed call.
EvictsOldest ==
    [][\A p \in Proc, k \in Key : Removes(p, k) =>
           \A j \in Complete \ {k} :
               \/ Used(k) < Used(j) \/ (Used(k) = Used(j) /\ k < j)
               \/ \A x \in proc[p].seen : x.name # j]_vars

\* With no fault, in a directory only the cache has changed, the entries are
\* never more than one above the largest budget, however many processes store
\* at once.
OneEntryOver ==
    faults = 0 /\ damage = 0 => \E p \in Proc, k \in Key : Total <= Limit[p] + Size[k]

\* A call of the cache always comes to an end: it never waits for a lock.
CallsEnd == \A p \in Proc : ~At(p, "idle") ~> At(p, "idle")

\* The lock always comes free again, also after its holder crashed.
LockComesFree == []<>(lock = None)

\* A writer's temp is its own from the moment it is created until it is
\* renamed: "Publication and temp creation share the budget lock, including
\* writers of the same model key."
OwnTempKept ==
    [][\A p \in Proc :
           proc[p].at \in {"header", "payload", "rename"} /\ proc'[p].at = proc[p].at =>
               dir'[Temp(p)] = dir[Temp(p)]]_vars

=============================================================================
