# TLA+ models of unisacc

unisacc is a C compiler whose stages are *models*: tables of transitions that one small machine
(`core_run`) executes over bytes.  A package carries the models; a driver chooses a route through
them, caches decompressed models and finished results on disk, and runs or writes the product.  The
program is single threaded; what makes it hard are the files it shares with other runs of itself and
with its user, the handles and borrowed pointers it passes around, and tables that grow under use.
It carries the C library that its products are compiled with, and its build rests on two tools that act on
the machine they run on: one that stops commands at a deadline, and one that every deletion goes through.

This directory holds TLA+ modules for the parts with state of that kind, the TLC configurations that
check them on small instances, and theorems that TLAPS checks for every size, about every module that a run checks.
Paths below are relative to `src/` of the repository's tree.

## Running it

    tlc -workers 2 -config MCCore.cfg MCCore     # any MC<...>.cfg and its module
    tlapm ManagedMemoryProofs.tla     # any of the eight modules with theorems, see Proofs

`MCRunCache.tla` also serves `MCRunCacheStale.cfg`, `MCLibc.tla` `MCStdioLoss.cfg` and `MCStdioReadOnly.cfg`, and `MCTools.tla`
`MCToolsSweep.cfg` and `MCToolsRefused.cfg`; every other MC module has one configuration, of its own name.  `PROJECT.json` lists the runs, for each property a mutated definition that breaks it, and
for every definition the lines of code it stands for.

## The system

| part | code | state | operations | hard because |
|---|---|---|---|---|
| managed memory | `cx/core/memory.cx` | instances, buffer slots, lease slots, one token counter | create, destroy, new, read, write, copy, import, move, drop, borrow, release | handles are values that outlive what they name; views alias |
| cache directory | `cx/runtime/modelcache.cx` | entries, temps and a lock file in one directory, a clock in seconds | get, put, publish, touch, trim | processes interleave at every system call, crash, fail |
| run cache | `src/runcache.cx`, `src/hostres.cx`, `cx/runtime/rcident.cx` | key, noted files, receipts in an entry | open, lookup, arm, note, store | files are edited between the two times each is read |
| driver | `src/drive*.cx` | the words of the command line, units, route | read input, route, run, write | order of the calls on the caches |
| model machine | `cx/core/execute.cx`, `stack.cx`, `output.cx`, `transition.cx` | registers, frames, stacks, buffers, blobs, tables | one transition with its actions at a time | frames borrow bytes that SWAP frees; many ends |
| tables | `cx/core/sparse.cx`, `cx/core/bytes.cx` | open addressing tables, blobs, resources found | get, set, intern, find | rehashing; id 0; files change meanwhile |
| package and models | `src/packmodel.cx`, `cx/runtime/package_*.cx`, `model_*.cx`, `rescache.cx` | the open package, decoded models, cached resources | open, load, fetch, release | pointers borrowed from the package: it is opened once and closed last, and `cxpl_reuse` has no caller |
| stages | `src/stages.cx`, `src/executor.cx`, `cx/runtime/routestep.cx` | cursor over a route, bytes handed on | reset, take, run, swap | ownership of bytes passes from stage to stage |
| processes | `cx/sys/proc.cx` | pipes and children | spawn, spawn with pipes, wait | exec reports through a pipe; nothing may leak |
| bounded commands | `tools/bound.c`, `cx/compiler/boundgate.cx` | the known tree, a deadline, what a signal left | wait, freeze, kill, sweep, reap, stop | the command forks, detaches and exits meanwhile |
| process guard | `tools/procguard.cx`, `ext/sysx/reaper.cx` | a tree of processes | run, freeze, kill, reap | pids are reused |
| deletion guard | `include/unisa_safedel.h`, `tools/safedel.cx` | the tree of files, the trashes | delete, trash, purge the trash | what is below a path; others make files meanwhile |
| library streams | `include/stdio.h`, `include/sys/_exit.h` | 8 slots of flags and buffers, found by descriptor | open, read, write, push back, seek, flush, close, exit | one buffer for two directions; slots run out and move |
| library allocator | `include/stdlib.h` | free lists in the blocks themselves, the rest of a chunk | malloc, calloc, realloc, free | blocks are handed out again with old bytes |
| TLS client | `ext/crypto/tls13.cx`, `record.cx` | handshake state, sequence numbers | start, receive, finish | order of messages |

The driver calls the run cache around a compile (`src/drive.cx:534-575`); the compile's reads reach the
cache through a callback of `hs_file` (`src/hostres.cx`).  The run cache and the model cache keep their
entries in one directory and share its lock and its trim (`mc_cache_lock`, `mc_cache_publish`).  The model machine
uses the sparse memory, the interned strings and the blobs, and asks the host for resources.  The managed
memory is used through handles only.  The streams flush in `exit`, which they share with `stdlib.h`; the two
tools use neither the package nor each other.

What makes each part correct: a handle or a view reaches live memory of its owner or nothing; a cache entry is
whole and is what its key says; a cached result is what a compile would give; a directory keeps its budget,
and nobody waits for a lock; a table answers like the map it stands for; a run ends and gives back what it took; a
program sees plain files and blocks of its own; a bounded command ends and leaves nobody behind unsaid; nothing
protected is deleted, and an answer says what was done.

## Modules

### `ManagedMemory`, `Ownership` and the proofs

`ManagedMemory` has one variable for each kind of table of `cx/core/memory.cx`: `next` (`cm_next`), `inst`, `buf`,
`lease` (the parallel arrays as records) and `total`.  One action per call; the checks each call starts with
are the operators `InstanceIndex`, `OwnerIndex` and `LeaseIndex`, and each call takes *any* handle over the tokens
issued so far, so kept, copied and made-up handles are all tried.  A call that answers an error changes
nothing and is a stuttering step, as are the calls that only read.  `mm_alloc` failing is an error answer.
The two argument lists of a copy within one buffer are read before anything is written, like `mm_move`.

`Ownership` is the promise without tables: owners with contents, and views that are either shared or the only one.  Its
tokens are never reused.  `ManagedMemory` implements it under the refinement in `ImplementsOwnership`.

### `CacheDir`

The directory as names to inodes, files with a key, a state of the body and a modification time, the lock, the
clock, and processes with the local variables of the call they are in.  Every system call that another
process can notice is a step.  `Start` to `Touch` is `mc_get`; `Lock` to `Cleanup` is `mc_put` (and `rc_atomic` of the run
cache, which differs in opening its temp by truncation and in having its pid in the name); `Scan` to `Unlock` is
`mc_trim` inside `mc_cache_publish`.  A header and a payload are one write each.  A reader checks what `mc_read` and `rc_lookup_kind` check: the
magic, the length and the hash that the file itself carries, never its key (`Valid`).  The trim takes for an entry whatever `mc_complete` does: a
model of the length in its name, and a run entry of any size from its header on, so one that somebody cut `short` still counts with the bytes it has (`Recognised`, `Bytes`).  The environment crashes a process
anywhere, fails a call, starts a process with a fresh counter of temps, edits an entry, and advances the clock.
`flock` locks belong to an open file, so a crash releases them.  The listing of `mc_trim`, with its stat of each
entry, is one step: a listing that takes a while differs from it by changes that `mc_same` finds afterwards, as
writers are kept out by the lock and only an outsider is left.

### `RunCache`

Files have versions.  What a compile makes is represented by what it read: its options and the set of
`<<path, version>>` pairs, absent files included, so "gives the same as a fresh compile" is "every read would
return the same now", exact for a compile that is a function of its reads.  A `-run` is `Begin`, `ReadInput`,
`rc_open`, `Lookup`, `Check` for each receipt, and then `Hit`, or `ReadPackage`, `Include` for each candidate of each include
and `Receipt` for each noted file, and `Store`.  Edits come between any two.

The compiler is a file too.  Its program is what was there at `Begin`, its models what is there at `ReadPackage`
(`src/drive.cx:575`), and the key has neither of them but `rc_hex_ident`: size, device, inode and times in whole seconds
(`cx/runtime/rcident.cx:16-28`).  `product.ident` is that identity.  A new version gets a new one, or, if it is of one size with all that had it (`Alike`), may
get an old one, as when it is copied over the file within a second; `product.stood` is the history of what each identity was.  A
package in another file than the running program (`UNISA_CONTAINER`) is left out.  `Opt` stands for the
working directory and the words of the command line, which `rc_hex_sources` hashes with the source.  An entry is stored or evicted in one step; `CacheDir` shows why it may be.

### `SparseMemory`, `WordMemory`

`CxSparse` with its probing, its test before each set, and its rehash; the hash is a CONSTANT function so that
keys collide as the instance wants.  `WordMemory` is a function from keys to words, zero at first.

### `ByteTables`

The interned strings, the blobs and the resources of one run, with a host whose files change during it.
History variables record which string got which number and what a name was first found to be.

### `ModelMachine`

`core_run` for *any* model: a transition may name up to `MaxActions` actions with any operands.  The model keeps
what the actions do to frames, buffers, blobs, stacks and allocations; `heap` is the live blocks with
their sizes and `badfree` says that something not live was freed.  Register values and text are abstracted: an operand
takes any value.  Operands a compiled model cannot have (a blob id out of range) are left out, as the loader of a package is
trusted by the machine.  An action that panics ends the program (`dead`).

### `Stdio`, `CStream`

`Stdio` has the kernel's part (`disk`, `open`: the file, mode and offset of each descriptor), the table `slots` (the parallel
arrays `_u_st_*` as records), and a device that may be `full`.  The arrays' order matters, because closing a stream moves the last
one, so `slots` is a sequence.  One action per call; the helpers `u_st_slot`, `u_st_raw`, `u_st_wflush` and `u_st_wput`
are operators on a record of those variables, with the set of outcomes where a write may stop early.  `fputc`, `fputs` and
the formatter are `fwrite`s; `getc` and `fgets` are `fgetc`s.  `lost` is history: streams of which a flush dropped bytes that nobody
was told of by `clearerr`, a new file or the close; `mismarked` that a slot once told of another mode than its stream has.

`CStream` is the promise: files of bytes, a position, a byte pushed back, and nothing of buffers.  The refinement takes the bytes
that wait to be written as written, and the position less what was read ahead.  It holds until the device fails once,
from where `CloseExact` and `SlotsOfOpenStreams` speak, or a read only stream is marked wrongly (see `stdio_readonly` under Findings).
`CloseExact` is about the bytes that wait when `fclose` is called; bytes that an earlier flush dropped are the subject of `LossObservable`.

### `Alloc`

Words of memory that mappings make available, with each block's header and the link of a free block in the words where the code
puts them, so that a block handed out twice or a link overwritten shows as it would.  A mapping may fail.  `user` is
what the program was given and must find there; `stack` is history.

### `Bound`

The processes have a state, a parent and a process group, and fork, call setsid, exit, die of a signal and reap at any moment unless stopped;
children of the dead are adopted, since bound is a subreaper.  Each wait, reading of ps, line of ps, kill of a list, name of
`/proc` and reaped child is a step of bound.  `time` has the two moments that matter, `command_at` and `hard_at`, and may pass
them anywhere.  A reading of ps may fail at once or at its own deadline.  Each pid is used once.

### `SafeDel`

A tree of nodes with a kind, a name, a device and a time; a *site* gives the tree, the home, the cwd and the temp roots.  The checks
of one path (`check`, `walk` and the count) are one step, `Begin`; a purge then removes one entry a step from the listing it took of
each directory, and may fail at any; the trash is made and the path moved in one.
A check may fail itself, which ends the run with nothing touched (`Return("failed")`), and a path where nothing is any more is judged by what its
directory is now (`AbsentRefused`).  `Protected` is what no deletion may take, told from the tree and not from the checks: the home, the cwd and the
temp roots outside repositories with all that holds them, one temp root in the other included; a `.git` and what is in it; mount points; the rest of a repository.  `Paths` and `PurgeTrash` are the loops
of the two commands: all dry runs, then the runs in `queue`.  `Make` is somebody who makes a file at any moment.

## Checks

| run | question | bounds |
|---|---|---|
| `cache_faults` | no torn entry, exact hits, trims | 2 processes, a model and a run entry, 1 fault anywhere, 1 outside edit that damages, cuts or shortens: enough for a crash in one process between any two steps of another |
| `cache_budget` | bound of the directory, the oldest goes, calls end, the lock comes free | 2 processes with different budgets; 3 entries of different sizes and 3 seconds without faults, or 2 entries and a fault anywhere |
| `cache_temp` | *violated*, see Findings | 2 processes, 1 failed rename |
| `run_cache` | hits are fresh, refusals have a cause | 2 search orders, 2 headers, 2 edits, a second compiler of the same size: compiles one after another, or two at once (symmetric) |
| `run_cache_stale` | *violated*, see Findings | as `run_cache`, one process, one search order, compilers told apart |
| `core` | of the managed memory views, counts, quotas and tokens, whatever handles are used, and the refinement of `Ownership`; the table is a memory; numbers, searches and ids stay; frames backed, nothing leaks, every run ends | 2 instances, 2 buffers, 2 leases, 2 bytes of 2 values, 4 tokens: two views of one buffer and of two, after moves and reuse, and all of the counter's life; 5 keys that collide and wrap through 3 doublings; 4 strings, 1 name, 2 changes of a file; 2 transitions of up to 3 actions, 3 frames, 2 blobs |
| `libc` | programs see plain files and blocks of their own | a buffer of 2 bytes, files of up to 3, strings shorter than the buffer, as long and longer; every call on one file; two streams with two slots, and with one, read only ones among them; one failure, each mode in one of these (the files are symmetric); two classes, chunks that are used up, 2 mappings |
| `stdio_loss` | *violated*, see Findings | one file of a byte, one failure |
| `stdio_readonly` | *violated*, see Findings | two files, one slot |
| `tools` | bound ends, and its answers are true; the guard protects, counts and answers | the command and 2 processes it may fork (one adopted with a child of its own), a tree with room for 2; eight sites, temp roots in one another among them, two calls, depth 2, ceilings that are met and passed, by one tree and by two together |
| `bound_sweep` | *violated*, see Findings | as `tools` |
| `safedel_refused` | *violated*, see Findings | two paths |

Runs that join modules (`core`, `libc`, `tools`) let one part move in a behaviour, chosen by `focus`: the parts share no state, so
more would only multiply the states.  In the same way `scene` chooses in `MCCacheBudget` and `MCRunCache` which of two
instances a behaviour is in, and `scope` and `site` are fixed in a behaviour of `Stdio` and `SafeDel`.

`TLC` finds every property true except the six marked.  The properties, with the behaviour each is about, are in the comments
above them.  A few need a word.  `HitFresh` speaks of entries made and looked up while nobody edited files; what happens
otherwise is `CachedAsFresh`.  It also asks that the identity in the key has meant one compiler: when a file of the same size was copied over the compiler
within a second, a hit can be the old compiler's, and the receipts cannot tell.  `rcident.cx:3-5` says that a *forged* identity "cannot validate a stale
entry", which is about the content of entries and not about that, so it is a condition here and no finding.  `EvictsOldest` speaks of the modification times of the entries
present when the victim goes, and not of those whose unlink this trim has already failed; that a time is the last use is not claimed, as a touch without the lock is skipped.  `ProtectedStay` and `AnswersTrue` weaken what they say when somebody else made
files during the command, as the code cannot know of them: a .git in a directory being purged still stays, and "ok" is still true.

The run cache's runs do not check deadlock, as the compiler's file may be gone for good.

Bounds named in the modules that the code has not: `MaxSeq`, `MaxClock`, `MaxFaults`, `MaxDamage` (`CacheDir`), `MaxEdits`
(`RunCache`), `SparseMaxCap` (`SparseMemory`), `MaxCap`, `MaxTableBlobs`, `MaxChanges` (`ByteTables`), `MaxActions`, `MaxLength`, `MaxFrames`,
`MaxBlobs`, `MaxStack` (`ModelMachine`), `Fd` and what a scope names (`Stdio`), `Space` (`Alloc`), `Procs` (`Bound`), and the calls, paths and nodes of
a site (`SafeDel`); there the guard simply stops, so deadlock is not checked where a bound, or a machine or command that is
done, may stop the model.  `TokenEnd` and the `Max` constants of `ManagedMemory`, `MaxSteps`, `BufSize`, `NST`, `Chunk`, `TreeMax` and `SafedelDepth` are limits
of the code with small values.

**Fairness.**  `CacheDir` assumes only that a process inside a call goes on (weak fairness of `Step(p)`): it is an
ordinary program that is scheduled.  Nothing is assumed of crashes, calls to come, the clock or the lock; `CallsEnd` holds
because the lock is tried and never waited for (`sy_flock` with LOCK_NB).  `ModelMachine` assumes that the one thread
runs on; `RunEnds` then rests on the budget.  `Bound` assumes that bound is scheduled (weak fairness of `BoundStep`) and that the clock goes on (of
`Tick`), and nothing of the command's processes, which may fork, spin or sit for ever, and need not even die when killed: `BoundEnds`
rests on `waitpid` with WNOHANG and the look at the clock in every loop.  In the composed runs these
conditions are stated for the behaviours in which the part moves.  No other module states liveness.

## Proofs

Eight modules hold theorems, each with its lemmas; every theorem is about the module it extends, for *every* value of the
constants that satisfies the module's `ASSUME`, which TLC evaluates in the runs too.  `PROJECT.json` lists them.  They share one form:
an inductive invariant (checked by TLC on the run's instance before it was proved), a lemma for the initial states, one for each action, and
a temporal theorem that joins them.  An action property follows from the invariant and one step.  36 of the 40 properties of
the passing runs are proved; the other four are liveness.

| module | proves | invariant |
|---|---|---|
| `ManagedMemoryProofs` | `TypeOK`, `LeasesBacked`, `BorrowsExact`, `TokensUnique`, `NoRevival`, `SharedViewFrozen`, `ExclusiveWritesInView`; `AccountsExact`, `ImplementsOwnership`, and what `Ownership` promises of its loans | `IInv`, `OInv` |
| `SumFacts` | what a sum over a finite set is, and that a set of naturals has a least one; used by six others | |
| `CacheDirProofs` | `NoTornEntry`, `TrimmedToLimit`, `OneEntryOver`, `HitExact`, `OpenFileKept`, `EvictsOldest`, `EvictsOverBudgetOnly` | `IInv` |
| `RunCacheProofs` | `HitFresh`, `MissForCause` | `Inv` |
| `CoreProofs` | `FramesBacked`, `NothingLeaks`, `FindStable`, `InternExact`, `ImplementsWords` | `MInv`, `FindsKnown`, `InternInv`, `MemoryInv` |
| `AllocProofs` | `ListsExact`, `BlocksApart`, `ContentsKept` | `AllocInv` |
| `StdioProofs` | `SlotsOfOpenStreams`, `OthersKept`, `CloseExact`, `ImplementsStreams` | `StdioInv`, `Undisturbed` |
| `ToolsProofs` | of bound `NormalMeansGone`, `FrozenComplete`, `StatusTrue`; of the guard `WithinCeiling`, `ProtectedStay`, `AnswersTrue` | `IInv`, `GuardInv` |

**Managed memory.**  `IInv == TypeOK /\ TokensIssued /\ LeasesBacked /\ BorrowsExact /\ BorrowCount`.
`LeasesBacked` is not inductive alone.  `cm_drop` and `cm_move` take a buffer from under its token only when both
counts are zero, which forbids a view only if the counts are exact (`BorrowsExact`, cardinalities of sets of lease slots).
`cm_destroy` looks at the count of the instance, so that must be exact too (`BorrowCount`), and `cm_new`, which gives a free
slot a new token, must not revive a lease of an old one: tokens in force are below `next` (`TokensIssued`).
Tokens and views follow from two facts about a step: it changes the token of at most one place of the tables, to nothing or to
the value `next` had, and then `next` moves past it (`TokenChange`); and the bytes of at most one buffer change, which has no
view at all, or one exclusive view inside which they change (`DataChange`).

`OInv` adds the accounts: each is the sum of what the tables hold, so a step that adds a buffer, drops one, moves one between instances or
destroys an instance changes exactly two or three sums (`SumFacts`).  The refinement maps every action to one of `Ownership` or to a
stutter.  The step that needs an argument is the end of an owner: `Ownership` lets an owner go or change its token only without loans, and that nobody holds
one is `LeasesBacked` with `TokensUnique`, as a loan names its owner by the token.

**Sums.**  `SumFunctionOnSet` of the community modules takes elements in an order nobody knows.  `SumFacts` shows by the least
counterexample that the recursion has a solution, that it is the only one, and hence that a sum does not depend on the order, and changes by the difference when one value does.
This replaces the library's induction theorems, which take an operator.

**Cache directory.**  `IInv` says of the files that a name, an inode and a writer belong together: each inode has at most one name, a file
with a writer has only that one, and a writer past the rename has written all (`FilesInv`).  What a lookup has open was opened under its key's name
and is never made another key's (`ReaderOfEntry`): that, with the hash the file carries, is `HitExact`.  For the budget: the listing of a trim speaks of a directory that only this trim takes from (`Listed`, by the lock), the running sum is the
sum over what is left of it (`Summed`), a trim that met no failure ends within the limit (`TrimmedToLimit`), and between
publications the directory is within the largest budget (`Budgeted`), so at most one entry is over it, however many processes write.
`OneEntryOver`, `EvictsOldest` and `EvictsOverBudgetOnly` speak of directories that no outsider has changed; the first also of none where a call
failed or a process crashed, since after that a trim may not have come.

**Run cache.**  `Inv` says of every entry that was made without an edit that its tape is the key's two files and its receipts (`EntryOK`), and of every process nobody has disturbed
that its notes are the tape so far, and what has been checked holds (`ProcOK`).  The identity of the compiler has stood for what the file is now (`Stands`), so a key whose identity
has meant one compiler is this one's.  A hit then has key and receipts for every read, and
a receipt that fails is a read that differs.  Versions are any natural numbers, and the includes of a version any sequence of names.

**Model machine and tables.**  `MInv`: the frames borrow from the input of the pass or from a live blob (`FramesBorrow`), and what is live on the heap is known by
a name the machine still has (`HeapKnown`); both only while it is alive.  For the resources, every answer given is in the table, which holds a name once.

The two tables with open addressing have the same argument, for the words (`Table`) and for the strings (`Strings`).  From the slot a key hashes to
up to the one it is in no slot is free, and a key is in one slot only; with a free slot somewhere, a search
stops at the key's slot if it has one and at a free one if not (`ProbeFinds`, `SearchFinds`).  That a search comes to every slot is
arithmetic of the remainder (`EverySlotReached`).  A write keeps this and changes what the table maps at one key (`PutKeeps`, `Written`).  Growth is a fold over the old slots:
`FoldExists` shows, again by the least counterexample, that the library's recursion has a solution, so it unfolds one slot at a time, and the least slot up to which the new table would
not map what the old one does cannot exist (`GrownKeeps`, `GrownKeepsStrings`).  At most half of a table is used (`HalfFree`, `InternTable`), which is what lets the search end.
`MemoryInv` then gives the refinement: a set changes the function from keys to words at its key.  `InternInv` adds that the strings in the table have the
numbers up to n, one each, and that every number ever given is still the string's.

**Allocator.**  `AllocInv` is `HeapInv` of the present state: sizes and headers, contents, the links of each list, and that extents of blocks and of the rest of
the chunk are disjoint (`Apart`).  It is stated over the words and the blocks, so that each of free, carving, a new mapping and writing has a lemma, and realloc is their composition.

**Streams.**  The helpers work on a record `w` of the four variables a call may change, so the invariant is one of such a record:
`Fit(w, X)`, where X are descriptors on their way to be closed or opened anew, says that slots, descriptors and buffers fit together, and
`Apart(w)` that no two streams are on one file; `StdioInv` is `Fit(Lib, {}) /\ Apart(Lib)`.  Each helper keeps it and, by `OnlyFor(w, v, fd)`, changes
nothing of other streams, though it may move their slots.  `SlotsOfOpenStreams`, `OthersKept` and `CloseExact` follow, for any failures.

For the refinement, `Undisturbed` adds that while nothing has failed and no slot was marked wrongly the buffers are true (`Mirrors`): unread bytes are those of the file
right before the offset, waiting bytes belong to a stream that may write, and the slot's read-only flag is what the mode says
(`Truthful`).  `View` is what a program sees of a stream, and one lemma per call (`ReadShown`, `SeekShown`, ...) proves that what comes of it is
a step of `CStream` and mirrors again (`Faithful`).  A flush changes no view, by itself and hence in the loop of `fflush(NULL)` and `exit`, which is
shown through the number of slots flushed so far.  A slot says of an open stream what its mode does (`MarkedSlot`) because a call that leaves it otherwise sets `mismarked`:
a stream opened "r" that found no slot and takes one later, or a `freopen` in a full table.  The theorem has no other condition, on
sizes, modes or the number of streams.

**Bounded commands.**  `IInv` has the family tree (who is whose child, where the dead's children go), what stopping a process means for its future, how bound
itself may end, and what is left when its loops have ended.  `NormalMeansGone` needs all: a process the command left is alive only as a
descendant of bound's, and those are waited for until there is none.

**Deletion guard.**  `GuardInv` has five parts.  `TreesOk`: the tree, the one a run began with and the one a command began with are trees
(`IsTree`: what is above a node are directories, up to the root).  `QueueOk`: each run to come is for a node that was there when the command
began, at the path it had then.  `RunOk`: while a run is under way the tree is the one it was allowed in, but for what others made and, in a purge, for what is
gone from below the target.  `FramesOk`: the directories a purge is in are a line down from the target, none in a `.git`, and what is left of a listing was
there when the run began.  `CeilingOk`: what is gone and what may still go are within the budget.  `ProtectedStay` then joins the
two: what goes is below the target (`FramesOk`), what is below the target was walked and found unprotected (`Allowed`, `RunOk`), and the tree
is still that one.  `WithinCeiling` needs that a union is no larger than the sum of its parts (`UnionBound`, from `SumFacts`), as two paths may be one
in the other.

`Above` and `Path` are recursive functions over the tree.  That they exist is shown by climbing from the top down through the least
set that still lacks a value (`ForestInduction`, `ClimbExists`), with no induction theorem of the library; `PathTells` then says that nodes with
one path are below the same nodes, and `PathSame` that a path stands as long as all above stand.  This is where the prover had objections: a protected link is protected by the
repository it *lies in*, and a refusal speaks of the tree the same command began with; both were corrected in the properties.

**Assumptions.**  `MemoryAssumption` (at least one instance and one buffer, a counter end above zero, the byte new buffers are
filled with), `CacheAssumption`, `RunCacheAssumption`, `MachineAssumption`, `TablesAssumption` and `SparseAssumption` (a first
capacity of two or more, as one slot must stay free), `SizesAssumption` (sizes of classes grow and fit the chunk)
and `BoundAssumption` state types and signs of the constants and what the code's own constants satisfy.
`StdioAssumption` has the types of what a program works with, and that `None` is no byte and no record; `SafeDelAssumption` says that each site starts with a tree, and that the nodes for a trash, its entries
and what others make are not in it yet.

**Only model checked.**  Everything with fairness (`CallsEnd`, `LockComesFree`, `MachineEnds`, `CommandBounded`) is beyond the prover, as liveness needs ENABLED.

## Findings

* `cache_temp`.  A comment says the temp of an entry carries the writer's pid (`cx/runtime/modelcache.cx:25-26`) and another
  that no process can truncate another's temp, as creation and publication share the lock (`:364-365`).  The name has a
  counter of the process instead (`:366-372`), so two processes that each store their first entry of one key use one
  name, and after a failed rename the lock is released (`:292`) before the temp is removed (`:386`).
  The trace: p1's rename fails, p1 gives up the lock, p2 takes it and creates the same name, p1 removes it.
  p2's store is then lost (its rename finds nothing); no wrong entry comes of it, which is `NoTornEntry`.
* `run_cache_stale`.  `tests/runcache.cx:2-3` promises that a cached run gives the same as a fresh compile for every change
  the key or the receipts are meant to see.  Receipts are hashed when the result is stored and the source when the cache is
  opened, each after the compile's own read.  An edit between leaves the old result under the new hash, and
  it is taken by every later run until the file changes again.
* `stdio_loss`.  `include/sys/_exit.h:72-74` says that a write failure is observable by `ferror`.  A stream opened for reading
  and writing has a byte waiting; `fgetc` flushes it in vain and the bit is set (`_exit.h:88`), but `fread` does not look at the flush
  (`stdio.h:250`), the read succeeds, and `fgetc` clears the bit (`stdio.h:378`).  `fclose` then answers 0.
* `stdio_readonly`.  `include/sys/_exit.h:52` says of `_u_st_ro` that a write to a stream opened "r" fails with EBADF, and
  `include/stdio.h:98` that it answers at once.  `fopen` sets the flag in the stream's slot, if it has one (`:351`); one that got none
  gets it with a later call, and `_u_st_slot` clears the flag (`:83-86`).  `freopen` takes the flag over from the slot of the second
  descriptor, if there was one (`:513`), and else leaves that of the old mode.  The trace: a stream opened "w" has the last slot and is
  reopened "r"; `fwrite` answers that its byte is written, and only the flush fails.
* `bound_sweep`.  `tools/bound.c:321` says that a clean sweep proved that nothing is left.  A process adopted by bound forks
  and exits after its name was read from `/proc` and before its stat is (`:289-310`): it is passed over as a zombie,
  and its child, now bound's, is not among the names.  bound does not end normally for it (`NormalMeansGone`): it waits for
  a child that nobody kills until the hard deadline, and stops.
* `safedel_refused`.  `tools/safedel.cx:5-6` says that all paths are checked before any is touched and that one refusal means nothing is
  deleted.  The refusals of the trash itself come after the point where a dry run returns
  (`include/unisa_safedel.h:413-424`), so `safedel FILE TMP/.trash` moves FILE and refuses then.

## Not modelled

Parsing, decoding, number and string formatting and the content of models and nets: functions of their input, covered by the
repository's own tests.  Failed allocations where the code panics.  The assembly of `core_run` (`cx/sys/kernel.cx`): the C
source of the same interface is modelled.  Windows' and macOS' variants of system calls, and so bound without `/proc` and without a
subreaper.  Of the streams: descriptors 0 to 2, pipes, two streams on one file, seeks past the end, and a byte pushed back right after
a write, which C leaves open.  Of the guard: spellings, and permissions of the trash.  Reuse of a pid.

Met while modelling and not stated as properties, because no line of the repository promises otherwise or a property would need
what is left out: a read of a pipe that gives less than was asked sets end of file; a temp root inside the `out/` of a repository is
treated as any other directory of that repository; one entry of a trash that holds a `.git` refuses the purge of all of it;
bound's last loop looks at the clock only when nothing was reaped.

Of the C files, `archive/reference-c` is kept for comparison only (its README says so), `include/cx-flat.h` is written by a tool, `seed/gen.c`
builds the tables of the seed from files in one pass, and most of `include/` is declarations, formatting, mathematics and text:
functions of their input without state of the kind above.  The full list is under "components" in
`PROJECT.json`.

## Plan

1. *Done*: managed memory with its first theorems, cache directory, run cache, tables, model machine; library streams and allocator,
   bounded commands, deletion guard.
2. `Spawn` (`cx/sys/proc.cx`): the pipe for the errno of exec; and the reaper with pids that are reused.
3. `Stages` (`src/stages.cx`, `routestep.cx`, `stagehandoff.cx`), `UnitFrames` (`holdframe.cx`, `driveunits.cx`), `RecordLayer` (`record.cx`).

Of the runs' safety properties and refinements none is left to prove.  What remains is liveness, for which TLC stands alone, and
the theorems of the modules under 2 and 3.
