------------------------------- MODULE Stdio --------------------------------
(* The streams of the carried C library (include/stdio.h and                *)
(* include/sys/_exit.h) that fopen opens: a FILE * is a descriptor, and     *)
(* what a stream has besides is in a table of _U_NST slots that are found by   *)
(* it, with one buffer for unread or for unwritten bytes.  A stream that    *)
(* finds no slot is not buffered.  Two streams are never open on one file,  *)
(* and no seek goes beyond the end; C leaves open what a byte pushed back   *)
(* right after a write does, and the model leaves it out.  The streams 0 to *)
(* 2 and pipes are left out too.                                            *)
EXTENDS Integers, Sequences, FiniteSets

CONSTANTS File, None,
          Fd,      \* descriptors above 2
          BufSize, \* _U_BUFSZ
          Scopes   \* what a program works with; see scope

Byte == 0 .. 255

\* The open file of the kernel.
Modes == [rd : BOOLEAN, wr : BOOLEAN, append : BOOLEAN, empties : BOOLEAN]
OpenFile == [file : File, how : Modes, off : Nat]

\* A read or a write of nothing returns at once, and is left out.
ASSUME StdioAssumption ==
    /\ Fd \subseteq Nat /\ BufSize \in Nat
    /\ None \notin Byte /\ None \notin OpenFile
    /\ None \notin [file : File, how : Modes, pos : Int, push : Seq(Byte)]
    /\ \A s \in Scopes :
           /\ s.NST \in Nat /\ s.files \subseteq File
           /\ s.start \subseteq Seq(Byte)
           /\ s.data \subseteq Seq(Byte) \ {<<>>}
           /\ s.push \subseteq Byte /\ s.counts \subseteq Nat \ {0}
           /\ s.seeks \subseteq {"set", "cur", "end"} \X Int

VARIABLES disk,   \* disk[f]: the bytes of a file
          open,   \* open[fd]: None, or the open file of the kernel
          slots,  \* the first _u_st_n entries of the tables _u_st_*
          full,   \* the device takes no more
          lost,   \* streams with accepted bytes that a flush did not get rid of (history)
          answer, \* the last call and what it gave back
          faults, ended,
        mismarked, \* a stream's slot has once told of another mode than its own (history)
          scope   \* fixed in a behaviour: NST (_U_NST), files, start (what is in one at
                  \* first), modes, data (the strings written),
                  \* push (bytes given back), counts (lengths read), seeks, len (of a
                  \* file), faults (their number)

libvars == <<disk, open, slots, lost>>
vars == <<disk, open, slots, lost, full, answer, faults, ended, mismarked, scope>>

\* What fopen makes of a mode.
How(mode) ==
    [rd |-> mode \notin {"w", "a"}, wr |-> mode # "r", append |-> mode \in {"a", "a+"},
     empties |-> mode \in {"w", "w+"}]

StdioInit ==
    /\ scope \in Scopes
    /\ disk \in [File -> scope.start]
    /\ \A f \in File \ scope.files : disk[f] = <<>>
    /\ open = [fd \in Fd |-> None]
    /\ slots = <<>>
    /\ lost = {}
    /\ full = FALSE
    /\ answer = <<"ask">>
    /\ faults = 0
    /\ ended = FALSE
    /\ mismarked = FALSE

-----------------------------------------------------------------------------
(* Helpers.  They work on a record w of the four variables a call may       *)
(* change, and those that write give the set of what can come of it.        *)

Lib == [disk |-> disk, open |-> open, slots |-> slots, lost |-> lost]
Become(w) == disk' = w.disk /\ open' = w.open /\ slots' = w.slots /\ lost' = w.lost

\* The slot of the descriptor, or 0.
Index(w, fd) ==
    IF \E i \in DOMAIN w.slots : w.slots[i].fd = fd
       THEN CHOOSE i \in DOMAIN w.slots : w.slots[i].fd = fd
       ELSE 0

Blank(fd) == [fd |-> fd, eof |-> FALSE, err |-> FALSE, ung |-> None,
              buf |-> <<>>, bpos |-> 0, blen |-> 0, wlen |-> 0, ro |-> FALSE]

\* Every question about a stream takes a slot for it if there is one.
u_st_slot(w, fd) ==
    IF Index(w, fd) = 0 /\ Len(w.slots) < scope.NST
       THEN [w EXCEPT !.slots = Append(@, Blank(fd))]
       ELSE w

Unread(t) == t.blen - t.bpos
Pushed(t) == IF t.ung = None THEN 0 ELSE 1
Dropped(t) == [t EXCEPT !.bpos = 0, !.blen = 0, !.ung = None]

Overlaid(c, at, p) ==
    [i \in 1 .. IF at + Len(p) > Len(c) THEN at + Len(p) ELSE Len(c) |->
        IF i > at /\ i <= at + Len(p) THEN p[i - at] ELSE c[i]]

\* The loop around __write: all of p, or a part and the error bit.
u_st_raw(w, fd, p) ==
    LET o == w.open[fd]
        at == IF o.how.append THEN Len(w.disk[o.file]) ELSE o.off
        Written(k) == IF k = 0 THEN w
                      ELSE [w EXCEPT !.disk[o.file] = Overlaid(@, at, SubSeq(p, 1, k)),
                                     !.open[fd].off = at + k]
        Failed(v) == IF Index(v, fd) = 0 THEN v ELSE [v EXCEPT !.slots[Index(v, fd)].err = TRUE]
    IN
    IF o.how.wr /\ ~full THEN {[w |-> Written(Len(p)), n |-> Len(p)]}
    ELSE {[w |-> Failed(Written(k)), n |-> k] : k \in IF o.how.wr THEN 0 .. Len(p) - 1 ELSE {0}}

\* Mutant: a flush says that all is well.
WflushTrusting(w, i) ==
    IF i = 0 \/ w.slots[i].wlen = 0 THEN {[w |-> w, ok |-> TRUE]}
    ELSE {[w |-> r.w, ok |-> TRUE] :
          r \in u_st_raw([w EXCEPT !.slots[i].wlen = 0], w.slots[i].fd,
                         SubSeq(w.slots[i].buf, 1, w.slots[i].wlen))}

\* The bytes waiting are gone from the buffer whatever becomes of them.
u_st_wflush(w, i) ==
    IF i = 0 \/ w.slots[i].wlen = 0 THEN {[w |-> w, ok |-> TRUE]}
    ELSE LET t == w.slots[i]
             rest == [w EXCEPT !.slots[i].wlen = 0]
         IN {IF r.n = t.wlen THEN [w |-> r.w, ok |-> TRUE]
             ELSE [w |-> [r.w EXCEPT !.slots[i].err = TRUE, !.lost = @ \union {t.fd}], ok |-> FALSE] :
             r \in u_st_raw(rest, t.fd, SubSeq(t.buf, 1, t.wlen))}

\* Mutant: only unread bytes are given back, not the one pushed back.
GivenBackUnread(w, i) ==
    [w EXCEPT !.open[w.slots[i].fd].off = @ - Unread(w.slots[i]), !.slots[i] = Dropped(@)]

\* The part of the read buffer the program has not had is given back to the
\* descriptor; a move to before the start does nothing.
GivenBack(w, i) ==
    LET t == w.slots[i]
        to == w.open[t.fd].off - Unread(t) - Pushed(t)
    IN [w EXCEPT !.open[t.fd].off = IF to < 0 THEN @ ELSE to, !.slots[i] = Dropped(@)]

u_st_wput(w, fd, p) ==
    LET v == u_st_slot(w, fd)
        i == Index(v, fd)
        Put(u) == IF Len(p) >= BufSize THEN u_st_raw(u, fd, p)
                  ELSE {[w |-> [u EXCEPT !.slots[i].buf = SubSeq(@, 1, u.slots[i].wlen) \o p,
                                         !.slots[i].wlen = @ + Len(p)], n |-> Len(p)]}
    IN
    IF i = 0 THEN u_st_raw(v, fd, p)
    ELSE IF v.slots[i].ro THEN {[w |-> [v EXCEPT !.slots[i].err = TRUE], n |-> 0]}
    ELSE IF v.slots[i].wlen + Len(p) <= BufSize THEN Put(GivenBack(v, i))
    ELSE UNION {IF r.ok THEN Put(r.w) ELSE {[w |-> r.w, n |-> 0]} : r \in u_st_wflush(GivenBack(v, i), i)}

\* _u_st_flushall: the slots in order, whatever becomes of each.
u_st_flushall(w) ==
    LET After[i \in 0 .. Len(w.slots)] ==
            IF i = 0 THEN {w} ELSE UNION {{r.w : r \in u_st_wflush(v, i)} : v \in After[i - 1]}
    IN After[Len(w.slots)]

\* Mutant: the byte pushed back is not moved along.
FreedDropsUnget(w, i) ==
    LET n == Len(w.slots) IN
    [w EXCEPT !.slots = SubSeq([@ EXCEPT ![i] = [w.slots[n] EXCEPT !.ung = None]], 1, n - 1)]

\* The last slot takes the place of slot i.
Freed(w, i) ==
    LET n == Len(w.slots) IN
    [w EXCEPT !.slots = SubSeq([@ EXCEPT ![i] = w.slots[n]], 1, n - 1)]

-----------------------------------------------------------------------------
(* What the program sees through the buffers.                               *)

InSlot(w, fd) == IF Index(w, fd) = 0 THEN Blank(fd) ELSE w.slots[Index(w, fd)]

\* The file with the bytes that wait to be written to it.
Logical(w, f) ==
    LET waiting == {fd \in Fd : w.open[fd] # None /\ w.open[fd].file = f /\ InSlot(w, fd).wlen > 0}
    IN IF waiting = {} THEN w.disk[f]
       ELSE LET fd == CHOOSE x \in waiting : TRUE
                o == w.open[fd]
                t == InSlot(w, fd)
            IN Overlaid(w.disk[f], IF o.how.append THEN Len(w.disk[f]) ELSE o.off, SubSeq(t.buf, 1, t.wlen))

Position(w, fd) ==
    LET o == w.open[fd]
        t == InSlot(w, fd)
    IN IF t.wlen > 0 THEN (IF o.how.append THEN Len(w.disk[o.file]) ELSE o.off) + t.wlen
       ELSE o.off - Unread(t)

\* A bound of the model: files of scope.len bytes.
Short(w) == \A f \in File : Len(Logical(w, f)) <= scope.len

-----------------------------------------------------------------------------
(* The calls.                                                               *)

Streams == {fd \in Fd : open[fd] # None}
Keep == UNCHANGED <<full, faults, ended, scope>>

\* A stream may only be read and its slot does not say so, or the reverse.
Mismarked(w) == \E fd \in Fd : w.open[fd] # None /\ InSlot(w, fd).ro = w.open[fd].how.wr

Call(w, a) == Become(w) /\ answer' = a /\ mismarked' = (mismarked \/ Mismarked(w)) /\ Keep

\* The lowest free descriptor, a slot if there is one, and in it the mode.
Opened(w, f, mode) ==
    LET fd == CHOOSE x \in Fd : w.open[x] = None /\ \A y \in Fd : y < x => w.open[y] # None
        v == u_st_slot([w EXCEPT !.open[fd] = [file |-> f, how |-> How(mode), off |-> 0],
                                 !.disk[f] = IF How(mode).empties THEN <<>> ELSE @], fd)
        i == Index(v, fd)
    IN [fd |-> fd, w |-> IF i = 0 THEN v ELSE [v EXCEPT !.slots[i].ro = mode = "r"]]

Unused(f) == \A fd \in Streams : open[fd].file # f
SomeFd == Streams # Fd

fopen(f, mode) ==
    /\ SomeFd /\ Unused(f)
    /\ LET o == Opened(Lib, f, mode) IN Call(o.w, <<"open", o.fd>>)

fwrite(fd, p) ==
    \E r \in u_st_wput(Lib, fd, p) : Short(r.w) /\ Call(r.w, <<"write", r.n>>)

\* What the kernel gives of n bytes.
Given(w, fd, n) ==
    LET o == w.open[fd]
        c == w.disk[o.file]
        last == IF o.off + n < Len(c) THEN o.off + n ELSE Len(c)
    IN IF o.how.rd THEN SubSeq(c, o.off + 1, last) ELSE <<>>

\* fread after its flush: the byte pushed back, the bytes of the buffer, then
\* one read of the descriptor.
Taken(w, fd, n) ==
    LET i == Index(w, fd)
        t == InSlot(w, fd)
        first == IF t.ung = None THEN <<>> ELSE <<t.ung>>
        k == IF Unread(t) < n - Len(first) THEN Unread(t) ELSE n - Len(first)
        had == first \o SubSeq(t.buf, t.bpos + 1, t.bpos + k)
        need == n - Len(had)
        refill == i # 0 /\ need < BufSize
        block == IF need = 0 THEN <<>> ELSE Given(w, fd, IF refill THEN BufSize ELSE need)
        got == SubSeq(block, 1, IF need < Len(block) THEN need ELSE Len(block))
        short == Len(had \o got) < n
        v == IF need = 0 THEN w ELSE [w EXCEPT !.open[fd].off = @ + Len(block)]
        u == [t EXCEPT !.ung = None, !.eof = @ \/ short,
                       !.err = @ \/ (need > 0 /\ ~w.open[fd].how.rd),
                       !.buf = IF refill /\ need > 0 THEN block ELSE @,
                       !.bpos = IF refill /\ need > 0 THEN Len(got) ELSE @ + k,
                       !.blen = IF refill /\ need > 0 THEN Len(block) ELSE @]
    IN [w |-> IF i = 0 THEN v ELSE [v EXCEPT !.slots[i] = u], data |-> had \o got]

fread(fd, n) ==
    LET v == u_st_slot(Lib, fd) IN
    \E r \in u_st_wflush(v, Index(v, fd)) :
        LET got == Taken(r.w, fd, n) IN Call(got.w, <<"read", got.data>>)

\* A byte pushed back is given at once; otherwise fread, and the flags tell how
\* this read went.
fgetc(fd) ==
    LET v == u_st_slot(Lib, fd)
        i == Index(v, fd)
    IN IF i # 0 /\ InSlot(v, fd).ung # None
          THEN Call([v EXCEPT !.slots[i].ung = None], <<"read", <<v.slots[i].ung>>>>)
          ELSE \E r \in u_st_wflush(v, i) :
                   LET got == Taken(r.w, fd, 1) IN
                   Call(IF i = 0 \/ got.data = <<>> THEN got.w
                        ELSE [got.w EXCEPT !.slots[i].eof = FALSE, !.slots[i].err = FALSE],
                        <<"read", got.data>>)

\* Without a slot there is no place for the byte.
ungetc(fd, c) ==
    LET v == u_st_slot(Lib, fd)
        i == Index(v, fd)
    IN
    /\ open[fd].how.rd /\ InSlot(v, fd).wlen = 0
    /\ IF i = 0 THEN Call(v, <<"ask">>)
       ELSE Call([v EXCEPT !.slots[i].ung = c, !.slots[i].eof = FALSE], <<"unget", c>>)

\* feof and ferror.
feof(fd) == Call(u_st_slot(Lib, fd), <<"ask">>)

Cleared(w, fd) ==
    LET v == u_st_slot(w, fd)
        i == Index(v, fd)
    IN IF i = 0 THEN v
       ELSE [v EXCEPT !.slots[i].eof = FALSE, !.slots[i].err = FALSE, !.lost = @ \ {fd}]

clearerr(fd) == Call(Cleared(Lib, fd), <<"ask">>)

\* fseek after its flush; before the start nothing moves but the buffer is dropped.
Moved(w, fd, k) ==
    LET t == InSlot(w, fd)
        i == Index(w, fd)
        o == w.open[fd]
        to == k[2] + (CASE k[1] = "set" -> 0
                        [] k[1] = "cur" -> o.off - Unread(t) - Pushed(t)
                        [] k[1] = "end" -> Len(w.disk[o.file]))
        v == IF i = 0 THEN w ELSE [w EXCEPT !.slots[i] = [Dropped(@) EXCEPT !.eof = FALSE]]
    IN [to |-> to, w |-> IF to < 0 THEN v ELSE [v EXCEPT !.open[fd].off = to]]

fseek(fd, k) ==
    LET v == u_st_slot(Lib, fd) IN
    \E r \in u_st_wflush(v, Index(v, fd)) :
        LET m == Moved(r.w, fd, k) IN
        /\ m.to <= Len(m.w.disk[m.w.open[fd].file])
        /\ Call(m.w, <<"seek", IF m.to < 0 THEN -1 ELSE 0>>)

rewind(fd) ==
    LET v == u_st_slot(Lib, fd) IN
    \E r \in u_st_wflush(v, Index(v, fd)) :
        Call(Cleared(Moved(r.w, fd, <<"set", 0>>).w, fd), <<"seek", 0>>)

ftell(fd) ==
    LET v == u_st_slot(Lib, fd) IN
    \E r \in u_st_wflush(v, Index(v, fd)) :
        Call(r.w, <<"tell", r.w.open[fd].off - Unread(InSlot(r.w, fd)) - Pushed(InSlot(r.w, fd))>>)

fflush(fd) ==
    LET v == u_st_slot(Lib, fd) IN
    \E r \in u_st_wflush(v, Index(v, fd)) : Call(r.w, <<"ask">>)

fflush_all == \E w \in u_st_flushall(Lib) : Call(w, <<"ask">>)

\* The new file is opened at a descriptor of its own, which is then made the
\* stream's; the stream's slot starts anew with the new mode, and the other
\* slot is freed.
freopen(fd, f, mode) ==
    LET v == u_st_slot(Lib, fd) IN
    /\ Unused(f) \/ open[fd].file = f
    /\ \E r \in u_st_wflush(v, Index(v, fd)) :
        IF ~SomeFd THEN Call(r.w, <<"ask">>)
        ELSE LET o == Opened(r.w, f, mode)
                 u == u_st_slot(u_st_slot([o.w EXCEPT !.open[fd] = o.w.open[o.fd], !.open[o.fd] = None,
                                                      !.lost = @ \ {fd}], o.fd), fd)
                 k == Index(u, o.fd)
                 i == Index(u, fd)
                 new == IF i = 0 THEN u
                        ELSE [u EXCEPT !.slots[i] = [Blank(fd) EXCEPT
                                 !.ro = IF k = 0 THEN u.slots[i].ro ELSE u.slots[k].ro]]
             IN Call(IF k = 0 THEN new ELSE Freed(new, k), <<"open", fd>>)

\* Mutant: a stream whose flush failed keeps its slot.
FcloseKeepsSlot(fd) ==
    LET v == u_st_slot(Lib, fd)
        i == Index(v, fd)
    IN \E r \in u_st_wflush(v, i) :
           LET w == IF i = 0 \/ ~r.ok THEN r.w ELSE Freed(r.w, i) IN
           Call([w EXCEPT !.open[fd] = None, !.lost = @ \ {fd}], <<"close", IF r.ok THEN 0 ELSE -1>>)

\* The slot goes, and the descriptor, also when the flush failed.
fclose(fd) ==
    LET v == u_st_slot(Lib, fd)
        i == Index(v, fd)
    IN \E r \in u_st_wflush(v, i) :
           LET w == IF i = 0 THEN r.w ELSE Freed(r.w, i) IN
           Call([w EXCEPT !.open[fd] = None, !.lost = @ \ {fd}], <<"close", IF r.ok THEN 0 ELSE -1>>)

\* exit, or a return from main.
exit ==
    /\ \E w \in u_st_flushall(Lib) :
           disk' = w.disk /\ lost' = w.lost /\ slots' = <<>> /\ open' = [fd \in Fd |-> None]
    /\ ended' = TRUE
    /\ UNCHANGED <<full, answer, faults, mismarked, scope>>

\* The device fills up, or there is room again.
Device ==
    /\ full \/ faults < scope.faults
    /\ full' = ~full
    /\ faults' = IF full THEN faults ELSE faults + 1
    /\ UNCHANGED <<disk, open, slots, lost, answer, ended, mismarked, scope>>

StreamCalls ==
    \E fd \in Streams :
        \/ \E p \in scope.data : fwrite(fd, p)
        \/ \E n \in scope.counts : fread(fd, n)
        \/ fgetc(fd) \/ feof(fd) \/ clearerr(fd)
        \/ \E c \in scope.push : ungetc(fd, c)
        \/ \E k \in scope.seeks : fseek(fd, k)
        \/ rewind(fd) \/ ftell(fd) \/ fflush(fd) \/ fclose(fd)
        \/ \E f \in scope.files, mode \in scope.modes : freopen(fd, f, mode)

StdioNext ==
    /\ ~ended
    /\ \/ \E f \in scope.files, mode \in scope.modes : fopen(f, mode)
       \/ StreamCalls \/ fflush_all \/ exit \/ Device

StdioSpec == StdioInit /\ [][StdioNext]_vars

-----------------------------------------------------------------------------
(* Properties.                                                              *)

\* Through buffering, refilling, giving back, moving between the tables and
\* running out of slots, a program sees plain positions in plain files, and
\* what it wrote is on the disk when it ends: the calls of stdio.h implement
\* CStream until the device fails or a slot tells of another mode than its
\* stream's.  That comes about when the table is full: fopen marks an "r"
\* stream in its slot if it has one, a slot taken later says that the stream may
\* be written, and freopen takes the mark of the second descriptor's slot, or
\* leaves the old one.  ReadOnlyRefuses is about what follows then.
Seen == INSTANCE CStream WITH
    Stream <- Fd, Bytes <- UNION {s.push : s \in Scopes},
    Hows <- {How(m) : m \in UNION {s.modes : s \in Scopes}},
    Data <- UNION {s.data : s \in Scopes},
    Counts <- (UNION {s.counts : s \in Scopes}) \union {1},
    Seeks <- (UNION {s.seeks : s \in Scopes}) \union {<<"set", 0>>},
    content <- [f \in File |-> Logical(Lib, f)],
    stream <- [fd \in Fd |->
        IF open[fd] = None THEN None
        ELSE [file |-> open[fd].file, how |-> open[fd].how, pos |-> Position(Lib, fd),
              push |-> IF InSlot(Lib, fd).ung = None THEN <<>> ELSE <<InSlot(Lib, fd).ung>>]]
ImplementsStreams == Seen!Init /\ [][faults' = 0 /\ ~mismarked' => Seen!Next]_Seen!vars

\* The table has at most one slot for a descriptor and none for one that is
\* closed, whatever failed before: the next stream at that descriptor begins
\* with clean flags.  A buffer holds unread bytes or unwritten ones, never both.
SlotsOfOpenStreams ==
    /\ Len(slots) <= scope.NST
    /\ \A i, j \in DOMAIN slots : slots[i].fd = slots[j].fd => i = j
    /\ \A i \in DOMAIN slots :
           /\ open[slots[i].fd] # None
           /\ slots[i].wlen > 0 => Unread(slots[i]) = 0 /\ slots[i].ung = None

\* Flags, pushback and unread bytes of a stream.
Own(fd) == LET t == InSlot(Lib, fd) IN
    <<t.eof, t.err, t.ung, SubSeq(t.buf, t.bpos + 1, t.blen)>>

\* Closing or reopening one stream, which moves another's slot, changes no
\* other stream's flags, pushback or unread bytes.
OthersKept ==
    [][answer'[1] \in {"close", "open"} =>
           \A fd \in Streams :
               open'[fd] # None /\ answer' # <<"open", fd>> => Own(fd)' = Own(fd)]_vars

\* fclose that answers 0 has written the bytes that still waited, all of them:
\* the disk has the file as the program saw it when it called.  What a flush
\* before it dropped is not in question: see LossObservable.
CloseExact ==
    [][\A fd \in Streams : open'[fd] = None /\ answer' = <<"close", 0>> /\ ~ended' =>
           disk'[open[fd].file] = Logical(Lib, open[fd].file)]_vars

\* "a write failure is observable: standard streams keep a per-fd indicator
\* (they never build a slot), every other stream sets its slot's error bit so
\* ferror reports it."
LossObservable == \A fd \in lost : InSlot(Lib, fd).err

\* "opened "r" without "+": a write fails with EBADF": no byte is accepted for
\* a stream that may not be written.
ReadOnlyRefuses == \A fd \in Streams : ~open[fd].how.wr => InSlot(Lib, fd).wlen = 0
=============================================================================
