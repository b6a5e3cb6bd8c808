------------------------------ MODULE CStream -------------------------------
(* What a program may expect of its streams (C99 7.19): each is a position  *)
(* in a file with at most one byte pushed back before it, and what was      *)
(* written through it is in the file from then on.  Buffers, tables and     *)
(* descriptors do not appear.                                               *)
EXTENDS Integers, Sequences

CONSTANTS Stream, None,
          Hows,     \* what an open may ask for: reading, writing, at the end
          Data,     \* the strings the program writes
          Bytes,    \* the bytes it pushes back
          Counts,   \* the lengths it reads
          Seeks     \* the moves it makes: <<whence, offset>>

VARIABLES content,  \* content[f]: the bytes of a file as the program sees it
          stream,   \* stream[s]: None, or the file, what its mode allows, the
                    \* position, and the byte pushed back before it
          answer    \* the last call and what it gave back

vars == <<content, stream, answer>>

\* The bytes c with p laid over them from offset at on.
Overlaid(c, at, p) ==
    [i \in 1 .. IF at + Len(p) > Len(c) THEN at + Len(p) ELSE Len(c) |->
        IF i > at /\ i <= at + Len(p) THEN p[i - at] ELSE c[i]]

\* Where the stream reads or writes next; -1 when a byte was pushed back at
\* the start of the file.
Where(s) == stream[s].pos - Len(stream[s].push)

Init == stream = [s \in Stream |-> None]

\* A stream begins at the start of its file, which the mode may empty.
Open(s, f, h) ==
    /\ answer' = <<"open", s>>
    /\ stream' = [stream EXCEPT ![s] = [file |-> f, how |-> h, pos |-> 0, push |-> <<>>]]
    /\ content' = IF h.empties THEN [content EXCEPT ![f] = <<>>] ELSE content

\* All of p is written at the position, or at the end for an appending stream.
Write(s, p) ==
    LET q == stream[s]
        at == IF q.how.append THEN Len(content[q.file])
              ELSE IF Where(s) < 0 THEN 0 ELSE Where(s)
    IN
    /\ answer' = <<"write", Len(p)>>
    /\ q.how.wr
    /\ content' = [content EXCEPT ![q.file] = Overlaid(@, at, p)]
    /\ stream' = [stream EXCEPT ![s].pos = at + Len(p), ![s].push = <<>>]

Refuse(s) ==
    /\ answer' = <<"write", 0>>
    /\ ~stream[s].how.wr
    /\ UNCHANGED <<content, stream>>

\* The byte pushed back, then what follows the position, up to n bytes.
Read(s, n) ==
    LET q == stream[s]
        c == content[q.file]
        last == IF q.how.rd THEN q.pos + n - Len(q.push) ELSE q.pos
        rest == SubSeq(c, q.pos + 1, IF last > Len(c) THEN Len(c) ELSE last)
    IN
    /\ answer' = <<"read", q.push \o rest>>
    /\ stream' = [stream EXCEPT ![s].pos = @ + Len(rest), ![s].push = <<>>]
    /\ UNCHANGED content

\* The byte is the next one read.
Unget(s, c) ==
    /\ answer' = <<"unget", c>>
    /\ stream' = [stream EXCEPT ![s].push = <<c>>]
    /\ UNCHANGED content

Target(s, k) ==
    k[2] + (CASE k[1] = "set" -> 0
              [] k[1] = "cur" -> Where(s)
              [] k[1] = "end" -> Len(content[stream[s].file]))

\* The stream moves.  Where it is after a move to before the start of the file
\* is not said.
Seek(s, k) ==
    LET to == Target(s, k) IN
    /\ answer' = <<"seek", IF to < 0 THEN -1 ELSE 0>>
    /\ stream' = [stream EXCEPT ![s].push = <<>>,
                                ![s].pos = IF to < 0 THEN stream'[s].pos ELSE to]
    /\ UNCHANGED content

Tell(s) == answer' = <<"tell", Where(s)>> /\ UNCHANGED <<content, stream>>

\* Flushing, and the questions about the flags.
Ask == answer' = <<"ask">> /\ UNCHANGED <<content, stream>>

Close(s) ==
    /\ answer' = <<"close", 0>>
    /\ stream' = [stream EXCEPT ![s] = None]
    /\ UNCHANGED content

\* Nothing the program wrote is lost when it ends.
Exit == stream' = [s \in Stream |-> None] /\ UNCHANGED content

Next ==
    \/ Exit \/ Ask
    \/ \E s \in Stream, f \in DOMAIN content, h \in Hows : Open(s, f, h)
    \/ \E s \in {t \in Stream : stream[t] # None} :
           \/ Refuse(s) \/ Tell(s) \/ Close(s)
           \/ \E p \in Data : Write(s, p)
           \/ \E n \in Counts : Read(s, n)
           \/ \E c \in Bytes : Unget(s, c)
           \/ \E k \in Seeks : Seek(s, k)
=============================================================================
