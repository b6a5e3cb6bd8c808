------------------------------- MODULE MCLibc -------------------------------
(* The streams and the allocator of the carried C library.  They share no   *)
(* state, so one of them moves in a behaviour.  Streams: every call on one  *)
(* file, with strings that wait in the buffer, fill it and go around it;    *)
(* two streams with a slot each, and with one slot for both, read only and  *)
(* not; and a device that fills up once.  Each mode is in one of these.     *)
(* Allocator: two classes, of which the greater fills a chunk, and a big    *)
(* block, in less space than all of them take.                              *)
EXTENDS Stdio, Alloc, TLC

\* The files, of which either may be called the first.
CONSTANTS file1, file2

VARIABLE focus

libcvars == <<vars, allocvars, focus>>

OneFile ==
    [NST |-> 2, files |-> {file1}, start |-> {<<>>, <<1, 0, 1>>},
     modes |-> {"r", "w+", "a"}, data |-> {<<0>>, <<0, 1>>, <<1, 0, 1>>},
     push |-> {0}, counts |-> {3}, seeks |-> {<<"cur", -1>>, <<"end", 0>>},
     len |-> 3, faults |-> 0]
TwoFiles ==
    [NST |-> 2, files |-> {file1, file2}, start |-> {<<>>}, modes |-> {"w+"}, data |-> {<<1>>},
     push |-> {0}, counts |-> {}, seeks |-> {}, len |-> 1, faults |-> 0]
OneSlot == [TwoFiles EXCEPT !.NST = 1]
ReadOnly == [OneSlot EXCEPT !.modes = {"r", "w"}, !.start = {<<1>>}, !.push = {}]
FullDevice ==
    [NST |-> 2, files |-> {file1}, start |-> {<<>>}, modes |-> {"r+", "a+"}, data |-> {<<1>>},
     push |-> {0}, counts |-> {2}, seeks |-> {<<"cur", 0>>}, len |-> 2, faults |-> 1]
MCScopes == {OneFile, TwoFiles, OneSlot, ReadOnly, FullDevice}

\* A file of one byte, opened for reading and writing.
MCLossScopes == {[FullDevice EXCEPT !.start = {<<1>>}, !.modes = {"r+"}]}

\* More streams than slots, of which some may only be read.
MCReadOnlyScopes == {[OneSlot EXCEPT !.modes = {"r", "w"}]}

Twins == Permutations(File)

MCSize == [k \in 0 .. 1 |-> IF k = 0 THEN 4 ELSE 8]
MCRequests == {-1, 2, 6, 7}

MCInit ==
    /\ focus \in {"streams", "blocks"}
    /\ StdioInit /\ AllocInit
    /\ focus = "blocks" => scope = CHOOSE s \in Scopes : TRUE

MCNext ==
    /\ UNCHANGED focus
    /\ \/ focus = "streams" /\ StdioNext /\ UNCHANGED allocvars
       \/ focus = "blocks" /\ AllocNext /\ UNCHANGED vars

MCSpec == MCInit /\ [][MCNext]_libcvars
=============================================================================
