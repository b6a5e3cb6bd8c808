---------------------------- MODULE ModelMachine ----------------------------
(* The machine that runs a model (cx/core/execute.cx): core_run's loop and  *)
(* the actions of action_run, with the buffers they allocate, lend and      *)
(* free.  What the properties tell apart is kept: which allocation a frame, *)
(* the input of the pass and each table hold, how long they are, where the  *)
(* loop is and how the run ends.  The model itself is any model: a step     *)
(* chooses any transition and any actions, registers hold any value, and    *)
(* the bytes are left out.  A blob number in a register is one that was     *)
(* given out, which the models of the compiler keep to.                     *)
EXTENDS Integers, Sequences, SequencesExt

CONSTANTS MaxSteps,   \* maxsteps, the budget of the run
          MaxActions, \* actions of one transition
          MaxLength,  \* length of the input and of every buffer
          MaxFrames, MaxBlobs, MaxStack   \* bounds of the model

ASSUME MachineAssumption ==
    {MaxSteps, MaxActions, MaxLength, MaxFrames, MaxBlobs, MaxStack} \subseteq Nat

VARIABLES pc,      \* "loop", "actions", "finish", "done", or "dead" after core_die
          steps, left,
          heap,    \* heap[a]: the length of allocation a; its domain is what is live
          badfree, \* something was freed that was not live (a history variable)
          frames,  \* CoreFrames, top last: bytes, attributes and end of each
          x, xattr, xn, swaps,   \* the input of the pass, and the passes so far
          buffers, \* out, err and scratch: their n
          osel, stack, blobs,    \* stack.n and the lengths in the blob table
          status, result

machinevars == <<pc, steps, left, heap, badfree, frames, x, xattr, xn, swaps, buffers, osel, stack,
          blobs, status, result>>
tables == <<x, xattr, xn, swaps, osel, stack, blobs>>
control == <<steps, badfree, result>>

Buffer == {"out", "err", "scratch"}
Input == <<"input", 0>>
None == <<"none", 0>>

\* Heap h with the places of S allocated, each n long.
Allocated(h, S, n) == [a \in DOMAIN h \union S |-> IF a \in S THEN n ELSE h[a]]

\* core_run up to the loop: registers, two blobs, the attributes of the input
\* and the first frame.
MachineInit ==
    \E n \in 0 .. MaxLength :
        /\ pc = "loop" /\ steps = 0 /\ left = 0
        /\ heap = [a \in {Input, <<"xattr", 0>>, <<"regs", 0>>, <<"frames", 0>>,
                             <<"blob", 0>>, <<"blob", 1>>} |->
                      IF a \in {Input, <<"xattr", 0>>} THEN n ELSE 0]
        /\ badfree = FALSE
        /\ frames = <<[b |-> Input, at |-> <<"xattr", 0>>, end |-> n]>>
        /\ x = Input /\ xattr = <<"xattr", 0>> /\ xn = n /\ swaps = 0
        /\ buffers = [o \in Buffer |-> 0]
        /\ osel = "out" /\ stack = 0
        /\ blobs = <<0, 0>>
        /\ status = 0
        /\ result = [out |-> None, err |-> None]

-----------------------------------------------------------------------------
(* The loop.                                                                *)

\* A transition is taken without counting it.
TransitionUncounted ==
    /\ pc = "loop" /\ steps < MaxSteps
    /\ \E n \in 0 .. MaxActions : left' = n
    /\ pc' = "actions"
    /\ UNCHANGED <<heap, frames, tables, buffers, status, control>>

\* core_run_budget, core_run_key and the transition.
Transition ==
    /\ pc = "loop" /\ steps < MaxSteps
    /\ steps' = steps + 1
    /\ \/ pc' = "actions" /\ UNCHANGED status /\ \E n \in 0 .. MaxActions : left' = n
       \/ pc' = "finish" /\ status' = 2 /\ UNCHANGED left
    /\ UNCHANGED <<heap, badfree, frames, tables, buffers, result>>

Timeout ==
    /\ pc = "loop" /\ steps >= MaxSteps
    /\ pc' = "finish" /\ status' = 3
    /\ UNCHANGED <<left, heap, frames, tables, buffers, control>>

Sequenced ==
    /\ pc = "actions" /\ left = 0
    /\ pc' = "loop"
    /\ UNCHANGED <<left, heap, frames, tables, buffers, status, control>>

\* One action of the sequence is taken and the run goes on.
Acts == pc = "actions" /\ left > 0 /\ left' = left - 1 /\ UNCHANGED <<pc, status, control>>

\* The action ends the run with the given status, or the whole program.
Ends(s) ==
    /\ pc = "actions" /\ left > 0
    /\ pc' = "finish" /\ status' = s
    /\ UNCHANGED <<left, heap, frames, tables, buffers, control>>
Dies ==
    /\ pc = "actions" /\ left > 0
    /\ pc' = "dead"
    /\ UNCHANGED <<left, heap, frames, tables, buffers, status, control>>

-----------------------------------------------------------------------------
(* Actions.                                                                 *)

\* Actions on registers, the cursor, the answer r and the attribute ot.
Compute == Acts /\ UNCHANGED <<heap, frames, tables, buffers>>

\* n bytes into a buffer; its two arrays are allocated with the first.
Put(o, n) ==
    /\ Acts
    /\ n > 0 /\ buffers[o] + n <= MaxLength
    /\ buffers' = [buffers EXCEPT ![o] = @ + n]
    /\ heap' = Allocated(heap, {<<o, 0>>, <<o, 1>>}, MaxLength)
    /\ UNCHANGED <<frames, tables>>

\* CORE_OUT, OUTW, COPY, COPYT and the SPANs write where OSEL points.
Out == \E n \in 1 .. MaxLength : Put(osel, n)
Reserve == \E n \in 1 .. MaxLength : Put("out", n)
Scratch == \E n \in 1 .. MaxLength : Put("scratch", n)

\* ODROP, OCLR, SBCLR: the buffer gets shorter and keeps its arrays.
Shorten ==
    /\ Acts
    /\ \/ \E n \in {0, buffers["out"] - 1} \intersect Nat : buffers' = [buffers EXCEPT !["out"] = n]
       \/ buffers' = [buffers EXCEPT !["scratch"] = 0]
    /\ UNCHANGED <<heap, frames, tables>>

Select ==
    /\ Acts
    /\ osel' \in {"out", "err"}
    /\ UNCHANGED <<heap, frames, buffers, x, xattr, xn, swaps, stack, blobs>>

\* core_blob_add copies n bytes.
Blob(n) ==
    /\ Len(blobs) < MaxBlobs
    /\ heap' = Allocated(heap, {<<"blob", Len(blobs)>>}, n)
    /\ blobs' = Append(blobs, n)

\* OCUT moves the end of the output into a blob.
Cut ==
    /\ Acts
    /\ \E n \in 0 .. buffers["out"] :
           Blob(n) /\ buffers' = [buffers EXCEPT !["out"] = @ - n]
    /\ UNCHANGED <<frames, x, xattr, xn, swaps, osel, stack>>

\* BLOBSAVE takes a part of the top frame, SBSAVE the scratch, SBLOAD a
\* constant and SBFIND a file.
Save ==
    /\ Acts
    /\ \E n \in 0 .. MaxLength : Blob(n)
    /\ UNCHANGED <<frames, buffers, x, xattr, xn, swaps, osel, stack>>

Push ==
    /\ Acts /\ stack < MaxStack
    /\ stack' = stack + 1
    /\ heap' = Allocated(heap, {<<"stack", 0>>}, 0)
    /\ UNCHANGED <<frames, buffers, x, xattr, xn, swaps, osel, blobs>>

Pop ==
    \/ /\ Acts /\ stack > 0
       /\ stack' = stack - 1
       /\ UNCHANGED <<heap, frames, buffers, x, xattr, xn, swaps, osel, blobs>>
    \/ stack = 0 /\ Dies

\* STX, INTERN, SBINTERN and SBFIND grow tables that only core_run frees.
Record ==
    /\ Acts
    /\ \E t \in {"memory", "strings", "resources"} : heap' = Allocated(heap, {<<t, 0>>}, 0)
    /\ UNCHANGED <<frames, tables, buffers>>

PushFrame(f) ==
    /\ Acts /\ Len(frames) < MaxFrames
    /\ frames' = Append(frames, f)
    /\ UNCHANGED <<heap, tables, buffers>>

\* INPUSH reads a blob; INPUSHX and INPUSHXE read the input of the pass again.
InPush ==
    \/ \E j \in DOMAIN blobs :
           PushFrame([b |-> <<"blob", j - 1>>, at |-> None, end |-> blobs[j]])
    \/ \E n \in 0 .. xn : PushFrame([b |-> x, at |-> xattr, end |-> n])

\* core_frame_pop keeps the last frame.
InPop ==
    /\ Acts
    /\ frames' = IF Len(frames) > 1 THEN Front(frames) ELSE frames
    /\ UNCHANGED <<heap, tables, buffers>>

Free(S) ==
    /\ heap' = [a \in DOMAIN heap \ S |-> heap[a]]
    /\ badfree' = (badfree \/ ~(S \subseteq DOMAIN heap))

\* The frames above the first stay where they are.
RebasedBelow(f) == [frames EXCEPT ![1] = f]

Rebased(f) == <<f>>

\* SWAP: a copy of the output becomes the input of the next pass, and the old
\* pass is freed, except for the input of the first, which is the caller's.
Swap ==
    LET new == <<"x", swaps + 1>>
        newat == <<"xattr", swaps + 1>>
        n == buffers["out"]
        old == {x, xattr} \ {Input}
    IN
    /\ pc = "actions" /\ left > 0 /\ left' = left - 1
    /\ heap' = Allocated([a \in DOMAIN heap \ old |-> heap[a]], {new, newat}, n)
    /\ badfree' = (badfree \/ ~(old \subseteq DOMAIN heap))
    /\ x' = new /\ xattr' = newat /\ xn' = n /\ swaps' = swaps + 1
    /\ frames' = Rebased([b |-> new, at |-> newat, end |-> n])
    /\ buffers' = [buffers EXCEPT !["out"] = 0]
    /\ UNCHANGED <<pc, status, steps, result, osel, stack, blobs>>

\* ACCEPT, REJECT, a field that does not fit (OFILL), a fill past the output.
Accept == Ends(0)
Reject == Ends(1)
BadFill == Dies

-----------------------------------------------------------------------------
\* The pointers core_run frees at its end, those that are not null.
Freed(handed) ==
    (((Buffer \X {0, 1}) \union ({"stack", "memory", "strings", "resources"} \X {0}))
            \intersect (DOMAIN heap \ handed))
        \union ({x} \ {Input}) \union {xattr, <<"regs", 0>>, <<"frames", 0>>}
        \union ({"blob"} \X (0 .. Len(blobs) - 1))

HandedOver ==
    [out |-> IF status = 0 /\ <<"out", 0>> \in DOMAIN heap THEN <<"out", 0>> ELSE None,
     err |-> IF <<"err", 0>> \in DOMAIN heap THEN <<"err", 0>> ELSE None]

\* The output buffer is handed over and freed with the rest.
FinishFreesOutput ==
    /\ pc = "finish"
    /\ pc' = "done"
    /\ result' = HandedOver
    /\ Free(Freed({HandedOver.err}))
    /\ UNCHANGED <<steps, left, frames, tables, buffers, status>>

\* The label finished: the output goes to the caller of a run that accepted,
\* the messages always, and the rest is freed.
Finish ==
    /\ pc = "finish"
    /\ pc' = "done"
    /\ result' = HandedOver
    /\ Free(Freed({HandedOver.out, HandedOver.err}))
    /\ UNCHANGED <<steps, left, frames, tables, buffers, status>>

MachineNext ==
    \/ Transition \/ Timeout \/ Sequenced \/ Finish
    \/ Compute \/ Out \/ Reserve \/ Scratch \/ Shorten \/ Select \/ Cut \/ Save
    \/ Push \/ Pop \/ Record \/ InPush \/ InPop \/ Swap
    \/ Accept \/ Reject \/ BadFill

\* One thread runs one model, and it keeps running.
MachineSpec == MachineInit /\ [][MachineNext]_machinevars /\ WF_machinevars(MachineNext)

-----------------------------------------------------------------------------
(* Properties.                                                              *)

Running == pc \in {"loop", "actions"}

\* The last frame is never popped, and a frame only borrows its bytes and
\* attributes.  As long as the run goes on they are live and as long as the
\* frame, for every frame on the stack: what COPY, SPAN, INTERN and the key of
\* a transition read without asking.
FramesBacked ==
    Running => frames # <<>> /\ \A j \in DOMAIN frames :
        LET f == frames[j] IN
        /\ f.b \in DOMAIN heap /\ f.end <= heap[f.b]
        /\ f.at # None => f.at \in DOMAIN heap /\ f.end <= heap[f.at]

\* However a run ends, with any number of passes behind it, what it allocated
\* is freed once or is in the result, and the caller's input is still his.
NothingLeaks ==
    /\ ~badfree
    /\ pc = "done" => DOMAIN heap = ({Input, result.out, result.err} \ {None})

\* No run can go on for ever, whatever its model says: the budget ends it.
RunEnds == <>(pc \in {"done", "dead"})

=============================================================================
