--------------------------- MODULE MjpegReassembly ---------------------------
(***************************************************************************)
(* How the MJPEG stream becomes frames: the packets of one bulk endpoint   *)
(* and UppCameraWorker::streamLoopMjpeg, which collects their payloads and *)
(* closes a frame when the frame id changes.                               *)
(*                                                                         *)
(* The camera sends frame after frame, each in one packet or more; a       *)
(* payload is the number of its packet in the frame.  The first packet's   *)
(* payload starts with the SOI marker and the last one's ends with EOI.    *)
(* The frame id is one byte, so it comes round again: FidModulo values.    *)
(***************************************************************************)
EXTENDS Integers, Sequences

CONSTANTS
    FidModulo,  \* number of frame ids: 256
    MaxAcc,     \* MAX_FRAME_BYTES, in payloads
    MaxSize,    \* bound: packets of a frame
    MaxFrame,   \* bound: number of the last frame
    MaxGap      \* bound: packets lost in a row

WARMUP_FRAMES == 2

\* A gap this short cannot hide a whole round of frame ids.
ASSUME ReassemblyAssumption ==
    /\ FidModulo \in Nat /\ MaxAcc \in Nat /\ MaxSize \in Nat \ {0}
    /\ MaxFrame \in Nat \ {0} /\ MaxGap \in Nat
    /\ MaxGap + 2 <= FidModulo

VARIABLES
    next,     \* the packet the camera sends next: frame, fid, packet of packets
    gap,      \* packets lost since the last one taken
    acc,      \* the payloads collected
    curFid,   \* fid of the last packet taken, -1 before the first
    emitted,  \* frames closed since the stream began, WARMUP_FRAMES + 1 for more
    got,      \* the frame the last packet was of, and its payloads collected
    shown     \* the payloads of the last frame handed to the GUI

vars == <<next, gap, acc, curFid, emitted, got, shown>>

Packet  == [frame : 1 .. MaxFrame + 1, fid : 0 .. FidModulo - 1,
            n : 1 .. MaxSize, of : 1 .. MaxSize]
Payload == [frame : 1 .. MaxFrame + 1, n : 1 .. MaxSize, of : 1 .. MaxSize]

NoFrame == [frame |-> 0, of |-> 0, taken |-> {}]

TypeOK ==
    /\ next \in Packet /\ gap \in 0 .. MaxGap
    /\ acc \in Seq(Payload) /\ Len(acc) <= MaxAcc
    /\ curFid \in -1 .. FidModulo - 1
    /\ emitted \in 0 .. WARMUP_FRAMES + 1
    /\ got \in [frame : 1 .. MaxFrame + 1, of : 1 .. MaxSize,
                taken : SUBSET (1 .. MaxSize)] \union {NoFrame}
    /\ shown \in Seq(Payload)

\* The camera may be in the middle of a frame when it is asked to stream.
Init ==
    /\ next \in {p \in Packet : p.frame = 1 /\ p.n <= p.of}
    /\ gap = 0
    /\ acc = <<>> /\ curFid = -1 /\ emitted = 0
    /\ got = NoFrame /\ shown = <<>>

\* The camera goes on to the next packet, of this frame or of the next.
Advance ==
    IF next.n < next.of
    THEN next' = [next EXCEPT !.n = @ + 1]
    ELSE \E size \in 1 .. MaxSize :
            next' = [frame |-> next.frame + 1,
                     fid |-> IF next.fid = FidModulo - 1 THEN 0 ELSE next.fid + 1,
                     n |-> 1, of |-> size]

Sending == next.frame <= MaxFrame

-----------------------------------------------------------------------------
\* The frame id has changed and there is something to close.
Closes == curFid >= 0 /\ next.fid # curFid /\ acc # <<>>

\* SOI at the start and EOI at the end.
Valid(s) == s[1].n = 1 /\ s[Len(s)].n = s[Len(s)].of

\* A closed frame is shown if it looks whole and the warm-up is over.
Show ==
    IF Closes
    THEN /\ emitted' = IF emitted > WARMUP_FRAMES THEN emitted ELSE emitted + 1
         /\ shown' = IF emitted >= WARMUP_FRAMES /\ Valid(acc) THEN acc ELSE shown
    ELSE UNCHANGED <<emitted, shown>>

\* What is left to go on with: nothing of a closed frame, shown or not.
\* Faulty variants first: only a frame that looks whole is cleared, or none.
Kept_Invalid == IF Closes /\ Valid(acc) THEN <<>> ELSE acc

Kept_All == acc

Kept == IF Closes THEN <<>> ELSE acc

\* A payload that does not fit empties the accumulator; what follows of the
\* same frame is collected, and is no valid frame.
\* Faulty variant first: off by one.
Collect_TooFew(s) ==
    IF Len(s) + 1 < MaxAcc
    THEN Append(s, [frame |-> next.frame, n |-> next.n, of |-> next.of])
    ELSE <<>>

Collect(s) ==
    IF Len(s) + 1 <= MaxAcc
    THEN Append(s, [frame |-> next.frame, n |-> next.n, of |-> next.of])
    ELSE <<>>

\* One packet through the loop; a short read may hold the headers alone.
\* got is no variable of the code: it says what the camera has got through.
TakePacket(withPayload) ==
    /\ Sending
    /\ Show
    /\ acc' = IF withPayload THEN Collect(Kept) ELSE Kept
    /\ curFid' = next.fid
    /\ got' = [frame |-> next.frame, of |-> next.of,
               taken |-> (IF got.frame = next.frame THEN got.taken ELSE {})
                         \union (IF withPayload THEN {next.n} ELSE {})]
    /\ gap' = 0
    /\ Advance

\* A read that is too short, or does not start like a packet, is skipped.
SkipPacket ==
    /\ Sending /\ gap < MaxGap
    /\ gap' = gap + 1
    /\ Advance
    /\ UNCHANGED <<acc, curFid, emitted, got, shown>>

\* The stream ends with an error, the worker reconnects and begins anew.
Restart ==
    /\ Sending
    /\ next' \in {p \in Packet : p.frame = next.frame + 1 /\ p.n <= p.of}
    /\ gap' = 0
    /\ acc' = <<>> /\ curFid' = -1 /\ emitted' = 0
    /\ got' = NoFrame
    /\ UNCHANGED shown

Next == TakePacket(TRUE) \/ TakePacket(FALSE) \/ SkipPacket \/ Restart

Spec == Init /\ [][Next]_vars

-----------------------------------------------------------------------------
OneFrame(s) ==
    \A i, j \in 1 .. Len(s) : /\ s[i].frame = s[j].frame
                              /\ i < j => s[i].n < s[j].n

\* No picture is put together from two frames, whatever packets are lost and
\* wherever the stream breaks off and begins: the payloads collected, and those
\* shown, are of one frame and in its order.
FramesUnmixed == OneFrame(acc) /\ OneFrame(shown)

\* Frames are shown in the order the camera took them, and none twice.
ShownInOrder ==
    [][shown' # shown /\ shown # <<>> => shown'[1].frame > shown[1].frame]_vars

\* A frame all of whose packets came is shown when the next one begins, if it
\* fits and is not one of the first WARMUP_FRAMES that are closed.
NothingWithheld ==
    [][/\ got # NoFrame /\ got' # NoFrame /\ got'.frame # got.frame
       /\ got.taken = 1 .. got.of /\ got.of <= MaxAcc
       /\ emitted >= WARMUP_FRAMES
       => /\ Len(shown') = got.of
          /\ \A i \in 1 .. got.of : /\ shown'[i].frame = got.frame
                                    /\ shown'[i].n = i]_vars
=============================================================================
