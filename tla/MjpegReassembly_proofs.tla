----------------------- MODULE MjpegReassembly_proofs -----------------------
(***************************************************************************)
(* No picture is put together from two frames, for any number of frame ids *)
(* and any gap that cannot hide a round of them.                           *)
(*                                                                         *)
(* What makes it inductive is how far the camera is ahead of the last      *)
(* packet taken (Ahead): by at most one frame more than packets were lost, *)
(* so by less than a round of frame ids; hence a packet with the id of the *)
(* last one is of the same frame, and comes later in it.                   *)
(***************************************************************************)
EXTENDS MjpegReassembly, TLAPS

\* All payloads of s are of frame f and before packet n of it.
Before(s, f, n) == \A i \in 1 .. Len(s) : s[i].frame = f /\ s[i].n < n

\* The packets of a frame are numbered from 1.
LEMMA PayloadNumber ==
    ASSUME NEW s \in Seq(Payload), NEW i \in 1 .. Len(s)
    PROVE  s[i].n \in Nat
<1>1. s[i] \in Payload
  OBVIOUS
<1>2. s[i].n \in 1 .. MaxSize
  BY <1>1 DEF Payload
<1> QED BY <1>2

Ahead ==
    curFid >= 0 =>
        LET d == next.frame - got.frame
        IN  /\ d \in 0 .. gap + 1
            /\ next.fid = curFid + d \/ next.fid = curFid + d - FidModulo
            /\ d = 0 => Before(acc, got.frame, next.n)

Collected ==
    /\ curFid >= 0 => got # NoFrame
    /\ curFid = -1 => acc = <<>>
    /\ \A i \in 1 .. Len(acc) : acc[i].frame = got.frame

ReassemblyInv ==
    /\ TypeOK /\ FramesUnmixed
    /\ next.n <= next.of
    /\ Ahead /\ Collected

\* A stream begins with nothing collected.
LEMMA InvInit == Init => ReassemblyInv
<1>1. SUFFICES ASSUME Init PROVE ReassemblyInv
  OBVIOUS
<1>2. curFid = -1 /\ acc = <<>> /\ shown = <<>> /\ got = NoFrame /\ gap = 0
      /\ emitted = 0
  BY <1>1 DEF Init
<1>3. next \in Packet /\ next.n <= next.of
  BY <1>1 DEF Init
<1>4. TypeOK
  BY <1>2, <1>3, ReassemblyAssumption DEF TypeOK, WARMUP_FRAMES
<1> QED BY <1>2, <1>3, <1>4
        DEF ReassemblyInv, FramesUnmixed, OneFrame, Ahead, Collected

\* The camera's own step.
LEMMA AdvanceStep ==
    ASSUME next \in Packet, next.n <= next.of, Sending, Advance
    PROVE  /\ next' \in Packet /\ next'.n <= next'.of
           /\ \/ /\ next'.frame = next.frame /\ next'.fid = next.fid
                 /\ next'.n = next.n + 1 /\ next'.of = next.of
              \/ /\ next'.frame = next.frame + 1
                 /\ \/ next'.fid = next.fid + 1
                    \/ next'.fid = next.fid + 1 - FidModulo
<1>1. /\ next.frame \in 1 .. MaxFrame + 1 /\ next.fid \in 0 .. FidModulo - 1
      /\ next.n \in 1 .. MaxSize /\ next.of \in 1 .. MaxSize
      /\ next.frame <= MaxFrame
  BY DEF Packet, Sending
<1>2. CASE next.n < next.of
  <2>1. next' = [next EXCEPT !.n = next.n + 1]
    BY <1>2 DEF Advance
  <2>2. /\ next'.frame = next.frame /\ next'.fid = next.fid
        /\ next'.n = next.n + 1 /\ next'.of = next.of
    BY <2>1 DEF Packet
  <2>3. next.n + 1 \in 1 .. MaxSize /\ next.n + 1 <= next.of
    BY <1>1, <1>2, ReassemblyAssumption
  <2>4. next' \in Packet
    BY <2>1, <2>3, <1>1 DEF Packet
  <2> QED BY <2>2, <2>3, <2>4
<1>3. CASE ~(next.n < next.of)
  <2>1. PICK size \in 1 .. MaxSize :
            next' = [frame |-> next.frame + 1,
                     fid |-> IF next.fid = FidModulo - 1 THEN 0 ELSE next.fid + 1,
                     n |-> 1, of |-> size]
    BY <1>3 DEF Advance
  <2>2. next.frame + 1 \in 1 .. MaxFrame + 1 /\ 1 \in 1 .. MaxSize /\ 1 <= size
    BY <1>1, ReassemblyAssumption
  <2>3. CASE next.fid = FidModulo - 1
    <3>1. next'.fid = 0 /\ 0 = next.fid + 1 - FidModulo
          /\ 0 \in 0 .. FidModulo - 1
      BY <2>1, <2>3, <1>1, ReassemblyAssumption
    <3> QED BY <2>1, <2>2, <2>3, <3>1 DEF Packet
  <2>4. CASE next.fid # FidModulo - 1
    <3>1. next'.fid = next.fid + 1 /\ next.fid + 1 \in 0 .. FidModulo - 1
      BY <2>1, <2>4, <1>1, ReassemblyAssumption
    <3> QED BY <2>1, <2>2, <2>4, <3>1 DEF Packet
  <2> QED BY <2>3, <2>4
<1> QED BY <1>2, <1>3

\* A packet of another frame than the last one taken is of a later one, and has
\* another id.
LEMMA NewFrameNewId ==
    ASSUME ReassemblyInv, curFid >= 0, next.frame # got.frame
    PROVE  next.fid # curFid /\ next.frame > got.frame
<1>1. got.frame \in 1 .. MaxFrame + 1 /\ next.frame \in 1 .. MaxFrame + 1
      /\ curFid \in 0 .. FidModulo - 1 /\ gap \in 0 .. MaxGap
  BY DEF ReassemblyInv, TypeOK, Collected, Packet
<1>2. next.frame - got.frame \in 1 .. gap + 1
  BY <1>1, ReassemblyAssumption DEF ReassemblyInv, Ahead
<1>3. \/ next.fid = curFid + (next.frame - got.frame)
      \/ next.fid = curFid + (next.frame - got.frame) - FidModulo
  BY DEF ReassemblyInv, Ahead
<1> QED BY <1>1, <1>2, <1>3, ReassemblyAssumption

\* What is kept when a packet comes is of its frame and before it.
LEMMA KeptIsOfThisFrame ==
    ASSUME ReassemblyInv
    PROVE  \/ Kept = <<>>
           \/ /\ Kept = acc /\ curFid >= 0 /\ got.frame = next.frame
              /\ Before(acc, next.frame, next.n)
<1>1. CASE curFid = -1
  BY <1>1 DEF ReassemblyInv, Collected, Kept
<1>2. CASE curFid >= 0 /\ next.frame = got.frame
  <2>1. Before(acc, next.frame, next.n)
    <3>1. next.frame \in Nat
      BY DEF ReassemblyInv, TypeOK, Packet
    <3>2. next.frame - got.frame = 0
      BY <1>2, <3>1
    <3> QED BY <1>2, <3>2 DEF ReassemblyInv, Ahead
  <2> QED BY <1>2, <2>1 DEF Kept
<1>3. CASE curFid >= 0 /\ next.frame # got.frame
  BY <1>3, NewFrameNewId DEF Kept, Closes
<1> QED BY <1>1, <1>2, <1>3 DEF ReassemblyInv, TypeOK

\* What is kept when a packet arrives is of its frame and from before it.
LEMMA KeptFacts ==
    ASSUME ReassemblyInv
    PROVE  /\ Kept \in Seq(Payload) /\ Len(Kept) \in 0 .. MaxAcc
           /\ OneFrame(Kept) /\ Before(Kept, next.frame, next.n)
<1>1. CASE Kept = <<>>
  BY <1>1, ReassemblyAssumption DEF OneFrame, Before
<1>2. CASE Kept = acc /\ Before(acc, next.frame, next.n)
  <2>1. acc \in Seq(Payload) /\ Len(acc) \in 0 .. MaxAcc
    BY ReassemblyAssumption DEF ReassemblyInv, TypeOK
  <2> QED BY <1>2, <2>1 DEF ReassemblyInv, FramesUnmixed
<1> QED BY <1>1, <1>2, KeptIsOfThisFrame

\* Collecting the packet's payload leaves payloads of its frame, up to it.
LEMMA CollectFacts ==
    ASSUME ReassemblyInv, NEW s, s = Collect(Kept)
    PROVE  /\ s \in Seq(Payload) /\ Len(s) <= MaxAcc
           /\ OneFrame(s) /\ Before(s, next.frame, next.n + 1)
<1> DEFINE k == Kept
           r == [frame |-> next.frame, n |-> next.n, of |-> next.of]
<1>1. /\ k \in Seq(Payload) /\ Len(k) \in 0 .. MaxAcc
      /\ OneFrame(k) /\ Before(k, next.frame, next.n)
  BY KeptFacts
<1>2. /\ next.n \in Nat /\ r \in Payload
      /\ r.frame = next.frame /\ r.n = next.n
  BY DEF ReassemblyInv, TypeOK, Packet, Payload
<1>3. s = IF Len(k) + 1 <= MaxAcc THEN Append(k, r) ELSE <<>>
  BY DEF Collect
<1> HIDE DEF k, r
<1>4. CASE s = Append(k, r) /\ Len(k) + 1 <= MaxAcc
  <2>1. /\ s \in Seq(Payload) /\ Len(s) = Len(k) + 1
        /\ \A i \in 1 .. Len(s) : s[i] = IF i <= Len(k) THEN k[i] ELSE r
    BY <1>1, <1>2, <1>4
  <2>2. ASSUME NEW i \in 1 .. Len(s)
        PROVE  /\ s[i].frame = next.frame /\ s[i].n < next.n + 1
               /\ i <= Len(k) => s[i] = k[i] /\ s[i].n < next.n
               /\ ~(i <= Len(k)) => s[i].n = next.n /\ i = Len(k) + 1
    <3>1. CASE i <= Len(k)
      <4>1. i \in 1 .. Len(k) /\ s[i] = k[i]
        BY <2>1, <3>1, <1>1
      <4>2. k[i].n \in Nat
        BY <4>1, <1>1, PayloadNumber
      <4> QED BY <4>1, <4>2, <3>1, <1>1, <1>2 DEF Before
    <3>2. CASE ~(i <= Len(k))
      BY <2>1, <3>2, <1>1, <1>2
    <3> QED BY <3>1, <3>2
  <2>3. ASSUME NEW i \in 1 .. Len(s), NEW j \in 1 .. Len(s), i < j
        PROVE  s[i].n < s[j].n
    <3>1. i <= Len(k)
      BY <2>1, <2>3, <1>1
    <3>2. CASE j <= Len(k)
      <4>1. i \in 1 .. Len(k) /\ j \in 1 .. Len(k)
        BY <3>1, <3>2, <1>1, <2>1
      <4> QED BY <4>1, <3>1, <3>2, <2>2, <2>3, <1>1 DEF OneFrame
    <3>3. CASE ~(j <= Len(k))
      BY <3>1, <3>3, <2>2
    <3> QED BY <3>2, <3>3
  <2> QED BY <1>4, <2>1, <2>2, <2>3 DEF OneFrame, Before
<1>5. CASE s = <<>>
  BY <1>5, ReassemblyAssumption DEF OneFrame, Before
<1> QED BY <1>3, <1>4, <1>5

\* A picture that is shown is what was collected, of one frame.
LEMMA ShowStep ==
    ASSUME ReassemblyInv, Show
    PROVE  /\ shown' \in Seq(Payload) /\ OneFrame(shown')
           /\ emitted' \in 0 .. WARMUP_FRAMES + 1
<1>1. shown' = shown \/ shown' = acc
  BY DEF Show
<1>2. emitted' \in 0 .. WARMUP_FRAMES + 1
  <2>1. emitted' = emitted \/ (emitted <= WARMUP_FRAMES /\ emitted' = emitted + 1)
    BY DEF Show, ReassemblyInv, TypeOK, WARMUP_FRAMES
  <2> QED BY <2>1 DEF ReassemblyInv, TypeOK, WARMUP_FRAMES
<1> QED BY <1>1, <1>2 DEF ReassemblyInv, TypeOK, FramesUnmixed

\* A packet that is read: collected, begun with, or ignored.
LEMMA TakePacketStep ==
    ASSUME ReassemblyInv, TakePacket(TRUE) \/ TakePacket(FALSE)
    PROVE  ReassemblyInv'
<1>1. /\ Sending /\ Show /\ Advance
      /\ acc' = Collect(Kept) \/ acc' = Kept
      /\ curFid' = next.fid /\ gap' = 0
      /\ got'.frame = next.frame /\ got'.of = next.of
  BY DEF TakePacket
<1>2. /\ acc' \in Seq(Payload) /\ Len(acc') <= MaxAcc /\ OneFrame(acc')
      /\ Before(acc', next.frame, next.n + 1)
  <2>1. CASE acc' = Collect(Kept)
    BY <2>1, CollectFacts
  <2>2. CASE acc' = Kept
    <3>1. /\ acc' \in Seq(Payload) /\ Len(acc') \in 0 .. MaxAcc
          /\ OneFrame(acc') /\ Before(acc', next.frame, next.n)
      BY <2>2, KeptFacts
    <3>2. next.n \in Nat
      BY DEF ReassemblyInv, TypeOK, Packet
    <3>3. \A i \in 1 .. Len(acc') : acc'[i].n \in Nat
      BY <3>1, PayloadNumber
    <3> QED BY <3>1, <3>2, <3>3, ReassemblyAssumption DEF Before
  <2> QED BY <1>1, <2>1, <2>2
<1>3. /\ shown' \in Seq(Payload) /\ OneFrame(shown')
      /\ emitted' \in 0 .. WARMUP_FRAMES + 1
  BY <1>1, ShowStep
<1>4. next \in Packet /\ next.n <= next.of
  BY DEF ReassemblyInv, TypeOK
<1>5. /\ next' \in Packet /\ next'.n <= next'.of
      /\ \/ /\ next'.frame = next.frame /\ next'.fid = next.fid
            /\ next'.n = next.n + 1
         \/ /\ next'.frame = next.frame + 1
            /\ \/ next'.fid = next.fid + 1
               \/ next'.fid = next.fid + 1 - FidModulo
  BY <1>1, <1>4, AdvanceStep
<1>6. /\ next.frame \in Nat /\ next.fid \in Nat
      /\ next.fid \in 0 .. FidModulo - 1
  BY <1>4, ReassemblyAssumption DEF Packet
<1>7. Ahead'
  <2>1. CASE /\ next'.frame = next.frame /\ next'.fid = next.fid
             /\ next'.n = next.n + 1
    <3>1. next'.frame - got'.frame = 0 /\ next'.fid = curFid' + 0
      BY <2>1, <1>1, <1>6
    <3>2. Before(acc', got'.frame, next'.n)
      BY <2>1, <1>1, <1>2
    <3> QED BY <3>1, <3>2, <1>1 DEF Ahead, Before
  <2>2. CASE /\ next'.frame = next.frame + 1
             /\ \/ next'.fid = next.fid + 1
                \/ next'.fid = next.fid + 1 - FidModulo
    <3>1. next'.frame - got'.frame = 1
      BY <2>2, <1>1, <1>6
    <3>2. 1 \in 0 .. gap' + 1
      BY <1>1
    <3> QED BY <2>2, <3>1, <3>2, <1>1 DEF Ahead
  <2> QED BY <1>5, <2>1, <2>2
<1>8. got' \in [frame : 1 .. MaxFrame + 1, of : 1 .. MaxSize,
                taken : SUBSET (1 .. MaxSize)]
  <2>1. got.taken \in SUBSET (1 .. MaxSize)
    BY DEF ReassemblyInv, TypeOK, NoFrame
  <2>2. next.frame \in 1 .. MaxFrame + 1 /\ next.of \in 1 .. MaxSize
        /\ next.n \in 1 .. MaxSize
    BY <1>4 DEF Packet
  <2>3. PICK b \in BOOLEAN :
           got' = [frame |-> next.frame, of |-> next.of,
                   taken |-> (IF got.frame = next.frame THEN got.taken ELSE {})
                             \union (IF b THEN {next.n} ELSE {})]
    BY DEF TakePacket
  <2>4. (IF got.frame = next.frame THEN got.taken ELSE {})
        \union (IF b THEN {next.n} ELSE {}) \in SUBSET (1 .. MaxSize)
    BY <2>1, <2>2
  <2> QED BY <2>2, <2>3, <2>4
<1>9. got' # NoFrame
  BY <1>8 DEF NoFrame
<1>10. Collected'
  BY <1>1, <1>2, <1>6, <1>9 DEF Collected, Before
<1>11. TypeOK'
  BY <1>1, <1>2, <1>3, <1>5, <1>6, <1>8, ReassemblyAssumption DEF TypeOK
<1> QED BY <1>2, <1>3, <1>5, <1>7, <1>10, <1>11 DEF ReassemblyInv, FramesUnmixed

\* A packet that is lost, if the gap allows it: the camera moves ahead.
LEMMA SkipPacketStep == ASSUME ReassemblyInv, SkipPacket PROVE ReassemblyInv'
<1>1. /\ Sending /\ Advance /\ gap < MaxGap /\ gap' = gap + 1
      /\ UNCHANGED <<acc, curFid, emitted, got, shown>>
  BY DEF SkipPacket
<1>2. next \in Packet /\ next.n <= next.of /\ gap \in 0 .. MaxGap
  BY DEF ReassemblyInv, TypeOK
<1>3. /\ next' \in Packet /\ next'.n <= next'.of
      /\ \/ /\ next'.frame = next.frame /\ next'.fid = next.fid
            /\ next'.n = next.n + 1
         \/ /\ next'.frame = next.frame + 1
            /\ \/ next'.fid = next.fid + 1
               \/ next'.fid = next.fid + 1 - FidModulo
  BY <1>1, <1>2, AdvanceStep
<1>4. TypeOK'
  BY <1>1, <1>2, <1>3, ReassemblyAssumption DEF ReassemblyInv, TypeOK
<1>5. FramesUnmixed'
  BY <1>1 DEF ReassemblyInv, FramesUnmixed, OneFrame
<1>6. Collected'
  BY <1>1 DEF ReassemblyInv, Collected
<1>7. ASSUME curFid >= 0
      PROVE  /\ next'.frame - got.frame \in 0 .. gap' + 1
             /\ \/ next'.fid = curFid + (next'.frame - got.frame)
                \/ next'.fid = curFid + (next'.frame - got.frame) - FidModulo
             /\ next'.frame - got.frame = 0 => Before(acc, got.frame, next'.n)
  <2> DEFINE d == next.frame - got.frame
  <2>1. /\ d \in 0 .. gap + 1
        /\ next.fid = curFid + d \/ next.fid = curFid + d - FidModulo
        /\ d = 0 => Before(acc, got.frame, next.n)
    BY <1>7 DEF ReassemblyInv, Ahead
  <2>2. /\ next.frame \in Nat /\ got.frame \in Nat /\ curFid \in Nat
        /\ next.fid \in 0 .. FidModulo - 1 /\ next'.fid \in 0 .. FidModulo - 1
        /\ next.n \in Nat /\ curFid <= FidModulo - 1
    BY <1>2, <1>3, <1>7 DEF ReassemblyInv, TypeOK, Packet, NoFrame
  <2>3. CASE /\ next'.frame = next.frame /\ next'.fid = next.fid
             /\ next'.n = next.n + 1
    <3>1. next'.frame - got.frame = d
      BY <2>3
    <3>2. d \in 0 .. gap' + 1
      BY <2>1, <1>1, <1>2
    <3>3. ASSUME d = 0 PROVE Before(acc, got.frame, next'.n)
      <4>1. \A i \in 1 .. Len(acc) : acc[i].n \in Nat
        BY PayloadNumber DEF ReassemblyInv, TypeOK
      <4>2. Before(acc, got.frame, next.n)
        BY <2>1, <3>3
      <4> QED BY <2>2, <2>3, <4>1, <4>2 DEF Before
    <3> QED BY <2>1, <2>3, <3>1, <3>2, <3>3
  <2>4. CASE /\ next'.frame = next.frame + 1
             /\ \/ next'.fid = next.fid + 1
                \/ next'.fid = next.fid + 1 - FidModulo
    <3>1. next'.frame - got.frame = d + 1 /\ d \in Nat
      BY <2>1, <2>2, <2>4, <1>2
    <3>2. d + 1 \in 0 .. gap' + 1 /\ d + 1 # 0
      BY <2>1, <1>1, <1>2
    <3>3. d + 1 <= MaxGap + 1 /\ MaxGap + 2 <= FidModulo /\ FidModulo \in Nat
          /\ MaxGap \in Nat
      BY <2>1, <1>1, <1>2, ReassemblyAssumption
    <3>4. \/ next'.fid = curFid + (d + 1)
          \/ next'.fid = curFid + (d + 1) - FidModulo
      <4> HIDE DEF d
      <4> QED BY <2>1, <2>2, <2>4, <3>1, <3>3
    <3> QED BY <3>1, <3>2, <3>4
  <2> QED BY <1>3, <2>3, <2>4
<1>8. Ahead'
  BY <1>1, <1>7 DEF Ahead, Before
<1> QED BY <1>3, <1>4, <1>5, <1>6, <1>8 DEF ReassemblyInv

\* Another run of streamLoopMjpeg begins with nothing collected.
LEMMA RestartStep == ASSUME ReassemblyInv, Restart PROVE ReassemblyInv'
<1>1. /\ next' \in Packet /\ next'.n <= next'.of
      /\ gap' = 0 /\ acc' = <<>> /\ curFid' = -1 /\ emitted' = 0
      /\ got' = NoFrame /\ shown' = shown
  BY DEF Restart
<1>2. TypeOK'
  BY <1>1, ReassemblyAssumption DEF ReassemblyInv, TypeOK, WARMUP_FRAMES
<1> QED BY <1>1, <1>2
        DEF ReassemblyInv, FramesUnmixed, OneFrame, Ahead, Collected

\* Every step keeps the invariant.
LEMMA InvStep == ReassemblyInv /\ [Next]_vars => ReassemblyInv'
<1>1. ASSUME ReassemblyInv, UNCHANGED vars PROVE ReassemblyInv'
  BY <1>1 DEF vars, ReassemblyInv, TypeOK, FramesUnmixed, OneFrame, Ahead,
     Collected, Before
<1> QED BY <1>1, TakePacketStep, SkipPacketStep, RestartStep DEF Next

\* No picture is put together from two frames (streamLoopMjpeg), however many
\* frame ids there are and whatever is lost, as long as no gap in the packets
\* is as long as a round of frame ids.
THEOREM NoMixedFrames == Spec => [](TypeOK /\ FramesUnmixed)
<1>1. Spec => []ReassemblyInv
  BY InvInit, InvStep, PTL DEF Spec
<1> QED BY <1>1, PTL DEF ReassemblyInv

-----------------------------------------------------------------------------
(***************************************************************************)
(* The order of the pictures shown, and which of them are shown.           *)
(***************************************************************************)

\* The picture shown is of an earlier frame than the packet that comes next,
\* and than what is collected.
OrderInv ==
    shown # <<>> =>
        /\ shown[1].frame < next.frame
        /\ acc # <<>> => shown[1].frame < acc[1].frame

\* The first payload of something collected or shown.
LEMMA FirstPayload ==
    ASSUME NEW s \in Seq(Payload), s # <<>>
    PROVE  /\ 1 \in 1 .. Len(s) /\ Len(s) \in 1 .. Len(s) /\ s[1] \in Payload
           /\ s[1].frame \in Nat
<1>1. 1 \in 1 .. Len(s) /\ Len(s) \in 1 .. Len(s) /\ s[1] \in Payload
  OBVIOUS
<1> QED BY <1>1 DEF Payload

\* A frame that is closed is of an earlier frame than the packet that comes.
LEMMA ClosedIsEarlier ==
    ASSUME ReassemblyInv, Closes
    PROVE  /\ curFid >= 0 /\ got # NoFrame /\ next.frame # got.frame
           /\ acc[1].frame = got.frame /\ got.frame < next.frame
<1>1. /\ curFid >= 0 /\ got # NoFrame /\ acc # <<>> /\ next.fid # curFid
      /\ acc \in Seq(Payload)
  BY DEF Closes, ReassemblyInv, Collected, TypeOK
<1>2. acc[1].frame = got.frame
  BY <1>1, FirstPayload DEF ReassemblyInv, Collected
<1>3. next.frame \in Nat /\ got.frame \in Nat /\ curFid \in Nat
  BY <1>1 DEF ReassemblyInv, TypeOK, Packet, NoFrame
<1>4. next.frame # got.frame
  <2>1. SUFFICES ASSUME next.frame = got.frame PROVE next.fid = curFid
    BY <1>1
  <2>2. next.frame - got.frame = 0
    BY <1>3, <2>1
  <2>3. next.fid = curFid + 0 \/ next.fid = curFid + 0 - FidModulo
    BY <1>1, <2>2 DEF ReassemblyInv, Ahead
  <2>4. next.fid \in 0 .. FidModulo - 1 /\ curFid \in 0 .. FidModulo - 1
    BY <1>1 DEF ReassemblyInv, TypeOK, Packet
  <2> QED BY <2>3, <2>4, ReassemblyAssumption
<1> QED BY <1>1, <1>2, <1>4, NewFrameNewId

\* What is shown changes only when a frame is closed, and then to a later one.
LEMMA ShownChange ==
    ASSUME ReassemblyInv, OrderInv, Show, shown' # shown
    PROVE  /\ Closes /\ shown' = acc /\ shown' # <<>>
           /\ shown'[1].frame < next.frame
           /\ shown # <<>> => shown'[1].frame > shown[1].frame
<1>1. Closes /\ shown' = acc /\ acc # <<>>
  BY DEF Show, Closes
<1>2. shown'[1].frame < next.frame
  BY <1>1, ClosedIsEarlier
<1>3. ASSUME shown # <<>> PROVE shown'[1].frame > shown[1].frame
  <2>1. shown[1].frame < acc[1].frame
    BY <1>1, <1>3 DEF OrderInv
  <2>2. shown[1].frame \in Nat /\ acc[1].frame \in Nat
    BY <1>1, <1>3, FirstPayload DEF ReassemblyInv, TypeOK
  <2> QED BY <1>1, <2>1, <2>2
<1> QED BY <1>1, <1>2, <1>3

\* Every step keeps what is shown behind the camera and the accumulator.
LEMMA OrderStep ==
    ReassemblyInv /\ ReassemblyInv' /\ OrderInv /\ [Next]_vars => OrderInv'
<1> SUFFICES ASSUME ReassemblyInv, ReassemblyInv', OrderInv, [Next]_vars
             PROVE  OrderInv'
  OBVIOUS
<1>0. next.frame \in Nat /\ next'.frame \in Nat
  BY DEF ReassemblyInv, TypeOK, Packet
<1>1. ASSUME shown # <<>> PROVE shown[1].frame \in Nat
  BY <1>1, FirstPayload DEF ReassemblyInv, TypeOK
<1>2. CASE TakePacket(TRUE) \/ TakePacket(FALSE)
  <2>1. Sending /\ Show /\ Advance /\ (acc' = Collect(Kept) \/ acc' = Kept)
    BY <1>2 DEF TakePacket
  <2>2. shown' # <<>> => shown'[1].frame \in Nat /\ shown'[1].frame < next.frame
    <3>1. CASE shown' = shown
      BY <3>1, <1>1 DEF OrderInv
    <3>2. CASE shown' # shown
      <4>1. shown' = acc /\ shown' # <<>> /\ shown'[1].frame < next.frame
        BY <2>1, <3>2, ShownChange
      <4> QED BY <4>1, FirstPayload DEF ReassemblyInv, TypeOK
    <3> QED BY <3>1, <3>2
  <2>3. next'.frame >= next.frame
    BY <1>0, <2>1, AdvanceStep DEF ReassemblyInv, TypeOK
  <2>4. acc' # <<>> => acc'[1].frame = next.frame
    <3>1. /\ acc' \in Seq(Payload)
          /\ Before(acc', next.frame, next.n + 1)
             \/ Before(acc', next.frame, next.n)
      BY <2>1, CollectFacts, KeptFacts
    <3> QED BY <3>1, FirstPayload DEF Before
  <2> QED BY <1>0, <2>2, <2>3, <2>4 DEF OrderInv
<1>3. CASE SkipPacket
  <2>1. next'.frame >= next.frame /\ UNCHANGED <<acc, shown>>
    BY <1>0, <1>3, AdvanceStep DEF SkipPacket, ReassemblyInv, TypeOK
  <2> QED BY <1>0, <1>1, <2>1 DEF OrderInv
<1>4. CASE Restart
  <2>1. next'.frame = next.frame + 1 /\ acc' = <<>> /\ shown' = shown
    BY <1>4 DEF Restart
  <2> QED BY <1>0, <1>1, <2>1 DEF OrderInv
<1>5. CASE UNCHANGED vars
  BY <1>5 DEF vars, OrderInv
<1> QED BY <1>2, <1>3, <1>4, <1>5 DEF Next

\* Pictures are shown in the order the camera took them, and none twice,
\* whatever is lost and however often the stream breaks off: the test of the
\* frame id in streamLoopMjpeg, which clears the accumulator with every frame
\* it closes.
THEOREM FramesInOrder == Spec => ShownInOrder
<1> DEFINE Later == shown' # shown /\ shown # <<>>
                       => shown'[1].frame > shown[1].frame
<1>1. Init => OrderInv
  BY DEF Init, OrderInv
<1>2. ReassemblyInv /\ OrderInv /\ [Next]_vars => [Later]_vars
  <2> SUFFICES ASSUME ReassemblyInv, OrderInv, Next, shown' # shown
               PROVE  Later
    OBVIOUS
  <2>1. Show
    BY DEF Next, TakePacket, SkipPacket, Restart
  <2> QED BY <2>1, ShownChange
<1> HIDE DEF Later
<1>3. Spec => [][Later]_vars
  BY <1>1, <1>2, InvInit, InvStep, OrderStep, PTL DEF Spec
<1> QED BY <1>3 DEF Later, ShownInOrder

\* What has been taken of the frame in progress comes before the next packet,
\* and as long as that is its beginning, and fits, it is what was collected.
WholeInv ==
    /\ curFid = -1 => got = NoFrame
    /\ got.frame = next.frame =>
          got.of = next.of /\ got.taken \subseteq 1 .. (next.n - 1)
    /\ \A m \in 0 .. MaxAcc :
          got.taken = 1 .. m => Len(acc) = m /\ \A i \in 1 .. m : acc[i].n = i
    /\ \A i \in 1 .. Len(acc) : acc[i].of = got.of

\* A stream begins with nothing taken.
LEMMA WholeInit == Init => WholeInv
<1> SUFFICES ASSUME Init PROVE WholeInv
  OBVIOUS
<1>1. /\ got = NoFrame /\ got.frame = 0 /\ got.taken = {} /\ acc = <<>>
      /\ next.frame = 1
  BY DEF Init, NoFrame
<1>2. ASSUME NEW m \in 0 .. MaxAcc, {} = 1 .. m PROVE m = 0
  BY <1>2, ReassemblyAssumption
<1> QED BY <1>1, <1>2 DEF WholeInv

\* What is taken of a frame, and kept of it in the accumulator, before the
\* packet that comes.
LEMMA KeptIsTaken ==
    ASSUME ReassemblyInv, WholeInv, NEW t,
           t = IF got.frame = next.frame THEN got.taken ELSE {}
    PROVE  /\ t \subseteq 1 .. (next.n - 1)
           /\ \A m \in 0 .. MaxAcc :
                 t = 1 .. m => Len(Kept) = m /\ \A i \in 1 .. m : Kept[i].n = i
           /\ \A i \in 1 .. Len(Kept) : Kept[i].of = next.of
<1>0. \A m \in 0 .. MaxAcc : {} = 1 .. m => m = 0
  BY ReassemblyAssumption
<1>1. CASE got.frame = next.frame
  <2>1. curFid >= 0 \/ acc = <<>>
    BY DEF ReassemblyInv, Collected, TypeOK
  <2>2. Kept = acc
    <3>1. CASE Closes
      BY <1>1, <3>1, ClosedIsEarlier
    <3> QED BY <3>1 DEF Kept
  <2> QED BY <1>1, <2>2 DEF WholeInv
<1>2. CASE got.frame # next.frame
  <2>1. Kept = <<>>
    BY <1>2, KeptIsOfThisFrame
  <2> QED BY <1>0, <1>2, <2>1
<1> QED BY <1>1, <1>2

\* A packet with a payload: it goes on with the beginning of its frame, or
\* something of it is missing from then on.
LEMMA WholeTake ==
    ASSUME ReassemblyInv, WholeInv, NEW b \in BOOLEAN, TakePacket(b)
    PROVE  WholeInv'
<1> DEFINE t == IF got.frame = next.frame THEN got.taken ELSE {}
           r == [frame |-> next.frame, n |-> next.n, of |-> next.of]
           k == Kept
<1>1. /\ got'.frame = next.frame /\ got'.of = next.of
      /\ got'.taken = t \union (IF b THEN {next.n} ELSE {})
      /\ acc' = IF b THEN Collect(k) ELSE k
      /\ Sending /\ Advance
  BY DEF TakePacket
<1>2. /\ t \subseteq 1 .. (next.n - 1)
      /\ \A m \in 0 .. MaxAcc :
            t = 1 .. m => Len(k) = m /\ \A i \in 1 .. m : k[i].n = i
      /\ \A i \in 1 .. Len(k) : k[i].of = next.of
  BY KeptIsTaken
<1>3. /\ k \in Seq(Payload) /\ Len(k) \in 0 .. MaxAcc
  BY KeptFacts
<1>4. /\ next \in Packet /\ next.n <= next.of /\ next.n \in Nat \ {0}
      /\ next.frame \in Nat /\ r \in Payload /\ r.n = next.n /\ r.of = next.of
  BY DEF ReassemblyInv, TypeOK, Packet, Payload
<1>5. Collect(k) = IF Len(k) + 1 <= MaxAcc THEN Append(k, r) ELSE <<>>
  BY DEF Collect
<1> HIDE DEF t, r, k
<1>6. got'.frame = next'.frame =>
         got'.of = next'.of /\ got'.taken \subseteq 1 .. (next'.n - 1)
  <2>1. SUFFICES ASSUME next'.frame = next.frame
                 PROVE  /\ next'.of = next.of
                        /\ got'.taken \subseteq 1 .. (next'.n - 1)
    BY <1>1
  <2>2. next'.of = next.of /\ next'.n = next.n + 1
    BY <1>1, <1>4, <2>1, AdvanceStep
  <2>3. next'.n - 1 = next.n
    BY <1>4, <2>2
  <2>4. t \subseteq 1 .. next.n /\ next.n \in 1 .. next.n
    BY <1>2, <1>4
  <2>5. got'.taken \subseteq 1 .. next.n
    BY <1>1, <2>4
  <2> QED BY <2>2, <2>3, <2>5
<1>6a. curFid' # -1
  BY DEF TakePacket, ReassemblyInv, TypeOK, Packet
<1>7. CASE b
  <2>1. /\ acc' = IF Len(k) + 1 <= MaxAcc THEN Append(k, r) ELSE <<>>
        /\ got'.taken = t \union {next.n}
    BY <1>1, <1>5, <1>7
  <2>2. /\ Len(k) + 1 <= MaxAcc =>
              /\ Len(acc') = Len(k) + 1
              /\ \A i \in 1 .. Len(k) : acc'[i] = k[i]
              /\ acc'[Len(k) + 1] = r
        /\ ~(Len(k) + 1 <= MaxAcc) => Len(acc') = 0
    BY <1>3, <1>4, <2>1
  <2>3. ASSUME NEW m \in 0 .. MaxAcc, got'.taken = 1 .. m
        PROVE  Len(acc') = m /\ \A i \in 1 .. m : acc'[i].n = i
    <3>1. next.n \in 1 .. m /\ \A x \in t : x < next.n /\ x \in Int
      BY <1>2, <1>4, <2>1, <2>3
    <3>2. m = next.n
      <4>1. m \in t \union {next.n}
        BY <2>1, <2>3, <3>1, ReassemblyAssumption
      <4> QED BY <3>1, <4>1, ReassemblyAssumption
    <3>3. t = 1 .. (m - 1) /\ m - 1 \in 0 .. MaxAcc
      <4>1. m \in Nat \ {0} /\ MaxAcc \in Nat
        BY <1>4, <3>2, ReassemblyAssumption
      <4>2. t \union {m} = 1 .. m
        BY <2>1, <2>3, <3>2
      <4>3. \A x \in t : x \in 1 .. (m - 1)
        BY <1>2, <3>2
      <4>4. ASSUME NEW x \in 1 .. (m - 1) PROVE x \in t
        <5>1. x \in 1 .. m /\ x # m
          BY <4>1
        <5> QED BY <4>2, <5>1
      <4>5. m - 1 \in 0 .. MaxAcc
        BY <4>1
      <4> QED BY <4>3, <4>4, <4>5
    <3>4. Len(k) = m - 1 /\ \A i \in 1 .. (m - 1) : k[i].n = i
      BY <1>2, <3>3
    <3>5. /\ Len(acc') = m /\ acc'[m] = r
          /\ \A i \in 1 .. (m - 1) : acc'[i] = k[i]
      BY <2>2, <3>4, ReassemblyAssumption
    <3>6. ASSUME NEW i \in 1 .. m PROVE acc'[i].n = i
      <4>1. i = m \/ i \in 1 .. (m - 1)
        BY ReassemblyAssumption
      <4> QED BY <1>4, <3>2, <3>4, <3>5, <4>1
    <3> QED BY <3>5, <3>6
  <2>4. ASSUME NEW i \in 1 .. Len(acc') PROVE acc'[i].of = got'.of
    <3>1. Len(k) + 1 <= MaxAcc /\ (i \in 1 .. Len(k) \/ i = Len(k) + 1)
      BY <1>3, <2>2, ReassemblyAssumption
    <3> QED BY <1>1, <1>2, <1>4, <2>2, <3>1
  <2> QED BY <1>6, <1>6a, <2>3, <2>4 DEF WholeInv
<1>8. CASE ~b
  BY <1>1, <1>2, <1>6, <1>6a, <1>8 DEF WholeInv
<1> QED BY <1>7, <1>8

\* Every step keeps what is collected the beginning of a frame, if it was.
LEMMA WholeStep ==
    ReassemblyInv /\ WholeInv /\ [Next]_vars => WholeInv'
<1> SUFFICES ASSUME ReassemblyInv, WholeInv, [Next]_vars PROVE WholeInv'
  OBVIOUS
<1>0. /\ next \in Packet /\ next.n <= next.of /\ next.frame \in Nat \ {0}
      /\ next.n \in Nat
  BY DEF ReassemblyInv, TypeOK, Packet
<1>1. CASE TakePacket(TRUE) \/ TakePacket(FALSE)
  BY <1>1, WholeTake
<1>2. CASE SkipPacket
  <2>1. Sending /\ Advance /\ UNCHANGED <<acc, got, curFid>>
    BY <1>2 DEF SkipPacket
  <2>2. \/ /\ next'.frame = next.frame /\ next'.n = next.n + 1
           /\ next'.of = next.of
        \/ next'.frame = next.frame + 1
    BY <1>0, <2>1, AdvanceStep
  <2>3. got.frame <= next.frame
    <3>1. CASE curFid >= 0
      <4>1. got.frame \in Nat
        BY <3>1 DEF ReassemblyInv, TypeOK, NoFrame
      <4> QED BY <1>0, <3>1, <4>1, NewFrameNewId
    <3>2. CASE curFid = -1
      BY <1>0, <3>2 DEF WholeInv, NoFrame
    <3> QED BY <3>1, <3>2 DEF ReassemblyInv, TypeOK
  <2>4. ASSUME got.frame = next'.frame
        PROVE  got.of = next'.of /\ got.taken \subseteq 1 .. (next'.n - 1)
    <3>1. /\ next'.frame = next.frame /\ next'.n = next.n + 1
          /\ next'.of = next.of
      BY <1>0, <2>2, <2>3, <2>4
    <3>2. got.of = next.of /\ got.taken \subseteq 1 .. (next.n - 1)
      BY <2>4, <3>1 DEF WholeInv
    <3> QED BY <1>0, <3>1, <3>2
  <2> QED BY <2>1, <2>4 DEF WholeInv
<1>3. CASE Restart
  <2>1. /\ got' = NoFrame /\ got'.frame = 0 /\ got'.taken = {} /\ acc' = <<>>
        /\ next'.frame = next.frame + 1
    BY <1>3 DEF Restart, NoFrame
  <2>2. ASSUME NEW m \in 0 .. MaxAcc, {} = 1 .. m PROVE m = 0
    BY <2>2, ReassemblyAssumption
  <2> QED BY <1>0, <2>1, <2>2 DEF WholeInv
<1>4. CASE UNCHANGED vars
  BY <1>4 DEF vars, WholeInv
<1> QED BY <1>1, <1>2, <1>3, <1>4 DEF Next

\* A frame that came whole, and fits, is shown when the next one begins:
\* nothing that streamLoopMjpeg has received is held back or thrown away but
\* the warm-up frames.
THEOREM WholeFramesShown == Spec => NothingWithheld
<1> DEFINE Shows ==
        /\ got # NoFrame /\ got' # NoFrame /\ got'.frame # got.frame
        /\ got.taken = 1 .. got.of /\ got.of <= MaxAcc
        /\ emitted >= WARMUP_FRAMES
        => /\ Len(shown') = got.of
           /\ \A i \in 1 .. got.of : /\ shown'[i].frame = got.frame
                                     /\ shown'[i].n = i
<1>1. ReassemblyInv /\ WholeInv /\ [Next]_vars => [Shows]_vars
  <2> SUFFICES ASSUME ReassemblyInv, WholeInv, Next,
                      got # NoFrame, got' # NoFrame, got'.frame # got.frame,
                      got.taken = 1 .. got.of, got.of <= MaxAcc,
                      emitted >= WARMUP_FRAMES
               PROVE  /\ Len(shown') = got.of
                      /\ \A i \in 1 .. got.of : /\ shown'[i].frame = got.frame
                                                /\ shown'[i].n = i
    OBVIOUS
  <2>1. Show /\ next.frame # got.frame
    BY DEF Next, TakePacket, SkipPacket, Restart
  <2>2. got.of \in 1 .. MaxSize /\ got.of \in 0 .. MaxAcc /\ got.of >= 1
    BY ReassemblyAssumption DEF ReassemblyInv, TypeOK
  <2>3. /\ Len(acc) = got.of /\ \A i \in 1 .. got.of : acc[i].n = i
        /\ \A i \in 1 .. got.of : acc[i].of = got.of
        /\ \A i \in 1 .. got.of : acc[i].frame = got.frame
    BY <2>2 DEF WholeInv, ReassemblyInv, Collected
  <2>4. acc # <<>> /\ 1 \in 1 .. got.of /\ got.of \in 1 .. got.of
    BY <2>2, <2>3
  <2>5. curFid >= 0
    BY <2>4 DEF ReassemblyInv, Collected, TypeOK
  <2>6. Closes
    BY <2>1, <2>4, <2>5, NewFrameNewId DEF Closes
  <2>7. Valid(acc)
    BY <2>3, <2>4 DEF Valid
  <2>8. shown' = acc
    BY <2>1, <2>6, <2>7 DEF Show
  <2> QED BY <2>3, <2>8
<1> HIDE DEF Shows
<1>2. Spec => [][Shows]_vars
  BY <1>1, InvInit, InvStep, WholeInit, WholeStep, PTL DEF Spec
<1> QED BY <1>2 DEF Shows, NothingWithheld
=============================================================================
