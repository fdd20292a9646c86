----------------------------- MODULE Yuyv_proofs -----------------------------
(***************************************************************************)
(* Proofs about the YUYV stream.  Of YuyvStream, for any finite set of     *)
(* transfers: the counter of transfers in flight is exact, no press is     *)
(* lost in a pass, and the stream implements TransferPool, so that nothing *)
(* USB may still write to is freed.  Of YuyvAssembler, for frames of any   *)
(* length: a frame is all that came after its header, one whole picture if *)
(* the camera dropped nothing of it, and a picture sent whole is ready.    *)
(***************************************************************************)
EXTENDS YuyvStream, YuyvAssembler, FiniteSetTheorems, TLAPS

-----------------------------------------------------------------------------
(***************************************************************************)
(* YuyvStream.                                                             *)
(***************************************************************************)
OutSet == {t \in Transfers : xfer[t] \in Out}

\* The latch has seen what came: the level, and whether there was a press since
\* the last pass.  A button that is down was reported or will be.
LatchInv == down = level /\ pending = press /\ (down => pending \/ lastButton)

\* `stopping` is set exactly when the loop was left, and a stream that has
\* freed its transfers has none out.
StreamInv ==
    /\ TypeOK
    /\ InFlightExact
    /\ LatchInv
    /\ stopping <=> pc \in {"drain"} \union Ended
    /\ pc = "freed" => OutSet = {}

-----------------------------------------------------------------------------
\* The set of transfers that are out, after one of them changes.
OutAfter(t, how) ==
    {u \in Transfers : [xfer EXCEPT ![t] = how][u] \in Out}

\* The transfers that are out are some of finitely many.
LEMMA OutFinite == OutSet \in SUBSET Transfers /\ IsFiniteSet(OutSet)
<1>1. OutSet \subseteq Transfers  BY DEF OutSet
<1> QED  BY <1>1, StreamAssumption, FS_Subset

\* One transfer goes out: the count grows by one.
LEMMA CountOut ==
    ASSUME TypeOK, NEW t \in Transfers, xfer[t] \notin Out
    PROVE  /\ Cardinality(OutAfter(t, "usb")) = Cardinality(OutSet) + 1
           /\ Cardinality(OutSet) \in Nat
<1>1. OutAfter(t, "usb") = OutSet \union {t}
  BY DEF OutAfter, OutSet, Out, Finished, TypeOK
<1>2. t \notin OutSet  BY DEF OutSet
<1> QED  BY <1>1, <1>2, OutFinite, FS_AddElement, FS_CardinalityType

\* One comes back: the count shrinks by one, and was not zero.
LEMMA CountBack ==
    ASSUME TypeOK, NEW t \in Transfers, xfer[t] \in Out
    PROVE  /\ Cardinality(OutAfter(t, "back")) = Cardinality(OutSet) - 1
           /\ Cardinality(OutSet) \in Nat \ {0}
<1>1. OutAfter(t, "back") = OutSet \ {t}
  BY DEF OutAfter, OutSet, Out, Finished, TypeOK
<1>2. t \in OutSet  BY DEF OutSet
<1>3. Cardinality(OutSet \ {t}) = Cardinality(OutSet) - 1
  BY <1>2, OutFinite, FS_RemoveElement
<1>4. Cardinality(OutSet) \in Nat /\ Cardinality(OutSet) # 0
  BY <1>2, OutFinite, FS_CardinalityType, FS_EmptySet
<1> QED  BY <1>1, <1>3, <1>4

\* One stays out, in another state.
LEMMA CountSame ==
    ASSUME TypeOK, NEW t \in Transfers, xfer[t] \in Out, NEW how \in Out
    PROVE  OutAfter(t, how) = OutSet
BY DEF OutAfter, OutSet, Out, Finished, TypeOK

-----------------------------------------------------------------------------
\* Submitting, giving back and finishing a transfer keep the count exact.
LEMMA SubmitFirstCount ==
    ASSUME StreamInv, SubmitFirst
    PROVE  TypeOK' /\ InFlightExact'
<1>1. PICK t \in Transfers : xfer[t] = "unused"
                             /\ xfer' = [xfer EXCEPT ![t] = "usb"]
  BY DEF SubmitFirst
<1>2. xfer[t] \notin Out  BY <1>1 DEF Out, Finished
<1>3. inFlight' = inFlight + 1  BY DEF SubmitFirst
<1>4. OutSet' = OutAfter(t, "usb")  BY <1>1 DEF OutSet, OutAfter
<1>5. inFlight = Cardinality(OutSet)  BY DEF StreamInv, InFlightExact, OutSet
<1>6. Cardinality(OutSet') = Cardinality(OutSet) + 1
  BY <1>2, <1>4, CountOut DEF StreamInv
<1>7. InFlightExact'  BY <1>3, <1>5, <1>6 DEF InFlightExact, OutSet
<1>8. TypeOK'
  BY <1>1, <1>3 DEF SubmitFirst, StreamInv, TypeOK, Out, Finished, frameVars,
                    buttonVars, envVars
<1> QED  BY <1>7, <1>8

\* A callback that keeps its transfer takes one from inFlight.
LEMMA GiveBackCount ==
    ASSUME StreamInv, NEW t \in Transfers, xfer[t] \in Out, GiveBack(t)
    PROVE  /\ xfer' \in [Transfers -> {"unused", "back"} \union Out]
           /\ inFlight' \in Nat /\ InFlightExact'
<1>1. xfer' = [xfer EXCEPT ![t] = "back"] /\ inFlight' = inFlight - 1
  BY DEF GiveBack
<1>2. OutSet' = OutAfter(t, "back")  BY <1>1 DEF OutSet, OutAfter
<1>3. inFlight = Cardinality(OutSet)  BY DEF StreamInv, InFlightExact, OutSet
<1>4. /\ Cardinality(OutSet') = Cardinality(OutSet) - 1
      /\ Cardinality(OutSet) \in Nat \ {0}
  BY <1>2, CountBack DEF StreamInv
<1>5. InFlightExact'  BY <1>1, <1>3, <1>4 DEF InFlightExact, OutSet
<1>6. inFlight' \in Nat  BY <1>1, <1>3, <1>4
<1> QED  BY <1>1, <1>5, <1>6 DEF StreamInv, TypeOK

\* A callback that resubmits leaves inFlight alone; if that fails it gives
\* back.
LEMMA ResubmitCount ==
    ASSUME StreamInv, NEW t \in Transfers, xfer[t] = "completed", Resubmit(t)
    PROVE  /\ xfer' \in [Transfers -> {"unused", "back"} \union Out]
           /\ inFlight' \in Nat /\ InFlightExact' /\ fatal' \in BOOLEAN
<1>1. xfer[t] \in Out  BY DEF Out, Finished
<1>2. CASE fatal' = TRUE /\ GiveBack(t)  BY <1>1, <1>2, GiveBackCount
<1>3. CASE xfer' = [xfer EXCEPT ![t] = "usb"] /\ UNCHANGED <<inFlight, fatal>>
  <2>1. "usb" \in Out  BY DEF Out
  <2>2. OutSet' = OutAfter(t, "usb")  BY <1>3 DEF OutSet, OutAfter
  <2>3. OutSet' = OutSet  BY <1>1, <2>1, <2>2, CountSame DEF StreamInv
  <2>4. InFlightExact'
    BY <1>3, <2>3 DEF StreamInv, InFlightExact, OutSet
  <2> QED  BY <1>3, <2>1, <2>4 DEF StreamInv, TypeOK
<1> QED  BY <1>2, <1>3 DEF Resubmit

\* So does every callback, whatever became of its transfer.
LEMMA CallbackCount ==
    ASSUME StreamInv, NEW t \in Transfers, OnYuyvTransfer(t)
    PROVE  /\ xfer' \in [Transfers -> {"unused", "back"} \union Out]
           /\ inFlight' \in Nat /\ InFlightExact' /\ fatal' \in BOOLEAN
<1>1. fatal \in BOOLEAN  BY DEF StreamInv, TypeOK
<1>2. CASE xfer[t] = "completed" /\ Resubmit(t)  BY <1>2, ResubmitCount
<1>3. CASE xfer[t] \in Finished /\ GiveBack(t) /\ (UNCHANGED fatal \/ fatal' = TRUE)
  BY <1>1, <1>3, GiveBackCount DEF Out
<1> QED  BY <1>2, <1>3 DEF OnYuyvTransfer, Finished

\* What a completed transfer brings keeps the latch sound.
LEMMA FeedSound ==
    ASSUME TypeOK, LatchInv, Feed, UNCHANGED lastButton
    PROVE  /\ hasReady' \in BOOLEAN /\ skipped' \in Nat /\ emitted' \in Nat
           /\ frames' \in Nat /\ down' \in BOOLEAN /\ pending' \in BOOLEAN
           /\ level' \in BOOLEAN /\ press' \in BOOLEAN
           /\ LatchInv'
<1>1. CASE UNCHANGED <<frameVars, down, pending, level, press>>
  <2>1. UNCHANGED <<hasReady, skipped, emitted, frames>>
    BY <1>1 DEF frameVars
  <2>2. UNCHANGED <<down, pending, level, press>>  BY <1>1
  <2> QED  BY <2>1, <2>2, Zenon DEF TypeOK, LatchInv
<1>2. CASE HeaderKept
  <2>1. PICK pressed \in BOOLEAN :
          /\ pending' = (pending \/ (pressed /\ ~down)) /\ down' = pressed
          /\ level' = pressed /\ press' = (press \/ (pressed /\ ~level))
    BY <1>2 DEF HeaderKept, LatchHeader
  <2>2. down \in BOOLEAN /\ pending \in BOOLEAN /\ lastButton \in BOOLEAN
        /\ down = level /\ pending = press /\ (down => pending \/ lastButton)
    BY DEF TypeOK, LatchInv
  <2>3. down' = level' /\ pending' = press'  BY <2>1, <2>2
  <2>4. down' => pending' \/ lastButton'  BY <2>1, <2>2
  <2>5. /\ down' \in BOOLEAN /\ pending' \in BOOLEAN
        /\ level' \in BOOLEAN /\ press' \in BOOLEAN
    BY <2>1
  <2>6. \/ FrameComplete \/ UNCHANGED frameVars
    BY <1>2 DEF Feed, frameVars
  <2>7. /\ hasReady' \in BOOLEAN /\ skipped' \in Nat /\ emitted' \in Nat
        /\ frames' \in Nat
    <3>1. CASE FrameComplete
      <4>1. /\ frames' = frames + 1 /\ emitted' = emitted
            /\ skipped' = skipped + 1 \/ skipped' = skipped
        BY <3>1 DEF FrameComplete
      <4>2. frames \in Nat /\ emitted \in Nat /\ skipped \in Nat  BY DEF TypeOK
      <4>3. hasReady' = TRUE  BY <3>1 DEF FrameComplete
      <4> QED  BY <4>1, <4>2, <4>3
    <3>2. CASE UNCHANGED frameVars  BY <3>2 DEF TypeOK, frameVars
    <3> QED  BY <2>6, <3>1, <3>2
  <2> QED  BY <2>3, <2>4, <2>5, <2>7 DEF LatchInv
<1> QED  BY <1>1, <1>2 DEF Feed

\* onYuyvTransfer keeps the invariant; a press it sees goes into the latch.
LEMMA CallbackKeeps ==
    ASSUME StreamInv, NEW t \in Transfers, OnYuyvTransfer(t)
    PROVE  StreamInv'
<1>1. /\ xfer' \in [Transfers -> {"unused", "back"} \union Out]
      /\ inFlight' \in Nat /\ InFlightExact' /\ fatal' \in BOOLEAN
  BY CallbackCount
<1>2. UNCHANGED <<pc, stopping, lastButton, edges, stopFlag, attached>>
  BY DEF OnYuyvTransfer, envVars
<1>3. /\ hasReady' \in BOOLEAN /\ skipped' \in Nat /\ emitted' \in Nat
      /\ frames' \in Nat /\ down' \in BOOLEAN /\ pending' \in BOOLEAN
      /\ level' \in BOOLEAN /\ press' \in BOOLEAN
      /\ LatchInv'
  <2>1. CASE Feed  BY <1>2, <2>1, FeedSound DEF StreamInv
  <2>2. CASE UNCHANGED <<frameVars, down, pending, level, press>>
    <3>1. UNCHANGED <<hasReady, skipped, emitted, frames>>
      BY <2>2 DEF frameVars
    <3>2. UNCHANGED <<down, pending, level, press, lastButton>>  BY <1>2, <2>2
    <3> QED  BY <3>1, <3>2, Zenon DEF StreamInv, TypeOK, LatchInv
  <2> QED  BY <2>1, <2>2 DEF OnYuyvTransfer
<1>4. TypeOK'  BY <1>1, <1>2, <1>3 DEF StreamInv, TypeOK
<1>5. pc # "freed"  BY DEF OnYuyvTransfer
<1> QED  BY <1>1, <1>2, <1>3, <1>4, <1>5 DEF StreamInv

\* A transfer that libusb finished is still out until its callback ran.
LEMMA FinishKeeps ==
    ASSUME StreamInv, NEW t \in Transfers, NEW how \in Finished, Finish(t, how)
    PROVE  StreamInv'
<1>1. xfer[t] \in Out /\ how \in Out  BY DEF Finish, Out
<1>2. OutSet' = OutAfter(t, how)  BY DEF Finish, OutSet, OutAfter
<1>3. OutSet' = OutSet  BY <1>1, <1>2, CountSame DEF StreamInv
<1>4. TypeOK'
  BY <1>1 DEF StreamInv, TypeOK, Finish, frameVars, buttonVars, envVars
<1>5. UNCHANGED <<pc, inFlight, stopping>>
      /\ UNCHANGED <<down, pending, lastButton, level, press>>
  BY DEF Finish, buttonVars
<1> QED
  BY <1>3, <1>4, <1>5 DEF StreamInv, InFlightExact, OutSet, LatchInv

-----------------------------------------------------------------------------
\* No transfer is out before the first is submitted.
LEMMA InitInv == Init => StreamInv
<1> SUFFICES ASSUME Init PROVE StreamInv  OBVIOUS
<1>1. OutSet = {}  BY DEF Init, OutSet, Out, Finished
<1>2. TypeOK
  <2>1. edges \in Seq({"press", "release"})  BY DEF Init
  <2>2. xfer \in [Transfers -> {"unused", "back"} \union Out]  BY DEF Init
  <2>3. /\ inFlight \in Nat /\ skipped \in Nat /\ emitted \in Nat
        /\ frames \in Nat
    BY DEF Init
  <2> QED  BY <2>1, <2>2, <2>3, Zenon DEF Init, TypeOK
<1>3. InFlightExact  BY <1>1, FS_EmptySet DEF Init, InFlightExact, OutSet
<1>4. LatchInv  BY DEF Init, LatchInv
<1> QED  BY <1>1, <1>2, <1>3, <1>4 DEF Init, StreamInv, Ended

\* What a pass says of the button.
LEMMA PassSays ==
    ASSUME StreamInv, Pass
    PROVE  /\ edges' \in Seq({"press", "release"})
           /\ press <=> \E i \in 1 .. Len(edges') : edges'[i] = "press"
           /\ edges' # <<>> => (edges'[Len(edges')] = "press" <=> level)
           /\ edges' = <<>> => lastButton = level
<1>1. /\ down \in BOOLEAN /\ pending \in BOOLEAN /\ lastButton \in BOOLEAN
      /\ down = level /\ pending = press /\ (down => pending \/ lastButton)
  BY DEF StreamInv, TypeOK, LatchInv
<1>2. edges' = PressEdges \o ReleaseEdges  BY DEF Pass
<1>3. CASE pending /\ lastButton /\ down
  <2>1. edges' = <<"release", "press">>
    BY <1>2, <1>3 DEF PressEdges, ReleaseEdges
  <2> QED  BY <1>1, <1>3, <2>1
<1>4. CASE pending /\ lastButton /\ ~down
  <2>1. PressEdges = <<"release", "press">> /\ ReleaseEdges = <<"release">>
    BY <1>4 DEF PressEdges, ReleaseEdges
  <2>2. edges' = <<"release", "press">> \o <<"release">>  BY <1>2, <2>1
  <2>3. /\ edges' \in Seq({"press", "release"}) /\ Len(edges') = 3
        /\ edges'[2] = "press" /\ edges'[3] = "release"
    BY <2>2
  <2>4. \E i \in 1 .. Len(edges') : edges'[i] = "press"  BY <2>3
  <2>5. edges' # <<>>  BY <2>3
  <2>6. edges'[Len(edges')] = "release" /\ ~level /\ press
    BY <1>1, <1>4, <2>3
  <2> QED  BY <2>3, <2>4, <2>5, <2>6
<1>5. CASE pending /\ ~lastButton /\ down
  <2>1. edges' = <<"press">>  BY <1>2, <1>5 DEF PressEdges, ReleaseEdges
  <2> QED  BY <1>1, <1>5, <2>1
<1>6. CASE pending /\ ~lastButton /\ ~down
  <2>1. PressEdges = <<"press">> /\ ReleaseEdges = <<"release">>
    BY <1>6 DEF PressEdges, ReleaseEdges
  <2>2. edges' = <<"press">> \o <<"release">>  BY <1>2, <2>1
  <2>3. /\ edges' \in Seq({"press", "release"}) /\ Len(edges') = 2
        /\ edges'[1] = "press" /\ edges'[2] = "release"
    BY <2>2
  <2>4. \E i \in 1 .. Len(edges') : edges'[i] = "press"  BY <2>3
  <2> QED  BY <1>1, <1>6, <2>3, <2>4
<1>7. CASE ~pending /\ lastButton /\ ~down
  <2>1. edges' = <<"release">>  BY <1>2, <1>7 DEF PressEdges, ReleaseEdges
  <2> QED  BY <1>1, <1>7, <2>1
<1>8. CASE ~pending /\ (down \/ ~lastButton)
  <2>1. edges' = <<>>  BY <1>2, <1>8 DEF PressEdges, ReleaseEdges
  <2>2. lastButton = down  BY <1>1, <1>8
  <2> QED  BY <1>1, <1>8, <2>1, <2>2
<1> QED  BY <1>1, <1>3, <1>4, <1>5, <1>6, <1>7, <1>8

\* The steps that leave the transfers alone.
LEMMA OtherKeeps ==
    ASSUME StreamInv,
           \/ SubmitEnds \/ LoopHead \/ LoopEnds \/ Pass \/ FreeAll
           \/ LeakAll \/ HandleClosed \/ RequestStop \/ Unplug
    PROVE  StreamInv'
<1>1. xfer' = xfer /\ inFlight' = inFlight
  BY DEF SubmitEnds, LoopHead, LoopEnds, Pass, FreeAll, LeakAll, HandleClosed,
         RequestStop, Unplug
<1>2. OutSet' = OutSet /\ InFlightExact'
  BY <1>1 DEF OutSet, StreamInv, InFlightExact
<1>3. /\ emitted' \in Nat /\ skipped' \in Nat /\ frames' \in Nat
      /\ hasReady' \in BOOLEAN /\ fatal' \in BOOLEAN
      /\ stopFlag' \in BOOLEAN /\ attached' \in BOOLEAN
      /\ down' \in BOOLEAN /\ pending' \in BOOLEAN
  <2>1. CASE Pass
    <3>1. emitted' \in Nat /\ hasReady' \in BOOLEAN
      <4>1. emitted' = emitted + 1 \/ emitted' = emitted  BY <2>1 DEF Pass
      <4>2. emitted' \in Nat
        <5>1. emitted \in Nat  BY DEF StreamInv, TypeOK
        <5> QED  BY <4>1, <5>1
      <4>3. hasReady' \in BOOLEAN  BY <2>1, ZenonT(30) DEF StreamInv, TypeOK, Pass
      <4> QED  BY <4>2, <4>3
    <3>2. UNCHANGED <<fatal, skipped, frames, down, stopFlag, attached>>
          /\ pending' = FALSE
      BY <2>1 DEF Pass, envVars
    <3> QED  BY <3>1, <3>2 DEF StreamInv, TypeOK
  <2>2. CASE RequestStop
    <3>1. UNCHANGED <<fatal, frameVars, down, pending, attached>>
          /\ stopFlag' = TRUE
      BY <2>2 DEF RequestStop, buttonVars
    <3> QED  BY <3>1 DEF StreamInv, TypeOK, frameVars
  <2>3. CASE Unplug
    <3>1. UNCHANGED <<fatal, frameVars, down, pending, stopFlag>>
          /\ attached' = FALSE
      BY <2>3 DEF Unplug, buttonVars
    <3> QED  BY <3>1 DEF StreamInv, TypeOK, frameVars
  <2>4. CASE \/ SubmitEnds \/ LoopHead \/ LoopEnds \/ FreeAll \/ LeakAll
             \/ HandleClosed
    <3>1. UNCHANGED <<fatal, frameVars, down, pending, stopFlag, attached>>
      BY <2>4 DEF SubmitEnds, LoopHead, LoopEnds, FreeAll, LeakAll,
                  HandleClosed, buttonVars, envVars
    <3> QED  BY <3>1 DEF StreamInv, TypeOK, frameVars
  <2> QED  BY <2>1, <2>2, <2>3, <2>4
<1>4. /\ lastButton' \in BOOLEAN /\ edges' \in Seq({"press", "release"})
      /\ level' \in BOOLEAN /\ press' \in BOOLEAN
      /\ LatchInv'
  <2>1. CASE Pass
    <3>1. /\ down' = down /\ level' = level /\ pending' = FALSE /\ press' = FALSE
          /\ lastButton' = (down /\ (pending \/ lastButton))
      BY <2>1 DEF Pass
    <3>2. /\ down \in BOOLEAN /\ level \in BOOLEAN
          /\ down = level /\ (down => pending \/ lastButton)
      BY DEF StreamInv, TypeOK, LatchInv
    <3>3. edges' \in Seq({"press", "release"})  BY <2>1, PassSays
    <3>4. LatchInv'  BY <3>1, <3>2 DEF LatchInv
    <3> QED  BY <3>1, <3>2, <3>3, <3>4
  <2>2. CASE UNCHANGED <<down, pending, lastButton, edges, level, press>>
    <3>1. /\ lastButton \in BOOLEAN /\ edges \in Seq({"press", "release"})
          /\ level \in BOOLEAN /\ press \in BOOLEAN /\ LatchInv
      BY DEF StreamInv, TypeOK
    <3>2. LatchInv'  BY <2>2, <3>1 DEF LatchInv
    <3> QED  BY <2>2, <3>1, <3>2
  <2> QED
    BY <2>1, <2>2 DEF SubmitEnds, LoopHead, LoopEnds, FreeAll, LeakAll,
                      HandleClosed, RequestStop, Unplug, buttonVars
<1>5. /\ pc' \in {"submit", "loop", "events", "drain"} \union Ended
      /\ stopping' \in BOOLEAN
      /\ stopping' <=> pc' \in {"drain"} \union Ended
  <2>1. CASE LoopEnds  BY <2>1 DEF LoopEnds
  <2>2. CASE SubmitEnds \/ LoopHead \/ Pass
    <3>1. /\ pc \in {"submit", "loop", "events"} /\ pc' \in {"loop", "events"}
          /\ stopping' = stopping
      BY <2>2 DEF SubmitEnds, LoopHead, Pass
    <3> QED  BY <3>1 DEF StreamInv, TypeOK, Ended
  <2>3. CASE FreeAll \/ LeakAll \/ HandleClosed
    <3>1. pc \in {"drain", "leaked"} /\ pc' \in Ended /\ stopping' = stopping
      BY <2>3 DEF FreeAll, LeakAll, HandleClosed, Ended
    <3> QED  BY <3>1 DEF StreamInv, TypeOK, Ended
  <2>4. CASE RequestStop \/ Unplug
    <3>1. pc' = pc /\ stopping' = stopping  BY <2>4 DEF RequestStop, Unplug
    <3> QED  BY <3>1 DEF StreamInv, TypeOK
  <2> QED  BY <2>1, <2>2, <2>3, <2>4
<1>6. TypeOK'
  BY <1>1, <1>3, <1>4, <1>5 DEF StreamInv, TypeOK
<1>7. ASSUME pc' = "freed" PROVE OutSet' = {}
  <2>1. CASE pc = "freed"  BY <1>2, <2>1 DEF StreamInv
  <2>2. CASE pc # "freed"
    <3>1. FreeAll
      BY <1>7, <2>2 DEF SubmitEnds, LoopHead, LoopEnds, Pass, LeakAll,
                        HandleClosed, RequestStop, Unplug
    <3>2. Cardinality(OutSet) = 0
      BY <3>1 DEF FreeAll, StreamInv, InFlightExact, OutSet
    <3> QED  BY <1>2, <3>2, OutFinite, FS_EmptySet
  <2> QED  BY <2>1, <2>2
<1> QED  BY <1>2, <1>4, <1>5, <1>6, <1>7 DEF StreamInv

\* Every step keeps the invariant.
LEMMA NextInv == StreamInv /\ [Next]_vars => StreamInv'
<1> SUFFICES ASSUME StreamInv, [Next]_vars PROVE StreamInv'  OBVIOUS
<1>1. CASE SubmitFirst
  <2>1. TypeOK' /\ InFlightExact'  BY <1>1, SubmitFirstCount
  <2>2. /\ pc = "submit"
        /\ UNCHANGED <<pc, stopping, down, pending, lastButton, level, press>>
    BY <1>1 DEF SubmitFirst, buttonVars
  <2> QED  BY <2>1, <2>2 DEF StreamInv, LatchInv
<1>2. ASSUME NEW t \in Transfers, OnYuyvTransfer(t) PROVE StreamInv'
  BY <1>2, CallbackKeeps
<1>3. ASSUME NEW t \in Transfers,
             KernelCompletes(t) \/ KernelFails(t) \/ KernelCancels(t)
      PROVE  StreamInv'
  BY <1>3, FinishKeeps DEF KernelCompletes, KernelFails, KernelCancels, Finished
<1>4. CASE \/ SubmitEnds \/ LoopHead \/ LoopEnds \/ Pass \/ FreeAll
           \/ LeakAll \/ HandleClosed \/ RequestStop \/ Unplug
  BY <1>4, OtherKeeps
<1>5. CASE UNCHANGED vars
  BY <1>5 DEF vars, frameVars, buttonVars, envVars, StreamInv, TypeOK,
              InFlightExact, LatchInv, OutSet
<1> QED  BY <1>1, <1>2, <1>3, <1>4, <1>5 DEF Next, Worker

\* The counter of transfers in flight is exact, whatever the order of submissions,
\* completions, failures and cancellations.
THEOREM StreamCorrect == Spec => [](TypeOK /\ InFlightExact)
<1>1. StreamInv => TypeOK /\ InFlightExact  BY DEF StreamInv
<1> QED  BY InitInv, NextInv, <1>1, PTL DEF Spec

\* No press in a header that was kept is lost, however many callbacks run in one
\* pass of events, and the GUI is told of the button as the last header has it.
THEOREM PressesReported == Spec => PressReported
<1> DEFINE A == pc = "events" /\ pc' = "loop" =>
                  /\ press <=> \E i \in 1 .. Len(edges') : edges'[i] = "press"
                  /\ edges' # <<>> => (edges'[Len(edges')] = "press" <=> level)
                  /\ edges' = <<>> => lastButton = level
<1>1. StreamInv /\ [Next]_vars => [A]_vars
  <2> SUFFICES ASSUME StreamInv, Next, pc = "events", pc' = "loop"
               PROVE  /\ press <=> \E i \in 1 .. Len(edges') : edges'[i] = "press"
                      /\ edges' # <<>> => (edges'[Len(edges')] = "press" <=> level)
                      /\ edges' = <<>> => lastButton = level
    OBVIOUS
  <2>1. Pass
    BY DEF Next, Worker, SubmitFirst, SubmitEnds, LoopHead, LoopEnds, FreeAll,
           LeakAll, HandleClosed, OnYuyvTransfer, KernelCompletes, KernelFails,
           KernelCancels, Finish, RequestStop, Unplug
  <2> QED  BY <2>1, PassSays
<1> HIDE DEF A
<1>2. Spec => [][A]_vars  BY InitInv, NextInv, <1>1, PTL DEF Spec
<1> QED  BY <1>2 DEF A, PressReported

-----------------------------------------------------------------------------
(***************************************************************************)
(* The refinement.                                                         *)
(***************************************************************************)
Owners == [t \in Transfers |-> Owner(t)]

\* A transfer that changes its state changes its owner, and no other.
LEMMA OwnersMove ==
    ASSUME TypeOK, NEW t \in Transfers, NEW state,
           pc # "freed", pc' # "freed", xfer' = [xfer EXCEPT ![t] = state]
    PROVE  /\ Owners' = [Owners EXCEPT ![t] = OwnerOf(state)]
           /\ Owners[t] = OwnerOf(xfer[t])
<1>1. xfer'[t] = state /\ \A u \in Transfers \ {t} : xfer'[u] = xfer[u]
  BY DEF TypeOK
<1>2. \A u \in Transfers : Owners[u] = OwnerOf(xfer[u])
  BY DEF Owners, Owner
<1>3. \A u \in Transfers : Owners'[u] = OwnerOf(xfer'[u])
  BY DEF Owners, Owner
<1>4. Owners' = [u \in Transfers |-> Owners'[u]]  BY DEF Owners
<1>5. Owners = [u \in Transfers |-> Owners[u]]  BY DEF Owners
<1>6. ASSUME NEW u \in Transfers
      PROVE  Owners'[u] = [Owners EXCEPT ![t] = OwnerOf(state)][u]
  BY <1>1, <1>2, <1>3, <1>5
<1> QED  BY <1>2, <1>4, <1>5, <1>6

\* A step that leaves the transfers alone leaves their owners alone.
LEMMA OwnersSame ==
    ASSUME xfer' = xfer, pc' = "freed" <=> pc = "freed"
    PROVE  Owners' = Owners
BY DEF Owners, Owner

\* The app owns every transfer at first.
LEMMA PoolInit == Init => Pool!Init
<1> SUFFICES ASSUME Init PROVE Pool!Init  OBVIOUS
<1>1. OwnerOf("unused") = "app"  BY DEF OwnerOf, Finished
<1>2. Owners = [t \in Transfers |-> "app"]
  BY <1>1 DEF Init, Owners, Owner
<1> QED  BY <1>2 DEF Init, Owners, Pool!Init, Phase

\* A callback is a Return or a Submit of the pool.
LEMMA CallbackInPool ==
    ASSUME StreamInv, NEW t \in Transfers, OnYuyvTransfer(t)
    PROVE  Pool!Return(t) \/ Pool!Submit(t)
<1>1. pc' = pc /\ pc # "freed" /\ Phase' = Phase
  BY DEF OnYuyvTransfer, Phase
<1>2. xfer[t] \in Finished /\ OwnerOf(xfer[t]) = "done"
  BY DEF OnYuyvTransfer, Finished, OwnerOf
<1>3. CASE xfer' = [xfer EXCEPT ![t] = "back"]
  <2>1. OwnerOf("back") = "app"  BY DEF OwnerOf, Finished
  <2>2. Owners' = [Owners EXCEPT ![t] = "app"] /\ Owners[t] = "done"
    BY <1>1, <1>2, <1>3, <2>1, OwnersMove DEF StreamInv
  <2> QED  BY <1>1, <2>2 DEF Pool!Return, Pool!Moves, Owners
<1>4. CASE xfer' = [xfer EXCEPT ![t] = "usb"] /\ ~stopping
  <2>1. OwnerOf("usb") = "usb"  BY DEF OwnerOf, Finished
  <2>2. Owners' = [Owners EXCEPT ![t] = "usb"] /\ Owners[t] = "done"
    BY <1>1, <1>2, <1>4, <2>1, OwnersMove DEF StreamInv
  <2>3. Phase = "open"  BY <1>4 DEF StreamInv, TypeOK, Ended, Phase
  <2> QED  BY <1>1, <2>2, <2>3 DEF Pool!Submit, Pool!Moves, Owners
<1>5. CASE GiveBack(t)  BY <1>3, <1>5 DEF GiveBack
<1>6. CASE Resubmit(t)  BY <1>4, <1>5, <1>6 DEF Resubmit
<1> QED  BY <1>5, <1>6 DEF OnYuyvTransfer

\* The end of a transfer is the end of it in the pool.
LEMMA FinishInPool ==
    ASSUME StreamInv, NEW t \in Transfers, NEW how \in Finished, Finish(t, how)
    PROVE  Pool!Finish(t)
<1>1. pc' = pc /\ Phase' = Phase  BY DEF Finish, Phase
<1>2. pc # "freed"  BY DEF Finish, StreamInv, OutSet, Out
<1>3. OwnerOf(how) = "done" /\ OwnerOf("usb") = "usb"
  BY DEF OwnerOf, Finished
<1>4. Owners' = [Owners EXCEPT ![t] = "done"] /\ Owners[t] = "usb"
  BY <1>1, <1>2, <1>3, OwnersMove DEF StreamInv, Finish
<1> QED  BY <1>1, <1>4 DEF Pool!Finish, Pool!Moves, Owners

\* What is freed is the app's: the counter being exact, none is out.
LEMMA FreeInPool ==
    ASSUME StreamInv, FreeAll
    PROVE  Pool!Free
<1>1. Cardinality(OutSet) = 0
  BY DEF FreeAll, StreamInv, InFlightExact, OutSet
<1>2. OutSet = {}  BY <1>1, OutFinite, FS_EmptySet
<1>3. ASSUME NEW t \in Transfers PROVE Owner(t) = "app"
  BY <1>2 DEF OutSet, Out, FreeAll, Owner, OwnerOf
<1>4. Owners' = [t \in Transfers |-> "nobody"]
  BY DEF FreeAll, Owners, Owner
<1> QED  BY <1>3, <1>4 DEF Pool!Free, Owners, Phase, FreeAll

\* Leaking everything because something did not come back is the Leak of the
\* pool.
LEMMA LeakInPool ==
    ASSUME StreamInv, LeakAll
    PROVE  Pool!Leak
<1>1. OutSet # {}
  BY FS_EmptySet DEF LeakAll, StreamInv, InFlightExact, OutSet
<1>2. PICK t \in Transfers : xfer[t] \in Out  BY <1>1 DEF OutSet
<1>3. Owner(t) # "app"
  BY <1>2 DEF Out, Finished, LeakAll, Owner, OwnerOf
<1>4. Owners' = Owners  BY OwnersSame DEF LeakAll
<1> QED  BY <1>3, <1>4 DEF Pool!Leak, Owners, Phase, LeakAll

\* Every step of the stream is a step of the pool or none.
LEMMA PoolStep == StreamInv /\ [Next]_vars => [Pool!Next]_(Pool!vars)
<1> SUFFICES ASSUME StreamInv, [Next]_vars
             PROVE  Pool!Next \/ (Owners' = Owners /\ Phase' = Phase)
  BY DEF Pool!vars, Owners
<1>1. CASE SubmitFirst
  <2>1. PICK t \in Transfers :
            xfer[t] = "unused" /\ xfer' = [xfer EXCEPT ![t] = "usb"]
    BY <1>1 DEF SubmitFirst
  <2>2. pc = "submit" /\ pc' = "submit"  BY <1>1 DEF SubmitFirst
  <2>3. OwnerOf("unused") = "app" /\ OwnerOf("usb") = "usb"
    BY DEF OwnerOf, Finished
  <2>4. Owners' = [Owners EXCEPT ![t] = "usb"] /\ Owners[t] = "app"
    BY <2>1, <2>2, <2>3, OwnersMove DEF StreamInv
  <2>5. Phase = "open" /\ Phase' = "open"  BY <2>2 DEF Phase
  <2>6. Pool!Submit(t)
    BY <2>4, <2>5 DEF Pool!Submit, Pool!Moves, Owners
  <2> QED  BY <2>6 DEF Pool!Next
<1>2. ASSUME NEW t \in Transfers, OnYuyvTransfer(t) PROVE Pool!Next
  BY <1>2, CallbackInPool DEF Pool!Next
<1>3. ASSUME NEW t \in Transfers,
             KernelCompletes(t) \/ KernelFails(t) \/ KernelCancels(t)
      PROVE  Pool!Next
  BY <1>3, FinishInPool
     DEF Pool!Next, KernelCompletes, KernelFails, KernelCancels, Finished
<1>4. CASE FreeAll  BY <1>4, FreeInPool DEF Pool!Next
<1>5. CASE LeakAll  BY <1>5, LeakInPool DEF Pool!Next
<1>6. CASE LoopEnds
  <2>1. Owners' = Owners  BY <1>6, OwnersSame DEF LoopEnds
  <2>2. Phase = "open" /\ Phase' = "closing"  BY <1>6 DEF LoopEnds, Phase
  <2> QED  BY <2>1, <2>2 DEF Pool!Next, Pool!Close, Owners
<1>7. CASE SubmitEnds \/ LoopHead \/ Pass
  <2>1. /\ xfer' = xfer /\ pc \in {"submit", "loop", "events"}
        /\ pc' \in {"loop", "events"}
    BY <1>7 DEF SubmitEnds, LoopHead, Pass
  <2> QED  BY <2>1, OwnersSame DEF Phase
<1>8. CASE HandleClosed
  <2>1. xfer' = xfer /\ pc = "leaked" /\ pc' = "closed"
    BY <1>8 DEF HandleClosed
  <2> QED  BY <2>1, OwnersSame DEF Phase
<1>9. CASE RequestStop \/ Unplug \/ UNCHANGED vars
  <2>1. xfer' = xfer /\ pc' = pc  BY <1>9 DEF RequestStop, Unplug, vars
  <2> QED  BY <2>1, OwnersSame DEF Phase
<1> QED
  BY <1>1, <1>2, <1>3, <1>4, <1>5, <1>6, <1>7, <1>8, <1>9 DEF Next, Worker

\* The stream implements TransferPool: no transfer is submitted once the
\* stream is closing, and none is freed that USB may still write to.
THEOREM ImplementsPool == Spec => PoolSpec
<1> QED  BY InitInv, NextInv, PoolInit, PoolStep, PTL DEF Spec, Pool!Spec, PoolSpec

-----------------------------------------------------------------------------
(***************************************************************************)
(* YuyvAssembler.                                                          *)
(***************************************************************************)

\* The ten lengths, multiplied out, and what can be added to one.
Listed(n) ==
    \/ n = 614400 \/ n = 153600 \/ n = 1843200 \/ n = 460800 \/ n = 960000
    \/ n = 1572864 \/ n = 4147200 \/ n = 202752 \/ n = 50688 \/ n = 38400

LEMMA KnownByte == \A n \in KnownBytes : n \in Nat /\ Listed(n)
<1>1. /\ 2 * 640 * 480 = 614400 /\ 2 * 320 * 240 = 153600
      /\ 2 * 1280 * 720 = 1843200 /\ 2 * 640 * 360 = 460800
      /\ 2 * 800 * 600 = 960000 /\ 2 * 1024 * 768 = 1572864
      /\ 2 * 1920 * 1080 = 4147200 /\ 2 * 352 * 288 = 202752
      /\ 2 * 176 * 144 = 50688 /\ 2 * 160 * 120 = 38400
  BY SMT
<1> QED  BY <1>1, SMT DEF KnownBytes, Listed

LEMMA ListedApart ==
    ASSUME NEW n \in Nat, NEW s \in Nat, s <= 12287, Listed(n)
    PROVE  (Listed(n + s) => s = 0) /\ ~Listed(2 * n + s)
<1>1. Listed(n + s) => s = 0  BY SMTT(60) DEF Listed
<1>2. ~Listed(2 * n + s)      BY SMTT(60) DEF Listed
<1> QED  BY <1>1, <1>2

\* AssemblerAssumption is true of the lengths frameSizeForBytes knows when no
\* two headers are lost in a row, whichever size the camera has, with strays of
\* up to 12 287 bytes in all, which is short of 24 packets.
THEOREM SizesApart ==
    \A bytes \in KnownBytes, k \in {1, 2} : \A s \in Nat :
        s <= 12287 /\ k * bytes + s \in KnownBytes => k = 1 /\ s = 0
<1> SUFFICES ASSUME NEW bytes \in KnownBytes, NEW k \in {1, 2}, NEW s \in Nat,
                    s <= 12287, k * bytes + s \in KnownBytes
             PROVE  k = 1 /\ s = 0
  BY SMT
<1>1. bytes \in Nat /\ Listed(bytes)  BY KnownByte, SMT
<1>2. Listed(k * bytes + s)  BY KnownByte, SMT
<1>3. (Listed(bytes + s) => s = 0) /\ ~Listed(2 * bytes + s)
  BY <1>1, ListedApart, SMT
<1>4. CASE k = 1
  <2>1. k * bytes + s = bytes + s  BY <1>1, <1>4, SMT
  <2> QED  BY <1>2, <1>3, <1>4, <2>1, SMT
<1>5. CASE k = 2  BY <1>2, <1>3, <1>5, SMT
<1> QED  BY <1>4, <1>5, SMT

\* Where lengths do not tell.  Two headers lost in a row leave three frames as
\* long as one of another size, for cameras with 640x480 and with 320x240: the
\* theorems below say nothing of them there.  And a frame that the camera dropped
\* packets of can be as long as a smaller one: 640x480 without 300 packets is as
\* long as 640x360.  FrameOfItsHeader says then only that it is all that came.
THEOREM SizesAlike ==
    /\ \E bytes \in KnownBytes : 3 * bytes \in KnownBytes
    /\ \E bytes \in KnownBytes, packets \in Nat \ {0} :
          bytes - 512 * packets \in KnownBytes
<1>1. 2 * 640 * 480 \in KnownBytes /\ 3 * (2 * 640 * 480) \in KnownBytes
  BY SMT DEF KnownBytes
<1>2. 2 * 640 * 360 = (2 * 640 * 480) - 512 * 300 /\ 300 \in Nat \ {0}  BY SMT
<1>3. 2 * 640 * 360 \in KnownBytes /\ 2 * 640 * 480 \in KnownBytes
  BY SMT DEF KnownBytes
<1>4. \E packets \in Nat \ {0} : (2 * 640 * 480) - 512 * packets \in KnownBytes
  BY <1>2, <1>3, SMT
<1>5. \E bytes \in KnownBytes : 3 * bytes \in KnownBytes  BY <1>1, SMT
<1> DEFINE Short(bytes) == \E packets \in Nat \ {0} : bytes - 512 * packets \in KnownBytes
<1>6. Short(2 * 640 * 480)  BY <1>4, SMT
<1> HIDE DEF Short
<1>7. \E bytes \in KnownBytes : Short(bytes)  BY <1>3, <1>6, SMT
<1> QED  BY <1>5, <1>7, SMT DEF Short

\* A header that is believed is the last one that came, and the accumulator holds
\* all the data since; it never holds more than that.  A header that did not end
\* an overflow is believed until one comes.
HeaderInv ==
    /\ haveHeader => heard # 0 /\ header = heard /\ acc = came
    /\ Len(acc) <= Len(came)
    /\ heard # 0 /\ before <= MaxUnits /\ Len(came) <= MaxUnits => haveHeader

\* How much came since the last header, and what it is of: of the frames whose
\* headers were lost, too, and without what was dropped.
CameInv ==
    heard # 0 =>
        /\ heard = cam - lost
        /\ Len(came) = (lost + 1) * FrameUnits - left + strays - dropped
        /\ lost = 0 /\ strays = 0 => \A i \in 1 .. Len(came) : came[i] = cam

AssemblerInv ==
    /\ AssemblerTypeOK
    /\ cam # 0 /\ fed <= cam
    /\ HeaderInv
    /\ CameInv

\* A run of units, and what one transfer adds.
LEMMA RunOf ==
    ASSUME NEW n \in Nat, NEW c \in FrameNo
    PROVE  /\ [i \in 1 .. n |-> c] \in Seq(FrameNo)
           /\ Len([i \in 1 .. n |-> c]) = n
           /\ \A i \in 1 .. n : [j \in 1 .. n |-> c][i] = c
OBVIOUS

LEMMA Joined ==
    ASSUME NEW s \in Seq(FrameNo), NEW t \in Seq(FrameNo)
    PROVE  /\ s \o t \in Seq(FrameNo) /\ Len(s \o t) = Len(s) + Len(t)
           /\ Len(s) \in Nat /\ Len(t) \in Nat
           /\ \A c : /\ \A i \in 1 .. Len(s) : s[i] = c
                     /\ \A i \in 1 .. Len(t) : t[i] = c
                 => \A i \in 1 .. Len(s \o t) : (s \o t)[i] = c
<1>1. /\ s \o t \in Seq(FrameNo) /\ Len(s \o t) = Len(s) + Len(t)
      /\ Len(s) \in Nat /\ Len(t) \in Nat
      /\ \A i \in 1 .. Len(s) : (s \o t)[i] = s[i]
      /\ \A i \in 1 .. Len(t) : (s \o t)[Len(s) + i] = t[i]
  OBVIOUS
<1>2. ASSUME NEW c, \A i \in 1 .. Len(s) : s[i] = c,
             \A i \in 1 .. Len(t) : t[i] = c, NEW i \in 1 .. Len(s \o t)
      PROVE  (s \o t)[i] = c
  <2>1. CASE i \in 1 .. Len(s)  BY <1>1, <1>2, <2>1
  <2>2. CASE i \notin 1 .. Len(s)
    <3>1. i - Len(s) \in 1 .. Len(t) /\ i = Len(s) + (i - Len(s))
      BY <1>1, <2>2
    <3> QED  BY <1>1, <1>2, <3>1
  <2> QED  BY <2>1, <2>2
<1> QED  BY <1>1, <1>2

\* feed(), whatever comes: it keeps the types, and returns one of its results.
LEMMA FeedTypes ==
    ASSUME AssemblerTypeOK, NEW units \in Seq(FrameNo), NEW hdr \in FrameNo,
           FeedUnits(units, hdr)
    PROVE  /\ acc' \in Seq(FrameNo) /\ Len(acc') <= MaxUnits
           /\ haveHeader' \in BOOLEAN /\ lastHadHeader' \in BOOLEAN
           /\ header' \in FrameNo /\ frameHeader' \in FrameNo
           /\ frame' \in Seq(FrameNo)
           /\ result' \in {"Nothing", "FrameReady", "FrameDropped", "Overflow"}
           /\ fed' = hdr
<1> USE DEF AssemblerTypeOK
<1> DEFINE data == acc \o units
<1>1. data \in Seq(FrameNo) /\ <<>> \in Seq(FrameNo) /\ Len(<<>>) = 0  OBVIOUS
<1>2. MaxUnits \in Nat  BY AssemblerAssumption
<1>3. lastHadHeader' = (hdr # 0) /\ fed' = hdr  BY DEF FeedUnits
<1>4. CASE Len(data) > MaxUnits
  <2>1. FeedOverflow  BY <1>4 DEF FeedUnits
  <2>2. /\ acc' = <<>> /\ haveHeader' = FALSE /\ result' = "Overflow"
        /\ UNCHANGED <<header, frame, frameHeader>>
    BY <2>1 DEF FeedOverflow
  <2>3. acc' \in Seq(FrameNo) /\ Len(acc') <= MaxUnits  BY <1>1, <1>2, <2>2
  <2> QED  BY <1>3, <2>2, <2>3
<1>5. CASE Len(data) <= MaxUnits /\ hdr = 0
  <2>1. FeedData(data)  BY <1>1, <1>2, <1>5 DEF FeedUnits
  <2> HIDE DEF data
  <2> QED  BY <1>1, <1>3, <1>5, <2>1 DEF FeedData
<1>6. CASE Len(data) <= MaxUnits /\ hdr # 0
  <2>1. FeedHeader(data, hdr)  BY <1>1, <1>2, <1>6 DEF FeedUnits
  <2> HIDE DEF data
  <2>2. /\ frame' \in Seq(FrameNo) /\ frameHeader' \in FrameNo
        /\ result' \in {"Nothing", "FrameReady", "FrameDropped", "Overflow"}
    BY <1>1, <2>1 DEF FeedHeader, CloseAt
  <2>3. acc' = <<>> /\ header' = hdr /\ haveHeader' = TRUE
    BY <2>1 DEF FeedHeader
  <2> QED  BY <1>1, <1>2, <1>3, <2>2, <2>3
<1> QED  BY <1>1, <1>2, <1>4, <1>5, <1>6

\* feed() without a header: what came is kept, or all is dropped and the header
\* with it, and only if it was too much.
LEMMA FeedNoHeader ==
    ASSUME AssemblerTypeOK, NEW units \in Seq(FrameNo), FeedUnits(units, 0)
    PROVE  \/ /\ acc' = <<>> /\ ~haveHeader'
              /\ Len(acc) + Len(units) > MaxUnits
           \/ /\ acc' = acc \o units
              /\ haveHeader' = haveHeader /\ header' = header
<1> DEFINE data == acc \o units
<1>1. acc \in Seq(FrameNo)  BY DEF AssemblerTypeOK
<1>2. Len(data) = Len(acc) + Len(units)  BY <1>1, Joined
<1>3. CASE Len(data) > MaxUnits
  <2>1. FeedOverflow  BY <1>3 DEF FeedUnits
  <2> QED  BY <1>2, <1>3, <2>1 DEF FeedOverflow
<1>4. CASE ~(Len(data) > MaxUnits)
  <2>1. FeedData(data)  BY <1>4 DEF FeedUnits
  <2> QED  BY <2>1 DEF FeedData
<1> QED  BY <1>3, <1>4

\* feed() with one: it closes what came, or all is dropped, it too, and only if
\* it was too much.
LEMMA FeedWithHeader ==
    ASSUME AssemblerTypeOK, NEW units \in Seq(FrameNo), NEW hdr, hdr # 0,
           FeedUnits(units, hdr)
    PROVE  \/ /\ acc' = <<>> /\ ~haveHeader' /\ result' = "Overflow"
              /\ Len(acc) + Len(units) > MaxUnits
           \/ FeedHeader(acc \o units, hdr)
<1> DEFINE data == acc \o units
<1>1. acc \in Seq(FrameNo)  BY DEF AssemblerTypeOK
<1>2. Len(data) = Len(acc) + Len(units)  BY <1>1, Joined
<1>3. CASE Len(data) > MaxUnits
  <2>1. FeedOverflow  BY <1>3 DEF FeedUnits
  <2> QED  BY <1>2, <1>3, <2>1 DEF FeedOverflow
<1>4. CASE ~(Len(data) > MaxUnits)  BY <1>4 DEF FeedUnits
<1> QED  BY <1>3, <1>4

LEMMA AssemblerInitInv == AssemblerInit => AssemblerInv
<1> SUFFICES ASSUME AssemblerInit PROVE AssemblerInv  OBVIOUS
<1> USE AssemblerAssumption DEF AssemblerInit
<1>1. 0 \in FrameNo /\ 1 \in FrameNo  BY DEF FrameNo
<1>2. <<>> \in Seq(FrameNo) /\ Len(<<>>) = 0  OBVIOUS
<1>3. /\ cam \in FrameNo /\ header \in FrameNo /\ frameHeader \in FrameNo
      /\ fed \in FrameNo /\ heard \in FrameNo
  BY <1>1
<1>4. /\ left \in 0 .. FrameUnits
      /\ lost \in 0 .. MaxLost /\ strays \in 0 .. MaxStrays
      /\ dropped \in 0 .. MaxDropped /\ before \in Nat
  OBVIOUS
<1>5. /\ acc \in Seq(FrameNo) /\ Len(acc) <= MaxUnits /\ frame \in Seq(FrameNo)
      /\ came \in Seq(FrameNo)
  BY <1>2
<1>6. haveHeader \in BOOLEAN /\ lastHadHeader \in BOOLEAN
      /\ result \in {"Nothing", "FrameReady", "FrameDropped", "Overflow"}
  BY Zenon
<1>7. AssemblerTypeOK
  BY <1>3, <1>4, <1>5, <1>6, Zenon DEF AssemblerTypeOK
<1>8. HeaderInv /\ CameInv  BY <1>2 DEF HeaderInv, CameInv
<1>9. cam # 0 /\ fed <= cam  OBVIOUS
<1> QED  BY <1>7, <1>8, <1>9 DEF AssemblerInv

\* Data of the frame that is being sent, or a stray packet.
LEMMA DataInv ==
    ASSUME AssemblerInv, Data
    PROVE  AssemblerInv'
<1> USE AssemblerAssumption
<1>1. PICK n \in 0 .. left, stray \in {<<>>, <<0>>} :
        /\ strays + Len(stray) <= MaxStrays
        /\ FeedUnits(Run(n) \o stray, 0)
        /\ left' = left - n /\ strays' = strays + Len(stray)
        /\ came' = came \o (Run(n) \o stray)
        /\ UNCHANGED <<cam, lost, dropped, heard, before>>
  BY DEF Data
<1>2. /\ AssemblerTypeOK /\ cam \in FrameNo /\ left \in 0 .. FrameUnits
      /\ strays \in 0 .. MaxStrays /\ lost \in 0 .. MaxLost
      /\ dropped \in 0 .. MaxDropped
      /\ acc \in Seq(FrameNo) /\ came \in Seq(FrameNo) /\ before \in Nat
  BY DEF AssemblerInv, AssemblerTypeOK
<1> DEFINE units == Run(n) \o stray
<1>3. n \in Nat  BY <1>2
<1>4. stray \in Seq(FrameNo) /\ Len(stray) \in {0, 1}
      /\ (Len(stray) = 0 => stray = <<>>)
  <2>1. 0 \in FrameNo  BY DEF FrameNo
  <2>2. CASE stray = <<>>  BY <2>2
  <2>3. CASE stray = <<0>>  BY <2>1, <2>3
  <2> QED  BY <2>2, <2>3
<1>5. Run(n) \in Seq(FrameNo) /\ Len(Run(n)) = n
      /\ \A i \in 1 .. n : Run(n)[i] = cam
  BY <1>2, <1>3, RunOf DEF Run
<1>6. units \in Seq(FrameNo) /\ Len(units) = n + Len(stray)
  BY <1>4, <1>5, Joined
<1>7. Len(stray) = 0 => \A i \in 1 .. Len(units) : units[i] = cam
  BY <1>4, <1>5, <1>6
<1>8. FeedUnits(units, 0) /\ came' = came \o units  BY <1>1
<1> HIDE DEF units
<1>9. came' \in Seq(FrameNo) /\ Len(came') = Len(came) + n + Len(stray)
      /\ Len(came) \in Nat /\ Len(acc) \in Nat
  <2>1. /\ came' \in Seq(FrameNo) /\ Len(came') = Len(came) + Len(units)
        /\ Len(came) \in Nat /\ Len(acc) \in Nat
    BY <1>2, <1>6, <1>8, Joined
  <2> QED  BY <1>3, <1>4, <1>6, <2>1
<1>10. 0 \in FrameNo  BY DEF FrameNo
<1>11. left' \in 0 .. FrameUnits /\ strays' \in 0 .. MaxStrays
  BY <1>1, <1>2, <1>4
<1>12. AssemblerTypeOK' /\ fed' = 0
  BY <1>1, <1>2, <1>6, <1>8, <1>9, <1>10, <1>11, FeedTypes, Zenon
     DEF AssemblerTypeOK
<1>13. HeaderInv'
  <2>1. \/ /\ acc' = <<>> /\ ~haveHeader'
           /\ Len(acc) + Len(units) > MaxUnits
        \/ /\ acc' = acc \o units
           /\ haveHeader' = haveHeader /\ header' = header
    BY <1>2, <1>6, <1>8, FeedNoHeader
  <2>2. /\ haveHeader => heard # 0 /\ header = heard /\ acc = came
        /\ Len(acc) <= Len(came)
        /\ heard # 0 /\ before <= MaxUnits /\ Len(came) <= MaxUnits => haveHeader
    BY DEF AssemblerInv, HeaderInv
  <2>3. heard' = heard /\ before' = before  BY <1>1
  <2>4. haveHeader' => heard' # 0 /\ header' = heard' /\ acc' = came'
    BY <1>8, <2>1, <2>2, <2>3
  <2>5. Len(acc') <= Len(came')
    <3>1. CASE acc' = <<>>
      <4>1. Len(acc') = 0  BY <3>1
      <4> QED  BY <1>3, <1>4, <1>9, <4>1
    <3>2. CASE acc' = acc \o units
      <4>1. Len(acc') = Len(acc) + Len(units)  BY <1>2, <1>6, <3>2, Joined
      <4> QED  BY <1>3, <1>4, <1>6, <1>9, <2>2, <4>1
    <3> QED  BY <2>1, <3>1, <3>2
  <2>6. ASSUME heard' # 0, before' <= MaxUnits, Len(came') <= MaxUnits
        PROVE  haveHeader'
    <3>1. Len(came) <= MaxUnits  BY <1>3, <1>4, <1>9, <2>6
    <3>2. haveHeader  BY <2>2, <2>3, <2>6, <3>1
    <3>3. ~(Len(acc) + Len(units) > MaxUnits)
      BY <1>3, <1>4, <1>6, <1>9, <2>2, <2>6
    <3> QED  BY <2>1, <3>2, <3>3
  <2> QED  BY <2>4, <2>5, <2>6 DEF HeaderInv
<1>14. CameInv'
  <2> SUFFICES ASSUME heard' # 0 PROVE CameInv'  BY DEF CameInv
  <2>1. /\ heard = cam - lost
        /\ Len(came) = (lost + 1) * FrameUnits - left + strays - dropped
        /\ lost = 0 /\ strays = 0 => \A i \in 1 .. Len(came) : came[i] = cam
    BY <1>1 DEF AssemblerInv, CameInv
  <2>2. Len(came') = (lost' + 1) * FrameUnits - left' + strays' - dropped'
    <3> DEFINE all == (lost + 1) * FrameUnits
    <3>1. all \in Nat  BY <1>2
    <3>2. /\ Len(came) = all - left + strays - dropped
          /\ lost' = lost /\ dropped' = dropped
      BY <1>1, <2>1
    <3> HIDE DEF all
    <3>3. Len(came') = all - left' + strays' - dropped
      BY <1>1, <1>2, <1>3, <1>4, <1>9, <3>1, <3>2
    <3> QED  BY <3>2, <3>3 DEF all
  <2>3. ASSUME lost' = 0, strays' = 0
        PROVE  \A i \in 1 .. Len(came') : came'[i] = cam'
    <3>1. lost = 0 /\ strays = 0 /\ Len(stray) = 0 /\ cam' = cam
      BY <1>1, <1>2, <1>4, <2>3
    <3> QED  BY <1>2, <1>6, <1>7, <1>8, <2>1, <3>1, Joined
  <2> QED  BY <1>1, <2>1, <2>2, <2>3 DEF CameInv
<1>15. cam' # 0 /\ fed' <= cam'
  BY <1>1, <1>2, <1>12 DEF AssemblerInv, FrameNo
<1> QED  BY <1>12, <1>13, <1>14, <1>15 DEF AssemblerInv

\* The camera drops data: there is less to come.
LEMMA DropDataInv ==
    ASSUME AssemblerInv, DropData
    PROVE  AssemblerInv'
<1> USE AssemblerAssumption
<1>1. PICK n \in 1 .. left :
        /\ dropped + n <= MaxDropped
        /\ left' = left - n /\ dropped' = dropped + n
        /\ UNCHANGED <<cam, lost, strays, feedVars, history>>
  BY DEF DropData
<1>2. /\ AssemblerTypeOK /\ left \in 0 .. FrameUnits
      /\ dropped \in 0 .. MaxDropped /\ strays \in 0 .. MaxStrays
      /\ lost \in 0 .. MaxLost /\ came \in Seq(FrameNo)
  BY DEF AssemblerInv, AssemblerTypeOK
<1>3. left' \in 0 .. FrameUnits /\ dropped' \in 0 .. MaxDropped  BY <1>1, <1>2
<1>4. /\ UNCHANGED <<cam, lost, strays, heard, came, before, acc>>
      /\ UNCHANGED <<haveHeader, header, lastHadHeader, frame, frameHeader>>
      /\ UNCHANGED <<result, fed>>
  BY <1>1 DEF feedVars, history
<1>5. AssemblerTypeOK'  BY <1>2, <1>3, <1>4, Zenon DEF AssemblerTypeOK
<1>6. HeaderInv'  BY <1>4 DEF AssemblerInv, HeaderInv
<1>7. CameInv'
  <2> SUFFICES ASSUME heard' # 0 PROVE CameInv'  BY DEF CameInv
  <2> DEFINE all == (lost + 1) * FrameUnits
  <2>1. /\ heard = cam - lost
        /\ Len(came) = all - left + strays - dropped
        /\ lost = 0 /\ strays = 0 => \A i \in 1 .. Len(came) : came[i] = cam
    BY <1>4 DEF AssemblerInv, CameInv
  <2>2. all \in Nat /\ all' = all  BY <1>2, <1>4
  <2> HIDE DEF all
  <2>3. Len(came') = all' - left' + strays' - dropped'
    BY <1>1, <1>2, <1>4, <2>1, <2>2
  <2> QED  BY <1>4, <2>1, <2>3 DEF CameInv, all
<1>8. cam' # 0 /\ fed' <= cam'  BY <1>4 DEF AssemblerInv
<1> QED  BY <1>5, <1>6, <1>7, <1>8 DEF AssemblerInv

\* What a header finds.
LEMMA HeaderStep ==
    ASSUME AssemblerInv, NextHeader
    PROVE  /\ cam \in Nat /\ cam + 1 \in FrameNo /\ left \in Nat
           /\ Run(left) \in Seq(FrameNo) /\ Len(Run(left)) = left
           /\ \A i \in 1 .. left : Run(left)[i] = cam
           /\ Len(acc) \in Nat /\ Len(came) \in Nat
           /\ \/ /\ acc' = <<>> /\ ~haveHeader' /\ result' = "Overflow"
                 /\ Len(acc) + left > MaxUnits
              \/ FeedHeader(acc \o Run(left), cam + 1)
<1> USE AssemblerAssumption
<1>1. cam < MaxFrame /\ FeedUnits(Run(left), cam + 1)  BY DEF NextHeader
<1>2. /\ AssemblerTypeOK /\ cam \in FrameNo /\ left \in 0 .. FrameUnits
      /\ acc \in Seq(FrameNo) /\ came \in Seq(FrameNo)
  BY DEF AssemblerInv, AssemblerTypeOK
<1>3. cam \in Nat /\ cam + 1 \in FrameNo /\ cam + 1 # 0 /\ left \in Nat
  BY <1>1, <1>2 DEF FrameNo
<1>4. /\ Run(left) \in Seq(FrameNo) /\ Len(Run(left)) = left
      /\ \A i \in 1 .. left : Run(left)[i] = cam
  BY <1>2, <1>3, RunOf DEF Run
<1>5. \/ /\ acc' = <<>> /\ ~haveHeader' /\ result' = "Overflow"
         /\ Len(acc) + left > MaxUnits
      \/ FeedHeader(acc \o Run(left), cam + 1)
  BY <1>1, <1>2, <1>3, <1>4, FeedWithHeader
<1> QED  BY <1>2, <1>3, <1>4, <1>5

LEMMA NextHeaderInv ==
    ASSUME AssemblerInv, NextHeader
    PROVE  AssemblerInv'
<1> USE AssemblerAssumption
<1>1. /\ cam < MaxFrame /\ FeedUnits(Run(left), cam + 1)
      /\ cam' = cam + 1 /\ left' = FrameUnits
      /\ lost' = 0 /\ strays' = 0 /\ dropped' = 0
      /\ heard' = cam + 1 /\ came' = <<>> /\ before' = Len(came) + left
  BY DEF NextHeader
<1>2. AssemblerTypeOK  BY DEF AssemblerInv
<1>3. /\ cam \in Nat /\ cam + 1 \in FrameNo /\ left \in Nat
      /\ Run(left) \in Seq(FrameNo)
      /\ Len(acc) \in Nat /\ Len(came) \in Nat
  BY HeaderStep
<1>4. \/ /\ acc' = <<>> /\ ~haveHeader' /\ Len(acc) + left > MaxUnits
      \/ acc' = <<>> /\ header' = cam + 1 /\ haveHeader'
  BY HeaderStep DEF FeedHeader
<1>5. /\ left' \in 0 .. FrameUnits /\ lost' \in 0 .. MaxLost
      /\ strays' \in 0 .. MaxStrays /\ dropped' \in 0 .. MaxDropped
      /\ before' \in Nat /\ cam' \in FrameNo /\ heard' \in FrameNo
  BY <1>1, <1>3
<1>6. came' \in Seq(FrameNo) /\ Len(came') = 0  BY <1>1
<1>7. AssemblerTypeOK' /\ fed' = cam + 1
  BY <1>1, <1>2, <1>3, <1>5, <1>6, FeedTypes, Zenon DEF AssemblerTypeOK
<1>8. HeaderInv'
  <2>1. Len(acc) <= Len(came)  BY DEF AssemblerInv, HeaderInv
  <2>2. before' <= MaxUnits => haveHeader'  BY <1>1, <1>3, <1>4, <2>1
  <2>3. haveHeader' => heard' # 0 /\ header' = heard' /\ acc' = came'
    BY <1>1, <1>3, <1>4
  <2>4. Len(acc') <= Len(came')  BY <1>4, <1>6
  <2> QED  BY <2>2, <2>3, <2>4 DEF HeaderInv
<1>9. CameInv'
  <2>1. (0 + 1) * FrameUnits - FrameUnits + 0 - 0 = 0  OBVIOUS
  <2>2. heard' = cam' - lost'  BY <1>1, <1>3
  <2> QED  BY <1>1, <1>6, <2>1, <2>2 DEF CameInv
<1>10. cam' # 0 /\ fed' <= cam'  BY <1>1, <1>3, <1>7
<1> QED  BY <1>7, <1>8, <1>9, <1>10 DEF AssemblerInv

LEMMA LostHeaderInv ==
    ASSUME AssemblerInv, LostHeader
    PROVE  AssemblerInv'
<1> USE AssemblerAssumption
<1>1. /\ cam < MaxFrame /\ left = 0 /\ lost < MaxLost
      /\ cam' = cam + 1 /\ left' = FrameUnits /\ lost' = lost + 1
      /\ UNCHANGED <<strays, dropped, acc, haveHeader, header>>
      /\ UNCHANGED <<lastHadHeader, frame, frameHeader, result, fed>>
      /\ UNCHANGED <<heard, came, before>>
  BY DEF LostHeader, feedVars, history
<1>2. /\ AssemblerTypeOK /\ cam \in FrameNo /\ lost \in 0 .. MaxLost
      /\ fed \in FrameNo /\ strays \in 0 .. MaxStrays /\ heard \in FrameNo
      /\ dropped \in 0 .. MaxDropped
  BY DEF AssemblerInv, AssemblerTypeOK
<1>3. cam \in Nat /\ cam + 1 \in FrameNo /\ fed \in Nat
  BY <1>1, <1>2 DEF FrameNo
<1>4. left' \in 0 .. FrameUnits /\ lost' \in 0 .. MaxLost  BY <1>1, <1>2
<1>5. AssemblerTypeOK'
  BY <1>1, <1>2, <1>3, <1>4, Zenon DEF AssemblerTypeOK
<1>6. HeaderInv'  BY <1>1 DEF AssemblerInv, HeaderInv
<1>7. CameInv'
  <2> SUFFICES ASSUME heard' # 0 PROVE CameInv'  BY DEF CameInv
  <2>1. /\ heard = cam - lost
        /\ Len(came) = (lost + 1) * FrameUnits - left + strays - dropped
    BY <1>1 DEF AssemblerInv, CameInv
  <2>2. heard' = cam' - lost'  BY <1>1, <1>2, <1>3, <2>1
  <2>3. Len(came') = (lost' + 1) * FrameUnits - left' + strays' - dropped'
    <3> DEFINE all == (lost + 1) * FrameUnits
    <3>1. all \in Nat  BY <1>2
    <3>2. /\ Len(came) = all - 0 + strays - dropped
          /\ (lost' + 1) * FrameUnits = all + FrameUnits
      BY <1>1, <1>2, <2>1
    <3> HIDE DEF all
    <3>3. Len(came') = (all + FrameUnits) - left' + strays' - dropped'
      BY <1>1, <1>2, <3>1, <3>2
    <3> QED  BY <3>2, <3>3
  <2>4. lost' # 0  BY <1>1, <1>2
  <2> QED  BY <2>2, <2>3, <2>4 DEF CameInv
<1>8. cam' # 0 /\ fed' <= cam'  BY <1>1, <1>3 DEF AssemblerInv
<1> QED  BY <1>5, <1>6, <1>7, <1>8 DEF AssemblerInv

LEMMA AssemblerNextInv ==
    AssemblerInv /\ [AssemblerNext]_assemblerVars => AssemblerInv'
<1>1. ASSUME AssemblerInv, UNCHANGED assemblerVars PROVE AssemblerInv'
  BY <1>1 DEF AssemblerInv, AssemblerTypeOK, HeaderInv, CameInv,
     assemblerVars, camera, feedVars, history
<1> QED
  BY <1>1, DataInv, DropDataInv, NextHeaderInv, LostHeaderInv DEF AssemblerNext

LEMMA AssemblerAlways == AssemblerSpec => []AssemblerInv
BY AssemblerInitInv, AssemblerNextInv, PTL DEF AssemblerSpec

\* The assembler's state is of its types: the accumulator never grows beyond
\* MAX_FRAME_BYTES.
THEOREM AssemblerTypes == AssemblerSpec => []AssemblerTypeOK
<1>1. AssemblerInv => AssemblerTypeOK  BY DEF AssemblerInv
<1> QED  BY <1>1, AssemblerAlways, PTL

\* The only step with which a header comes.
LEMMA OnlyNextHeader ==
    ASSUME AssemblerInv, AssemblerNext, HeaderComes
    PROVE  NextHeader
<1>1. cam \in Nat /\ fed \in Nat /\ fed <= cam
  BY AssemblerAssumption DEF AssemblerInv, AssemblerTypeOK, FrameNo
<1>2. Data \/ DropData => cam' = cam  BY DEF Data, DropData
<1>3. LostHeader => fed' = fed  BY DEF LostHeader, feedVars
<1> QED  BY <1>1, <1>2, <1>3 DEF HeaderComes, AssemblerNext

\* What came since the last header, when none was lost, nothing dropped and no
\* stray packet came: that header's picture.
LEMMA WholePicture ==
    ASSUME AssemblerInv, heard # 0, lost = 0, strays = 0, dropped = 0
    PROVE  /\ heard = cam /\ came \o Run(left) = Picture(cam)
           /\ Len(came) + left = FrameUnits
           /\ Len(came \o Run(left)) = FrameUnits
<1> USE AssemblerAssumption
<1>1. /\ cam \in FrameNo /\ cam \in Nat /\ came \in Seq(FrameNo) /\ left \in Nat
      /\ FrameUnits \in Nat
  BY DEF AssemblerInv, AssemblerTypeOK, FrameNo
<1>2. /\ heard = cam - 0 /\ Len(came) = (0 + 1) * FrameUnits - left + 0 - 0
      /\ \A i \in 1 .. Len(came) : came[i] = cam
  BY DEF AssemblerInv, CameInv
<1>3. heard = cam /\ Len(came) + left = FrameUnits  BY <1>1, <1>2
<1>4. /\ Run(left) \in Seq(FrameNo) /\ Len(Run(left)) = left
      /\ \A i \in 1 .. left : Run(left)[i] = cam
  BY <1>1, RunOf DEF Run
<1> DEFINE data == came \o Run(left)
<1>5. /\ data \in Seq(FrameNo) /\ Len(data) = FrameUnits
      /\ \A i \in 1 .. Len(data) : data[i] = cam
  BY <1>1, <1>2, <1>3, <1>4, Joined
<1> HIDE DEF data
<1>6. data = Picture(cam)  BY <1>1, <1>5 DEF Picture
<1> QED  BY <1>3, <1>5, <1>6 DEF data

\* The length gives away that a header was lost or that a stray packet came, if
\* nothing was dropped.
LEMMA ClosedLength ==
    ASSUME AssemblerInv, heard # 0, dropped = 0, Len(came) + left \in KnownUnits
    PROVE  lost = 0 /\ strays = 0
<1>1. /\ lost \in 0 .. MaxLost /\ strays \in 0 .. MaxStrays
      /\ left \in 0 .. FrameUnits /\ FrameUnits \in Nat
      /\ MaxLost \in Nat /\ MaxStrays \in Nat
  BY AssemblerAssumption DEF AssemblerInv, AssemblerTypeOK
<1> DEFINE k == lost + 1
           all == k * FrameUnits
<1>2. k \in 1 .. MaxLost + 1 /\ all \in Nat  BY <1>1
<1>3. Len(came) = all - left + strays - 0  BY DEF AssemblerInv, CameInv
<1> HIDE DEF all
<1>4. Len(came) + left = all + strays  BY <1>1, <1>2, <1>3
<1> HIDE DEF k
<1>5. k * FrameUnits + strays \in KnownUnits  BY <1>4 DEF all
<1>6. k = 1 /\ strays = 0  BY <1>1, <1>2, <1>5, AssemblerAssumption
<1> QED  BY <1>1, <1>6 DEF k

\* A frame that is ready is what came after its header, all of it, and one whole
\* picture unless the camera dropped data inside it.
THEOREM FramesOfHeaders == AssemblerSpec => FrameOfItsHeader
<1> DEFINE A == HeaderComes /\ result' = "FrameReady" =>
                  /\ heard # 0 /\ frameHeader' = heard
                  /\ frame' = came \o Run(left)
                  /\ dropped = 0 => frame' = Picture(heard)
<1>1. AssemblerInv /\ [AssemblerNext]_assemblerVars => [A]_assemblerVars
  <2> SUFFICES ASSUME AssemblerInv, AssemblerNext, HeaderComes,
                      result' = "FrameReady"
               PROVE  /\ heard # 0 /\ frameHeader' = heard
                      /\ frame' = came \o Run(left)
                      /\ dropped = 0 => frame' = Picture(heard)
    OBVIOUS
  <2>1. NextHeader  BY OnlyNextHeader
  <2>2. CloseAt(acc \o Run(left))
    <3>1. result' # "Overflow"  OBVIOUS
    <3> QED  BY <2>1, <3>1, HeaderStep DEF FeedHeader
  <2>3. /\ haveHeader /\ Len(acc \o Run(left)) \in KnownUnits
        /\ frame' = acc \o Run(left) /\ frameHeader' = header
    BY <2>2 DEF CloseAt
  <2>4. heard # 0 /\ header = heard /\ acc = came
    BY <2>3 DEF AssemblerInv, HeaderInv
  <2>5. ASSUME dropped = 0 PROVE frame' = Picture(heard)
    <3>1. came \in Seq(FrameNo)  BY DEF AssemblerInv, AssemblerTypeOK
    <3>2. Len(came \o Run(left)) = Len(came) + left
      BY <2>1, <3>1, HeaderStep, Joined
    <3>3. lost = 0 /\ strays = 0
      BY <2>3, <2>4, <2>5, <3>2, ClosedLength
    <3> QED  BY <2>3, <2>4, <2>5, <3>3, WholePicture
  <2> QED  BY <2>3, <2>4, <2>5
<1> HIDE DEF A
<1>2. AssemblerSpec => [][A]_assemblerVars
  BY <1>1, AssemblerAlways, PTL DEF AssemblerSpec
<1> QED  BY <1>2 DEF A, FrameOfItsHeader

\* And every picture that was sent whole, after no more than the accumulator
\* takes, is ready.
THEOREM WholeFramesComplete == AssemblerSpec => WholeFramesReady
<1> DEFINE A == /\ HeaderComes
                /\ heard = cam /\ lost = 0 /\ strays = 0 /\ dropped = 0
                /\ before <= MaxUnits /\ FrameUnits <= MaxUnits
                => result' = "FrameReady" /\ frameHeader' = cam
                   /\ frame' = Picture(cam)
<1>1. AssemblerInv /\ [AssemblerNext]_assemblerVars => [A]_assemblerVars
  <2> SUFFICES ASSUME AssemblerInv, AssemblerNext, HeaderComes,
                      heard = cam, lost = 0, strays = 0, dropped = 0,
                      before <= MaxUnits, FrameUnits <= MaxUnits
               PROVE  /\ result' = "FrameReady" /\ frameHeader' = cam
                      /\ frame' = Picture(cam)
    OBVIOUS
  <2>1. NextHeader  BY OnlyNextHeader
  <2>2. heard # 0  BY DEF AssemblerInv
  <2>3. /\ came \o Run(left) = Picture(cam) /\ Len(came) + left = FrameUnits
        /\ Len(came \o Run(left)) = FrameUnits
    BY <2>2, WholePicture
  <2>4. Len(came) \in Nat /\ left \in Nat  BY <2>1, HeaderStep
  <2>5. FrameUnits \in Nat \ {0} /\ FrameUnits \in KnownUnits /\ MaxUnits \in Nat
    BY AssemblerAssumption
  <2>6. Len(came) <= MaxUnits  BY <2>3, <2>4, <2>5
  <2>7. haveHeader /\ header = heard /\ acc = came
    BY <2>2, <2>6 DEF AssemblerInv, HeaderInv
  <2>8. FeedHeader(came \o Run(left), cam + 1)
    <3>1. ~(Len(acc) + left > MaxUnits)  BY <2>3, <2>4, <2>5, <2>7
    <3> QED  BY <2>1, <2>7, <3>1, HeaderStep
  <2>9. came \o Run(left) # <<>>  BY <2>3, <2>5
  <2> QED  BY <2>3, <2>5, <2>7, <2>8, <2>9 DEF FeedHeader, CloseAt
<1> HIDE DEF A
<1>2. AssemblerSpec => [][A]_assemblerVars
  BY <1>1, AssemblerAlways, PTL DEF AssemblerSpec
<1> QED  BY <1>2 DEF A, WholeFramesReady
=============================================================================
