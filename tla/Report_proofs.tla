---------------------------- MODULE Report_proofs ----------------------------
(***************************************************************************)
(* The recorder, and the report and what it meddles with, for any number   *)
(* of frames and recordings, whatever buffers are refused, whatever is     *)
(* unplugged and whatever other processes claim.                           *)
(*                                                                         *)
(* The recorder: the counters mirror the buffers (Mirror), that is, the    *)
(* last time is that of the last buffer, and no buffer is later than the   *)
(* clock.  The report: every step of the composition is a step of module   *)
(* Recording or leaves its variables alone, so that what is proved of the  *)
(* recorder holds here.  The properties of the page follow from what its   *)
(* handler keeps while it builds (Building) and from a stopped camera      *)
(* having no claim (NoClaims).                                             *)
(***************************************************************************)
EXTENDS Report, SequenceTheorems, TLAPS

-----------------------------------------------------------------------------
(***************************************************************************)
(* The timeline of every recording.                                        *)
(***************************************************************************)

Mirror ==
    /\ frameCount = Len(buffers)
    /\ lastFrameNs = IF buffers = <<>> THEN -1 ELSE buffers[Len(buffers)].pts
    /\ Recorded => /\ started <= now
                   /\ buffers # <<>> => firstFrameNs + lastFrameNs <= now - started

RecordingInv == TypeOK /\ Timeline /\ NoOrphan /\ Mirror

\* A step that leaves the buffers and the counters alone, and after which there
\* is a recording only if there was one.
LEMMA OtherStep ==
    ASSUME RecordingInv, TypeOK', NoOrphan',
           UNCHANGED <<times, buffers>>, now <= now',
           pipe' = pipe \/ pipe' = NoPipe \/ Recorded
    PROVE  RecordingInv'
<1>1. UNCHANGED <<started, frameCount, firstFrameNs, lastFrameNs, buffers>>
  BY DEF times
<1>2. Timeline'
  BY <1>1 DEF RecordingInv, Timeline
<1>3. /\ now \in Nat /\ now' \in Nat /\ started \in Nat
      /\ firstFrameNs + lastFrameNs \in Int
  BY DEF RecordingInv, TypeOK
<1>4. Recorded' => Recorded
  BY DEF Recorded, NoPipe
<1>5. ASSUME Recorded'
      PROVE  /\ started' <= now'
             /\ buffers' # <<>> => firstFrameNs' + lastFrameNs' <= now' - started'
  <2>1. started <= now /\ (buffers # <<>> => firstFrameNs + lastFrameNs <= now - started)
    BY <1>4, <1>5 DEF RecordingInv, Mirror
  <2> QED BY <2>1, <1>1, <1>3
<1>6. Mirror'
  BY <1>1, <1>5 DEF RecordingInv, Mirror
<1> QED BY <1>2, <1>6 DEF RecordingInv

\* The recorder begins without a pipeline.
LEMMA InvInit == Init => RecordingInv
<1>1. SUFFICES ASSUME Init PROVE RecordingInv
  OBVIOUS
<1>2. TypeOK
  <2>1. streaming \in BOOLEAN
    BY <1>1 DEF Init
  <2>2. pipe \in Pipes
    BY <1>1, RecordingAssumption DEF Init, NoPipe, Pipes
  <2>3. frameSize \in Sizes /\ begun \in 0 .. MaxRecordings
    BY <1>1, RecordingAssumption DEF Init
  <2> QED BY <1>1, <2>1, <2>2, <2>3 DEF Init, TypeOK
<1>3. Timeline /\ NoOrphan /\ Mirror
  BY <1>1 DEF Init, Timeline, NoOrphan, Mirror, Recorded, NoPipe
<1> QED BY <1>2, <1>3 DEF RecordingInv

\* start() sets every counter back, so that the next buffer is the first.
LEMMA StartStep == ASSUME RecordingInv, StartRecording PROVE RecordingInv'
<1>1. /\ frameCount' = 0 /\ firstFrameNs' = 0 /\ lastFrameNs' = -1
      /\ buffers' = <<>> /\ source' = source /\ source = "alive" /\ now' = now
      /\ \/ /\ pipe' = [no |-> begun + 1, caps |-> frameSize, file |-> "there"]
            /\ started' = now
         \/ UNCHANGED <<pipe, started>>
      /\ begun' = begun + 1 /\ begun < MaxRecordings
  BY DEF StartRecording, ResetTimes, camera
<1>2. begun + 1 \in 0 .. MaxRecordings
  BY <1>1, RecordingAssumption DEF RecordingInv, TypeOK
<1>3. pipe' \in Pipes /\ started' \in Nat
  BY <1>1, <1>2 DEF RecordingInv, TypeOK, Pipes
<1>4. /\ bus' \in {"clean", "error"} /\ lastError' \in {"none", "error"}
      /\ UNCHANGED <<source, streaming, frameSize, now, finished>>
  BY DEF StartRecording, RecordingInv, TypeOK, camera
<1>5. TypeOK'
  BY <1>1, <1>2, <1>3, <1>4 DEF RecordingInv, TypeOK
<1>6. Timeline' /\ NoOrphan'
  BY <1>1 DEF Timeline, NoOrphan
<1>7. Recorded' => started' <= now'
  <2>1. CASE started' = now
    BY <2>1, <1>1 DEF RecordingInv, TypeOK
  <2>2. CASE UNCHANGED <<pipe, started>>
    BY <2>2, <1>1 DEF RecordingInv, Mirror, Recorded
  <2> QED BY <1>1, <2>1, <2>2
<1>8. Mirror'
  BY <1>1, <1>7 DEF Mirror
<1> QED BY <1>5, <1>6, <1>8 DEF RecordingInv

\* Having no pipeline is a value of the pipeline.
LEMMA NoPipeType == NoPipe \in Pipes /\ NoPipe.no = 0
BY RecordingAssumption DEF NoPipe, Pipes

\* What stop() does to a recording keeps the types.
LEMMA StopTypes ==
    ASSUME RecordingInv, Recorded, StopPipeline
    PROVE  /\ pipe' = NoPipe /\ bus' = "clean"
           /\ finished' \in Seq(1 .. MaxRecordings)
           /\ lastError' \in {"none", "error"}
<1>1. pipe.no \in 1 .. MaxRecordings
  BY RecordingAssumption DEF RecordingInv, TypeOK, Recorded, Pipes
<1>2. finished' = finished \/ finished' = Append(finished, pipe.no)
  BY DEF StopPipeline, MaybeReport
<1>3. finished' \in Seq(1 .. MaxRecordings)
  <2>1. finished \in Seq(1 .. MaxRecordings)
    BY DEF RecordingInv, TypeOK
  <2>2. Append(finished, pipe.no) \in Seq(1 .. MaxRecordings)
    BY <1>1, <2>1, AppendProperties
  <2> QED BY <1>2, <2>1, <2>2
<1>4. lastError' \in {"none", "error"}
  BY DEF StopPipeline, RecordingInv, TypeOK
<1> QED BY <1>3, <1>4 DEF StopPipeline, Teardown

\* stop() ends with no pipeline.
LEMMA StopStep == ASSUME RecordingInv, StopRecording PROVE RecordingInv'
<1>1. /\ pipe' = NoPipe /\ bus' = "clean"
      /\ finished' \in Seq(1 .. MaxRecordings)
      /\ lastError' \in {"none", "error"}
      /\ UNCHANGED <<source, streaming, frameSize, now, started, frameCount,
                     firstFrameNs, lastFrameNs, buffers, begun>>
  BY StopTypes DEF StopRecording, camera, times
<1>2. TypeOK'
  BY <1>1, NoPipeType DEF RecordingInv, TypeOK
<1>3. NoOrphan'
  BY <1>1, NoPipeType DEF NoOrphan, Recorded
<1>4. now <= now'
  BY <1>1 DEF RecordingInv, TypeOK
<1> QED BY <1>1, <1>2, <1>3, <1>4, OtherStep DEF times

\* onSourceDestroyed stops a recording before the camera is gone.
LEMMA DestroyedStep == ASSUME RecordingInv, SourceDestroyed PROVE RecordingInv'
<1>1. /\ source' = "gone" /\ streaming' = FALSE
      /\ UNCHANGED <<frameSize, now, started, frameCount, firstFrameNs,
                     lastFrameNs, buffers, begun>>
  BY DEF SourceDestroyed, times
<1>2. /\ pipe' \in Pipes /\ pipe'.no = 0
      /\ pipe' = pipe \/ pipe' = NoPipe
      /\ bus' \in {"clean", "error"}
      /\ finished' \in Seq(1 .. MaxRecordings)
      /\ lastError' \in {"none", "error"}
  <2>1. CASE Recorded
    BY <2>1, StopTypes, NoPipeType DEF SourceDestroyed
  <2>2. CASE ~Recorded
    BY <2>2 DEF SourceDestroyed, Recorded, RecordingInv, TypeOK
  <2> QED BY <2>1, <2>2
<1>3. streaming' \in BOOLEAN
  BY <1>1
<1>4. TypeOK'
  BY <1>1, <1>2, <1>3 DEF RecordingInv, TypeOK
<1>5. NoOrphan'
  BY <1>2 DEF NoOrphan, Recorded
<1>6. now <= now'
  BY <1>1 DEF RecordingInv, TypeOK
<1> QED BY <1>1, <1>2, <1>4, <1>5, <1>6, OtherStep DEF times

\* pollBus keeps the pipeline or takes it down.
LEMMA PollTypes ==
    ASSUME RecordingInv, PollBus \/ UNCHANGED <<pipe, bus, lastError>>
    PROVE  /\ pipe' \in Pipes
           /\ pipe' = pipe \/ pipe' = NoPipe
           /\ bus' \in {"clean", "error"} /\ lastError' \in {"none", "error"}
BY NoPipeType DEF PollBus, Teardown, RecordingInv, TypeOK

\* A buffer is taken: its time is that of the clock, and no earlier than the
\* last one's.
LEMMA TakenStep ==
    ASSUME RecordingInv, Recorded, NEW size \in Sizes, PushFrame(size),
           ~UNCHANGED buffers, UNCHANGED <<now, started>>
    PROVE  /\ Timeline'
           /\ buffers' \in Seq(Buffer)
           /\ frameCount' \in Nat /\ lastFrameNs' \in Nat /\ firstFrameNs' \in Nat
           /\ frameCount' = Len(buffers') /\ buffers' # <<>>
           /\ lastFrameNs' = buffers'[Len(buffers')].pts
           /\ firstFrameNs' + lastFrameNs' <= now - started
<1> DEFINE elapsed == now - started
           pts == elapsed - FirstNs(elapsed)
           dur == IF lastFrameNs >= 0 THEN pts - lastFrameNs ELSE Nominal
           b == [pts |-> pts, size |-> size, dur |-> dur]
<1>1. /\ firstFrameNs' = FirstNs(elapsed)
      /\ buffers' = Append(buffers, b)
      /\ lastFrameNs' = pts /\ frameCount' = frameCount + 1
  BY DEF PushFrame
<1>2. /\ now \in Nat /\ started \in Nat /\ firstFrameNs \in Nat
      /\ buffers \in Seq(Buffer) /\ frameCount = Len(buffers)
      /\ lastFrameNs \in Nat \union {-1}
      /\ started <= now
      /\ buffers = <<>> => lastFrameNs = -1
      /\ buffers # <<>> => /\ lastFrameNs = buffers[Len(buffers)].pts
                           /\ firstFrameNs + lastFrameNs <= now - started
  BY DEF RecordingInv, TypeOK, Mirror
<1>3. elapsed \in Nat
  BY <1>2
<1>4. CASE buffers = <<>>
  <2>1. frameCount = 0 /\ lastFrameNs = -1
    BY <1>2, <1>4
  <2>2. FirstNs(elapsed) = elapsed /\ pts = 0 /\ dur = Nominal
    BY <1>3, <2>1 DEF FirstNs
  <2>3. b \in Buffer
    BY <2>2, RecordingAssumption DEF Buffer
  <2>4. buffers' = <<b>> /\ Len(buffers') = 1 /\ buffers'[1] = b
    BY <1>1, <1>4
  <2>5. b.pts = 0 /\ b.dur = Nominal
    BY <2>2
  <2>6. Timeline'
    BY <2>4, <2>5, RecordingAssumption DEF Timeline
  <2>7. buffers' \in Seq(Buffer) /\ buffers' # <<>>
    BY <2>3, <2>4
  <2>8. frameCount' = 1
    BY <1>1, <2>1
  <2> HIDE DEF b, pts, dur, elapsed
  <2> QED BY <1>1, <1>3, <2>2, <2>4, <2>5, <2>6, <2>7, <2>8 DEF elapsed
<1>5. CASE buffers # <<>>
  <2>1. Len(buffers) \in Nat \ {0} /\ frameCount # 0
    BY <1>2, <1>5
  <2>2. FirstNs(elapsed) = firstFrameNs
    BY <2>1 DEF FirstNs
  <2>3. buffers[Len(buffers)].pts >= 0
    BY <2>1 DEF RecordingInv, Timeline
  <2>4. lastFrameNs \in Nat /\ pts >= lastFrameNs /\ pts \in Nat
        /\ dur = pts - lastFrameNs /\ dur \in Nat
    BY <1>2, <1>5, <2>2, <2>3
  <2> HIDE DEF pts, dur
  <2>5. b \in Buffer /\ b.pts = pts /\ b.dur = dur
    BY <2>4 DEF Buffer
  <2> HIDE DEF b
  <2>6. /\ buffers' \in Seq(Buffer) /\ Len(buffers') = Len(buffers) + 1
        /\ buffers' # <<>> /\ buffers'[Len(buffers) + 1] = b
        /\ \A i \in 1 .. Len(buffers) : buffers'[i] = buffers[i]
    BY <1>1, <1>2, <2>5
  <2>7. Timeline'
    <3>1. SUFFICES ASSUME NEW i \in 1 .. Len(buffers')
                   PROVE  /\ buffers'[i].pts >= 0 /\ buffers'[i].dur >= 0
                          /\ i = 1 => buffers'[i].pts = 0
                                      /\ buffers'[i].dur = Nominal
                          /\ i > 1 => buffers'[i].dur =
                                      buffers'[i].pts - buffers'[i - 1].pts
      BY DEF Timeline
    <3>2. CASE i = Len(buffers) + 1
      <4>1. i > 1 /\ i - 1 = Len(buffers) /\ i # 1
        BY <3>2, <2>1
      <4>2. buffers'[i] = b /\ buffers'[i - 1].pts = lastFrameNs
        BY <4>1, <3>2, <2>1, <2>6, <1>2, <1>5
      <4> QED BY <4>1, <4>2, <2>4, <2>5
    <3>3. CASE i # Len(buffers) + 1
      <4>1. i \in 1 .. Len(buffers)
        BY <3>3, <2>1, <2>6
      <4>2. buffers'[i] = buffers[i]
            /\ (i > 1 => i - 1 \in 1 .. Len(buffers)
                         /\ buffers'[i - 1] = buffers[i - 1])
        BY <4>1, <2>1, <2>6
      <4> QED BY <4>1, <4>2 DEF RecordingInv, Timeline
    <3> QED BY <3>2, <3>3
  <2>8. frameCount' = Len(buffers')
    BY <1>1, <1>2, <2>6
  <2>9. firstFrameNs + pts <= now - started
    BY <1>2, <2>2, <2>4 DEF pts
  <2> QED BY <1>1, <1>2, <2>1, <2>2, <2>4, <2>5, <2>6, <2>7, <2>8, <2>9
<1> QED BY <1>4, <1>5

\* onSourceFrame and pushFrame: a buffer is taken, refused, or there is no
\* recording.
LEMMA FrameStep ==
    ASSUME RecordingInv, NEW size \in Sizes, FrameReady(size)
    PROVE  RecordingInv'
<1>1. /\ source = "alive" /\ frameSize' = size
      /\ UNCHANGED <<source, streaming, now, started, finished, begun>>
  BY DEF FrameReady
<1>2. /\ pipe' \in Pipes
      /\ pipe' = pipe \/ pipe' = NoPipe
      /\ bus' \in {"clean", "error"} /\ lastError' \in {"none", "error"}
  <2>1. PollBus \/ UNCHANGED <<pipe, bus, lastError>>
    BY DEF FrameReady, PushFrame
  <2> QED BY <2>1, PollTypes
<1>3. NoOrphan'
  BY <1>1 DEF NoOrphan
<1>4. streaming' \in BOOLEAN
  BY <1>1 DEF RecordingInv, TypeOK
<1>5. CASE Recorded /\ PushFrame(size) /\ ~UNCHANGED buffers
  <2>1. /\ Timeline'
        /\ buffers' \in Seq(Buffer)
        /\ frameCount' \in Nat /\ lastFrameNs' \in Nat /\ firstFrameNs' \in Nat
        /\ frameCount' = Len(buffers') /\ buffers' # <<>>
        /\ lastFrameNs' = buffers'[Len(buffers')].pts
        /\ firstFrameNs' + lastFrameNs' <= now - started
    BY <1>1, <1>5, TakenStep
  <2>2. started <= now
    BY <1>5 DEF RecordingInv, Mirror
  <2>3. Mirror'
    BY <1>1, <2>1, <2>2 DEF Mirror
  <2>4. TypeOK'
    BY <1>1, <1>2, <1>4, <2>1 DEF RecordingInv, TypeOK
  <2> QED BY <1>3, <2>1, <2>3, <2>4 DEF RecordingInv
<1>6. CASE UNCHANGED <<buffers, lastFrameNs, frameCount>> /\ buffers # <<>>
  <2>1. firstFrameNs' = firstFrameNs
    <3>1. frameCount # 0
      BY <1>6 DEF RecordingInv, TypeOK, Mirror
    <3> QED BY <3>1 DEF FrameReady, PushFrame, FirstNs
  <2>2. TypeOK'
    BY <1>1, <1>2, <1>4, <1>6, <2>1 DEF RecordingInv, TypeOK
  <2>3. now <= now'
    BY <1>1 DEF RecordingInv, TypeOK
  <2> QED BY <1>1, <1>2, <1>3, <1>6, <2>1, <2>2, <2>3, OtherStep DEF times
<1>7. CASE UNCHANGED <<buffers, lastFrameNs, frameCount>> /\ buffers = <<>>
  <2>1. firstFrameNs' \in Nat
    <3>1. CASE Recorded /\ PushFrame(size)
      <4>1. started <= now /\ started \in Nat /\ now \in Nat /\ firstFrameNs \in Nat
        BY <3>1 DEF RecordingInv, TypeOK, Mirror
      <4>2. firstFrameNs' = now - started \/ firstFrameNs' = firstFrameNs
        BY <3>1 DEF PushFrame, FirstNs
      <4> QED BY <4>1, <4>2
    <3>2. CASE firstFrameNs' = firstFrameNs
      BY <3>2 DEF RecordingInv, TypeOK
    <3> QED BY <3>1, <3>2 DEF FrameReady
  <2>2. TypeOK'
    BY <1>1, <1>2, <1>4, <1>7, <2>1 DEF RecordingInv, TypeOK
  <2>3. Timeline'
    BY <1>7 DEF Timeline
  <2>4. Recorded' => started' <= now'
    <3>1. Recorded' => Recorded
      BY <1>2, NoPipeType DEF Recorded
    <3> QED BY <1>1, <3>1 DEF RecordingInv, Mirror
  <2>5. Mirror'
    BY <1>7, <2>4 DEF RecordingInv, Mirror
  <2> QED BY <1>3, <2>2, <2>3, <2>5 DEF RecordingInv
<1>8. UNCHANGED <<buffers, lastFrameNs, frameCount>>
      \/ (Recorded /\ PushFrame(size) /\ ~UNCHANGED buffers)
  BY DEF FrameReady, PushFrame
<1> QED BY <1>5, <1>6, <1>7, <1>8

\* Time, the status of the camera and an error on the bus change nothing
\* recorded.
LEMMA EnvironmentStep ==
    ASSUME RecordingInv, Tick \/ StatusChanges \/ PipelineFails \/ UNCHANGED vars
    PROVE  RecordingInv'
<1>1. /\ UNCHANGED <<source, frameSize, pipe, started, frameCount, firstFrameNs,
                     lastFrameNs, buffers, lastError, finished, begun>>
      /\ bus' \in {"clean", "error"}
  BY DEF Tick, StatusChanges, PipelineFails, vars, camera, times, RecordingInv, TypeOK
<1>2. now' \in Nat /\ now <= now'
  BY DEF Tick, StatusChanges, PipelineFails, vars, camera, RecordingInv, TypeOK
<1>3. streaming' = streaming \/ streaming' = ~streaming
  BY DEF Tick, StatusChanges, PipelineFails, vars, camera
<1>4. streaming' \in BOOLEAN
  BY <1>3 DEF RecordingInv, TypeOK
<1>5. TypeOK'
  BY <1>1, <1>2, <1>4 DEF RecordingInv, TypeOK
<1>6. NoOrphan'
  BY <1>1 DEF RecordingInv, NoOrphan, Recorded
<1> QED BY <1>1, <1>2, <1>5, <1>6, OtherStep DEF times

\* The file is taken: the pipeline does not know.
LEMMA TakenFileStep == ASSUME RecordingInv, FileTaken PROVE RecordingInv'
<1>1. /\ Recorded /\ pipe' = [pipe EXCEPT !.file = "taken"]
      /\ UNCHANGED <<source, streaming, frameSize, now, bus, started, frameCount,
                     firstFrameNs, lastFrameNs, buffers, lastError, finished, begun>>
  BY DEF FileTaken, camera, times
<1>2. pipe' \in Pipes /\ pipe'.no = pipe.no
  BY <1>1 DEF RecordingInv, TypeOK, Pipes
<1>3. TypeOK'
  BY <1>1, <1>2 DEF RecordingInv, TypeOK
<1>4. NoOrphan'
  BY <1>1, <1>2 DEF RecordingInv, NoOrphan, Recorded
<1>5. now <= now'
  BY <1>1 DEF RecordingInv, TypeOK
<1> QED BY <1>1, <1>3, <1>4, <1>5, OtherStep DEF times

\* Every step keeps the invariant.
LEMMA InvStep == RecordingInv /\ [Next]_vars => RecordingInv'
BY StartStep, StopStep, DestroyedStep, FrameStep, TakenFileStep, EnvironmentStep
   DEF Next

\* In every recording the buffers begin at 0 and go forward, each with the gap
\* to the one before as its duration (pushFrame), and no recording outlives the
\* camera object (onSourceDestroyed).
THEOREM RecordingCorrect == Spec => [](TypeOK /\ Timeline /\ NoOrphan)
<1>1. Spec => []RecordingInv
  BY InvInit, InvStep, PTL DEF Spec
<1> QED BY <1>1, PTL DEF RecordingInv

\* A recording with frames whose file is where it was put never ends in silence
\* (stop, onSourceDestroyed, pollBus): its file is reported, or the user is told
\* of an error.
THEOREM NoSilentEnd == Spec => EndAccountedFor
<1>1. ASSUME TypeOK, [Next]_vars,
             Recorded, pipe.file = "there", pipe' = NoPipe, buffers' # <<>>
      PROVE  finished' = Append(finished, pipe.no) \/ lastError' = "error"
  <2>1. pipe' # pipe
    BY <1>1 DEF Recorded, NoPipe
  <2>2. StopPipeline /\ UNCHANGED buffers =>
            finished' = Append(finished, pipe.no) \/ lastError' = "error"
    BY <1>1 DEF StopPipeline
  <2>3. CASE StopRecording \/ SourceDestroyed
    BY <1>1, <2>2, <2>3 DEF StopRecording, SourceDestroyed
  <2>4. CASE \E size \in Sizes : FrameReady(size)
    BY <1>1, <2>1, <2>4 DEF FrameReady, PushFrame, PollBus
  <2>5. CASE Tick \/ StatusChanges \/ PipelineFails \/ UNCHANGED vars
    BY <2>1, <2>5 DEF Tick, StatusChanges, PipelineFails, vars
  <2>6. CASE StartRecording
    BY <1>1, <2>6 DEF StartRecording
  <2>7. CASE FileTaken
    <3>1. pipe'.no = pipe.no
      BY <1>1, <2>7 DEF FileTaken, TypeOK, Pipes
    <3> QED BY <1>1, <3>1 DEF Recorded, NoPipe
  <2> QED BY <1>1, <2>3, <2>4, <2>5, <2>6, <2>7 DEF Next
<1>2. TypeOK /\ [Next]_vars =>
          [Recorded /\ pipe.file = "there" /\ pipe' = NoPipe /\ buffers' # <<>> =>
              \/ finished' = Append(finished, pipe.no)
              \/ lastError' = "error"]_vars
  BY <1>1
<1>3. Spec => []TypeOK
  BY InvInit, InvStep, PTL DEF Spec, RecordingInv
<1> QED BY <1>2, <1>3, PTL DEF Spec, EndAccountedFor

-----------------------------------------------------------------------------
(***************************************************************************)
(* The report beside the recorder.                                         *)
(***************************************************************************)

NoClaims == ~Running => \A i \in Ifaces : owner[i] # "worker"

Building ==
    page = "building" =>
        /\ source = "alive"
        /\ job.wasRunning = on
        /\ job.claimTest => ~Running
        /\ ~job.claimTest => (Running <=> on)

ReportInv ==
    /\ RecordingInv /\ SessionTypeOK
    /\ TestedAlone /\ OnAsChosen /\ ReportTellsState
    /\ NoClaims /\ Building

-----------------------------------------------------------------------------
\* Stopping the camera is, for the recorder, a change of its status or nothing.
LEMMA StopIsStatus ==
    ASSUME TypeOK, source = "alive", streaming' \in {streaming, FALSE},
           UNCHANGED <<source, frameSize, now, pipe, bus, times, buffers, lastError,
                       finished, begun>>
    PROVE  [Next]_vars
<1>1. streaming \in BOOLEAN
  BY DEF TypeOK
<1>2. CASE streaming' = streaming
  BY <1>2 DEF vars, camera
<1>3. CASE streaming /\ streaming' = FALSE
  <2>1. StatusChanges
    BY <1>3 DEF StatusChanges
  <2> QED BY <2>1 DEF Next
<1> QED BY <1>1, <1>2, <1>3

\* Every step is one of the recorder's or none of its business.
LEMMA StepImplements == TypeOK /\ [ReportNext]_all => [Next]_vars
<1>1. SUFFICES ASSUME TypeOK, [ReportNext]_all PROVE [Next]_vars
  OBVIOUS
<1>2. CASE RecorderSteps
  BY <1>2 DEF RecorderSteps, Next
<1>3. CASE TimePasses
  BY <1>3 DEF TimePasses, Next
<1>4. CASE SwitchCamera
  <2>1. source = "alive" /\ streaming' \in {streaming, FALSE}
    BY <1>4 DEF SwitchCamera, GuiFree, StopCamera
  <2> QED BY <1>1, <1>4, <2>1, StopIsStatus DEF SwitchCamera
<1>5. CASE CloseApplication
  BY <1>5 DEF CloseApplication, Next
<1>6. CASE BuildTimer
  <2>1. source = "alive" /\ streaming' \in {streaming, FALSE}
    BY <1>6 DEF BuildTimer, GuiFree, StopCamera
  <2> QED BY <1>1, <1>6, <2>1, StopIsStatus DEF BuildTimer
<1>7. CASE UNCHANGED vars
  BY <1>7
<1>8. CASE \/ Unplug \/ Plug \/ Worker \/ ToolStarts \/ ToolEnds \/ OpenPage
           \/ LeavePage \/ SwitchTest \/ Generate \/ ReportBuilt
           \/ \E p \in Processes : Dump(p)
  BY <1>7, <1>8 DEF Unplug, Plug, Worker, WorkerFinds, WorkerClaims, WorkerLoses,
     ToolStarts, ToolEnds, OpenPage, LeavePage, SwitchTest, Generate, ReportBuilt,
     Dump, DumpLists, DumpClaims, DumpReleases
<1> QED BY <1>1, <1>2, <1>3, <1>4, <1>5, <1>6, <1>7, <1>8 DEF ReportNext, all

-----------------------------------------------------------------------------
\* The application begins with its camera on and nothing claimed.
LEMMA ReportInvInit == ReportInit => ReportInv
<1>1. SUFFICES ASSUME ReportInit PROVE ReportInv
  OBVIOUS
<1>2. RecordingInv
  BY <1>1, InvInit DEF ReportInit
<1>3. SessionTypeOK
  BY <1>1, ReportAssumption DEF ReportInit, SessionTypeOK, Ifaces, Processes,
     Searching, NoDump, NoJob, NoState
<1>4. TestedAlone /\ OnAsChosen /\ ReportTellsState /\ NoClaims /\ Building
  BY <1>1 DEF ReportInit, TestedAlone, OnAsChosen, ReportTellsState, NoClaims,
     Building, Running, Searching
<1> QED BY <1>2, <1>3, <1>4 DEF ReportInv

\* The interfaces that somebody closes his handle of are free again.
LEMMA WithoutTypes ==
    ASSUME SessionTypeOK, NEW who, owner' = Without(who)
    PROVE  /\ owner' \in [Ifaces -> {"free", "worker"} \union Processes]
           /\ \A i \in Ifaces : owner'[i] = "worker" => owner[i] = "worker"
           /\ who = "worker" => \A i \in Ifaces : owner'[i] # "worker"
BY DEF SessionTypeOK, Without

\* Where the worker can be put.
LEMMA WorkerTypes ==
    LET Places == [at : {"none", "search", "claim", "stream"}, lost : BOOLEAN]
    IN  /\ Searching \in Places /\ NoWorker \in Places
        /\ [at |-> "claim", lost |-> FALSE] \in Places
        /\ SessionTypeOK => [at |-> "stream", lost |-> worker.lost] \in Places
        /\ SessionTypeOK => worker \in Places
BY DEF SessionTypeOK, Searching, NoWorker

\* Where a dump stands after a step of its own.
LEMMA DumpTypes ==
    ASSUME SessionTypeOK, NEW p \in Processes,
           NEW at \in {"idle", "listing", "testing", "claimed", "done"},
           NEW n \in 1 .. NIfaces + 1, DumpIs(p, at, n)
    PROVE  dump' \in [Processes ->
                        [at : {"idle", "listing", "testing", "claimed", "done"},
                         next : 1 .. NIfaces + 1, lost : BOOLEAN]]
BY DEF SessionTypeOK, DumpIs

LEMMA NoDumpType ==
    NoDump \in [at : {"idle", "listing", "testing", "claimed", "done"},
               next : 1 .. NIfaces + 1, lost : BOOLEAN]
<1>1. 1 \in 1 .. NIfaces + 1
  BY ReportAssumption
<1> QED BY <1>1 DEF NoDump

\* A step that changes no more than the claims of others, the dumps, the cable
\* and the switch of the test.
LEMMA QuietStep ==
    ASSUME ReportInv, RecordingInv', SessionTypeOK',
           UNCHANGED <<source, pipe, on, page, job>>,
           Running' <=> Running,
           ~Running' => \A i \in Ifaces : owner'[i] = "worker" => owner[i] = "worker"
    PROVE  ReportInv'
<1>1. Recorded' <=> Recorded
  BY DEF Recorded
<1>2. NoClaims'
  BY DEF ReportInv, NoClaims
<1>3. Building'
  BY DEF ReportInv, Building
<1>4. TestedAlone'
  BY <1>1, <1>2, <1>3 DEF ReportInv, TestedAlone, NoClaims
<1>5. OnAsChosen' /\ ReportTellsState'
  BY <1>1 DEF ReportInv, OnAsChosen, ReportTellsState, GuiFree
<1> QED BY <1>2, <1>3, <1>4, <1>5 DEF ReportInv

\* The cable, the worker's thread and the other process.
LEMMA CableStep == ASSUME ReportInv, RecordingInv', Unplug \/ Plug PROVE ReportInv'
<1>1. SessionTypeOK'
  <2>1. CASE Plug
    BY <2>1 DEF ReportInv, SessionTypeOK, Plug, pageVars
  <2>2. CASE Unplug
    <3>1. UNCHANGED <<on, page, claimSwitch, job>> /\ attached' = FALSE
      BY <2>2 DEF Unplug, pageVars
    <3>2. owner' \in [Ifaces -> {"free", "worker"} \union Processes]
      BY <2>2 DEF Unplug
    <3>3. worker' \in [at : {"none", "search", "claim", "stream"}, lost : BOOLEAN]
      BY <2>2 DEF Unplug, ReportInv, SessionTypeOK
    <3>4. dump' \in [Processes ->
                       [at : {"idle", "listing", "testing", "claimed", "done"},
                        next : 1 .. NIfaces + 1, lost : BOOLEAN]]
      BY <2>2 DEF Unplug, ReportInv, SessionTypeOK
    <3> QED BY <3>1, <3>2, <3>3, <3>4 DEF ReportInv, SessionTypeOK
  <2> QED BY <2>1, <2>2
<1>2. UNCHANGED <<source, pipe, on, page, job>> /\ (Running' <=> Running)
  BY DEF Unplug, Plug, vars, camera, pageVars, Running
<1>3. \A i \in Ifaces : owner'[i] = "worker" => owner[i] = "worker"
  BY DEF Unplug, Plug
<1> QED BY <1>1, <1>2, <1>3, QuietStep

LEMMA WorkerStep == ASSUME ReportInv, RecordingInv', Worker PROVE ReportInv'
<1>1. UNCHANGED <<source, pipe, on, page, job, attached, claimSwitch, dump>>
  BY DEF Worker, WorkerFinds, WorkerClaims, WorkerLoses, vars, camera, pageVars
<1>2. Running /\ Running'
  BY DEF Worker, WorkerFinds, WorkerClaims, WorkerLoses, Running, Searching
<1>3. worker' \in [at : {"none", "search", "claim", "stream"}, lost : BOOLEAN]
  <2>1. \/ worker' = Searching \/ worker' = worker
        \/ worker' = [at |-> "claim", lost |-> FALSE]
        \/ worker' = [at |-> "stream", lost |-> worker.lost]
    BY DEF Worker, WorkerFinds, WorkerClaims, WorkerLoses
  <2> QED BY <2>1, WorkerTypes DEF ReportInv
<1>4. owner' \in [Ifaces -> {"free", "worker"} \union Processes]
  <2>1. SessionTypeOK
    BY DEF ReportInv
  <2>2. CASE UNCHANGED owner
    BY <2>1, <2>2 DEF SessionTypeOK
  <2>3. CASE owner' = Without("worker")
    BY <2>1, <2>3, WithoutTypes
  <2>4. CASE \E i : owner' = [owner EXCEPT ![i] = "worker"]
    BY <2>1, <2>4 DEF SessionTypeOK
  <2> QED BY <2>2, <2>3, <2>4 DEF Worker, WorkerFinds, WorkerClaims, WorkerLoses
<1>5. SessionTypeOK'
  BY <1>1, <1>3, <1>4 DEF ReportInv, SessionTypeOK
<1> QED BY <1>1, <1>2, <1>5, QuietStep

LEMMA DumpStep ==
    ASSUME ReportInv, RecordingInv', NEW p \in Processes, Dump(p)
    PROVE  ReportInv'
<1>1. UNCHANGED <<source, pipe, on, page, job, attached, claimSwitch, worker>>
  BY DEF Dump, DumpLists, DumpClaims, DumpReleases, vars, camera, pageVars
<1>2. /\ owner' \in [Ifaces -> {"free", "worker"} \union Processes]
      /\ \A i \in Ifaces : owner'[i] = "worker" => owner[i] = "worker"
  <2>1. SessionTypeOK /\ p # "worker"
    BY DEF ReportInv, Processes
  <2>2. CASE UNCHANGED owner
    BY <2>1, <2>2 DEF SessionTypeOK
  <2>3. CASE owner' = Without(p)
    BY <2>1, <2>3, WithoutTypes
  <2>4. CASE \E i \in Ifaces : owner' = [owner EXCEPT ![i] = p]
    BY <2>1, <2>4 DEF SessionTypeOK
  <2> QED BY <2>2, <2>3, <2>4 DEF Dump, DumpLists, DumpClaims, DumpReleases
<1>3. dump' \in [Processes -> [at : {"idle", "listing", "testing", "claimed", "done"},
                               next : 1 .. NIfaces + 1, lost : BOOLEAN]]
  <2>1. /\ dump \in [Processes ->
                       [at : {"idle", "listing", "testing", "claimed", "done"},
                        next : 1 .. NIfaces + 1, lost : BOOLEAN]]
        /\ NIfaces \in Nat /\ SessionTypeOK
    BY ReportAssumption DEF ReportInv, SessionTypeOK
  <2>2. \E at \in {"testing", "claimed", "done"}, n \in 1 .. NIfaces + 1 :
           DumpIs(p, at, n)
    <3>1. CASE DumpLists(p)
      BY <2>1, <3>1 DEF DumpLists
    <3>2. CASE DumpClaims(p)
      BY <2>1, <3>2 DEF DumpClaims, Ifaces
    <3>3. CASE DumpReleases(p)
      BY <2>1, <3>3 DEF DumpReleases
    <3> QED BY <3>1, <3>2, <3>3 DEF Dump
  <2> QED BY <2>1, <2>2, DumpTypes
<1>4. SessionTypeOK'
  BY <1>1, <1>2, <1>3 DEF ReportInv, SessionTypeOK
<1>5. Running' <=> Running
  BY <1>1 DEF Running
<1> QED BY <1>1, <1>2, <1>4, <1>5, QuietStep

LEMMA ToolStep ==
    ASSUME ReportInv, RecordingInv', ToolStarts \/ ToolEnds
    PROVE  ReportInv'
<1>1. /\ UNCHANGED <<source, pipe, on, page, job, attached, claimSwitch, worker>>
      /\ Running' <=> Running
  BY DEF ToolStarts, ToolEnds, vars, camera, pageVars, Running
<1>2. /\ owner' \in [Ifaces -> {"free", "worker"} \union Processes]
      /\ \A i \in Ifaces : owner'[i] = "worker" => owner[i] = "worker"
  BY WithoutTypes DEF ReportInv, SessionTypeOK, ToolStarts, ToolEnds
<1>3. dump' \in [Processes -> [at : {"idle", "listing", "testing", "claimed", "done"},
                               next : 1 .. NIfaces + 1, lost : BOOLEAN]]
  <2>1. CASE ToolStarts
    <3>1. DumpIs("tool", "listing", 1)
      BY <2>1 DEF ToolStarts
    <3>2. "tool" \in Processes /\ 1 \in 1 .. NIfaces + 1 /\ SessionTypeOK
      BY ReportAssumption DEF ReportInv, Processes
    <3> QED BY <3>1, <3>2, DumpTypes
  <2>2. CASE ToolEnds
    <3>1. dump' = [dump EXCEPT !["tool"] = NoDump]
      BY <2>2 DEF ToolEnds
    <3> QED BY <3>1, NoDumpType DEF ReportInv, SessionTypeOK
  <2> QED BY <2>1, <2>2
<1>4. SessionTypeOK'
  BY <1>1, <1>2, <1>3 DEF ReportInv, SessionTypeOK
<1> QED BY <1>1, <1>2, <1>4, QuietStep

\* The user, away from the report: recordings, the switch of the camera, the
\* pages and the end of the application.
LEMMA UserStep ==
    ASSUME ReportInv, RecordingInv',
           \/ RecorderSteps \/ TimePasses \/ OpenPage \/ LeavePage
           \/ SwitchTest \/ Generate
    PROVE  ReportInv'
<1>1. UNCHANGED <<attached, owner, worker, on, job, dump>>
  BY DEF RecorderSteps, TimePasses, session, pageVars, OpenPage, LeavePage,
     SwitchTest, Generate
<1>2. page' \in {"closed", "open", "busy", "building"} /\ claimSwitch' \in BOOLEAN
  BY DEF ReportInv, SessionTypeOK, RecorderSteps, TimePasses, session, pageVars,
     OpenPage, LeavePage, SwitchTest, Generate
<1>3. SessionTypeOK'
  BY <1>1, <1>2 DEF ReportInv, SessionTypeOK
<1>4. \/ page' # "building" /\ GuiFree
      \/ UNCHANGED <<source, pipe, page>>
  BY DEF RecorderSteps, TimePasses, session, pageVars, OpenPage, LeavePage,
     SwitchTest, Generate, GuiFree, Tick, PipelineFails, camera
<1>5. Running' <=> Running
  BY <1>1 DEF Running
<1>6. CASE UNCHANGED <<source, pipe, page>>
  BY <1>1, <1>3, <1>5, <1>6, QuietStep
<1>7. CASE page' # "building" /\ GuiFree
  BY <1>1, <1>3, <1>5, <1>7 DEF ReportInv, TestedAlone, OnAsChosen,
     ReportTellsState, NoClaims, Building, GuiFree
<1> QED BY <1>4, <1>6, <1>7

LEMMA CameraStep ==
    ASSUME ReportInv, RecordingInv', SwitchCamera \/ CloseApplication
    PROVE  ReportInv'
<1>1. /\ UNCHANGED <<attached, claimSwitch, job, dump>>
      /\ page' = "closed"
  BY DEF SwitchCamera, CloseApplication, pageVars
<1>2. \/ worker' = Searching /\ UNCHANGED owner
      \/ worker' = NoWorker /\ owner' = Without("worker")
  BY DEF SwitchCamera, CloseApplication, StopCamera
<1>3. worker' \in [at : {"none", "search", "claim", "stream"}, lost : BOOLEAN]
  BY <1>2, WorkerTypes DEF ReportInv
<1>4. /\ owner' \in [Ifaces -> {"free", "worker"} \union Processes]
      /\ NoClaims'
  <2>1. CASE worker' = Searching /\ UNCHANGED owner
    BY <2>1 DEF ReportInv, SessionTypeOK, NoClaims, Running, Searching
  <2>2. CASE owner' = Without("worker")
    BY <2>2, WithoutTypes DEF ReportInv, NoClaims
  <2> QED BY <1>2, <2>1, <2>2
<1>5. on' \in BOOLEAN
  BY DEF SwitchCamera, CloseApplication, Running
<1>6. SessionTypeOK'
  BY <1>1, <1>3, <1>4, <1>5 DEF ReportInv, SessionTypeOK
<1>7. GuiFree' => (Running' <=> on')
  <2>1. CASE SwitchCamera
    <3>1. on' = ~Running
      BY <2>1 DEF SwitchCamera
    <3>2. IF Running THEN worker' = NoWorker ELSE worker' = Searching
      BY <2>1 DEF SwitchCamera, StopCamera
    <3>3. Running' <=> ~Running
      BY <3>2 DEF Running, NoWorker, Searching
    <3>4. on' <=> ~Running
      BY <3>1
    <3> QED BY <3>3, <3>4
  <2>2. CASE CloseApplication
    BY <2>2 DEF CloseApplication, SourceDestroyed, GuiFree
  <2> QED BY <2>1, <2>2
<1> QED BY <1>1, <1>4, <1>6, <1>7 DEF ReportInv, TestedAlone, OnAsChosen,
     ReportTellsState, Building

\* onTriggered: the camera is stopped for a test, and only for one.
LEMMA TimerStep == ASSUME ReportInv, RecordingInv', BuildTimer PROVE ReportInv'
<1>1. /\ UNCHANGED <<source, pipe, attached, on, claimSwitch>>
      /\ page' = "building" /\ source = "alive" /\ page = "busy"
      /\ DumpIs("page", "listing", 1)
  BY DEF BuildTimer, GuiFree
<1>2. /\ job'.claimTest <=> claimSwitch /\ ~Recorded
      /\ job'.wasRunning <=> Running
      /\ job'.state = [running |-> Running, recording |-> Recorded]
      /\ job' \in [claimTest : BOOLEAN, wasRunning : BOOLEAN,
                   state : [running : BOOLEAN, recording : BOOLEAN]]
  BY DEF BuildTimer, Plan, ReportInv, SessionTypeOK, Running, Recorded
<1>3. Running <=> on
  BY <1>1 DEF ReportInv, OnAsChosen, GuiFree
<1>4. \/ /\ job'.claimTest /\ job'.wasRunning
         /\ worker' = NoWorker /\ owner' = Without("worker")
      \/ ~(job'.claimTest /\ job'.wasRunning) /\ UNCHANGED <<worker, owner>>
  BY DEF BuildTimer, StopCamera
<1>5. /\ worker' \in [at : {"none", "search", "claim", "stream"}, lost : BOOLEAN]
      /\ owner' \in [Ifaces -> {"free", "worker"} \union Processes]
      /\ NoClaims'
  <2>1. CASE worker' = NoWorker /\ owner' = Without("worker")
    BY <2>1, WithoutTypes DEF ReportInv, NoClaims, NoWorker
  <2>2. CASE UNCHANGED <<worker, owner>>
    BY <2>2 DEF ReportInv, SessionTypeOK, NoClaims, Running
  <2> QED BY <1>4, <2>1, <2>2
<1>6. /\ job'.claimTest => ~Running'
      /\ ~job'.claimTest => (Running' <=> Running)
  BY <1>2, <1>4 DEF Running, NoWorker
<1>7. SessionTypeOK'
  BY <1>1, <1>2, <1>5, DumpTypes, ReportAssumption DEF ReportInv, SessionTypeOK,
     Processes
<1>8. Recorded' <=> Recorded
  BY <1>1 DEF Recorded
<1>9. Building' /\ TestedAlone'
  <2>1. (job'.wasRunning <=> on') /\ on' \in BOOLEAN /\ job'.wasRunning \in BOOLEAN
    BY <1>1, <1>2, <1>3 DEF ReportInv, SessionTypeOK
  <2>2. job'.wasRunning = on'
    BY <2>1
  <2>3. ~job'.claimTest => (Running' <=> on')
    BY <1>1, <1>3, <1>6
  <2>4. Building'
    BY <1>1, <1>6, <2>2, <2>3 DEF Building
  <2>5. TestedAlone'
    BY <1>2, <1>5, <1>6, <1>8 DEF TestedAlone, NoClaims
  <2> QED BY <2>4, <2>5
<1>10. OnAsChosen' /\ ReportTellsState'
  BY <1>1, <1>2, <1>3, <1>8 DEF OnAsChosen, ReportTellsState, GuiFree
<1> QED BY <1>5, <1>7, <1>9, <1>10 DEF ReportInv

\* The handler's end: the camera is on again if it was on before.
LEMMA BuiltStep == ASSUME ReportInv, RecordingInv', ReportBuilt PROVE ReportInv'
<1>1. /\ UNCHANGED <<source, attached, owner, on, claimSwitch>>
      /\ page = "building" /\ page' = "open" /\ job' = NoJob
      /\ dump' = [dump EXCEPT !["page"] = NoDump]
  BY DEF ReportBuilt, vars, camera
<1>2. IF job.claimTest /\ job.wasRunning THEN worker' = Searching
      ELSE UNCHANGED worker
  BY DEF ReportBuilt, Resume
<1>3. Running' <=> on
  BY <1>1, <1>2 DEF ReportInv, SessionTypeOK, Building, Running, Searching
<1>4. Running => Running'
  BY <1>2 DEF Running, Searching
<1>5. NoClaims'
  BY <1>1, <1>4 DEF ReportInv, NoClaims
<1>6. worker' \in [at : {"none", "search", "claim", "stream"}, lost : BOOLEAN]
  BY <1>2, WorkerTypes DEF ReportInv
<1>7. SessionTypeOK'
  <2>1. dump' \in [Processes -> [at : {"idle", "listing", "testing", "claimed", "done"},
                                 next : 1 .. NIfaces + 1, lost : BOOLEAN]]
    BY <1>1, NoDumpType DEF ReportInv, SessionTypeOK
  <2>2. job' \in [claimTest : BOOLEAN, wasRunning : BOOLEAN,
                  state : [running : BOOLEAN, recording : BOOLEAN]]
    BY <1>1 DEF NoJob, NoState
  <2> QED BY <1>1, <1>6, <2>1, <2>2 DEF ReportInv, SessionTypeOK
<1> QED BY <1>1, <1>3, <1>5, <1>7 DEF ReportInv, TestedAlone, OnAsChosen,
     ReportTellsState, Building

LEMMA StutterStep == ASSUME ReportInv, RecordingInv', UNCHANGED all PROVE ReportInv'
<1>1. UNCHANGED <<source, pipe, attached, owner, worker, on, page, claimSwitch,
                  job, dump>>
  BY DEF all, vars, camera, session, pageVars
<1>2. SessionTypeOK'
  BY <1>1 DEF ReportInv, SessionTypeOK
<1>3. Running' <=> Running
  BY <1>1 DEF Running
<1> QED BY <1>1, <1>2, <1>3, QuietStep

LEMMA ReportInvStep == ReportInv /\ [ReportNext]_all => ReportInv'
<1>1. SUFFICES ASSUME ReportInv, [ReportNext]_all PROVE ReportInv'
  OBVIOUS
<1>2. RecordingInv'
  BY <1>1, StepImplements, InvStep DEF ReportInv, RecordingInv
<1> QED BY <1>1, <1>2, CableStep, WorkerStep, DumpStep, ToolStep, UserStep,
     CameraStep, TimerStep, BuiltStep, StutterStep DEF ReportNext

-----------------------------------------------------------------------------
\* The recorder beside the report is the recorder of module Recording, whatever
\* the report does to its camera.
THEOREM ReportSparesRecorder == ReportSpec => Spec
<1>1. ReportInit => Init
  BY DEF ReportInit
<1>2. ReportInit => RecordingInv
  BY <1>1, InvInit
<1>3. RecordingInv /\ [ReportNext]_all => [Next]_vars
  BY StepImplements DEF RecordingInv
<1>4. RecordingInv /\ [ReportNext]_all => RecordingInv'
  BY <1>3, InvStep
<1> QED BY <1>1, <1>2, <1>3, <1>4, PTL DEF ReportSpec, Spec

\* The test of the page meets nobody of this application (onTriggered stops the
\* camera first and leaves a recording alone), a report tells what the user saw,
\* and the camera is on afterwards exactly if it was on before.
THEOREM ReportCorrect ==
    ReportSpec => [](ReportTypeOK /\ TestedAlone /\ OnAsChosen /\ ReportTellsState)
<1>1. ReportSpec => []ReportInv
  BY ReportInvInit, ReportInvStep, PTL DEF ReportSpec
<1>2. ReportInv => ReportTypeOK /\ TestedAlone /\ OnAsChosen /\ ReportTellsState
  BY DEF ReportInv, RecordingInv, ReportTypeOK
<1> QED BY <1>1, <1>2, PTL
==============================================================================
