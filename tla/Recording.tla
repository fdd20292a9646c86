------------------------------ MODULE Recording ------------------------------
(***************************************************************************)
(* The recorder (src/camera/mjpegrecorder.cpp) with what drives it: the    *)
(* frames UppCamera hands on, the record button (toggleRecording) and the  *)
(* end of the application.  All of it is on the GUI thread; the GStreamer  *)
(* pipeline runs on threads of its own, and is seen only through refused   *)
(* buffers, an error on its bus and the end of the stream it reports.      *)
(***************************************************************************)
EXTENDS Integers, Sequences

CONSTANTS
    Sizes,          \* pixel sizes of frames
    DefaultSize,    \* 640x480, reported before the first frame
    Nominal,        \* nominal duration of a frame
    MaxTime,        \* bound: time that passes
    MaxRecordings,  \* bound: recordings begun
    MaxFrames       \* bound: frames accepted in a recording

ASSUME RecordingAssumption ==
    /\ DefaultSize \in Sizes
    /\ Nominal \in Nat /\ MaxTime \in Nat
    /\ MaxRecordings \in Nat /\ MaxFrames \in Nat

VARIABLES
    source,      \* "alive" | "gone": the camera object
    streaming,   \* its status is Streaming
    frameSize,   \* frameWidth() x frameHeight()
    now,         \* nanoseconds, as m_clock sees them
    pipe,        \* m_pipeline: its number and caps, number 0 is none, and
                 \* whether the file at m_outputPath is still there
    bus,         \* "clean" | "error": what pollBus would find
    started,     \* when m_clock was started
    frameCount, firstFrameNs, lastFrameNs,
    buffers,     \* buffers the pipeline took: pts, duration, size of frame
    lastError,   \* "none" | "error"
    finished,    \* numbers of recordings reported by recordingFinished
    begun        \* recordings begun

camera == <<source, streaming, frameSize, now>>
times  == <<started, frameCount, firstFrameNs, lastFrameNs>>
vars   == <<camera, pipe, bus, times, buffers, lastError, finished, begun>>

NoPipe == [no |-> 0, caps |-> DefaultSize, file |-> "there"]
Recorded == pipe.no # 0

Pipes  == [no : 0 .. MaxRecordings, caps : Sizes, file : {"there", "taken"}]
Buffer == [pts : Int, dur : Int, size : Sizes]

TypeOK ==
    /\ source \in {"alive", "gone"} /\ streaming \in BOOLEAN
    /\ frameSize \in Sizes /\ now \in Nat
    /\ pipe \in Pipes
    /\ bus \in {"clean", "error"}
    /\ started \in Nat /\ frameCount \in Nat
    /\ firstFrameNs \in Nat /\ lastFrameNs \in Nat \union {-1}
    /\ buffers \in Seq(Buffer)
    /\ lastError \in {"none", "error"}
    /\ finished \in Seq(1 .. MaxRecordings)
    /\ begun \in 0 .. MaxRecordings

Init ==
    /\ source = "alive" /\ streaming = FALSE
    /\ frameSize = DefaultSize /\ now = 0
    /\ pipe = NoPipe /\ bus = "clean"
    /\ started = 0 /\ frameCount = 0 /\ firstFrameNs = 0 /\ lastFrameNs = -1
    /\ buffers = <<>>
    /\ lastError = "none" /\ finished = <<>> /\ begun = 0

-----------------------------------------------------------------------------
\* Time passes between the events of the GUI thread.
Tick ==
    /\ now < MaxTime
    /\ now' = now + 1
    /\ UNCHANGED <<source, streaming, frameSize, pipe, bus, times, buffers,
                   lastError, finished, begun>>

\* The status of the camera is Streaming before its first frame comes, and it
\* is the worker's to lose again.
StatusChanges ==
    /\ source = "alive"
    /\ streaming' = ~streaming
    /\ UNCHANGED <<source, frameSize, now, pipe, bus, times, buffers, lastError,
                   finished, begun>>

\* The pipeline posts an error on its bus.
PipelineFails ==
    /\ Recorded /\ bus' = "error"
    /\ UNCHANGED <<camera, pipe, times, buffers, lastError, finished, begun>>

\* The file of a recording is in the gallery while it is written: it is deleted
\* or renamed there, and the pipeline goes on writing to what has no name, or
\* another one.
FileTaken ==
    /\ Recorded /\ pipe' = [pipe EXCEPT !.file = "taken"]
    /\ UNCHANGED <<camera, bus, times, buffers, lastError, finished, begun>>

-----------------------------------------------------------------------------
\* start(): the counters are reset, then the pipeline is built, or not.
\* Faulty variant first: the last frame's time is not reset.
ResetTimes_KeepsLast ==
    /\ frameCount' = 0 /\ firstFrameNs' = 0 /\ buffers' = <<>>
    /\ UNCHANGED lastFrameNs

ResetTimes ==
    /\ frameCount' = 0 /\ firstFrameNs' = 0 /\ lastFrameNs' = -1
    /\ buffers' = <<>>

StartRecording ==
    /\ ~Recorded /\ source = "alive" /\ streaming
    /\ begun < MaxRecordings
    /\ begun' = begun + 1
    /\ ResetTimes
    /\ \/ /\ pipe' = [no |-> begun + 1, caps |-> frameSize, file |-> "there"]
          /\ bus' = "clean" /\ started' = now /\ lastError' = "none"
       \/ /\ lastError' = "error"
          /\ UNCHANGED <<pipe, bus, started>>
    /\ UNCHANGED <<camera, finished>>

Teardown == pipe' = NoPipe /\ bus' = "clean"

\* stop(): the end of the stream, or an error, or neither in EOS_TIMEOUT_MS.  The
\* path is reported if a file with something in it is there.  That is so after
\* the end of a stream with frames, if nobody took the file; in other cases what
\* is there may be empty or not, and may be another file with the name.
MaybeReport == finished' \in {finished, Append(finished, pipe.no)}

StopPipeline ==
    /\ Teardown
    /\ \/ /\ bus = "clean" /\ UNCHANGED lastError
          /\ IF buffers # <<>> /\ pipe.file = "there"
             THEN finished' = Append(finished, pipe.no)
             ELSE MaybeReport
       \/ lastError' = "error" /\ MaybeReport

\* The record button, or the end of the application.
StopRecording ==
    /\ Recorded
    /\ StopPipeline
    /\ UNCHANGED <<camera, times, buffers, begun>>

\* onSourceDestroyed: the camera object may be destroyed first.
\* Faulty variant first: the recording is left as it is.
SourceDestroyed_NoStop ==
    /\ source = "alive" /\ source' = "gone" /\ streaming' = FALSE
    /\ UNCHANGED <<pipe, bus, finished, lastError, frameSize, now, times,
                   buffers, begun>>

SourceDestroyed ==
    /\ source = "alive" /\ source' = "gone" /\ streaming' = FALSE
    /\ IF Recorded THEN StopPipeline ELSE UNCHANGED <<pipe, bus, finished, lastError>>
    /\ UNCHANGED <<frameSize, now, times, buffers, begun>>

\* pollBus: an error ends the recording, and the file is not reported.
\* Faulty variant first: it ends without a word.
PollBus_Silent ==
    IF bus = "error"
    THEN Teardown /\ UNCHANGED lastError
    ELSE UNCHANGED <<pipe, bus, lastError>>

PollBus ==
    IF bus = "error"
    THEN Teardown /\ lastError' = "error"
    ELSE UNCHANGED <<pipe, bus, lastError>>

\* pushFrame; a refused buffer leaves the times as they were, but the first
\* frame's.
FirstNs(elapsed) == IF frameCount = 0 THEN elapsed ELSE firstFrameNs

PushFrame(size) ==
    LET elapsed == now - started
        pts == elapsed - FirstNs(elapsed)
    IN  /\ firstFrameNs' = FirstNs(elapsed)
        /\ \/ /\ frameCount < MaxFrames
              /\ buffers' = Append(buffers,
                    [pts |-> pts, size |-> size,
                     dur |-> IF lastFrameNs >= 0 THEN pts - lastFrameNs ELSE Nominal])
              /\ lastFrameNs' = pts /\ frameCount' = frameCount + 1
              /\ PollBus
           \/ UNCHANGED <<buffers, lastFrameNs, frameCount, pipe, bus, lastError>>

\* onFrameReady: the size, then frameAvailable and with it onSourceFrame.  A
\* frame that was queued may come when the status is no longer Streaming.
FrameReady(size) ==
    /\ source = "alive"
    /\ frameSize' = size
    /\ IF Recorded THEN PushFrame(size)
       ELSE UNCHANGED <<pipe, bus, frameCount, firstFrameNs, lastFrameNs, buffers,
                        lastError>>
    /\ UNCHANGED <<source, streaming, now, started, finished, begun>>

Next == \/ Tick \/ StatusChanges \/ PipelineFails \/ FileTaken
        \/ StartRecording \/ StopRecording \/ SourceDestroyed
        \/ \E size \in Sizes : FrameReady(size)

Spec == Init /\ [][Next]_vars

-----------------------------------------------------------------------------
\* The buffers of a recording begin at 0, go forward, and have durations that
\* an unsigned GstClockTime can hold: the gap to the buffer before, whatever
\* buffers were refused in between and whatever was recorded earlier.
Timeline ==
    \A i \in 1 .. Len(buffers) :
        /\ buffers[i].pts >= 0 /\ buffers[i].dur >= 0
        /\ i = 1 => buffers[i].pts = 0 /\ buffers[i].dur = Nominal
        /\ i > 1 => buffers[i].dur = buffers[i].pts - buffers[i - 1].pts

\* A recording that has frames ends with its file reported to the gallery or
\* with an error for the user, however it ends, as long as its file is where it
\* was put.  (One whose file was deleted or renamed meanwhile can end in silence:
\* stop() looks for the file, and has nothing to say if there is none.)
EndAccountedFor ==
    [][Recorded /\ pipe.file = "there" /\ pipe' = NoPipe /\ buffers' # <<>> =>
          \/ finished' = Append(finished, pipe.no)
          \/ lastError' = "error"]_vars

\* The file is finalised before its frames can no longer come: a recording does
\* not outlive the camera it records.
NoOrphan == Recorded => source = "alive"
=============================================================================
