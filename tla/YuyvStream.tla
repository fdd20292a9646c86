----------------------------- MODULE YuyvStream -----------------------------
(***************************************************************************)
(* One YUYV stream, from the first submitted transfer to the end           *)
(* (onYuyvTransfer and streamLoopYuyv in src/camera/uppcamera.cpp, with    *)
(* the ButtonLatch of src/camera/yuyvassembler.h).                         *)
(*                                                                         *)
(* Several bulk transfers are out at a time.  The kernel finishes them     *)
(* whenever it likes; their callbacks run on the worker thread, inside     *)
(* libusb_handle_events, and submit them again.  In one pass of events     *)
(* several callbacks run before the loop looks at what they left.          *)
(***************************************************************************)
EXTENDS Naturals, FiniteSets, Sequences

CONSTANTS
    Transfers,   \* XFER_COUNT of them
    MaxFrames    \* bound: frames that become complete

ASSUME StreamAssumption ==
    IsFiniteSet(Transfers) /\ MaxFrames \in Nat

VARIABLES
    pc,           \* where streamLoopYuyv is
    xfer,         \* each transfer: unused, with USB, finished, or back
    inFlight,     \* YuyvStream::inFlight
    stopping,     \* YuyvStream::stopping
    fatal,        \* YuyvStream::fatal # 0
    hasReady,     \* YuyvStream::hasReady
    skipped,      \* YuyvStream::skipped
    emitted,      \* frames emitted
    frames,       \* frames that were complete
    down,         \* ButtonLatch::m_down
    pending,      \* ButtonLatch::m_pending
    lastButton,   \* UppCameraWorker::m_lastButton
    edges,        \* the buttonChanged of the last pass, in order
    level,        \* history: the button in the last header that was kept
    press,        \* history: it was pressed since the last pass
    stopFlag,     \* UppCameraWorker::m_stop
    attached      \* the camera is still plugged in

frameVars  == <<hasReady, skipped, emitted, frames>>
buttonVars == <<down, pending, lastButton, edges, level, press>>
envVars    == <<stopFlag, attached>>
vars == <<pc, xfer, inFlight, stopping, fatal, frameVars, buttonVars, envVars>>

\* Finished by the kernel, the callback has not run yet.
Finished == {"completed", "failed", "cancelled"}
Out      == {"usb"} \union Finished
Ended    == {"freed", "leaked", "closed"}

TypeOK ==
    /\ pc \in {"submit", "loop", "events", "drain"} \union Ended
    /\ xfer \in [Transfers -> {"unused", "back"} \union Out]
    /\ inFlight \in Nat
    /\ stopping \in BOOLEAN /\ fatal \in BOOLEAN /\ hasReady \in BOOLEAN
    /\ skipped \in Nat /\ emitted \in Nat /\ frames \in Nat
    /\ down \in BOOLEAN /\ pending \in BOOLEAN /\ lastButton \in BOOLEAN
    /\ edges \in Seq({"press", "release"}) /\ level \in BOOLEAN /\ press \in BOOLEAN
    /\ stopFlag \in BOOLEAN /\ attached \in BOOLEAN

Init ==
    /\ pc = "submit" /\ xfer = [t \in Transfers |-> "unused"]
    /\ inFlight = 0 /\ stopping = FALSE /\ fatal = FALSE
    /\ hasReady = FALSE /\ skipped = 0 /\ emitted = 0 /\ frames = 0
    /\ down = FALSE /\ pending = FALSE /\ lastButton = FALSE
    /\ edges = <<>> /\ level = FALSE /\ press = FALSE
    /\ stopFlag \in BOOLEAN /\ attached \in BOOLEAN

-----------------------------------------------------------------------------
\* Allocate and submit one transfer after the other; the first one that fails
\* ends this, and the stream goes on with the ones it has.
SubmitFirst ==
    /\ pc = "submit" /\ attached
    /\ \E t \in Transfers :
          xfer[t] = "unused" /\ xfer' = [xfer EXCEPT ![t] = "usb"]
    /\ inFlight' = inFlight + 1
    /\ UNCHANGED <<pc, stopping, fatal, frameVars, buttonVars, envVars>>

SubmitEnds ==
    /\ pc = "submit" /\ pc' = "loop"
    /\ UNCHANGED <<xfer, inFlight, stopping, fatal, frameVars, buttonVars,
                   envVars>>

\* The head of the loop.
\* Faulty variant first: that nothing is in flight any more is not noticed.
LoopHead_NotCounted ==
    /\ pc = "loop" /\ ~fatal /\ ~stopFlag
    /\ pc' = "events"
    /\ UNCHANGED <<xfer, inFlight, stopping, fatal, frameVars, buttonVars,
                   envVars>>

LoopHead ==
    /\ pc = "loop" /\ inFlight > 0 /\ ~fatal /\ ~stopFlag
    /\ pc' = "events"
    /\ UNCHANGED <<xfer, inFlight, stopping, fatal, frameVars, buttonVars,
                   envVars>>

\* The loop is left: all transfers are cancelled.
\* Faulty variant first: `stopping` is not set.
LoopEnds_NotStopping ==
    /\ pc = "loop" /\ (inFlight = 0 \/ fatal \/ stopFlag)
    /\ pc' = "drain"
    /\ UNCHANGED <<xfer, inFlight, stopping, fatal, frameVars, buttonVars,
                   envVars>>

LoopEnds ==
    /\ pc = "loop" /\ (inFlight = 0 \/ fatal \/ stopFlag)
    /\ pc' = "drain" /\ stopping' = TRUE
    /\ UNCHANGED <<xfer, inFlight, fatal, frameVars, buttonVars, envVars>>

\* ButtonLatch::header, for a transfer that ended in one.
\* Faulty variant first: only the level is kept.
LatchHeader_LevelOnly(pressed) ==
    down' = pressed /\ UNCHANGED pending

LatchHeader(pressed) ==
    /\ pending' = (pending \/ (pressed /\ ~down))
    /\ down' = pressed

\* A frame is complete; one that was not emitted yet is overwritten.
FrameComplete ==
    /\ frames' = frames + 1 /\ hasReady' = TRUE
    /\ skipped' = IF hasReady THEN skipped + 1 ELSE skipped
    /\ UNCHANGED emitted

\* A header that is kept comes, with the button pressed or not.
HeaderKept ==
    \E pressed \in BOOLEAN :
        /\ LatchHeader(pressed)
        /\ level' = pressed /\ press' = (press \/ (pressed /\ ~level))

\* What a completed transfer brings: a frame or none (only a header completes
\* one), a header or none.  For a header at the end of an overflow the latch is
\* handed the one before it again, which tells it nothing new.
Feed ==
    \/ UNCHANGED <<frameVars, down, pending, level, press>>
    \/ frames < MaxFrames /\ FrameComplete /\ HeaderKept
    \/ UNCHANGED frameVars /\ HeaderKept

\* onYuyvTransfer does not submit t again.
\* Faulty variant first: only a failed transfer counts as back.
GiveBack_FailedOnly(t) ==
    /\ xfer' = [xfer EXCEPT ![t] = "back"]
    /\ inFlight' = IF fatal' THEN inFlight - 1 ELSE inFlight

GiveBack(t) ==
    /\ xfer' = [xfer EXCEPT ![t] = "back"]
    /\ inFlight' = inFlight - 1

Resubmit(t) ==
    /\ ~stopping /\ ~fatal
    /\ \/ /\ attached
          /\ xfer' = [xfer EXCEPT ![t] = "usb"]
          /\ UNCHANGED <<inFlight, fatal>>
       \/ fatal' = TRUE /\ GiveBack(t)

\* libusb_handle_events runs the callback of a finished transfer.  It can also
\* do so after the stream has given up on it: the control transfer of teardown
\* handles events too.
OnYuyvTransfer(t) ==
    /\ pc \in {"events", "drain", "leaked"}
    /\ \/ /\ xfer[t] = "completed"
          /\ Feed
          /\ \/ Resubmit(t)
             \/ (stopping \/ fatal) /\ UNCHANGED fatal /\ GiveBack(t)
       \/ /\ xfer[t] = "failed"
          /\ fatal' = TRUE /\ GiveBack(t)
          /\ UNCHANGED <<frameVars, down, pending, level, press>>
       \/ /\ xfer[t] = "cancelled"
          /\ UNCHANGED fatal /\ GiveBack(t)
          /\ UNCHANGED <<frameVars, down, pending, level, press>>
    /\ UNCHANGED <<pc, stopping, lastButton, edges, envVars>>

\* What a pass says of the button: a press, after a release if the one before
\* is not released yet, and a release.
PressEdges   == IF ~pending THEN <<>>
                ELSE IF lastButton THEN <<"release", "press">> ELSE <<"press">>
ReleaseEdges == IF ~down /\ (pending \/ lastButton) THEN <<"release">> ELSE <<>>

\* The rest of a pass, after the events: the button, and the newest frame.
Pass ==
    /\ pc = "events" /\ pc' = "loop"
    /\ edges' = PressEdges \o ReleaseEdges
    /\ pending' = FALSE /\ lastButton' = (down /\ (pending \/ lastButton))
    /\ press' = FALSE
    /\ IF hasReady
       THEN hasReady' = FALSE /\ emitted' = emitted + 1
       ELSE UNCHANGED <<hasReady, emitted>>
    /\ UNCHANGED <<xfer, inFlight, stopping, fatal, skipped, frames, down,
                   level, envVars>>

\* All transfers came back and are freed, with the buffers.
FreeAll ==
    /\ pc = "drain" /\ inFlight = 0
    /\ pc' = "freed"
    /\ UNCHANGED <<xfer, inFlight, stopping, fatal, frameVars, buttonVars,
                   envVars>>

\* The 2 s of the drain are over.
LeakAll ==
    /\ pc = "drain" /\ inFlight > 0
    /\ pc' = "leaked"
    /\ UNCHANGED <<xfer, inFlight, stopping, fatal, frameVars, buttonVars,
                   envVars>>

\* teardown is over and the handle closed; no callback runs any more.
HandleClosed ==
    /\ pc = "leaked" /\ pc' = "closed"
    /\ UNCHANGED <<xfer, inFlight, stopping, fatal, frameVars, buttonVars,
                   envVars>>

Worker ==
    \/ SubmitFirst \/ SubmitEnds \/ LoopHead \/ LoopEnds \/ Pass
    \/ FreeAll \/ LeakAll \/ HandleClosed
    \/ \E t \in Transfers : OnYuyvTransfer(t)

-----------------------------------------------------------------------------
\* The kernel finishes transfers in any order and at any time.  A cancelled
\* one may have completed before the cancel reached it.
Finish(t, how) ==
    /\ xfer[t] = "usb"
    /\ xfer' = [xfer EXCEPT ![t] = how]
    /\ UNCHANGED <<pc, inFlight, stopping, fatal, frameVars, buttonVars,
                   envVars>>

KernelCompletes(t) == attached /\ Finish(t, "completed")
KernelFails(t)     == Finish(t, "failed")
KernelCancels(t)   == stopping /\ Finish(t, "cancelled")

RequestStop ==
    /\ stopFlag' = TRUE
    /\ UNCHANGED <<pc, xfer, inFlight, stopping, fatal, frameVars, buttonVars,
                   attached>>

Unplug ==
    /\ attached' = FALSE
    /\ UNCHANGED <<pc, xfer, inFlight, stopping, fatal, frameVars, buttonVars,
                   stopFlag>>

Next ==
    \/ Worker
    \/ \E t \in Transfers :
          KernelCompletes(t) \/ KernelFails(t) \/ KernelCancels(t)
    \/ RequestStop \/ Unplug

Spec == Init /\ [][Next]_vars

\* The OS schedules the worker, each wait for events has a timeout of 100 ms
\* and the loop goes on after it, and a callback of a finished transfer runs
\* before the loop turns for ever.  The kernel fails what is out when the
\* camera is gone; it need not cancel anything.
Fairness ==
    /\ WF_vars(SubmitEnds) /\ WF_vars(LoopHead) /\ WF_vars(LoopEnds)
    /\ WF_vars(Pass) /\ WF_vars(FreeAll) /\ WF_vars(LeakAll)
    /\ \A t \in Transfers :
          /\ SF_vars(OnYuyvTransfer(t))
          /\ WF_vars(~attached /\ KernelFails(t))

FairSpec == Spec /\ Fairness

-----------------------------------------------------------------------------
\* The counter, on which the loop, the drain and the decision between free and
\* leak rest, says how many transfers USB still has, on all the paths a
\* callback can take.
InFlightExact ==
    inFlight = Cardinality({t \in Transfers : xfer[t] \in Out})

\* No press in a header that was kept is lost, however short: a pass of the loop
\* reports one if and only if the button was pressed since the pass before,
\* released again or not, and after it the GUI has been told of the button as the
\* last header has it.  (Two presses in one pass are one report, and what comes
\* while the stream is drained is not reported: there is no pass any more.)
PressReported ==
    [][pc = "events" /\ pc' = "loop" =>
          /\ press <=> \E i \in 1 .. Len(edges') : edges'[i] = "press"
          /\ edges' # <<>> => (edges'[Len(edges')] = "press" <=> level)
          /\ edges' = <<>> => lastButton = level]_vars

\* A stream ends once its camera is gone or stop() was called, even if not
\* one transfer could be submitted.
StreamEnds == (stopFlag \/ ~attached) ~> (pc \in Ended)

\* The stream keeps what TransferPool asks for.
OwnerOf(state) ==
    CASE state = "usb"       -> "usb"
      [] state \in Finished  -> "done"
      [] OTHER               -> "app"

Owner(t) == IF pc = "freed" THEN "nobody" ELSE OwnerOf(xfer[t])

Phase ==
    CASE pc = "freed"                -> "freed"
      [] pc \in {"leaked", "closed"} -> "leaked"
      [] pc = "drain"                -> "closing"
      [] OTHER                       -> "open"

Pool == INSTANCE TransferPool
            WITH owner <- [t \in Transfers |-> Owner(t)], phase <- Phase

PoolSpec == Pool!Spec
=============================================================================
