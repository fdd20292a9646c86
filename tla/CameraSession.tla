--------------------------- MODULE CameraSession ---------------------------
(***************************************************************************)
(* The live camera of PipeCam: the GUI-thread facade UppCamera, its worker *)
(* thread UppCameraWorker, the Qt event queue that carries the worker's    *)
(* signals to the GUI thread, and the USB device they talk to              *)
(* (src/camera/uppcamera.cpp).                                             *)
(*                                                                         *)
(* A worker lives for one session, from UppCamera::start to the end of the *)
(* wait in UppCamera::stop.  Its signals are queued connections, so an     *)
(* event it emitted can be delivered long after the state that caused it   *)
(* is gone, and even after the worker itself has been deleted: Qt removes  *)
(* the events posted TO a deleted object, not the events it posted.        *)
(***************************************************************************)
EXTENDS Naturals, Sequences

CONSTANTS
    Devices,      \* descriptor layouts of the cameras that may be plugged in
    MaxSessions,  \* bound: how often start() creates a worker
    MaxQueue,     \* bound: queue length above which the worker waits to emit
                  \* a frame or a button edge or to begin another attempt
    MaxFaults     \* bound: USB calls that fail although the camera is there

ASSUME DevicesAssumption == Devices \subseteq {"mjpeg", "yuyv", "unknown"}
ASSUME BoundsAssumption ==
    MaxSessions \in Nat /\ MaxQueue \in Nat /\ MaxFaults \in Nat

VARIABLES
    hasWorker,      \* m_worker # 0
    blocked,        \* the GUI thread is inside stop(), in w->wait()
    status,         \* UppCamera::m_status
    jpeg,           \* session whose frame m_image and m_jpeg hold, 0 = none
    info,           \* format shown in m_deviceInfo, "none" before the first
    buttonPressed,  \* UppCamera::m_buttonPressed
    queue,          \* events posted to UppCamera and not delivered yet
    session,        \* number of workers created so far
    pc,             \* where UppCameraWorker::run is
    stopFlag,       \* UppCameraWorker::m_stop
    variant,        \* UppCameraWorker::m_variant
    lastButton,     \* UppCameraWorker::m_lastButton
    handle,         \* the libusb handle: none, live, or dead (unplugged)
    claimed,        \* interfaces claimed through the handle
    alt,            \* alternate setting of the stream interface
    device,         \* the camera on the bus, "absent" when none
    accessible,     \* the USB permission rule lets the app open it
    faults          \* failures met so far

guiVars    == <<hasWorker, blocked, status, jpeg, info, buttonPressed>>
usbVars    == <<handle, claimed, alt>>
workerVars == <<stopFlag, variant, lastButton>>
envVars    == <<device, accessible, faults>>
vars == <<guiVars, queue, session, pc, workerVars, usbVars, envVars>>

Status  == {"Idle", "Searching", "Connecting", "Streaming", "Error"}
Edge    == {"pressed", "released"}
Format  == {"MJPEG", "YUYV"}
Event   == [what : Status \union Edge \union Format \union {"frame"},
            gen : Nat]
Variant == {"none", "mjpeg", "yuyv", "unknown"}

\* Steps of run() at which no handle is open, at which one is open but
\* nothing is claimed yet, and the steps that rely on claimed interfaces.
Detached == {"off", "init", "loop", "open", "scan", "retry", "exit", "done"}
Opened   == {"identify", "claimIap", "claimYuyv"}
Attached == {"claimStream", "altSetting", "initCmd", "connectCmd",
             "cameraUp", "settle", "stream"}
Steps    == Detached \union Opened \union Attached

TypeOK ==
    /\ hasWorker \in BOOLEAN /\ blocked \in BOOLEAN
    /\ status \in Status
    /\ jpeg \in Nat
    /\ info \in Format \union {"none"}
    /\ buttonPressed \in Edge
    /\ queue \in Seq(Event)
    /\ session \in Nat
    /\ pc \in Steps
    /\ stopFlag \in BOOLEAN
    /\ variant \in Variant
    /\ lastButton \in Edge
    /\ handle \in {"none", "live", "dead"}
    /\ claimed \subseteq {0, 1}
    /\ alt \in {0, 1}
    /\ device \in Devices \union {"absent"}
    /\ accessible \in BOOLEAN
    /\ faults \in Nat

Init ==
    /\ hasWorker = FALSE /\ blocked = FALSE
    /\ status = "Idle" /\ jpeg = 0 /\ info = "none"
    /\ buttonPressed = "released"
    /\ queue = <<>> /\ session = 0
    /\ pc = "off" /\ stopFlag = FALSE
    /\ variant = "none" /\ lastButton = "released"
    /\ handle = "none" /\ claimed = {} /\ alt = 0
    /\ device \in Devices \union {"absent"}
    /\ accessible \in BOOLEAN
    /\ faults = 0

-----------------------------------------------------------------------------
(***************************************************************************)
(* The GUI thread.                                                         *)
(***************************************************************************)

\* UppCamera::start: a no-op while m_worker is set, otherwise a fresh worker.
\* The last frame, its size and the queue are left as they are.
Start ==
    /\ ~blocked /\ ~hasWorker
    /\ session < MaxSessions
    /\ hasWorker' = TRUE
    /\ session' = session + 1
    /\ pc' = "init"
    /\ stopFlag' = FALSE /\ variant' = "unknown" /\ lastButton' = "released"
    /\ UNCHANGED <<blocked, status, jpeg, info, buttonPressed, queue,
                   usbVars, envVars>>

\* UppCamera::stop up to w->wait(): m_worker is cleared, then the flag is set.
StopBegin ==
    /\ ~blocked /\ hasWorker
    /\ hasWorker' = FALSE /\ blocked' = TRUE
    /\ stopFlag' = TRUE
    /\ UNCHANGED <<status, jpeg, info, buttonPressed, queue, session, pc,
                   variant, lastButton, usbVars, envVars>>

\* The rest of stop(): the thread has ended, the worker is deleted.
StopEnd ==
    /\ blocked /\ pc = "done"
    /\ blocked' = FALSE
    /\ status' = "Idle"
    /\ pc' = "off"
    /\ UNCHANGED <<hasWorker, jpeg, info, buttonPressed, queue, session,
                   workerVars, usbVars, envVars>>

OnFrameReady(e) ==
    /\ e.what = "frame"
    /\ jpeg' = IF hasWorker THEN e.gen ELSE jpeg
    /\ UNCHANGED <<status, info, buttonPressed>>

\* Faulty variant of OnStatusChanged: the guard on m_worker is missing.
OnStatusChanged_NoGuard(e) ==
    /\ e.what \in Status
    /\ status' = e.what
    /\ UNCHANGED <<jpeg, info, buttonPressed>>

OnStatusChanged(e) ==
    /\ e.what \in Status
    /\ status' = IF ~hasWorker /\ e.what # "Idle" THEN status ELSE e.what
    /\ UNCHANGED <<jpeg, info, buttonPressed>>

OnDeviceInfoReady(e) ==
    /\ e.what \in Format
    /\ info' = e.what
    /\ UNCHANGED <<status, jpeg, buttonPressed>>

OnButtonChanged(e) ==
    /\ e.what \in Edge
    /\ buttonPressed' = e.what
    /\ UNCHANGED <<status, jpeg, info>>

\* One turn of the GUI event loop: the oldest event reaches its slot.
Deliver ==
    /\ ~blocked
    /\ queue # <<>>
    /\ queue' = Tail(queue)
    /\ \/ OnFrameReady(Head(queue))
       \/ OnStatusChanged(Head(queue))
       \/ OnDeviceInfoReady(Head(queue))
       \/ OnButtonChanged(Head(queue))
    /\ UNCHANGED <<hasWorker, blocked, session, pc, workerVars, usbVars,
                   envVars>>

Gui == Start \/ StopBegin \/ StopEnd \/ Deliver

-----------------------------------------------------------------------------
(***************************************************************************)
(* The worker thread.  The flag m_stop is read where the code reads it: at *)
(* the head of the supervision loop, in the retry sleep and at the head of *)
(* the stream loops, never inside a handshake.                             *)
(***************************************************************************)

Ev(what)   == [what |-> what, gen |-> session]
Post(what) == queue' = Append(queue, Ev(what))

Goto(from, to) == pc = from /\ pc' = to

\* A USB call that fails although the camera is attached uses up one fault.
Fault == faults < MaxFaults /\ faults' = faults + 1
NoFault == UNCHANGED faults

\* A call on the handle succeeds only on a live one; it fails on a dead one,
\* or with a fault.
CallOk   == handle = "live" /\ NoFault
CallFail == \/ handle = "dead" /\ NoFault
            \/ handle = "live" /\ Fault

\* Interfaces a camera has, and the ones a variant's handshake claims.
Interfaces(d) == IF d = "mjpeg" THEN {0, 1} ELSE {0}
Needed(v)     == IF v = "yuyv" THEN {0} ELSE {0, 1}

LibusbInit ==
    /\ \/ Goto("init", "loop") /\ NoFault /\ UNCHANGED queue
       \/ Goto("init", "done") /\ Fault /\ Post("Error")
    /\ UNCHANGED <<guiVars, session, workerVars, usbVars, device, accessible>>

\* Faulty variant of LoopHead: m_stop is not read between two attempts.
LoopHead_NoStopCheck ==
    /\ Goto("loop", "open") /\ Len(queue) <= MaxQueue
    /\ Post("Searching")
    /\ UNCHANGED <<guiVars, session, workerVars, usbVars, envVars>>

LoopHead ==
    /\ \/ /\ ~stopFlag /\ Len(queue) <= MaxQueue
          /\ Goto("loop", "open")
          /\ Post("Searching")
       \/ stopFlag /\ Goto("loop", "exit") /\ UNCHANGED queue
    /\ UNCHANGED <<guiVars, session, workerVars, usbVars, envVars>>

\* openDevice, first half: libusb_open_device_with_vid_pid per known ID.
OpenDevice ==
    /\ IF device # "absent" /\ accessible
       THEN /\ Goto("open", "identify")
            /\ handle' = "live" /\ Post("Connecting")
       ELSE Goto("open", "scan") /\ UNCHANGED <<handle, queue>>
    /\ UNCHANGED <<guiVars, session, workerVars, claimed, alt, envVars>>

\* openDevice, second half: the device list tells absent from not accessible.
ScanDevices ==
    /\ Goto("scan", "retry")
    /\ IF device # "absent" THEN Post("Error") ELSE Post("Searching")
    /\ UNCHANGED <<guiVars, session, workerVars, usbVars, envVars>>

\* Faulty variants of Refuse: the handle stays open; nothing is announced.
Refuse_NoClose ==
    /\ Post("Error")
    /\ pc' = "retry"
    /\ UNCHANGED <<usbVars, variant, lastButton>>

Refuse_Silent ==
    /\ pc' = "retry"
    /\ handle' = "none" /\ claimed' = {} /\ alt' = 0
    /\ UNCHANGED <<queue, variant, lastButton>>

\* The failure exit of a handshake: Error is announced, the handle closed;
\* closing gives up every interface that is still claimed.
Refuse ==
    /\ Post("Error")
    /\ pc' = "retry"
    /\ handle' = "none" /\ claimed' = {} /\ alt' = 0
    /\ UNCHANGED <<variant, lastButton>>

\* detectVariant and collectDeviceInfo, of which the model keeps the format; a
\* configuration descriptor that cannot be read counts as MJPEG.
DetectVariant ==
    \/ CallOk /\ variant' = device
    \/ CallFail /\ variant' = "mjpeg"

FormatOf(v) == IF v = "yuyv" THEN "YUYV" ELSE "MJPEG"

\* Faulty variant of Identify: the format is taken before the detection.
Identify_StaleFormat ==
    /\ pc = "identify"
    /\ DetectVariant
    /\ variant' # "unknown"
    /\ Post(FormatOf(variant))
    /\ pc' = IF variant' = "yuyv" THEN "claimYuyv" ELSE "claimIap"
    /\ UNCHANGED <<guiVars, session, stopFlag, lastButton, device, accessible,
                   usbVars>>

\* The format is announced; "unknown" is refused after that.
Identify ==
    /\ pc = "identify"
    /\ DetectVariant
    /\ IF variant' = "unknown"
       THEN /\ queue' = Append(Append(queue, Ev("MJPEG")), Ev("Error"))
            /\ pc' = "retry"
            /\ handle' = "none" /\ claimed' = {} /\ alt' = 0
       ELSE /\ Post(FormatOf(variant'))
            /\ pc' = IF variant' = "yuyv" THEN "claimYuyv" ELSE "claimIap"
            /\ UNCHANGED usbVars
    /\ UNCHANGED <<guiVars, session, stopFlag, lastButton, device, accessible>>

\* One step of a handshake on interface i: pc moves on or the camera is
\* refused.  Claiming an interface the device does not have always fails.
Claim(from, i, to) ==
    /\ pc = from
    /\ \/ /\ CallOk /\ i \in Interfaces(device)
          /\ pc' = to
          /\ claimed' = claimed \union {i}
          /\ UNCHANGED <<queue, handle, alt, variant, lastButton>>
       \/ CallFail /\ Refuse
       \/ CallOk /\ i \notin Interfaces(device) /\ Refuse
    /\ UNCHANGED <<guiVars, session, stopFlag, device, accessible>>

Command(from, to, setting) ==
    /\ pc = from
    /\ \/ /\ CallOk
          /\ pc' = to
          /\ alt' = setting
          /\ UNCHANGED <<queue, handle, claimed, variant, lastButton>>
       \/ CallFail /\ Refuse
    /\ UNCHANGED <<guiVars, session, stopFlag, device, accessible>>

\* handshakeMjpeg: both interfaces, alternate setting 1, INIT, CONNECT.
ClaimIap    == Claim("claimIap", 0, "claimStream")
ClaimStream == Claim("claimStream", 1, "altSetting")
AltSetting  == Command("altSetting", "initCmd", 1)
\* Faulty variant first: CONNECT is left out.
InitCmd_NoConnect == Command("initCmd", "settle", alt)

InitCmd     == Command("initCmd", "connectCmd", alt)
ConnectCmd  == Command("connectCmd", "settle", alt)

\* handshakeYuyv: one interface, camera_up.
ClaimYuyv   == Claim("claimYuyv", 0, "cameraUp")
CameraUp    == Command("cameraUp", "settle", alt)

HandshakeStep ==
    \/ ClaimIap \/ ClaimStream \/ AltSetting \/ InitCmd \/ ConnectCmd
    \/ ClaimYuyv \/ CameraUp

\* Faulty variant of Settle: Streaming is not announced.
Settle_Silent ==
    /\ Goto("settle", "stream")
    /\ UNCHANGED <<guiVars, queue, session, workerVars, usbVars, envVars>>

\* After the 300 ms pause Streaming is announced, before any frame is there
\* and without asking whether stop() was called meanwhile.
Settle ==
    /\ Goto("settle", "stream")
    /\ Post("Streaming")
    /\ UNCHANGED <<guiVars, session, workerVars, usbVars, envVars>>

Streaming == pc = "stream" /\ ~stopFlag /\ handle = "live"

StreamFrame ==
    /\ Streaming /\ Len(queue) < MaxQueue
    /\ Post("frame")
    /\ UNCHANGED <<guiVars, session, pc, workerVars, usbVars, envVars>>

\* streamLoopMjpeg: the flag byte of a packet against m_lastButton.
MjpegButton ==
    /\ Streaming /\ variant = "mjpeg" /\ Len(queue) < MaxQueue
    /\ lastButton' \in Edge \ {lastButton}
    /\ Post(lastButton')
    /\ UNCHANGED <<guiVars, session, pc, stopFlag, variant, usbVars, envVars>>

\* streamLoopYuyv after one handle_events: `press` is takePress() of the
\* latch, `down` its level.  The queue after the pass: a press over a held
\* button is preceded by a release, and a level that is down no more released.
\* Faulty variant first: the second press is emitted over the first.
YuyvQueue_NoRelease(press, down) ==
    LET q == IF press THEN Append(queue, Ev("pressed")) ELSE queue
    IN  IF ~down THEN Append(q, Ev("released")) ELSE q

YuyvQueue(press, down) ==
    LET q1 == IF press /\ lastButton = "pressed"
              THEN Append(queue, Ev("released")) ELSE queue
        q2 == IF press THEN Append(q1, Ev("pressed")) ELSE q1
    IN  IF ~down THEN Append(q2, Ev("released")) ELSE q2

\* A pass that sees an edge: a level that rose carries a press with it, and a
\* pass without a press is one that finds a held button released.
YuyvButton ==
    /\ Streaming /\ variant = "yuyv" /\ Len(queue) < MaxQueue
    /\ \E press \in BOOLEAN, down \in BOOLEAN :
          /\ press \/ (~down /\ lastButton = "pressed")
          /\ queue' = YuyvQueue(press, down)
          /\ lastButton' = IF down THEN "pressed" ELSE "released"
    /\ UNCHANGED <<guiVars, session, pc, stopFlag, variant, usbVars, envVars>>

\* Faulty variants of StreamEnd: a held button is forgotten; a lost device is
\* treated like a read timeout.
StreamEnd_KeepsButton ==
    /\ Goto("stream", "loop")
    /\ (stopFlag /\ NoFault) \/ CallFail
    /\ handle' = "none" /\ claimed' = {} /\ alt' = 0
    /\ lastButton' = "released"
    /\ UNCHANGED <<guiVars, queue, session, stopFlag, variant, device,
                   accessible>>

StreamEnd_IgnoresLoss ==
    /\ Goto("stream", "loop") /\ stopFlag
    /\ handle' = "none" /\ claimed' = {} /\ alt' = 0
    /\ lastButton' = "released"
    /\ IF lastButton = "pressed" THEN Post("released") ELSE UNCHANGED queue
    /\ UNCHANGED <<guiVars, session, stopFlag, variant, envVars>>

\* The stream loop returns (stop, lost device or transfer error); teardown
\* releases the interfaces, the handle is closed, a held button is released.
StreamEnd ==
    /\ Goto("stream", "loop")
    /\ (stopFlag /\ NoFault) \/ CallFail
    /\ handle' = "none" /\ claimed' = {} /\ alt' = 0
    /\ lastButton' = "released"
    /\ IF lastButton = "pressed" THEN Post("released") ELSE UNCHANGED queue
    /\ UNCHANGED <<guiVars, session, stopFlag, variant, device, accessible>>

\* RETRY_DELAY_MS in slices of 100 ms; ends early on stop.
Retry ==
    /\ Goto("retry", "loop")
    /\ UNCHANGED <<guiVars, queue, session, workerVars, usbVars, envVars>>

LibusbExit ==
    /\ Goto("exit", "done")
    /\ Post("Idle")
    /\ UNCHANGED <<guiVars, session, workerVars, usbVars, envVars>>

Worker ==
    \/ LibusbInit \/ LoopHead \/ OpenDevice \/ ScanDevices \/ Identify
    \/ HandshakeStep \/ Settle
    \/ StreamFrame \/ MjpegButton \/ YuyvButton \/ StreamEnd
    \/ Retry \/ LibusbExit

-----------------------------------------------------------------------------
(***************************************************************************)
(* The USB bus.  A handle of an unplugged camera stays dead, whatever is   *)
(* plugged in afterwards.                                                  *)
(***************************************************************************)
Unplug ==
    /\ device # "absent"
    /\ device' = "absent"
    /\ handle' = IF handle = "live" THEN "dead" ELSE handle
    /\ UNCHANGED <<guiVars, queue, session, pc, workerVars, claimed, alt,
                   accessible, faults>>

Plug ==
    /\ device = "absent"
    /\ device' \in Devices
    /\ accessible' \in BOOLEAN
    /\ UNCHANGED <<guiVars, queue, session, pc, workerVars, usbVars, faults>>

Next == Gui \/ Worker \/ Unplug \/ Plug

\* The OS schedules the worker (every USB call in it has a timeout), the GUI
\* event loop keeps delivering, and a wait() returns once the thread ended.
\* Nobody is obliged to start, stop, plug or unplug anything.
Fairness == WF_vars(Worker) /\ WF_vars(Deliver) /\ WF_vars(StopEnd)

Spec == Init /\ [][Next]_vars
FairSpec == Spec /\ Fairness

-----------------------------------------------------------------------------
(***************************************************************************)
(* Safety.                                                                 *)
(***************************************************************************)

\* What a property of the GUI will read once everything queued is delivered:
\* the last queued event in the set W, or the present value if there is none.
EndsIn(W, shown, values) ==
    IF \E i \in DOMAIN queue : queue[i].what \in W
    THEN \A i \in DOMAIN queue :
            /\ queue[i].what \in W
            /\ \A j \in DOMAIN queue : j > i => queue[j].what \notin W
            => queue[i].what \in values
    ELSE shown \in values

\* The cable button cannot get stuck: whatever is in flight, across stream
\* ends, unplugs and restarts of the worker, the GUI ends up showing the level
\* the worker saw last.  (The release emitted at the end of run()'s loop body.)
ButtonConverges == EndsIn(Edge, buttonPressed, {lastButton})

\* No edge is lost: each queued edge differs from the one before it (from what
\* the GUI shows, for the first), so the duplicate check of onButtonChanged
\* never swallows a press.  (The release streamLoopYuyv emits before a second
\* press exists for this.)
ButtonAlternates ==
    \A j \in DOMAIN queue :
        queue[j].what \in Edge =>
            IF \E i \in 1 .. (j - 1) : queue[i].what \in Edge
            THEN \A i \in 1 .. (j - 1) :
                    /\ queue[i].what \in Edge
                    /\ \A k \in (i + 1) .. (j - 1) : queue[k].what \notin Edge
                    => queue[i].what # queue[j].what
            ELSE queue[j].what # buttonPressed

\* What the worker has told the GUI at each step.  Nothing is said of "init"
\* and "loop" (the previous announcement still stands) and of "exit".
Announced ==
    CASE pc \in {"open", "scan"}                      -> {"Searching"}
      [] pc = "retry"                                 -> {"Searching", "Error"}
      [] pc \in (Opened \union Attached) \ {"stream"} -> {"Connecting"}
      [] pc = "stream"                                -> {"Streaming"}
      [] pc = "done"                                  -> {"Error"}
      [] OTHER                                        -> Status

\* The status shown settles on what the worker announced last, although
\* events of an earlier worker may still be delivered during this session.
StatusConverges == hasWorker => EndsIn(Status, status, Announced)

\* The device information shown settles on the variant in use.
InfoConverges ==
    pc \in (Opened \union Attached) \ {"identify"} =>
        EndsIn(Format, info, {FormatOf(variant)})

\* After stop() no thread is left, the camera reads "Off" and stays off,
\* whatever the deleted worker left in the queue (guard of onStatusChanged).
OffStaysOff == ~hasWorker /\ ~blocked => status = "Idle" /\ pc = "off"

\* A handle is open exactly from openDevice to the end of the attempt, and
\* each step of a handshake, and the stream, has the interfaces it relies on
\* and is a step of the detected variant.
ClaimDiscipline ==
    /\ pc \in Detached => handle = "none" /\ claimed = {} /\ alt = 0
    /\ pc \notin Detached => handle # "none"
    /\ pc \in Opened => claimed = {} /\ alt = 0
    /\ pc = "claimStream" => claimed = {0} /\ alt = 0
    /\ pc = "altSetting" => claimed = {0, 1} /\ alt = 0
    /\ pc \in {"initCmd", "connectCmd"} => claimed = {0, 1} /\ alt = 1
    /\ pc = "cameraUp" => claimed = {0} /\ alt = 0
    /\ pc \in {"settle", "stream"} =>
          /\ claimed = Needed(variant)
          /\ alt = IF variant = "yuyv" THEN 0 ELSE 1
          /\ variant \in {"mjpeg", "yuyv"}
    /\ pc \in {"claimIap", "claimStream", "altSetting", "initCmd",
              "connectCmd"} => variant = "mjpeg"
    /\ pc \in {"claimYuyv", "cameraUp"} => variant = "yuyv"

\* The worker goes through its phases in the order WorkerOrder has.
Order == INSTANCE WorkerOrder
    WITH stop  <- stopFlag,
         phase <- CASE pc = "init"                      -> "starting"
                    [] pc \in {"loop", "retry"}         -> "between"
                    [] pc \in {"open", "scan", "identify", "claimIap",
                               "claimStream", "altSetting",
                               "claimYuyv"}             -> "opening"
                    [] pc = "initCmd"                   -> "init"
                    [] pc = "connectCmd"                -> "connect"
                    [] pc = "settle"                    -> "settling"
                    [] pc = "stream"                    -> "streaming"
                    [] pc \in {"exit", "done"}          -> "done"
                    [] OTHER                            -> pc

\* Once stop() was called no attempt is begun, and the worker is deleted only
\* after it has ended, whatever fails; no stream begins without the commands
\* of its variant.  StopTiming has the same order.
OrderSpec == Order!Spec

-----------------------------------------------------------------------------
(***************************************************************************)
(* Liveness, under FairSpec.                                               *)
(***************************************************************************)

\* stop() returns: the worker reaches one of the places where it reads m_stop
\* from wherever it is.
StopReturns == blocked ~> ~blocked

\* The GUI does not go on showing Streaming over a camera that is gone.
UnplugNoticed == (handle = "dead" /\ status = "Streaming")
                     ~> (status # "Streaming")

\* While it runs, a worker whose camera stays plugged in, accessible and of a
\* known kind gets its stream back, whatever happened before (uppcamera.h:
\* "Worker retries open forever until stopped; disconnects are expected").
Reconnects ==
    <>[](/\ hasWorker /\ pc # "done"
         /\ device \in {"mjpeg", "yuyv"} /\ accessible)
        => <>[](status = "Streaming")

-----------------------------------------------------------------------------
(***************************************************************************)
(* What a comment in the source says and the code does not do.             *)
(***************************************************************************)

\* "Drop frames in flight after stop()" (uppcamera.cpp, onFrameReady): a frame
\* shown is never one of a worker that was stopped before.
FramesOfStoppedWorkerDropped == [][jpeg' # jpeg => jpeg' = session]_vars
=============================================================================
