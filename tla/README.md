# TLA+ verification of PipeCam

PipeCam (harbour-pipecam) is a Sailfish OS application for USB endoscopes that
are no UVC devices. A worker thread finds the camera with libusb, speaks one of
two protocols with it and turns bulk transfers into frames; the GUI thread
shows them, takes snapshots, records them through GStreamer, keeps a gallery of
the files and writes a diagnostic log and a report, for which a helper with
root rights can be started.

This directory has TLA+ modules of the parts of the program where order, time
and partial failure matter, TLC configurations that check them on small
instances, and proofs for TLAPS. Paths such as `uppcamera.cpp` are below `src/`
of the repository (`src/camera`, `src/app`, `src/diag`, `qml`).

Contents: 1 the system, 2 the modules and the code, 3 what is checked,
4 what is proved, 5 what the code does otherwise than it says, 6 observations,
7 what is not modelled, 8 the plan.


## 1. The system

### Components

| Component | Code | State | Operations |
|---|---|---|---|
| Camera session | `camera/uppcamera.cpp`: `UppCamera`, `UppCameraWorker::run` | GUI: `m_worker`, `m_status`, `m_image`/`m_jpeg`, `m_deviceInfo`, `m_buttonPressed`; worker: `m_stop`, `m_variant`, `m_lastButton`; the libusb handle and its interfaces | `start`, `stop`, four slots, the supervision loop, `openDevice`, two handshakes, two stream loops, teardown |
| MJPEG reassembly | `streamLoopMjpeg` | accumulator, current frame id, warm-up count | one bulk read per turn |
| YUYV reassembly | `yuyvassembler.h`: `Assembler` | `m_acc`, `m_header`, `m_frame` ... | `feed` |
| YUYV transfers and button | `onYuyvTransfer`, `streamLoopYuyv`, `ButtonLatch` | transfers, `inFlight`, `stopping`, `fatal`, the latch | submit, callback, pass, cancel, drain, free or leak |
| Recorder | `camera/mjpegrecorder.cpp` | pipeline, clock, time stamps, last error | `start`, `pushFrame`, `pollBus`, `stop`, source destroyed |
| Capture store | `app/capturestore.cpp` | rows, last capture, the files | snapshot, register, remove, rename, refresh |
| Gallery pages | `qml/pages/GalleryPage.qml`, `CaptureViewPage.qml`, `RenameDialog.qml` | the row chosen | remorse delete, rename |
| Diagnostic log | `diag/diaglog.cpp` | ring of lines, file, previous log | `append`, `setVerbose`, rotation at start |
| Root helper and client | `diag/roothelper.cpp`, `diag/rootclient.cpp` | connections, client counter, request in progress | accept, serve, idle exit; probe, request, start and stop by systemd |
| Viewfinder item | `camera/videoframeitem.cpp`, `ViewfinderPage.qml` | zoom, pan, roll, fill mode, pending image, dirty mark of the texture; the node of the scene graph | pinch, drag, double click, roll, resize, frame, `updatePaintNode` |
| Report, USB dump, redaction | `DiagReportPage.qml`, `diag/diagreport.cpp`, `usbdump.cpp`, `redact.cpp` | the page's timer, claims on the interfaces | stop the camera, list and test it, collect text, start it again; `--report` as a process of its own |
| Gain, overlay | `setGain`, `frameoverlay` | one atomic integer | pixels |
| Start and end of the app | `harbour-pipecam.cpp`, `harbour-pipecam.qml` | - | start the camera, finish a recording, `--report`, `--root-helper` |
| Other pages, cover, packaging | `qml/`, `rpm/` | bindings | layout |

### Interactions

* The worker tells the GUI thread everything through queued signals
  (`statusChanged`, `frameReady`, `deviceInfoReady`, `buttonChanged`). Between
  emission and delivery the state that caused an event may be gone; an event
  survives the deletion of the worker that emitted it.
* The GUI thread tells the worker one thing, the atomic flag `m_stop` (and the
  gain). `stop()` then blocks the GUI thread in `wait()`.
* `onFrameReady` emits `frameAvailable`; the recorder is connected to it
  directly and is thus called in the same event (`onSourceFrame`).
* QML wires the camera to the store and the recorder: the cable button and the
  record button call `saveSnapshot`, `toggleRecording`; `recordingFinished`
  calls `registerCapture`; the diagnostic page stops and starts the camera, and
  blocks the GUI thread in between.
* The viewfinder item gets each frame in the same event as the recorder; the
  render thread reads the item in `updatePaintNode` while the GUI thread waits.
* The interfaces of the camera are shared with other processes, `--report` of
  the same program among them, through the kernel.
* libusb runs the callbacks of YUYV transfers on the worker thread, but only
  inside `handle_events`, several in one pass.
* The app and the helper share a local socket; systemd starts and stops the
  helper; other programs may connect to it.
* Any thread may log.

### What is hard

Events that arrive after a stop, and in the next session; a flag that a
handshake never reads; cameras that disappear in any call; transfers that are
still out when the stream ends; lost packets with an 8-bit frame id or with
none at all; presses shorter than a pass; rows kept over several events while
the list shifts; a recording that ends in five ways; late answers on a socket;
crashes between the write and the flush of a line of the log; a camera stopped for a report while a
recording is begun; a screen that is a copy of the item's state made by another
thread. The list with its lines is under
`hazards` in PROJECT.json.

### What makes each component correct

* Session: what the GUI shows settles on what the worker last knew; a stopped
  camera stays off; every handshake step has the interfaces it needs; no command
  is left out before a stream and no attempt begun after a request to stop;
  `stop()` returns and in time; the stream comes back by itself.
* Reassembly: no picture is made of two; order; nothing that was sent whole is
  withheld.
* Transfers: nothing USB may write to is freed; the counter is exact; a pass of
  the loop reports the presses since the one before, however short, and no
  others; the stream ends.
* Recorder: time stamps in order; every recording with frames is accounted for
  while its file is where it was put; none outlives its camera.
* Store: the rows, the files and the last capture agree; no file is overwritten.
* Log: what memory holds, but for the line being appended, is on the disk while
  the log is mirrored, and the next run finds it wherever this one ends.
* Helper: answers match requests; it leaves when nobody is there and not before.
* Viewfinder: the screen catches up with the item, every frame gets there or is
  overtaken, nothing black is scrolled in, Fit shows the whole picture.
* Report: the claim test meets no claim and no recording of the application
  itself, and the camera is on afterwards as the user had it.


## 2. The modules and the code

`map` in PROJECT.json gives the lines of every definition. Definitions with a
suffix (`Reap_Unlimited`) preceded by "Faulty variant" are plausible mistakes
in the definition that follows them. No specification uses them; they are
there to show that the properties notice them.

| Module | Models | Uses |
|---|---|---|
| `CameraSession` | GUI facade, queue, worker, device on the bus | `INSTANCE WorkerOrder` as a refinement; relies on `PressReported` (YuyvStream) and `EndsBeforeDestroyed` (StopTiming) |
| `StopTiming` | the time `stop()` takes, in ticks of 100 ms | `INSTANCE WorkerOrder` as a refinement |
| `WorkerOrder` | abstract: the order of what a worker does | |
| `MjpegReassembly` | packets to frames, MJPEG | |
| `YuyvAssembler` | transfers to frames, YUYV | |
| `YuyvStream` | the life of the transfers, and the latch | `INSTANCE TransferPool` as a refinement |
| `TransferPool` | abstract: what is owed to libusb | |
| `Recording` | the recorder and what drives it | |
| `Report` | the report's page and the command line beside worker, recorder and kernel | `EXTENDS Recording`, which it implements |
| `Viewfinder` | the item, the gestures, the render thread | |
| `CaptureStore` | list and files | |
| `Gallery` | delayed delete and rename | `EXTENDS CaptureStore` |
| `DiagLog` | ring, file and its buffer, lock, rotation, crashes | |
| `RootLink` | helper, client, systemd, other peers | |
| `X_proofs` | theorems about X | `EXTENDS X, TLAPS` |
| `CaptureStore_proofs` | theorems about CaptureStore and Gallery | |
| `Report_proofs` | theorems about Recording and Report | |
| `Yuyv_proofs` | theorems about YuyvStream, TransferPool and YuyvAssembler | |
| `Diag_proofs` | theorems about DiagLog and RootLink | |
| `MCX` | the values of X's constants | `EXTENDS X` |

### CameraSession

`Start`, `StopBegin`/`StopEnd` (before and after `w->wait()`) and `Deliver` (one
turn of the event loop; the guards of `onFrameReady` and `onStatusChanged` are
where the code has them) are the GUI thread. The worker's program counter names
the blocking calls of `run()`. `m_stop` is read in `LoopHead`, in the head of
the stream loops and in `Retry`, as in the code, and nowhere in a handshake.
A call on the handle of an unplugged camera fails; any other call may fail
`MaxFaults` times (the fault is not counted for an unplugged device).
`DetectVariant` stands for `detectVariant` and `collectDeviceInfo`, with the
fall-back to MJPEG when descriptors cannot be read. `Refuse` is the common
failure exit. A frame is only the number of its session.

`YuyvButton` takes from the latch what `PressReported` of YuyvStream says of a
pass: it reports a press or not, whatever the level was before and is now, and
leaves the GUI with the level of the last header. `StopEnd` waits for the worker without a
limit: that it ends in time is the subject of StopTiming.

### StopTiming

One program counter for the call in progress, and `since`, the ticks since the
request, which can come in the middle of a call (`Blocking`). Limits of the
source: 30 reads of 100 ms to drain the iAP endpoint (`drainEp` in
`handshakeMjpeg`), 1 s per command, control transfer and stream read, 2 s for
cancelled transfers, 3 s + 3 s of waits. Before the handshake `collectDeviceInfo`
reads three strings of the camera, each with up to two control transfers of
libusb (its languages, then the string), which libusb limits to 1 s: six reads
(`StringReads`). Calls without a limit of their own (open, claim,
set_configuration, close) take no time. `asked` is a history variable, the call
that was in progress at the request; only the property reads it.

### WorkerOrder

What CameraSession and StopTiming have in common, as a specification of two
variables: the phase of the worker and `m_stop`. CameraSession says what each
step does and can lose, StopTiming how long it takes; each is shown to implement
WorkerOrder (`OrderSpec`), so that what is said of the time is said of the
steps that the session takes. Claims and the drain are part of "opening", the
pause after camera_up is part of "settling", and the end of a stream with its
wait for transfers and camera_down part of "streaming".

### MjpegReassembly, YuyvAssembler

Both contain the camera: it sends frame after frame, so that a property can
compare what came out with what was sent. A payload is (frame, number of the
packet) and a unit of YUYV data is the frame it came from. SOI and EOI are the
first and last payload of a frame. `FidModulo` stands for the 256 frame ids;
`MaxAcc` and `MaxUnits` for `MAX_FRAME_BYTES`. `got` and `fed` are history
variables: no variable of the code, nothing in the actions reads them. So are
`heard`, `came` and `before` of YuyvAssembler: the last header that reached the
host, the data that came since, and how much came before it. Its two properties
are about them and not about what the assembler has in `m_acc` and `m_header`, so
that a fault that loses data from the accumulator cannot hide behind them.

`Assembler::feed` is `FeedUnits`. The camera of YuyvAssembler loses headers
(`MaxLost` in a row), sends short packets that are no header (`MaxStrays`
between two headers), which `feed` takes for data, and drops data inside a
frame while no transfer is queued (`DropData`, `MaxDropped` units between two
headers; `uppprotocol.h:117` has measured a quarter). Of a frame with data
dropped `FrameOfItsHeader` claims its header and that it is all that came since;
that it is the picture, whole, only of the others. What is common to all
specifications is named `AssemblerInit`, `AssemblerNext` and so on here, and
`LinkInit`, `LinkNext` ... in RootLink, because Yuyv_proofs and Diag_proofs extend
two components each.

### YuyvStream, TransferPool

Each transfer is unused, with USB, finished (its callback has not run) or back.
`OnYuyvTransfer` is the callback with all its paths: frame or not, header or
not, resubmission that works or fails, a stream that is stopping. `Pass` is the
rest of the loop body; `edges` is what it says of the button, in order. `level`
and `press` are history variables: the button in the last header that was kept,
and whether it went down since the last pass. For a header at the end of an
overflow the latch gets the header before it once more, which changes nothing;
the model gives it none. The callback may run after the stream has leaked its
transfers, because the control transfer of teardown handles events as well.
`TransferPool` is the contract: nothing is submitted once the stream closes,
and transfers are freed only when all are back.

### Recording, CaptureStore, Gallery

`Recording` has the record button (`toggleRecording`), the frames of the camera
and the pipeline, of which only a refused buffer, an error on the bus and the
end of the stream in time or not can be seen. `stop()` reports the path if there
is a file with something in it. After the end of a stream with frames there is,
unless it was deleted or renamed in the gallery while it was written
(`FileTaken`); without frames, after an error or a timeout, or when another file
may have got the name, it can be either (`MaybeReport`). A frame whose memory cannot be allocated leaves the state as a
refused buffer does.

`CaptureStore` has a path as (second, suffix, kind) and a file as its time of
modification. `IsFreshPath` is `makePath`; `Refresh` leaves open the order of
files of the same second. The recorder creates its file and goes on writing to
it when it was renamed (`recFile`). Files changed by other programs are not
modelled. `Gallery` keeps what the pages keep, the row, and in addition the
path the user chose, which the program does not keep and only the property
reads.

### Report

`Report` EXTENDS `Recording` and adds what can stop and start the camera under
a recording. The worker is abstracted to the four places that matter here
(nowhere, searching, claiming, streaming; CameraSession has it whole). `owner`
is the kernel's side of `libusb_claim_interface`: one owner for each interface,
and all claims of a handle go with it or with the device. `Dump` is
`usbdump::dump` in the page's process or in that of `--report`, interface by
interface, each call of which may fail; `ToolEnds` is also the death of that
process in the middle. `BuildTimer` and `ReportBuilt` are the handler of the
page's timer before and after `build()`; between them `GuiFree` is false, so no
signal, no tap and no frame is handled, while the worker's thread, the pipeline,
the other process and the cable go on. `on` is a history variable: what the
user chose last with "Camera on".

The root requests of `build()` are in RootLink and change nothing here.

### Viewfinder

The setters of the item with the handlers of the page that call them, the frame
signal, and `updatePaintNode`. `due` is what `update()` asks for. `node` is what
is on screen: the image of its texture and the size, shift and turn the
rectangles follow from. Geometry is in whole pixels; the drawn size and the
limits of the pan are tables over item, fill mode, frame, zoom and roll
(`DrawnAt`, `Limits`), computed from the code's formulas. The roll is a multiple
of 90 degrees, for which sine and cosine are 0 or 1 and `rollFitFactor` is a
fraction; the dial of the page also sets angles in between. The scale of the
pinch is any of `Zooms`, cut as `setZoom` does. `SceneGraphLost` is the scene
graph dropping its nodes, and a texture may be refused (`MaxRefusals`).

### DiagLog, RootLink

`append` takes its stamp before the lock (`Stamp`), then under the lock puts the
line into the ring (`AppendLine`), into the buffer of the file (`WriteLine`) and
flushes (`FlushLine`); the lock is kept between these steps (`lockAt`, `holder`),
but other threads stamp, verbose is switched and the app may end. `setVerbose`
is the flag, the file under the lock (`OpenFile`, `WriteBackfill`,
`FlushBackfill`, or `CloseFile`), and a line about it. Only what is in `cur` is on
the disk; `buffered` is QFile's own buffer. `Restart` is the end of the app at
any point, with none, some or all of the buffer on the disk, and its next start.
The lines of the backfill are written in one step, because a crash between two
of them leaves a beginning of what is written, and so does one after them. A
write or a flush may fail, as on a full disk (`failed`, a history variable,
until the file is opened again); what is not flushed stays in the buffer and
is tried again with the next line.

`RootLink` has connections that are pending, hung up before they were accepted,
open, left or gone; the helper counts them in order of its events. A request
is a blocking call of the app with two waits (`ReadHeader`, `ReadPayload`,
`RequestFails`). The write of two bytes fails only with the connection, so
`waitForBytesWritten` has no case of its own; the letters asked for are known
to the helper, so "ERR" does not occur. systemd's `StartUnit` and `StopUnit`
may fail.


## 3. What is checked

Every property has a mutant in PROJECT.json, a plausible mistake in the code
that the run then finds.

| Run | Bounds | States | Shows |
|---|---|---|---|
| `CameraSession_worker` | 3 kinds of device, 2 sessions, 1 fault, queue 1 | 248 000 | ButtonConverges, ButtonAlternates, StatusConverges, InfoConverges, OffStaysOff, ClaimDiscipline; OrderSpec (refinement); StopReturns, UnplugNoticed, Reconnects |
| `StopTiming_bound` | limits of the source | 34 000 | EndsBeforeDestroyed; OrderSpec (refinement) |
| `MjpegReassembly_frames` | 5 frames of 1 to 4 packets, 3 ids, gap 1 | 28 000 | FramesUnmixed, ShownInOrder, NothingWithheld |
| `YuyvAssembler_frames` | 6 frames of 2 units, 2 headers lost in a row, 2 strays, 2 units dropped | 97 000 | FrameOfItsHeader, WholeFramesReady |
| `YuyvStream_transfers` | 3 transfers, 2 frames | 216 000 | InFlightExact, PressReported, PoolSpec (refinement), StreamEnds |
| `Report_recorder` | 2 recordings, 2 frames, 2 ticks, 2 interfaces, 1 run of the tool at a time | 2 189 000 | Timeline, NoOrphan, EndAccountedFor (of Recording); TestedAlone, OnAsChosen |
| `Viewfinder_screen` | 2 frames of 2 sizes, 5 changes of the view, 1 refused texture, 2 layouts | 293 000 | ScreenCurrent, NoBlackScrolledIn, FitShowsAll; FramesReachScreen |
| `CaptureStore_rows` | 3 files, 2 seconds, 2 names | 9 900 | LastCaptureIsFirst, NothingListedTwice, RowsHaveFiles, NothingOverwritten |
| `DiagLog_mirror` | 2 threads, 3 runs, 5 lines, ring 2, file 3 | 209 000 | MirrorComplete, CrashKeepsLog |
| `RootLink_link` | 3 connections, 2 starts, 2 commands | 162 000 | AnswersItsRequest, CounterExact, NoQuitUnderClient, HelperGoesAway |
| `CameraSession_staleframes`, `Gallery_chosen` | | | a violation each, section 5 |

All type invariants are theorems (section 4), the limits among them of the
accumulator (YuyvAssembler), of the ring (DiagLog) and of connections
(RootLink), and so is the count of the file's bytes (`FileCounted` of DiagLog);
no run checks them again.

### Why the bounds are enough

* `CameraSession_worker`: two sessions are what it takes for events of one to
  be delivered in the other; one fault, so that any single call of a handshake
  can fail with the camera attached, besides the unplugging, which is not
  bounded. `MaxQueue` is no limit on the queue but the length above which the
  worker waits before it emits a frame or an edge or begins an attempt; a
  handshake posts three or four events without waiting. Several edges are in
  the queue at once in the YUYV variant (release, press, release in one pass)
  and at the end of a stream. The proofs of section 4 have no bound.
* `StopTiming_bound` has the program's own numbers. The worker may be asked in
  every call and between any two, and after any number of attempts.
* `MjpegReassembly_frames`: an accumulator of two payloads and frames of up to
  four make frames that fit exactly, overflow, and overflow with a rest; three
  ids are the fewest for which a gap of one packet cannot hide a whole round
  (`MaxGap + 2 <= FidModulo`), and five frames go round. Two of them are
  warm-up.
* `YuyvAssembler_frames`: frames of two units with one unit a known length as
  well, so that a torn frame can have a valid size; two headers lost in a row and
  two strays, more than the accumulator holds besides one frame, so that it
  overflows with and without strays; two units dropped, so that of a frame the
  shorter known length is left, or nothing.
* `YuyvStream_transfers`: with three transfers one can fail, one be submitted
  again and one stay out in the same pass, and a press, its release and a second
  press come in one; two frames in one pass are one skipped. The proofs hold for
  any number.
* `Report_recorder`: the second recording starts with what the first left, and
  can be begun in the 50 ms before a report; two interfaces, so that the test and
  the worker's handshake can be between their claims when they meet. Reports,
  unplugging and the tool are not bounded. All frames have one size: sizes only
  matter to the caps (section 6).
* `Viewfinder_screen`: three changes bring the pan to an edge (zoom, turn or
  drag) and two more take the limit away (fill mode, layout) and paint in
  between; the second frame has the other size. Sizes are chosen so that all
  divisions are exact; the proofs hold for all sizes.
* `CaptureStore_rows`: two captures in one second need a suffix, three files
  allow a rename onto a name in use with a recording in progress.
* `DiagLog_mirror`: the third run finds an older previous log in the way of the
  rotation; the file gets full; the ring loses its oldest line; a write fails
  and a later one succeeds.
* `RootLink_link`: the app's connection and two more, of which one may be
  refused and one may stay; a second start after a first helper left.

Deadlock is checked where the program never stops (CameraSession, CaptureStore,
Gallery). The other runs say `CHECK_DEADLOCK FALSE`: their camera sends a
bounded number of frames, their stream, log or recording comes to its end.

### Fairness

* CameraSession: the operating system runs the worker, and each of its USB
  calls ends; the GUI event loop delivers; a `wait()` returns when the thread
  has ended. Nobody has to start, stop, plug or unplug anything: Reconnects and
  UnplugNoticed say what follows if nobody interferes any more.
* YuyvStream: the loop turns because each wait for events lasts 100 ms at most.
  Strong fairness on a callback, because it can run only while the loop is in
  `handle_events`, again and again. The kernel fails the transfers of a camera
  that is gone (`LIBUSB_TRANSFER_NO_DEVICE`); it is not assumed to cancel
  anything, nor to complete anything.
* Viewfinder: WF on `UpdatePaintNode`, because the scene graph repaints an
  exposed window for which `update()` was called. Nothing else is assumed.
* RootLink: the helper's event loop runs, its commands end (each has a time
  limit of its own), its timers fire, and a wait of a request times out.

The other specifications state safety only.


## 4. What is proved

For every value of the constants that the named ASSUMEs allow. An invariant is
proved from three facts: it holds in Init, every step keeps it, it implies the
property; the temporal step is one call of PTL.

| Theorem | Says | Rests on |
|---|---|---|
| `CameraSession_proofs!TypeCorrect` | `Spec => []TypeOK` | `TypeInv`: types, and `LiveOnBus`, a live handle belongs to a camera on the bus. Without it `variant' = device` could be "absent". |
| `...!OffStaysOffCorrect` | `Spec => []OffStaysOff` | inductive as it stands |
| `...!ClaimsCorrect` | `Spec => []ClaimDiscipline` | needs OffStaysOff: `Start` begins with a worker that has no handle |
| `...!ButtonCorrect` | `Spec => [](ButtonConverges /\ ButtonAlternates)` | `ButtonInv`: both, over a queue of any length, and `HeldInStream`, a button is held only in a stream. Each needs the other: an edge may be appended because it differs from the value the queue converges to. |
| `...!StatusCorrect` | `Spec => []StatusConverges` | `StatusInv`: the last status in the queue, or what is shown if none is there, is one the worker may have announced at its place in the loop (`Settles`, over a queue of any length); and `StopOrder`, the flag is set only when `m_worker` is 0, so that nobody leaves the loop while somebody watches |
| `...!InfoCorrect` | `Spec => []InfoConverges` | `InfoInv`: the same of the format, from the end of `Identify` to that of the attempt. Status and buttons posted meanwhile must not disturb it, nor a camera that is pulled: `variant` is the worker's and not the bus's. |
| `...!SessionKeepsOrder` | `Spec => OrderSpec` | TypeOK, OffStaysOff (a worker is made only where none is) and `AskedInv`: `stop()` waits only after it has set the flag |
| `StopTiming_proofs!StopBound`, `StringsBound` | `Spec => []EndsBeforeDestroyed`, and that `since` is at most the two waits and `StringReads * CallLimit`, if the limits fit (`LimitsFit`) | `TimeInv`: `since` plus the longest way out from the present call (`Remaining`) is within what is `Allowed`: the two waits, and the time of all strings for a worker that was asked while it read them |
| `...!TimingKeepsOrder` | `Spec => OrderSpec` | TypeOK; no condition on the limits |
| `CaptureStore_proofs!StoreCorrect` | last capture, no row twice, rows have files | `StoreInv`: the three together with the types; lemmas on inserting and removing a row |
| `...!NoFileOverwritten` | `Spec => NothingOverwritten` | StoreInv at each step: a row's file exists, so a renamed one was there to be counted; a finite set of files, and one lemma for each way it changes (added, moved, removed) |
| `...!GalleryKeepsStore` | `GallerySpec => Spec` of CaptureStore | each step of the pages is one of the store or a stutter, so the store's theorems hold under delayed deletes and renames |
| `...!GalleryTakesItsRow` | a file is taken away only by a delete or rename that is due, and it is the one at the row that was kept | StoreInv of the store: the file of a row is there, and a rename moves it to a name that is not. What is false is that this is the chosen file (section 5) |
| `MjpegReassembly_proofs!NoMixedFrames` | `Spec => []FramesUnmixed` | `ReassemblyInv`: how many frames the camera is `Ahead` of what is collected, which is less than a round of ids, so that equal ids mean the same frame |
| `...!FramesInOrder` | `Spec => ShownInOrder` | `OrderInv`: the picture shown is older than the next packet and than what is collected. Uses ReassemblyInv, because equal ids must mean the same frame. |
| `...!WholeFramesShown` | `Spec => NothingWithheld` | `WholeInv`: as long as what was taken of the frame in progress is its beginning `1 .. m` and fits, the accumulator is those m payloads in order; an overflow or a restart makes it no beginning |
| `Report_proofs!RecordingCorrect`, `NoSilentEnd` | Timeline and NoOrphan; EndAccountedFor | `RecordingInv`: `Mirror`, the counters of the recorder agree with the buffers the pipeline took, and the clock is not before its start. NoSilentEnd is about recordings whose file nobody took, and shows that there is no other way to end without a word. |
| `Yuyv_proofs!StreamCorrect` | TypeOK and InFlightExact | `StreamInv` with cardinalities of a finite set of transfers |
| `...!PressesReported` | `Spec => PressReported` | `LatchInv`: the latch is what the headers since the last pass make of it, `pending = press` and `down = level`, and a button that is down was told of or is about to be; then the edges of a pass, case by case (`PassSays`) |
| `Yuyv_proofs!ImplementsPool` | `Spec => PoolSpec` | `StreamInv` at `FreeAll` and `LeakAll`: the counter decides between them, and the contract speaks of the transfers. Uses that `stopping` holds in the drain and after. |
| `...!AssemblerTypes`, `FramesOfHeaders`, `WholeFramesComplete` | AssemblerTypeOK, FrameOfItsHeader; WholeFramesReady | `AssemblerInv` with `HeaderInv`: a header that is believed in is the last that came, and the accumulator is what came since; and one that came is believed in unless more came before or after it than the accumulator takes. `CameInv`: the last that came is `cam - lost`, and since then `(lost + 1) * FrameUnits - left + strays - dropped` units came, so that with nothing dropped a known length means that nothing was lost. |
| `...!SizesApart`, `SizesAlike` | the ten lengths of `frameSizeForBytes` are as AssemblerAssumption wants them with one header lost, and not with two, nor with packets dropped inside a frame | arithmetic over the table, multiplied out (`Listed`) |
| `Viewfinder_proofs!ScreenCorrect` | `Spec => []ScreenCurrent` | `ScreenInv`: with no repaint due the node is fresh, and `dirty` holds whenever the node's texture is not of the pending image |
| `...!NoBlackCorrect` | `Spec => [](TypeOK /\ NoBlackScrolledIn)` | types with `Shown` (a node has a texture and the item's size), ScreenInv, and `Covering`, a lemma of arithmetic: a shift within half of the overhang leaves no gap, after integer division |
| `...!FitCorrect` | `Spec => []FitShowsAll` | the invariant of NoBlackCorrect, and arithmetic: `x * b \div x = b` and `a <= b => a \div c <= b \div c` (`DivExact`, `DivLe`), that a box fitted into another is inside it (`InsideFits`), that `rollFitFactor` only shrinks it (`InsideShrinks`, `Shrunk`, `FitInside`), and that a picture inside the item has no shift and is not cut (`Uncut`) |
| `Report_proofs!ReportSparesRecorder` | `ReportSpec => Spec` of Recording | each step of the report is a step of the recorder or a stutter: StopCamera only makes the camera leave Streaming, which is a `StatusChanges`. Recording's own theorems follow for the composition. |
| `...!ReportCorrect` | ReportTypeOK, TestedAlone, OnAsChosen, ReportTellsState | `ReportInv`: the four with `NoClaims`, no worker means no claims of one, and `Building`, what the handler of the page keeps while it builds |
| `Diag_proofs!LogTypes`, `LogMirrored`, `LogSurvivesCrash` | TypeOK and FileCounted; MirrorComplete; CrashKeepsLog | `MirrorInv`: these with `BufferInv`: while no write has failed, the buffer is empty but for the line in progress or the ring being copied, the thread that holds the lock has a line, and a file that is open exists (otherwise the rotation would find nothing to keep). A flush is one lemma for both its uses (`FlushedParts`). |
| `...!LinkTypes`, `AnswersMatch`, `CounterCorrect`, `HelperStays` | LinkTypeOK, AnswersItsRequest, CounterExact; NoQuitUnderClient | `LinkInv`. `ClientsInv`: the helper's counter is the cardinality of the connections it accepted and has not seen leave, and without a helper there are none. `OnItsWay`: all lines and parts of answers on the app's present connection belong to the present request, because a request that fails aborts its connection. |

`LimitsFit` of StopTiming_proofs is a condition of the theorem and not an assumption
of the module; the run has numbers for which it is true.

### Only model-checked

* Liveness: StopReturns, UnplugNoticed, Reconnects, StreamEnds, HelperGoesAway,
  FramesReachScreen. TLAPS has no rules for ENABLED and fairness.
* The two violations.

Every invariant and every action property of a passing run is a theorem. What
the proofs do not say is that the constants of section 3 are those of the
program; StopTiming has its numbers, and the assumptions of the other modules
name what they need (that a gap cannot hide a round of frame ids, that no run of
YUYV frames has a known length; nothing is assumed of frames that lost data
inside). Of the last, SizesApart proves that the ten
lengths of `frameSizeForBytes` have it with one header lost; with two in a row
they do not (SizesAlike).


## 5. What the code does otherwise than it says

* `CameraSession_staleframes`. `onFrameReady` has "Drop frames in flight after
  stop()" (`uppcamera.cpp:913`); it drops frames only while there is no worker.
  The diagnostic page stops the camera, blocks, and starts it in one handler
  (`DiagReportPage.qml:60-63`), and the frames of the stopped worker are then
  taken for frames of the new one. The run finds a frame of session 1 shown in
  session 2. For status and buttons the same events are harmless:
  StatusConverges and ButtonConverges hold.
* `Gallery_chosen`. "Capture the row now: model.index shifts before this runs"
  (`GalleryPage.qml:75`): the row is kept, but the row is no identity. A
  snapshot with the cable button during the remorse time shifts the list by
  one, and another capture is deleted. The rename dialog has the same pattern.


## 6. Observations

Met while modelling; no run is about them.

* "Unwinds within READ_TIMEOUT_MS" (`uppcamera.cpp:891`, and about 1 s in
  `uppcamera.h:36`) is true of the MJPEG stream loop. The way out of a handshake
  is longer, up to 5.5 s, which fits in the two waits. It does not if the
  request comes while the strings of the camera are read: the flag is not looked
  at before the handshake either, and a camera that answers each call just within
  its limit keeps the worker for up to 11.5 s. The destructor then destroys a
  thread that runs, and Qt ends the program. Without its premise TLC finds
  EndsBeforeDestroyed violated; StringsBound is what remains true.
* `libusb_init` failing ends the thread with `m_worker` still set; only a
  `stop()` makes `start()` work again. The model has this (pc = "done").
* `capturestore.h:97` says "newest first": `registerCapture` and snapshots insert
  at the front whatever the file's time, so a recording that is registered late
  is in front of newer rows until the next refresh.
* An overflow in a transfer that ends in a header leaves `header()` at the header
  before while `lastHadHeader()` is true; the button latch reads `header()` then.
  So the picture of that header is lost, though it comes whole, and a press that
  is only in that header. WholeFramesReady and PressReported say so.
* A 640x480 frame of which the camera dropped exactly a quarter is as long as one
  of 640x360 and is shown as one, sheared (`yuyvassembler.h:30`; SizesAlike). A
  quarter is what `uppprotocol.h:117` reports for synchronous reads.
* Two presses in one pass of the loop are one report, and a press that comes
  while the stream is drained is not reported at all.
* A recording is in the gallery while it is written, if the list is refreshed
  then. If its file is deleted or renamed there, `stop()` finds no file at its
  path (`mjpegrecorder.cpp:329`) and ends with neither `recordingFinished` nor an
  error, although it has frames. Without its premise TLC finds EndAccountedFor
  violated.
* `setVerbose` off and on again writes the ring to the same file a second time
  (`diaglog.cpp:103`), and lines are not always in the order of their stamps
  (`diaglog.h:40`, "oldest first"). The backfill does not look at
  `MAX_FILE_BYTES`, so the file grows by the ring each time, without a limit.
* The file is created before the backfill is in it. If the app ends in between,
  the next start makes a previous log of what is there, and the older one, which
  may have been complete, is gone.
* `m_fileBytes` counts a line whose write failed, and does not count the note
  that the file is full (`diaglog.cpp:126`).
* `roothelper.h:4` says "exits 20 s after the last client". The 20 s count from
  the start of the helper (`roothelper.cpp:304`); after that it leaves at the
  next tick of its timer, 5 s at most after the last client.
* `m_pan` is "always clamped" (`videoframeitem.h:94`) but is not clamped again on
  a new fill mode, size or frame size, so the next drag may begin beyond the
  edge; painting clamps its own copy, and NoBlackScrolledIn holds because of it.
* The limits of the pan and the clipping to the item are those before the roll.
  At 90 degrees and zoomed in, the picture fills the item's rectangle turned by
  90 degrees and not the screen.
* A texture that could not be made is not tried again until something else calls
  `update()`. `hasFrame` is reset only by a new camera, so after an unplugging
  the status overlay does not come back over the frozen picture.
* "mirrors the camera worker's claim sequence" (`usbdump.cpp:208`): the test
  releases each interface before the next, the worker keeps the first while it
  claims the second.
* Frames queue up while a report is built, and get time stamps close together if
  a recording is in progress (it then runs without the claim test).
* "pixel size of pushed JPEGs (caps)" (`mjpegrecorder.h:65`): Streaming is
  announced before the first frame, and a recording begun between the two gets
  640x480 or the size of the camera before; `jpegparse` may correct it.
* "Affects display and snapshots (re-encoded), not video (original JPEGs)"
  (`uppcamera.h`, gain) and "camera JPEGs muxed untouched"
  (`harbour-pipecam.qml:39`): `onSourceFrame` of the recorder re-encodes frames
  when the gain is above 1 or the picture is rolled. A snapshot asks for the gain
  of now, its picture was made with that of its arrival (`capturestore.cpp:119`).
* "Only active when frames are arriving" (`SettingsPage.qml:123`, the
  display is kept on): it goes by the status Streaming, which begins before the
  first frame.
* `m_jpeg` outlives its session: a snapshot after Streaming is announced and
  before the first frame saves a picture of the session before.
* A refused buffer returns before `pollBus` (`mjpegrecorder.cpp:239`), so a
  pipeline that refuses all buffers after an error is noticed by `stop()`.
* Two headers lost in a row of a 640x480 YUYV stream leave as many bytes as one
  frame of 1280x720 has, and of 320x240 as one of 640x360 (SizesAlike). A picture
  that is torn in the middle can also be filled up by short packets that are no
  header: with lengths 2 and 3 known, one stray unit makes TLC find
  FrameOfItsHeader violated. `AssemblerAssumption` leaves both cases out, for
  frames of which nothing was dropped: it says that no run of frames with up to
  `MaxStrays` units more has a known length, which is true of the program's
  lengths with one header lost and fewer than 24 stray packets (SizesApart).


## 7. What is not modelled, and why

* Data: pixels, JPEG contents beyond SOI and EOI, texts, file sizes.
* Brightness gain: one atomic integer; nothing else depends on it.
* Contents of the report, redaction: text from the system and regular
  expressions over it, without state.
* The viewfinder at angles that are no multiple of 90 degrees: needs real
  arithmetic.
* Two cameras on the bus at once while a report is made: the test takes one
  after the other, as it takes one alone.
* Overlay and rotation: pure functions of pixels.
* Why a file of a recording has something in it or not: after an error or a
  timeout either is possible.
* Which part of a line is on the disk after a crash: a line is there or not. The
  note of a full log is not a line of the model.
* systemd's `StopUnit` as a call that returns before the unit has stopped: here
  the helper has ended when it returns, or it failed.
* Other pages, cover, translations, packaging: layout and bindings.
* Time outside StopTiming: elsewhere a timeout is an event that may come at any
  point.
* Frame ids that come round within a gap (`MaxGap + 2 <= FidModulo`): 255 lost
  frames in a row.


## 8. The plan

Order of the modules, most important first: CameraSession, StopTiming,
YuyvStream over TransferPool, MjpegReassembly, YuyvAssembler, Recording,
CaptureStore, Gallery, DiagLog, RootLink, Report over Recording, Viewfinder. All
of them are written, and all their safety properties are proved. Open are:

1. An abstract specification of the root link (a request has one answer, its
   own, or none) and RootLink as an implementation of it; the invariants for it
   are there (`LinkInv`).
2. An abstract specification of the session as the GUI sees it (off, searching,
   connecting, streaming, failed) that CameraSession implements.
3. That `YuyvStream` hands the newest of the frames of a pass to the GUI, in
   terms of the frames of YuyvAssembler.
