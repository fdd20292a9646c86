------------------------------- MODULE Report -------------------------------
(***************************************************************************)
(* The diagnostic report (qml/pages/DiagReportPage.qml,                    *)
(* src/diag/diagreport.cpp, src/diag/usbdump.cpp) beside what it meddles   *)
(* with: the camera's worker, which it stops and starts again to test      *)
(* whether the interfaces can be claimed, the recorder of module           *)
(* Recording, and the same program run from the command line (`--report`), *)
(* which does its test whatever the application is doing.                  *)
(*                                                                         *)
(* The page builds the report on the GUI thread: while it does, no frame,  *)
(* no status and no tap of the user is handled.  The worker, the pipeline, *)
(* the other process and the cable go on.                                  *)
(***************************************************************************)
EXTENDS Recording

CONSTANT NIfaces  \* interfaces a camera's driver claims: 2, or 1 of a YUYV one

ASSUME ReportAssumption == NIfaces \in {1, 2}

VARIABLES
    attached,     \* the camera is on the bus
    owner,        \* who has claimed each of its interfaces
    worker,       \* m_worker, and where its thread is
    on,           \* what the user last chose: the camera on or off
    page,         \* "closed" | "open" | "busy" | "building"
    claimSwitch,  \* "Test taking over the camera"
    job,          \* what the handler of buildTimer keeps while it builds
    dump          \* usbdump::dump in the page's process and in the other one

pageVars == <<page, claimSwitch, job>>
session  == <<attached, owner, worker, on, pageVars, dump>>
all      == <<vars, session>>

Ifaces    == 1 .. NIfaces
Processes == {"page", "tool"}
Running   == worker.at # "none"
GuiFree   == source = "alive" /\ page # "building"

\* `lost`: the handle is one of a camera that was unplugged.
NoWorker  == [at |-> "none", lost |-> FALSE]
Searching == [at |-> "search", lost |-> FALSE]
NoDump    == [at |-> "idle", next |-> 1, lost |-> FALSE]
NoState   == [running |-> FALSE, recording |-> FALSE]
NoJob     == [claimTest |-> FALSE, wasRunning |-> FALSE, state |-> NoState]

SessionTypeOK ==
    /\ attached \in BOOLEAN
    /\ owner \in [Ifaces -> {"free", "worker"} \union Processes]
    /\ worker \in [at : {"none", "search", "claim", "stream"}, lost : BOOLEAN]
    /\ on \in BOOLEAN /\ claimSwitch \in BOOLEAN
    /\ page \in {"closed", "open", "busy", "building"}
    /\ job \in [claimTest : BOOLEAN, wasRunning : BOOLEAN,
                state : [running : BOOLEAN, recording : BOOLEAN]]
    /\ dump \in [Processes -> [at : {"idle", "listing", "testing", "claimed", "done"},
                               next : 1 .. NIfaces + 1, lost : BOOLEAN]]

ReportTypeOK == TypeOK /\ SessionTypeOK

\* The application has started the camera when it is complete.
ReportInit ==
    /\ Init
    /\ attached = TRUE /\ owner = [i \in Ifaces |-> "free"]
    /\ worker = Searching /\ on = TRUE
    /\ page = "closed" /\ claimSwitch = TRUE /\ job = NoJob
    /\ dump = [p \in Processes |-> NoDump]

-----------------------------------------------------------------------------
(***************************************************************************)
(* The kernel's side: an interface has one owner; the claims of a handle   *)
(* go with the handle, and all of them with the device.                    *)
(***************************************************************************)
Without(who) == [i \in Ifaces |-> IF owner[i] = who THEN "free" ELSE owner[i]]

Unplug ==
    /\ attached /\ attached' = FALSE
    /\ owner' = [i \in Ifaces |-> "free"]
    /\ worker' = [at |-> worker.at, lost |-> worker.at \in {"claim", "stream"}]
    /\ dump' = [p \in Processes |->
                  [at |-> dump[p].at, next |-> dump[p].next,
                   lost |-> dump[p].at \in {"testing", "claimed"}]]
    /\ UNCHANGED <<vars, on, pageVars>>

Plug ==
    /\ ~attached /\ attached' = TRUE
    /\ UNCHANGED <<vars, owner, worker, on, pageVars, dump>>

-----------------------------------------------------------------------------
(***************************************************************************)
(* The worker's thread, as far as it meets the report (module              *)
(* CameraSession has it whole): it looks for the camera, claims one        *)
(* interface after the other, and streams until the camera is lost.  A     *)
(* claim refused gives all of them back, and the search goes on.           *)
(***************************************************************************)
WorkerFinds ==
    /\ worker.at = "search" /\ attached
    /\ worker' = [at |-> "claim", lost |-> FALSE]
    /\ UNCHANGED <<vars, attached, owner, on, pageVars, dump>>

Held == {i \in Ifaces : owner[i] = "worker"}

WorkerClaims ==
    /\ worker.at = "claim"
    /\ LET i == IF 1 \in Held THEN 2 ELSE 1
       IN  \/ /\ Held = Ifaces
              /\ worker' = [at |-> "stream", lost |-> worker.lost]
              /\ UNCHANGED owner
           \/ /\ Held # Ifaces /\ ~worker.lost /\ owner[i] = "free"
              /\ owner' = [owner EXCEPT ![i] = "worker"] /\ UNCHANGED worker
           \/ /\ Held # Ifaces /\ (worker.lost \/ owner[i] # "free")
              /\ worker' = Searching /\ owner' = Without("worker")
    /\ UNCHANGED <<vars, attached, on, pageVars, dump>>

WorkerLoses ==
    /\ worker.at = "stream" /\ worker.lost
    /\ worker' = Searching
    /\ UNCHANGED <<vars, attached, owner, on, pageVars, dump>>

\* UppCamera::stop joins the thread, which closes its handle.
StopCamera ==
    /\ worker' = NoWorker /\ owner' = Without("worker")
    /\ streaming' = FALSE

-----------------------------------------------------------------------------
(***************************************************************************)
(* usbdump::dump in a process: the devices are listed, a camera among them *)
(* is opened, and each interface is claimed and released at once.  Every   *)
(* call may fail.                                                          *)
(***************************************************************************)
WithTest(p) == p = "tool" \/ job.claimTest

DumpIs(p, at, next) ==
    dump' = [dump EXCEPT ![p] = [at |-> at, next |-> next, lost |-> dump[p].lost]]

\* libusb_init, libusb_get_device_list, and libusb_open if a camera is there;
\* without a handle there is no test.
DumpLists(p) ==
    /\ dump[p].at = "listing"
    /\ \/ DumpIs(p, "done", 1)
       \/ attached /\ WithTest(p) /\ DumpIs(p, "testing", 1)
    /\ UNCHANGED <<vars, attached, owner, worker, on, pageVars>>

\* libusb_claim_interface of the next interface, and libusb_close after the last.
DumpClaims(p) ==
    LET i == dump[p].next
    IN  /\ dump[p].at = "testing"
        /\ \/ /\ i \in Ifaces /\ ~dump[p].lost /\ owner[i] = "free"
              /\ owner' = [owner EXCEPT ![i] = p]
              /\ DumpIs(p, "claimed", i + 1)
           \/ /\ i \in Ifaces /\ (dump[p].lost \/ owner[i] # "free")
              /\ DumpIs(p, "testing", i + 1)
              /\ UNCHANGED owner
           \/ /\ i \notin Ifaces
              /\ DumpIs(p, "done", 1)
              /\ UNCHANGED owner
        /\ UNCHANGED <<vars, attached, worker, on, pageVars>>

DumpReleases(p) ==
    /\ dump[p].at = "claimed"
    /\ DumpIs(p, "testing", dump[p].next)
    /\ owner' = Without(p)
    /\ UNCHANGED <<vars, attached, worker, on, pageVars>>

Dump(p) == DumpLists(p) \/ DumpClaims(p) \/ DumpReleases(p)

\* reportMain; the process may also be killed, and its handle closed for it.
ToolStarts ==
    /\ dump["tool"].at = "idle"
    /\ DumpIs("tool", "listing", 1)
    /\ UNCHANGED <<vars, attached, owner, worker, on, pageVars>>

ToolEnds ==
    /\ dump["tool"].at # "idle"
    /\ dump' = [dump EXCEPT !["tool"] = NoDump] /\ owner' = Without("tool")
    /\ UNCHANGED <<vars, attached, worker, on, pageVars>>

-----------------------------------------------------------------------------
(***************************************************************************)
(* The GUI thread.                                                         *)
(***************************************************************************)
\* The recorder, what the gallery does with its file, and the queued signals of
\* the worker, which are dropped once it is stopped (onStatusChanged,
\* onFrameReady).
RecorderSteps ==
    /\ GuiFree
    /\ \/ StartRecording \/ StopRecording \/ FileTaken
       \/ Running /\ StatusChanges
       \/ Running /\ \E size \in Sizes : FrameReady(size)
    /\ UNCHANGED session

\* Meanwhile, in any thread.
TimePasses == (Tick \/ PipelineFails) /\ UNCHANGED session

\* "Camera on" in the settings.
SwitchCamera ==
    /\ GuiFree /\ page = "closed"
    /\ on' = ~Running
    /\ IF Running THEN StopCamera
       ELSE worker' = Searching /\ UNCHANGED <<owner, streaming>>
    /\ UNCHANGED <<source, frameSize, now, pipe, bus, times, buffers, lastError,
                   finished, begun, attached, pageVars, dump>>

\* The window is destroyed: the recording is finalised, the camera stopped, and
\* the page is gone, with a report that was still to be made.
CloseApplication ==
    /\ GuiFree
    /\ SourceDestroyed
    /\ worker' = NoWorker /\ owner' = Without("worker")
    /\ on' = FALSE /\ page' = "closed"
    /\ UNCHANGED <<attached, claimSwitch, job, dump>>

OpenPage ==
    /\ GuiFree /\ page = "closed"
    /\ page' = "open" /\ claimSwitch' = TRUE
    /\ UNCHANGED <<vars, attached, owner, worker, on, job, dump>>

\* Leaving the page stops its timer.
LeavePage ==
    /\ GuiFree /\ page \in {"open", "busy"}
    /\ page' = "closed"
    /\ UNCHANGED <<vars, attached, owner, worker, on, claimSwitch, job, dump>>

\* The switch cannot be touched while recording.
SwitchTest ==
    /\ GuiFree /\ page \in {"open", "busy"} /\ ~Recorded
    /\ claimSwitch' = ~claimSwitch
    /\ UNCHANGED <<vars, attached, owner, worker, on, page, job, dump>>

\* generate(): the report is built 50 ms later.
Generate ==
    /\ GuiFree /\ page = "open"
    /\ page' = "busy"
    /\ UNCHANGED <<vars, attached, owner, worker, on, claimSwitch, job, dump>>

\* onTriggered, until build() has the dump to do: appState(), the decision on
\* the test, and the stop.
\* Faulty variant first: the test is not skipped for a recording, which may
\* have begun since the button was pressed.
Plan_Recording == [claimTest |-> claimSwitch, wasRunning |-> Running,
                   state |-> [running |-> Running, recording |-> Recorded]]

Plan == [claimTest |-> claimSwitch /\ ~Recorded, wasRunning |-> Running,
         state |-> [running |-> Running, recording |-> Recorded]]

BuildTimer ==
    /\ GuiFree /\ page = "busy"
    /\ page' = "building" /\ job' = Plan
    /\ DumpIs("page", "listing", 1)
    /\ IF job'.claimTest /\ job'.wasRunning THEN StopCamera
       ELSE UNCHANGED <<worker, owner, streaming>>
    /\ UNCHANGED <<source, frameSize, now, pipe, bus, times, buffers, lastError,
                   finished, begun, attached, on, claimSwitch>>

\* The rest of build(), whose root parts are module RootLink's, and of the
\* handler: the camera is on again if it was.
\* Faulty variant first: it is on after every test.
Resume_Always == IF job.claimTest THEN worker' = Searching ELSE UNCHANGED worker

Resume == IF job.claimTest /\ job.wasRunning THEN worker' = Searching
          ELSE UNCHANGED worker

ReportBuilt ==
    /\ page = "building" /\ dump["page"].at = "done"
    /\ dump' = [dump EXCEPT !["page"] = NoDump]
    /\ Resume
    /\ page' = "open" /\ job' = NoJob
    /\ UNCHANGED <<vars, attached, owner, on, claimSwitch>>

-----------------------------------------------------------------------------
Worker == WorkerFinds \/ WorkerClaims \/ WorkerLoses

ReportNext ==
    \/ Unplug \/ Plug \/ Worker
    \/ \E p \in Processes : Dump(p)
    \/ ToolStarts \/ ToolEnds
    \/ RecorderSteps \/ TimePasses
    \/ SwitchCamera \/ CloseApplication
    \/ OpenPage \/ LeavePage \/ SwitchTest \/ Generate \/ BuildTimer \/ ReportBuilt

ReportSpec == ReportInit /\ [][ReportNext]_all

-----------------------------------------------------------------------------
\* The test of the page asks "whether something else is holding them": while it
\* runs, this application has no interface and no recording, so that BUSY can
\* only come from somebody else, and nobody's recording is starved by it.
TestedAlone ==
    page = "building" /\ job.claimTest =>
        /\ ~Running /\ ~Recorded
        /\ \A i \in Ifaces : owner[i] # "worker"

\* Whatever is reported, and whatever the user did before, the camera is on
\* whenever he had it on, and off whenever he had it off.
OnAsChosen == GuiFree => (Running <=> on)

\* A report tells of the camera and the recorder as they are for the user,
\* although the camera is stopped for it.
ReportTellsState ==
    page = "building" =>
        job.state = [running |-> on, recording |-> Recorded]
=============================================================================
