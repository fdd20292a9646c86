----------------------------- MODULE StopTiming -----------------------------
(***************************************************************************)
(* How long UppCamera::stop can block the GUI thread.                      *)
(*                                                                         *)
(* The worker reads m_stop only between blocking calls, and not at all     *)
(* inside a handshake, so a request waits for the rest of the call in      *)
(* progress and for everything up to the next place that reads the flag.   *)
(* Time is counted in ticks of 100 ms.  A call with a time limit takes     *)
(* anything from nothing to its limit; the calls without one of their own  *)
(* (open, claim, set_configuration, clear_halt, alternate settings, close) *)
(* are taken as immediate.                                                 *)
(*                                                                         *)
(* The strings of the camera, which run() reads for the device page before *)
(* it begins the handshake, are control transfers of libusb with a limit   *)
(* of 1 s each, two for a string: its languages, then the string.          *)
(***************************************************************************)
EXTENDS Naturals

CONSTANTS
    StringReads,  \* control transfers that read the strings of the camera
    DrainReads,   \* reads that empty the iAP endpoint, 100 ms each
    CallLimit,    \* limit of a control transfer, bulk command or stream read
    ReapLimit,    \* limit of the wait for cancelled transfers
    StopWait,     \* w->wait() in stop()
    DeleteWait    \* wait() in the destructor of the worker

ASSUME LimitsAssumption ==
    /\ StringReads \in Nat /\ DrainReads \in Nat \ {0}
    /\ CallLimit \in Nat /\ ReapLimit \in Nat
    /\ StopWait \in Nat /\ DeleteWait \in Nat

Variant == {"mjpeg", "yuyv"}

VARIABLES
    pc,       \* the blocking call the worker is in
    variant,
    reads,    \* reads of the strings or of the drain done so far
    stop,     \* m_stop
    since,    \* ticks since the request
    asked     \* the call that was in progress at the request

vars == <<pc, variant, reads, stop, since, asked>>

CameraUpSettle == 2   \* yuyv::CAMERA_UP_SETTLE_MS
ConnectSettle  == 3   \* msleep(300) before Streaming
EventWait      == 1   \* tv of handle_events_timeout
RetrySlice     == 1   \* RETRY_DELAY_MS in slices

Step == {"loop", "retry", "strings", "drain", "init", "connect", "getinfo", "cameraUp",
         "upSettle", "settle", "read", "events", "reap", "cameraDown", "done"}

TypeOK ==
    /\ pc \in Step
    /\ variant \in Variant
    /\ reads \in Nat
    /\ stop \in {0, 1}
    /\ since \in Nat
    /\ asked \in Step \union {"none"}

Init ==
    /\ pc = "loop" /\ variant \in Variant
    /\ reads = 0 /\ stop = 0 /\ since = 0 /\ asked = "none"

\* A call that takes at most `limit` ticks.  The request may arrive during it,
\* when some rest of the call is still to come.
Blocking(limit) ==
    \/ stop = 0 /\ UNCHANGED <<stop, since, asked>>
    \/ stop = 0 /\ stop' = 1 /\ since' \in 0 .. limit /\ asked' = pc
    \/ stop = 1 /\ since' \in since .. (since + limit) /\ UNCHANGED <<stop, asked>>

Call(from, limit, next) ==
    /\ pc = from
    /\ Blocking(limit)
    /\ pc' \in next
    /\ UNCHANGED <<variant, reads>>

\* The loop of run(): stop is read; a camera is absent, or found, and its
\* variant detected.
\* Faulty variant first: m_stop is not read between two attempts.
LoopHead_NoStopCheck ==
    /\ pc = "loop"
    /\ variant' \in Variant
    /\ reads' = 0
    /\ pc' \in {"retry", "strings"}
    /\ UNCHANGED <<stop, since, asked>>

LoopHead ==
    /\ pc = "loop"
    /\ variant' \in Variant
    /\ reads' = 0
    /\ pc' \in IF stop = 1 THEN {"done"} ELSE {"retry", "strings"}
    /\ UNCHANGED <<stop, since, asked>>

\* collectDeviceInfo: each string that the camera has is read, or fails.
ReadString ==
    /\ pc = "strings" /\ reads < StringReads
    /\ Blocking(CallLimit)
    /\ reads' = reads + 1
    /\ UNCHANGED <<pc, variant>>

\* The variant decides which handshake follows; an unknown one is refused, and
\* so is a camera whose interfaces cannot be claimed.
HandshakeBegins ==
    /\ pc = "strings"
    /\ pc' \in {"retry", IF variant = "mjpeg" THEN "drain" ELSE "getinfo"}
    /\ reads' = 0
    /\ UNCHANGED <<variant, stop, since, asked>>

\* The sleep between two attempts reads m_stop before each slice.
Retry ==
    \/ stop = 0 /\ Call("retry", RetrySlice, {"retry", "loop"})
    \/ stop = 1 /\ Call("retry", 0, {"loop"})

\* handshakeMjpeg: the drain ends with the first read that fails, then INIT
\* and CONNECT, each of which may fail.
Drain ==
    /\ pc = "drain"
    /\ Blocking(1)
    /\ \/ reads + 1 < DrainReads /\ pc' = pc /\ reads' = reads + 1
       \/ pc' \in {"init", "retry"} /\ UNCHANGED reads
    /\ UNCHANGED variant

InitCmd    == Call("init", CallLimit, {"connect", "retry"})
ConnectCmd == Call("connect", CallLimit, {"settle", "retry"})

\* handshakeYuyv: getinfo (its failure is ignored), camera_up, 200 ms.
GetInfo    == Call("getinfo", CallLimit, {"cameraUp"})
CameraUp   == Call("cameraUp", CallLimit, {"upSettle", "retry"})
UpSettle   == Call("upSettle", CameraUpSettle, {"settle"})

\* 300 ms in run(), then the stream loop of the variant.
Settle == Call("settle", ConnectSettle,
               {IF variant = "mjpeg" THEN "read" ELSE "events"})

\* streamLoopMjpeg: one bulk read per turn, back to the loop on stop or error;
\* its teardown has no timed call.
MjpegRead ==
    \/ stop = 0 /\ Call("read", CallLimit, {"read", "loop"})
    \/ stop = 1 /\ Call("read", 0, {"loop"})

\* streamLoopYuyv: one pass over the USB events per turn; cancelled transfers
\* are awaited, and teardown sends camera_down.
YuyvEvents ==
    \/ stop = 0 /\ Call("events", EventWait, {"events", "reap"})
    \/ stop = 1 /\ Call("events", 0, {"reap"})
\* Faulty variant of Reap: no limit on the wait for the transfers.
Reap_Unlimited == Call("reap", ReapLimit, {"reap", "cameraDown"})

Reap       == Call("reap", ReapLimit, {"cameraDown"})
CameraDown == Call("cameraDown", CallLimit, {"loop"})

\* stop() may also be called between two calls of the worker.
Request ==
    /\ stop = 0 /\ pc # "done"
    /\ stop' = 1 /\ since' = 0 /\ asked' = pc
    /\ UNCHANGED <<pc, variant, reads>>

Next ==
    \/ LoopHead \/ Retry
    \/ ReadString \/ HandshakeBegins
    \/ Drain \/ InitCmd \/ ConnectCmd
    \/ GetInfo \/ CameraUp \/ UpSettle
    \/ Settle \/ MjpegRead
    \/ YuyvEvents \/ Reap \/ CameraDown
    \/ Request

Spec == Init /\ [][Next]_vars

-----------------------------------------------------------------------------
\* The thread object is not destroyed while its thread runs (Qt aborts the
\* program if it is): stop() waits StopWait and its delete waits DeleteWait, and
\* the longest way out of any handshake and any stream is within the two.  It
\* is not if the worker still has to read the strings and shake hands.
EndsBeforeDestroyed == asked # "strings" => since <= StopWait + DeleteWait

\* The calls are made in the order WorkerOrder has.  The pause after camera_up
\* is part of the settling here; the wait for cancelled transfers and
\* camera_down belong to the stream.
Order == INSTANCE WorkerOrder
    WITH stop  <- stop = 1,
         phase <- CASE pc \in {"loop", "retry"}               -> "between"
                    [] pc \in {"strings", "drain", "getinfo"} -> "opening"
                    [] pc \in {"upSettle", "settle"}          -> "settling"
                    [] pc \in {"read", "events", "reap",
                               "cameraDown"}                  -> "streaming"
                    [] OTHER                                  -> pc

\* A request ends the worker with no attempt begun after it, and no command is
\* left out, repeated or exchanged on the way to a stream: the way out that is
\* timed here is the one that the worker of CameraSession takes.
OrderSpec == Order!Spec
=============================================================================
