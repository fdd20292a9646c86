----------------------------- MODULE WorkerOrder -----------------------------
(***************************************************************************)
(* What UppCameraWorker::run promises of its order.  A worker makes one    *)
(* attempt after the other; an attempt opens the camera, gives it the      *)
(* commands of its variant, lets it settle and streams.  It can fail at    *)
(* any step but the settling, and the request to stop, which may come at   *)
(* any time, ends the worker before another attempt is begun.              *)
(*                                                                         *)
(* CameraSession and StopTiming both have this order, the one with what    *)
(* the steps do, the other with the time they take.                        *)
(***************************************************************************)
VARIABLES
    phase,   \* off, starting, between (two attempts), opening, init, connect,
             \* cameraUp, settling, streaming, done
    stop     \* m_stop

vars == <<phase, stop>>

\* Off, or with a worker in its loop already.
Init == phase \in {"off", "between"} /\ stop = FALSE

\* A step of the worker, during which the request may come: a request is never
\* taken back while the worker is there.
Moves(from, to) ==
    /\ phase \in from /\ phase' \in to
    /\ stop => stop'

Request == Moves({phase}, {phase})

Start ==
    /\ phase = "off" /\ phase' = "starting"
    /\ stop' = FALSE

\* Without libusb there is nothing to attempt.
Initialise == Moves({"starting"}, {"between", "done"})

Begin == ~stop /\ Moves({"between"}, {"opening"})

Command ==
    \/ Moves({"opening"}, {"init", "cameraUp"})
    \/ Moves({"init"}, {"connect"})
    \/ Moves({"connect", "cameraUp"}, {"settling"})

Stream == Moves({"settling"}, {"streaming"})

\* An attempt ends when it fails, and a stream when it fails or is stopped.
Ends == Moves({"opening", "init", "connect", "cameraUp", "streaming"}, {"between"})

\* The loop is left on request only, and the worker deleted when it has ended.
Leave   == stop /\ Moves({"between"}, {"done"})
Deleted == stop /\ Moves({"done"}, {"off"})

Next ==
    \/ Request \/ Start \/ Initialise \/ Begin \/ Command \/ Stream
    \/ Ends \/ Leave \/ Deleted

Spec == Init /\ [][Next]_vars
=============================================================================
