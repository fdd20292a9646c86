----------------------------- MODULE TransferPool -----------------------------
(***************************************************************************)
(* What the YUYV stream owes libusb: a transfer is submitted only while    *)
(* the stream is open, and memory that USB may still write to is never     *)
(* freed.  The stream ends with its transfers freed, all of them back, or  *)
(* leaked, some of them still out; those may come back later, into memory  *)
(* that is still there.                                                    *)
(***************************************************************************)
CONSTANT Transfers

VARIABLES
    owner,   \* of a transfer: "app", "usb", "done" while its callback is
             \* still to come, "nobody" once it is freed
    phase    \* open, closing, freed or leaked

vars == <<owner, phase>>

Init == owner = [t \in Transfers |-> "app"] /\ phase = "open"

Moves(t, from, to) ==
    /\ owner[t] \in from
    /\ owner' = [owner EXCEPT ![t] = to]
    /\ UNCHANGED phase

\* A callback submits its transfer again, or leaves it to the app.
Submit(t) == phase = "open" /\ Moves(t, {"app", "done"}, "usb")
Finish(t) == Moves(t, {"usb"}, "done")
Return(t) == Moves(t, {"done"}, "app")

Close ==
    /\ phase = "open" /\ phase' = "closing"
    /\ UNCHANGED owner

Free ==
    /\ phase = "closing" /\ phase' = "freed"
    /\ \A t \in Transfers : owner[t] = "app"
    /\ owner' = [t \in Transfers |-> "nobody"]

Leak ==
    /\ phase = "closing" /\ phase' = "leaked"
    /\ \E t \in Transfers : owner[t] # "app"
    /\ UNCHANGED owner

Next ==
    \/ \E t \in Transfers : Submit(t) \/ Finish(t) \/ Return(t)
    \/ Close \/ Free \/ Leak

Spec == Init /\ [][Next]_vars
=============================================================================
