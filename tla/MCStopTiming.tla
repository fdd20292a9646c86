---------------------------- MODULE MCStopTiming ----------------------------
(***************************************************************************)
(* StopTiming with the limits of the source, in ticks of 100 ms.           *)
(***************************************************************************)
EXTENDS StopTiming
=============================================================================
