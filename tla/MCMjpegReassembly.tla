-------------------------- MODULE MCMjpegReassembly --------------------------
(***************************************************************************)
(* MjpegReassembly with frames of up to four packets, an accumulator that  *)
(* holds two, and the fewest frame ids that a gap of one packet allows.    *)
(***************************************************************************)
EXTENDS MjpegReassembly
=============================================================================
