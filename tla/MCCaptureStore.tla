--------------------------- MODULE MCCaptureStore ---------------------------
(***************************************************************************)
(* CaptureStore with seconds in which two captures fall, and two names to  *)
(* rename to, which are no seconds.                                        *)
(***************************************************************************)
EXTENDS CaptureStore

Names == {11, 12}
=============================================================================
