---------------------------- MODULE MCYuyvStream ----------------------------
(***************************************************************************)
(* A small instance of YuyvStream: three transfers, so that in one pass    *)
(* one fails, one is resubmitted and one stays out.                        *)
(***************************************************************************)
EXTENDS YuyvStream

ThreeTransfers == {"t1", "t2", "t3"}
=============================================================================
