--------------------------- MODULE MCYuyvAssembler ---------------------------
(***************************************************************************)
(* YuyvAssembler with frames of two units, where one unit is a known       *)
(* length as well, and an accumulator that overflows in the second frame   *)
(* without a header.                                                       *)
(***************************************************************************)
EXTENDS YuyvAssembler

Known == {1, 2}
=============================================================================
