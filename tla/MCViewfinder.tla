---------------------------- MODULE MCViewfinder ----------------------------
(***************************************************************************)
(* Frames of 640x480 and of 640x360 in an item that is laid out upright    *)
(* first and then across.  Sizes are chosen so that every division in the  *)
(* geometry is exact.                                                      *)
(***************************************************************************)
EXTENDS Viewfinder

FrameSizes == {<<4, 3>>, <<16, 9>>}
VGA        == <<4, 3>>
Layouts    == {<<0, 0>>, <<288, 576>>, <<576, 288>>}
Distances  == {<<120, 0>>, <<-40, 90>>}
=============================================================================
