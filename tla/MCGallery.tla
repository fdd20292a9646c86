------------------------------ MODULE MCGallery ------------------------------
(***************************************************************************)
(* The gallery with two captures in a second and one name to rename to.    *)
(***************************************************************************)
EXTENDS Gallery

Names == {11}
=============================================================================
