------------------------------ MODULE MCReport ------------------------------
(***************************************************************************)
(* One report of the page and one of the command line, with two short      *)
(* recordings, around a camera with two interfaces.                        *)
(***************************************************************************)
EXTENDS Report
=============================================================================
