----------------------------- MODULE MCDiagLog -----------------------------
(***************************************************************************)
(* DiagLog with the GUI thread and a worker thread, a ring of two lines    *)
(* and a file of three.                                                    *)
(***************************************************************************)
EXTENDS DiagLog

TwoThreads == {"gui", "worker"}
GuiThread  == "gui"
=============================================================================
