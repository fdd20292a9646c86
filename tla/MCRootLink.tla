----------------------------- MODULE MCRootLink -----------------------------
(***************************************************************************)
(* RootLink with two commands, so that a late answer can be taken for the  *)
(* wrong one, and three connections: the app's, a tool's and a stranger's. *)
(***************************************************************************)
EXTENDS RootLink

TwoCommands == {"H", "J"}
=============================================================================
