------------------------------- MODULE Gallery -------------------------------
(***************************************************************************)
(* The pages that delete and rename captures (qml/pages/GalleryPage.qml,   *)
(* CaptureViewPage.qml, RenameDialog.qml) over the list they show.         *)
(*                                                                         *)
(* Both operations begin with a row the user sees and end in another event *)
(* of the GUI thread: when the remorse popup runs out, or when the dialog  *)
(* is accepted.  In between the cable button takes snapshots and starts or *)
(* ends recordings, and the gallery is refreshed.                          *)
(***************************************************************************)
EXTENDS CaptureStore

VARIABLE
    chosen   \* the operation under way: its row, and the file it was chosen for

gvars == <<vars, chosen>>

Nothing == [op |-> "none", row |-> 0, path |-> NoPath]

GalleryInit == Init /\ chosen = Nothing

\* The row is kept when Delete or Rename is tapped, and the path is what the
\* user chose; the program does not keep it.
Choose(op, i) ==
    /\ chosen = Nothing
    /\ i \in 1 .. Len(items)
    /\ chosen' = [op |-> op, row |-> i, path |-> items[i].path]
    /\ UNCHANGED vars

Cancel ==
    /\ chosen # Nothing
    /\ chosen' = Nothing
    /\ UNCHANGED vars

\* The popup has run out: remove(row), which refuses a row that is gone.
DeleteChosen ==
    /\ chosen.op = "delete"
    /\ RemoveRow(chosen.row) \/ (chosen.row > Len(items) /\ UNCHANGED vars)
    /\ chosen' = Nothing

\* The dialog is accepted: rename(row, name), which also refuses a name in use.
RenameChosen ==
    /\ chosen.op = "rename"
    /\ \/ \E name \in UserNames : RenameRow(chosen.row, name)
       \/ chosen.row > Len(items) /\ UNCHANGED vars
    /\ chosen' = Nothing

\* Everything else that happens to the list and the files meanwhile.
Meanwhile == (Tick \/ Camera \/ Refresh) /\ UNCHANGED chosen

GalleryNext ==
    \/ \E i \in 1 .. Len(items) : Choose("delete", i) \/ Choose("rename", i)
    \/ Cancel \/ DeleteChosen \/ RenameChosen
    \/ Meanwhile

GallerySpec == GalleryInit /\ [][GalleryNext]_gvars

-----------------------------------------------------------------------------
\* The file a delete or a rename takes away is the one the user chose it for
\* ("Capture the row now: model.index shifts before this runs",
\* GalleryPage.qml).
ActsOnChosenFile ==
    [][\A p \in OnDisk : p \notin OnDisk' => p = chosen.path]_gvars
=============================================================================
