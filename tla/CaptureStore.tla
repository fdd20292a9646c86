---------------------------- MODULE CaptureStore ----------------------------
(***************************************************************************)
(* The list of captures and the files it stands for                        *)
(* (src/app/capturestore.cpp), with the video the recorder is writing.     *)
(*                                                                         *)
(* A path is the second it was made in, the suffix that makes it unique    *)
(* within the second, and its kind; a renamed capture has one of a few     *)
(* names of the user's choice instead of the second.  A file is its time   *)
(* of last modification; 0 is no file.                                     *)
(***************************************************************************)
EXTENDS Naturals, Sequences, FiniteSets

CONSTANTS
    UserNames,  \* names typed in the rename dialog
    MaxClock,   \* bound: seconds that pass
    MaxSuffix,  \* bound: captures of one kind with the same stamp
    MaxFiles    \* bound: files made altogether

ASSUME StoreAssumption ==
    /\ MaxClock \in Nat \ {0} /\ MaxSuffix \in Nat /\ MaxFiles \in Nat
    /\ UserNames \intersect (1 .. MaxClock) = {}

VARIABLES
    disk,         \* modification time of the file at each path
    items,        \* m_items: rows of path and time, as read when listed
    lastCapture,  \* m_lastCapturePath
    recording,    \* path given to the recorder
    recFile,      \* where the file it writes is now: it may be renamed
    clock,
    made          \* files made so far

vars == <<disk, items, lastCapture, recording, recFile, clock, made>>

NoPath == [stem |-> 0, n |-> 0, kind |-> "none"]
Path   == [stem : (1 .. MaxClock) \union UserNames, n : 1 .. MaxSuffix,
           kind : {"jpg", "mp4"}]
Row    == [path : Path, time : Nat]

Exists(p) == disk[p] # 0
OnDisk    == {p \in Path : Exists(p)}
RowOf(p)  == [path |-> p, time |-> disk[p]]
Newest(s) == IF s = <<>> THEN NoPath ELSE Head(s).path

TypeOK ==
    /\ disk \in [Path -> Nat]
    /\ items \in Seq(Row)
    /\ lastCapture \in Path \union {NoPath}
    /\ recording \in Path \union {NoPath}
    /\ recFile \in Path \union {NoPath}
    /\ clock \in 1 .. MaxClock /\ made \in Nat

Init ==
    /\ disk = [p \in Path |-> 0]
    /\ items = <<>> /\ lastCapture = NoPath
    /\ recording = NoPath /\ recFile = NoPath
    /\ clock = 1 /\ made = 0

\* makePath: the first of the names of this second that no file has.  The
\* code stops looking at suffix 999, which no second of captures reaches.
IsFreshPath(p, kind) ==
    /\ p.stem = clock /\ p.kind = kind
    /\ ~Exists(p)
    /\ \A n \in 1 .. (p.n - 1) : Exists([p EXCEPT !.n = n])

Without(s, i) == SubSeq(s, 1, i - 1) \o SubSeq(s, i + 1, Len(s))

\* insertItem: a new first row, with the time the file has now.
\* Faulty variant first: the row goes to the end.
InsertItem_AtEnd(s, p, time) ==
    /\ items' = Append(s, [path |-> p, time |-> time])
    /\ lastCapture' = p

InsertItem(s, p, time) ==
    /\ items' = <<[path |-> p, time |-> time]>> \o s
    /\ lastCapture' = p

Tick ==
    /\ clock < MaxClock
    /\ clock' = clock + 1
    /\ UNCHANGED <<disk, items, lastCapture, recording, recFile, made>>

-----------------------------------------------------------------------------
\* saveSnapshot, when the file is written; a file that cannot be opened, or is
\* cut short and removed again, leaves everything as it was.
SaveSnapshot ==
    /\ made < MaxFiles
    /\ \E p \in Path :
          /\ IsFreshPath(p, "jpg")
          /\ disk' = [disk EXCEPT ![p] = clock]
          /\ InsertItem(items, p, clock)
    /\ made' = made + 1
    /\ UNCHANGED <<recording, recFile, clock>>

\* saveSnapshot with a stamp, rotation or gain, when QImage::save fails after
\* it created the file: the file stays, and no row is added.
SaveSnapshotFails ==
    /\ made < MaxFiles
    /\ \E p \in Path :
          /\ IsFreshPath(p, "jpg")
          /\ disk' = [disk EXCEPT ![p] = clock]
    /\ made' = made + 1
    /\ UNCHANGED <<items, lastCapture, recording, recFile, clock>>

\* newVideoPath, and the recorder that creates the file.
StartRecording ==
    /\ recording = NoPath /\ made < MaxFiles
    /\ \E p \in Path :
          /\ IsFreshPath(p, "mp4")
          /\ disk' = [disk EXCEPT ![p] = clock]
          /\ recording' = p /\ recFile' = p
    /\ made' = made + 1
    /\ UNCHANGED <<items, lastCapture, clock>>

\* The recorder writes to the file wherever it is now.
Written == IF recFile = NoPath THEN disk ELSE [disk EXCEPT ![recFile] = clock]

RecorderWrites ==
    /\ recFile # NoPath /\ disk[recFile] # clock
    /\ disk' = Written
    /\ UNCHANGED <<items, lastCapture, recording, recFile, clock, made>>

\* registerCapture: a path that is listed already moves to the front.
\* Faulty variant first: the row that refresh() may have made is not looked for.
RegisterCapture_Twice(p, time) == InsertItem(items, p, time)

RegisterCapture(p, time) ==
    \/ /\ \A i \in 1 .. Len(items) : items[i].path # p
       /\ InsertItem(items, p, time)
    \/ \E i \in 1 .. Len(items) :
          /\ items[i].path = p
          /\ \A j \in 1 .. (i - 1) : items[j].path # p
          /\ InsertItem(Without(items, i), p, time)

\* MjpegRecorder::stop: the index is written if the end of the stream gets
\* through in time (Written), and the path the recorder was given is reported
\* unless no frame was written to it; registerCapture does nothing for a
\* missing file.
\* Faulty variant first: the file is taken to be where the recorder put it.
StopRecording_Unchecked ==
    /\ recording # NoPath
    /\ disk' \in {disk, Written}
    /\ \/ RegisterCapture(recording, disk'[recording])
       \/ UNCHANGED <<items, lastCapture>>
    /\ recording' = NoPath /\ recFile' = NoPath
    /\ UNCHANGED <<clock, made>>

StopRecording ==
    /\ recording # NoPath
    /\ disk' \in {disk, Written}
    /\ \/ Exists(recording) /\ RegisterCapture(recording, disk'[recording])
       \/ UNCHANGED <<items, lastCapture>>
    /\ recording' = NoPath /\ recFile' = NoPath
    /\ UNCHANGED <<clock, made>>

\* A pipeline error ends a recording without a word to the store (pollBus).
RecordingFails ==
    /\ recording # NoPath
    /\ recording' = NoPath /\ recFile' = NoPath
    /\ UNCHANGED <<disk, items, lastCapture, clock, made>>

\* remove: the file, then its row; a file that is gone already only loses its
\* row, and nothing changes if the file cannot be deleted.
RemoveRow(i) ==
    /\ i \in 1 .. Len(items)
    /\ disk' = [disk EXCEPT ![items[i].path] = 0]
    /\ items' = Without(items, i)
    /\ lastCapture' = IF lastCapture = items[i].path THEN Newest(items')
                                                     ELSE lastCapture
    /\ recFile' = IF recFile = items[i].path THEN NoPath ELSE recFile
    /\ UNCHANGED <<recording, clock, made>>

MoveFile(from, to) ==
    /\ disk' = [disk EXCEPT ![to] = disk[from], ![from] = 0]
    /\ lastCapture' = IF lastCapture = from THEN to ELSE lastCapture
    /\ recFile' = IF recFile = from THEN to ELSE recFile

Renamed(p, name) == [stem |-> name, n |-> 1, kind |-> p.kind]

\* rename: refused when the target exists or the file does not.
\* Faulty variants first: an existing target is not refused; the extension of
\* the file is lost.
RenameRow_Over(i, name) ==
    /\ i \in 1 .. Len(items)
    /\ LET from == items[i].path
           to   == Renamed(from, name)
       IN  /\ from # to /\ Exists(from)
           /\ MoveFile(from, to)
           /\ items' = [items EXCEPT ![i].path = to]
    /\ UNCHANGED <<recording, clock, made>>

RenameRow(i, name) ==
    /\ i \in 1 .. Len(items)
    /\ LET from == items[i].path
           to   == Renamed(from, name)
       IN  /\ from # to /\ ~Exists(to) /\ Exists(from)
           /\ MoveFile(from, to)
           /\ items' = [items EXCEPT ![i].path = to]
    /\ UNCHANGED <<recording, clock, made>>

\* refresh: one row per file, later times first; files of the same time are
\* in the order of the directory listing, which is left open.
Listings ==
    {s \in UNION {[1 .. n -> {RowOf(p) : p \in OnDisk}] : n \in 0 .. MaxFiles} :
        /\ \A p \in OnDisk : \E i \in DOMAIN s : s[i].path = p
        /\ \A i, j \in DOMAIN s : i # j => s[i].path # s[j].path
        /\ \A i, j \in DOMAIN s : i < j => s[i].time >= s[j].time}

Refresh ==
    /\ items' \in Listings
    /\ lastCapture' = Newest(items')
    /\ UNCHANGED <<disk, recording, recFile, clock, made>>

Camera == \/ SaveSnapshot \/ SaveSnapshotFails
          \/ StartRecording \/ RecorderWrites \/ StopRecording
          \/ RecordingFails

Next == \/ Tick \/ Camera \/ Refresh
        \/ \E i \in 1 .. Len(items) :
              RemoveRow(i) \/ \E name \in UserNames : RenameRow(i, name)

Spec == Init /\ [][Next]_vars

-----------------------------------------------------------------------------
\* The capture offered as the last one is the first row of the gallery,
\* whatever was added, moved, renamed or removed, and in whatever order.
LastCaptureIsFirst == lastCapture = Newest(items)

\* No capture is listed twice, although a recording may be listed by refresh()
\* while it is written and registered when it is done.
NothingListedTwice ==
    \A i, j \in 1 .. Len(items) : i # j => items[i].path # items[j].path

\* No row without its file: deleting, renaming and recording over each other
\* never leave a row for a file that is not there.
RowsHaveFiles == \A i \in 1 .. Len(items) : Exists(items[i].path)

\* A capture is lost only when a row is deleted: no snapshot, recording or
\* rename takes the place of a file ("never overwrite", makePath).
NothingOverwritten ==
    [][\/ Cardinality(OnDisk') >= Cardinality(OnDisk) + (made' - made)
       \/ Len(items') < Len(items)]_vars
=============================================================================
