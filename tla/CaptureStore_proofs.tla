------------------------ MODULE CaptureStore_proofs ------------------------
(***************************************************************************)
(* The list of captures, the files and the last capture agree, for any     *)
(* number of seconds, suffixes, names and files.                           *)
(*                                                                         *)
(* The invariants need each other: a new file is not listed because every  *)
(* row has its file, a row keeps its file when another one is deleted      *)
(* because no path is listed twice.                                        *)
(*                                                                         *)
(* The pages of the gallery use the list late; to the store that is as     *)
(* good as any other use.                                                  *)
(***************************************************************************)
EXTENDS Gallery, SequenceTheorems, FiniteSetTheorems, TLAPS

StoreInv == TypeOK /\ LastCaptureIsFirst /\ NothingListedTwice /\ RowsHaveFiles

\* Removing a row keeps the others, in their order.
LEMMA WithoutRow ==
    ASSUME NEW S, NEW s \in Seq(S), NEW i \in 1 .. Len(s)
    PROVE  /\ Without(s, i) \in Seq(S)
           /\ Len(Without(s, i)) = Len(s) - 1
           /\ \A j \in 1 .. Len(s) - 1 :
                 Without(s, i)[j] = IF j < i THEN s[j] ELSE s[j + 1]
<1> DEFINE a == SubSeq(s, 1, i - 1)
           b == SubSeq(s, i + 1, Len(s))
<1>1. a \in Seq(S) /\ Len(a) = i - 1 /\ \A j \in 1 .. i - 1 : a[j] = s[j]
  OBVIOUS
<1>2. /\ b \in Seq(S) /\ Len(b) = Len(s) - i
      /\ \A j \in 1 .. Len(s) - i : b[j] = s[i + j]
  OBVIOUS
<1> HIDE DEF a, b
<1>3. a \o b \in Seq(S) /\ Len(a \o b) = Len(s) - 1
  <2>1. a \o b \in Seq(S) /\ Len(a \o b) = Len(a) + Len(b)
    BY <1>1, <1>2, ConcatProperties
  <2>2. (i - 1) + (Len(s) - i) = Len(s) - 1
    OBVIOUS
  <2> QED BY <2>1, <2>2, <1>1, <1>2
<1>4. ASSUME NEW j \in 1 .. Len(s) - 1
      PROVE  (a \o b)[j] = IF j < i THEN s[j] ELSE s[j + 1]
  <2>1. CASE j < i
    BY <2>1, <1>1, <1>2
  <2>2. CASE ~(j < i)
    <3>1. j - Len(a) \in 1 .. Len(s) - i /\ i + (j - Len(a)) = j + 1
      BY <2>2, <1>1
    <3>2. (a \o b)[j] = b[j - Len(a)]
      BY <2>2, <1>1, <1>2
    <3> QED BY <3>1, <3>2, <1>2, <2>2
  <2> QED BY <2>1, <2>2
<1> QED BY <1>3, <1>4 DEF Without, a, b

\* A new first row moves the others one down.
LEMMA NewFirstRow ==
    ASSUME NEW S, NEW s \in Seq(S), NEW r \in S
    PROVE  /\ <<r>> \o s \in Seq(S)
           /\ Len(<<r>> \o s) = Len(s) + 1
           /\ (<<r>> \o s)[1] = r
           /\ Head(<<r>> \o s) = r
           /\ <<r>> \o s # <<>>
           /\ \A j \in 2 .. Len(s) + 1 : (<<r>> \o s)[j] = s[j - 1]
<1>1. /\ <<r>> \in Seq(S) /\ Len(<<r>>) = 1 /\ <<r>>[1] = r
  OBVIOUS
<1>2. <<r>> \o s \in Seq(S) /\ Len(<<r>> \o s) = Len(s) + 1
  BY <1>1
<1>3. (<<r>> \o s)[1] = r
  BY <1>1
<1>4. Head(<<r>> \o s) = r /\ <<r>> \o s # <<>>
  BY <1>2, <1>3
<1>5. \A j \in 2 .. Len(s) + 1 : (<<r>> \o s)[j] = s[j - 1]
  BY <1>1
<1> QED BY <1>2, <1>3, <1>4, <1>5

-----------------------------------------------------------------------------
\* What the list must be, as a predicate of the three parts that make it.
ListOk(d, s, last) ==
    /\ s \in Seq(Row)
    /\ last = Newest(s)
    /\ \A i, j \in 1 .. Len(s) : i # j => s[i].path # s[j].path
    /\ \A i \in 1 .. Len(s) : d[s[i].path] # 0

\* The invariant, and what it says of the list alone.
LEMMA StoreInvIsListOk ==
    /\ StoreInv => ListOk(disk, items, lastCapture)
    /\ TypeOK /\ ListOk(disk, items, lastCapture) => StoreInv
BY DEF StoreInv, ListOk, TypeOK, LastCaptureIsFirst, NothingListedTwice,
       RowsHaveFiles, Exists

\* The path of the first row is a path, or there is none.
LEMMA NewestIsPath ==
    ASSUME NEW s \in Seq(Row)
    PROVE  Newest(s) \in Path \union {NoPath}
<1>1. CASE s = <<>>
  BY <1>1 DEF Newest
<1>2. CASE s # <<>>
  <2>1. Head(s) \in Row
    BY <1>2
  <2> QED BY <1>2, <2>1 DEF Newest, Row
<1> QED BY <1>1, <1>2

\* insertItem keeps the list right when the path is not listed.
LEMMA InsertKeepsList ==
    ASSUME NEW d, NEW s, NEW last, ListOk(d, s, last),
           NEW p \in Path, NEW t \in Nat, d[p] # 0,
           \A i \in 1 .. Len(s) : s[i].path # p
    PROVE  ListOk(d, <<[path |-> p, time |-> t]>> \o s, p)
<1> DEFINE r == [path |-> p, time |-> t]
           u == <<r>> \o s
<1>1. r \in Row /\ s \in Seq(Row) /\ r.path = p
  BY DEF Row, ListOk
<1>2. /\ u \in Seq(Row) /\ Len(u) = Len(s) + 1
      /\ u[1] = r /\ Head(u) = r /\ u # <<>>
      /\ \A j \in 2 .. Len(s) + 1 : u[j] = s[j - 1]
  BY <1>1, NewFirstRow
<1> HIDE DEF u, r
<1>3. p = Newest(u)
  BY <1>1, <1>2 DEF Newest
<1>4. Len(s) \in Nat
  BY <1>1
<1>5. \A j \in 2 .. Len(u) : j - 1 \in 1 .. Len(s) /\ u[j] = s[j - 1]
  BY <1>2, <1>4
<1>6. \A i, j \in 1 .. Len(u) : i # j => u[i].path # u[j].path
  <2>1. SUFFICES ASSUME NEW i \in 1 .. Len(u), NEW j \in 1 .. Len(u), i # j
                 PROVE  u[i].path # u[j].path
    OBVIOUS
  <2>2. (i = 1 \/ i \in 2 .. Len(u)) /\ (j = 1 \/ j \in 2 .. Len(u))
    BY <1>2, <1>4
  <2>3. CASE i = 1
    BY <2>1, <2>2, <2>3, <1>1, <1>2, <1>5
  <2>4. CASE j = 1
    BY <2>1, <2>2, <2>4, <1>1, <1>2, <1>5
  <2>5. CASE i \in 2 .. Len(u) /\ j \in 2 .. Len(u)
    <3>1. i - 1 # j - 1 /\ i - 1 \in 1 .. Len(s) /\ j - 1 \in 1 .. Len(s)
      BY <2>1, <2>5, <1>5
    <3> QED BY <3>1, <2>5, <1>5 DEF ListOk
  <2> QED BY <2>2, <2>3, <2>4, <2>5
<1>7. \A i \in 1 .. Len(u) : d[u[i].path] # 0
  <2>1. SUFFICES ASSUME NEW i \in 1 .. Len(u)
                 PROVE  d[u[i].path] # 0
    OBVIOUS
  <2>2. i = 1 \/ i \in 2 .. Len(u)
    BY <1>2, <1>4
  <2> QED BY <2>2, <1>1, <1>2, <1>5 DEF ListOk
<1> QED BY <1>2, <1>3, <1>6, <1>7 DEF ListOk, u, r

\* Taking row i out leaves a list without its path; the first row of it is the
\* last capture, unless it was row 1 that went.
LEMMA WithoutKeepsList ==
    ASSUME NEW d, NEW s, NEW last, ListOk(d, s, last), NEW i \in 1 .. Len(s)
    PROVE  /\ ListOk(d, Without(s, i), Newest(Without(s, i)))
           /\ \A j \in 1 .. Len(Without(s, i)) :
                 Without(s, i)[j].path # s[i].path
           /\ last # s[i].path => last = Newest(Without(s, i))
<1> DEFINE w == Without(s, i)
<1>1. s \in Seq(Row) /\ Len(s) \in Nat
  BY DEF ListOk
<1>2. /\ w \in Seq(Row) /\ Len(w) = Len(s) - 1
      /\ \A j \in 1 .. Len(s) - 1 : w[j] = IF j < i THEN s[j] ELSE s[j + 1]
  BY <1>1, WithoutRow
<1> HIDE DEF w
<1> DEFINE k(j) == IF j < i THEN j ELSE j + 1
<1>3. \A j \in 1 .. Len(w) : /\ k(j) \in 1 .. Len(s) /\ k(j) # i
                             /\ w[j] = s[k(j)]
  BY <1>1, <1>2
<1>4. \A j, l \in 1 .. Len(w) : j # l => k(j) # k(l)
  BY <1>1, <1>2
<1> HIDE DEF k
<1>5. /\ \A j, l \in 1 .. Len(w) : j # l => w[j].path # w[l].path
      /\ \A j \in 1 .. Len(w) : d[w[j].path] # 0 /\ w[j].path # s[i].path
  <2>1. \A m, n \in 1 .. Len(s) : m # n => s[m].path # s[n].path
    BY DEF ListOk
  <2>2. \A m \in 1 .. Len(s) : d[s[m].path] # 0
    BY DEF ListOk
  <2>3. ASSUME NEW j \in 1 .. Len(w), NEW l \in 1 .. Len(w), j # l
        PROVE  w[j].path # w[l].path
    BY <2>1, <2>3, <1>3, <1>4, Zenon
  <2>4. ASSUME NEW j \in 1 .. Len(w)
        PROVE  d[w[j].path] # 0 /\ w[j].path # s[i].path
    BY <2>1, <2>2, <1>3, Zenon
  <2> QED BY <2>3, <2>4, Zenon
<1>6. ASSUME last # s[i].path PROVE last = Newest(w)
  <2>1. s # <<>> /\ 1 \in 1 .. Len(s) /\ Head(s) = s[1]
    BY <1>1
  <2>2. last = s[1].path
    BY <2>1 DEF ListOk, Newest
  <2>3. i # 1
    BY <2>2, <1>6
  <2>4. 1 \in 1 .. Len(w) /\ 1 < i
    BY <2>3, <1>1, <1>2
  <2>5. w # <<>> /\ Head(w) = w[1] /\ w[1] = s[1]
    BY <2>4, <1>1, <1>2
  <2> QED BY <2>2, <2>5 DEF Newest
<1> QED BY <1>2, <1>5, <1>6 DEF ListOk, w

\* A listed path is the path of a file, and a fresh one is not listed.
LEMMA RowFacts ==
    ASSUME StoreInv, NEW i \in 1 .. Len(items)
    PROVE  items[i] \in Row /\ items[i].path \in Path /\ Exists(items[i].path)
<1>1. items[i] \in Row
  BY DEF StoreInv, TypeOK
<1> QED BY <1>1 DEF Row, StoreInv, RowsHaveFiles

\* A path without a file is in no row: makePath and rename only choose such
\* paths.
LEMMA UnlistedWithoutFile ==
    ASSUME StoreInv, NEW p, ~Exists(p)
    PROVE  \A i \in 1 .. Len(items) : items[i].path # p
BY RowFacts

\* Everything but the list and the last capture.
FilesOk == /\ disk \in [Path -> Nat]
           /\ recording \in Path \union {NoPath}
           /\ recFile \in Path \union {NoPath}
           /\ clock \in 1 .. MaxClock /\ made \in Nat

\* A typed state whose list is right satisfies the invariant.
LEMMA StepOk ==
    ASSUME FilesOk', ListOk(disk', items', lastCapture')
    PROVE  StoreInv'
<1>1. items' \in Seq(Row) /\ lastCapture' = Newest(items')
  BY DEF ListOk
<1>2. lastCapture' \in Path \union {NoPath}
  BY <1>1, NewestIsPath
<1> QED BY <1>1, <1>2 DEF StoreInv, TypeOK, FilesOk, ListOk, NothingListedTwice,
           RowsHaveFiles, Exists, LastCaptureIsFirst

\* The store begins with no rows and no last capture.
LEMMA StoreInvInit == Init => StoreInv
BY StoreAssumption DEF Init, StoreInv, TypeOK, LastCaptureIsFirst, Newest,
   NothingListedTwice, RowsHaveFiles

\* Writing to the file of a path, listed or not, at a time that is not 0.
LEMMA WriteKeepsFiles ==
    ASSUME StoreInv, NEW p \in Path, disk' = [disk EXCEPT ![p] = clock]
    PROVE  /\ disk' \in [Path -> Nat] /\ disk'[p] = clock /\ clock # 0
           /\ ListOk(disk', items, lastCapture)
<1>1. /\ disk \in [Path -> Nat] /\ clock \in Nat /\ clock # 0
  BY DEF StoreInv, TypeOK
<1>2. ASSUME NEW i \in 1 .. Len(items) PROVE disk'[items[i].path] # 0
  <2>1. items[i].path \in Path /\ disk[items[i].path] # 0
    BY RowFacts DEF Exists
  <2> QED BY <2>1, <1>1
<1> QED BY <1>1, <1>2, StoreInvIsListOk DEF ListOk

\* saveSnapshot writes to a fresh path and puts its row first.
LEMMA SaveSnapshotStep == ASSUME StoreInv, SaveSnapshot PROVE StoreInv'
<1>1. PICK p \in Path :
         /\ IsFreshPath(p, "jpg")
         /\ disk' = [disk EXCEPT ![p] = clock]
         /\ InsertItem(items, p, clock)
  BY DEF SaveSnapshot
<1>2. /\ disk' \in [Path -> Nat] /\ disk'[p] # 0
      /\ ListOk(disk', items, lastCapture)
  BY <1>1, WriteKeepsFiles
<1>3. \A i \in 1 .. Len(items) : items[i].path # p
  BY <1>1, UnlistedWithoutFile DEF IsFreshPath
<1>4. clock \in Nat
  BY DEF StoreInv, TypeOK
<1>5. ListOk(disk', items', lastCapture')
  BY <1>1, <1>2, <1>3, <1>4, InsertKeepsList DEF InsertItem
<1>6. FilesOk'
  BY <1>2 DEF SaveSnapshot, FilesOk, StoreInv, TypeOK
<1> QED BY <1>5, <1>6, StepOk

\* A recording in progress writes a file that has no row yet.
LEMMA RecordingSteps ==
    ASSUME StoreInv, SaveSnapshotFails \/ StartRecording \/ RecorderWrites
                     \/ RecordingFails \/ Tick
    PROVE  StoreInv'
<1>1. CASE SaveSnapshotFails
  <2>1. disk' \in [Path -> Nat] /\ ListOk(disk', items, lastCapture)
    BY <1>1, WriteKeepsFiles DEF SaveSnapshotFails
  <2>2. FilesOk'
    BY <1>1, <2>1 DEF SaveSnapshotFails, FilesOk, StoreInv, TypeOK
  <2> QED BY <1>1, <2>1, <2>2, StepOk DEF SaveSnapshotFails
<1>2. CASE StartRecording
  <2>1. PICK p \in Path : /\ disk' = [disk EXCEPT ![p] = clock]
                          /\ recording' = p /\ recFile' = p
    BY <1>2 DEF StartRecording
  <2>2. disk' \in [Path -> Nat] /\ ListOk(disk', items, lastCapture)
    BY <2>1, WriteKeepsFiles
  <2>3. FilesOk'
    BY <1>2, <2>1, <2>2 DEF StartRecording, FilesOk, StoreInv, TypeOK
  <2> QED BY <1>2, <2>2, <2>3, StepOk DEF StartRecording
<1>3. CASE RecorderWrites
  <2>1. recFile \in Path /\ disk' = [disk EXCEPT ![recFile] = clock]
    BY <1>3 DEF RecorderWrites, Written, StoreInv, TypeOK
  <2>2. disk' \in [Path -> Nat] /\ ListOk(disk', items, lastCapture)
    BY <2>1, WriteKeepsFiles
  <2>3. FilesOk'
    BY <1>3, <2>2 DEF RecorderWrites, FilesOk, StoreInv, TypeOK
  <2> QED BY <1>3, <2>2, <2>3, StepOk DEF RecorderWrites
<1>4. CASE RecordingFails \/ Tick
  <2>1. UNCHANGED <<disk, items, lastCapture, made>>
    BY <1>4 DEF RecordingFails, Tick
  <2>2. FilesOk'
    BY <1>4, StoreAssumption
       DEF RecordingFails, Tick, FilesOk, StoreInv, TypeOK
  <2> QED BY <2>1, <2>2, StoreInvIsListOk, StepOk
<1> QED BY <1>1, <1>2, <1>3, <1>4

\* registerCapture: the row that refresh() has made for the path goes first.
LEMMA RegisterKeepsList ==
    ASSUME StoreInv, NEW d, ListOk(d, items, lastCapture),
           NEW p \in Path, NEW t \in Nat, d[p] # 0, RegisterCapture(p, t)
    PROVE  ListOk(d, items', lastCapture')
<1>1. CASE /\ \A i \in 1 .. Len(items) : items[i].path # p
           /\ InsertItem(items, p, t)
  BY <1>1, InsertKeepsList DEF InsertItem
<1>2. CASE \E i \in 1 .. Len(items) :
              /\ items[i].path = p
              /\ InsertItem(Without(items, i), p, t)
  <2>1. PICK i \in 1 .. Len(items) :
              /\ items[i].path = p
              /\ InsertItem(Without(items, i), p, t)
    BY <1>2
  <2>2. /\ ListOk(d, Without(items, i), Newest(Without(items, i)))
        /\ \A j \in 1 .. Len(Without(items, i)) :
              Without(items, i)[j].path # p
    BY <2>1, WithoutKeepsList
  <2> QED BY <2>1, <2>2, InsertKeepsList DEF InsertItem
<1> QED BY <1>1, <1>2 DEF RegisterCapture

\* registerCapture lists the file of a recording, at most once, if it is there.
LEMMA StopRecordingStep == ASSUME StoreInv, StopRecording PROVE StoreInv'
<1>1. /\ disk' \in [Path -> Nat]
      /\ ListOk(disk', items, lastCapture)
      /\ \A p \in Path : disk[p] # 0 => disk'[p] # 0
  <2>1. CASE disk' = disk
    BY <2>1, StoreInvIsListOk DEF StoreInv, TypeOK
  <2>2. CASE recFile \in Path /\ disk' = [disk EXCEPT ![recFile] = clock]
    <3>1. \A p \in Path : disk[p] # 0 => disk'[p] # 0
      BY <2>2 DEF StoreInv, TypeOK
    <3> QED BY <2>2, <3>1, WriteKeepsFiles
  <2> QED BY <2>1, <2>2 DEF StopRecording, Written, StoreInv, TypeOK
<1>2. FilesOk'
  BY <1>1 DEF StopRecording, FilesOk, StoreInv, TypeOK
<1>3. CASE Exists(recording) /\ RegisterCapture(recording, disk'[recording])
  <2>1. recording \in Path
    BY DEF StopRecording, StoreInv, TypeOK
  <2>2. disk'[recording] \in Nat /\ disk'[recording] # 0
    BY <1>1, <1>3, <2>1 DEF Exists
  <2>3. ListOk(disk', items', lastCapture')
    BY <1>1, <1>3, <2>1, <2>2, RegisterKeepsList
  <2> QED BY <1>2, <2>3, StepOk
<1>4. CASE UNCHANGED <<items, lastCapture>>
  BY <1>1, <1>2, <1>4, StepOk
<1> QED BY <1>3, <1>4 DEF StopRecording

\* remove() deletes a file and its only row, and the last capture is the new
\* first row.
LEMMA RemoveRowStep ==
    ASSUME StoreInv, NEW i \in 1 .. Len(items), RemoveRow(i)
    PROVE  StoreInv'
<1> DEFINE p == items[i].path
           w == Without(items, i)
<1>1. p \in Path /\ disk' = [disk EXCEPT ![p] = 0] /\ items' = w
  BY RowFacts DEF RemoveRow
<1>2. /\ ListOk(disk, w, Newest(w))
      /\ \A j \in 1 .. Len(w) : w[j].path # p
      /\ lastCapture # p => lastCapture = Newest(w)
  BY StoreInvIsListOk, WithoutKeepsList
<1>3. lastCapture' = Newest(w)
  BY <1>2 DEF RemoveRow
<1> HIDE DEF p, w
<1>4. \A j \in 1 .. Len(w) : disk'[w[j].path] # 0
  <2>1. SUFFICES ASSUME NEW j \in 1 .. Len(w) PROVE disk'[w[j].path] # 0
    OBVIOUS
  <2>2. w[j] \in Row /\ disk[w[j].path] # 0 /\ w[j].path # p
    BY <1>2 DEF ListOk
  <2> QED BY <2>2, <1>1 DEF Row, StoreInv, TypeOK
<1>5. ListOk(disk', items', lastCapture')
  BY <1>1, <1>2, <1>3, <1>4 DEF ListOk
<1>6. FilesOk'
  <2>1. recFile' = recFile \/ recFile' = NoPath
    BY DEF RemoveRow
  <2>2. recFile' \in Path \union {NoPath}
    BY <2>1 DEF StoreInv, TypeOK
  <2>3. disk' \in [Path -> Nat]
    BY <1>1 DEF StoreInv, TypeOK
  <2>4. UNCHANGED <<recording, clock, made>>
    BY DEF RemoveRow
  <2> QED BY <2>2, <2>3, <2>4 DEF FilesOk, StoreInv, TypeOK
<1> QED BY <1>5, <1>6, StepOk

\* rename() moves a file to a path nobody uses, and its row with it.
LEMMA RenameRowStep ==
    ASSUME StoreInv, NEW i \in 1 .. Len(items), NEW name \in UserNames,
           RenameRow(i, name)
    PROVE  StoreInv'
<1> DEFINE from == items[i].path
           to == Renamed(from, name)
<1>1. /\ from \in Path /\ Exists(from) /\ from # to /\ ~Exists(to)
      /\ disk' = [disk EXCEPT ![to] = disk[from], ![from] = 0]
      /\ lastCapture' = IF lastCapture = from THEN to ELSE lastCapture
      /\ recFile' = IF recFile = from THEN to ELSE recFile
      /\ items' = [items EXCEPT ![i].path = to]
      /\ UNCHANGED <<recording, clock, made>>
  BY RowFacts DEF RenameRow, MoveFile
<1>2. to \in Path
  <2>1. from.n \in 1 .. MaxSuffix /\ from.kind \in {"jpg", "mp4"}
    BY <1>1 DEF Path
  <2>2. 1 \in 1 .. MaxSuffix
    BY <2>1, StoreAssumption
  <2> QED BY <2>1, <2>2 DEF Renamed, Path
<1>3. /\ items \in Seq(Row) /\ disk \in [Path -> Nat] /\ Len(items) \in Nat
  BY DEF StoreInv, TypeOK
<1> HIDE DEF from, to
<1>4. /\ items' \in Seq(Row) /\ Len(items') = Len(items)
      /\ items'[i].path = to
      /\ \A j \in 1 .. Len(items) : j # i => items'[j] = items[j]
  <2>1. items[i] \in Row
    BY <1>3
  <2>2. [items[i] EXCEPT !.path = to] \in Row
        /\ [items[i] EXCEPT !.path = to].path = to
    BY <2>1, <1>2 DEF Row
  <2>3. items' = [items EXCEPT ![i] = [items[i] EXCEPT !.path = to]]
    BY <1>1
  <2> QED BY <2>2, <2>3, <1>3
<1>5. /\ disk' \in [Path -> Nat] /\ disk'[to] # 0
      /\ \A p \in Path : p # from /\ p # to => disk'[p] = disk[p]
  BY <1>1, <1>2, <1>3 DEF Exists
<1>6. \A j \in 1 .. Len(items) :
         /\ items[j] \in Row /\ items[j].path \in Path
         /\ disk[items[j].path] # 0 /\ items[j].path # to
         /\ j # i => items[j].path # from
  <2>1. SUFFICES ASSUME NEW j \in 1 .. Len(items)
                 PROVE  /\ items[j] \in Row /\ items[j].path \in Path
                        /\ disk[items[j].path] # 0 /\ items[j].path # to
                        /\ j # i => items[j].path # from
    OBVIOUS
  <2>2. j # i => items[j].path # from
    BY DEF StoreInv, NothingListedTwice, from
  <2>3. items[j].path # to
    BY <1>1, UnlistedWithoutFile
  <2> QED BY <2>2, <2>3, RowFacts DEF Exists
<1>7. \A j \in 1 .. Len(items') : disk'[items'[j].path] # 0
  <2>1. SUFFICES ASSUME NEW j \in 1 .. Len(items')
                 PROVE  disk'[items'[j].path] # 0
    OBVIOUS
  <2>2. CASE j = i
    BY <2>2, <1>4, <1>5
  <2>3. CASE j # i
    BY <2>3, <1>4, <1>5, <1>6
  <2> QED BY <2>2, <2>3
<1>8. \A j, k \in 1 .. Len(items') : j # k => items'[j].path # items'[k].path
  <2>1. SUFFICES ASSUME NEW j \in 1 .. Len(items'), NEW k \in 1 .. Len(items'),
                        j # k
                 PROVE  items'[j].path # items'[k].path
    OBVIOUS
  <2>2. CASE j # i /\ k # i
    BY <2>1, <2>2, <1>4 DEF StoreInv, NothingListedTwice
  <2>3. CASE j = i
    BY <2>1, <2>3, <1>4, <1>6
  <2>4. CASE k = i
    BY <2>1, <2>4, <1>4, <1>6
  <2> QED BY <2>2, <2>3, <2>4
<1>9. lastCapture' = Newest(items')
  <2>1. items # <<>> /\ 1 \in 1 .. Len(items) /\ Head(items) = items[1]
    BY <1>3
  <2>2. items' # <<>> /\ Head(items') = items'[1]
    BY <2>1, <1>4, <1>3
  <2>3. lastCapture = items[1].path /\ Newest(items') = items'[1].path
    BY <2>1, <2>2 DEF StoreInv, LastCaptureIsFirst, Newest
  <2>4. CASE i = 1
    BY <2>3, <2>4, <1>1, <1>4 DEF from
  <2>5. CASE i # 1
    BY <2>1, <2>3, <2>5, <1>1, <1>4, <1>6
  <2> QED BY <2>4, <2>5
<1>10. ListOk(disk', items', lastCapture')
  BY <1>4, <1>7, <1>8, <1>9 DEF ListOk
<1>11. FilesOk'
  <2>1. recFile' \in Path \union {NoPath}
    BY <1>1, <1>2 DEF StoreInv, TypeOK
  <2> QED BY <2>1, <1>1, <1>5 DEF FilesOk, StoreInv, TypeOK
<1> QED BY <1>10, <1>11, StepOk

\* refresh() lists every file that is there, once.
LEMMA RefreshStep == ASSUME StoreInv, Refresh PROVE StoreInv'
<1>1. PICK n \in 0 .. MaxFiles :
         items' \in [1 .. n -> {RowOf(p) : p \in OnDisk}]
  BY DEF Refresh, Listings
<1>2. n \in Nat
  BY <1>1, StoreAssumption
<1>3. \A p \in OnDisk : RowOf(p) \in Row /\ RowOf(p).path = p
  BY DEF OnDisk, RowOf, Row, StoreInv, TypeOK
<1>4. \A i \in 1 .. n : items'[i] \in Row /\ items'[i].path \in OnDisk
  BY <1>1, <1>3
<1>5. items' \in Seq(Row) /\ Len(items') = n /\ DOMAIN items' = 1 .. n
  BY <1>1, <1>2, <1>4
<1>6. \A i \in 1 .. n : disk'[items'[i].path] # 0
  BY <1>4 DEF Refresh, OnDisk, Exists
<1>7. \A i, j \in 1 .. n : i # j => items'[i].path # items'[j].path
  BY <1>5 DEF Refresh, Listings
<1>8. ListOk(disk', items', lastCapture')
  BY <1>5, <1>6, <1>7 DEF Refresh, ListOk
<1>9. FilesOk'
  BY DEF Refresh, FilesOk, StoreInv, TypeOK
<1> QED BY <1>8, <1>9, StepOk

\* Every step of the store keeps the invariant.
LEMMA StoreInvStep == StoreInv /\ [Next]_vars => StoreInv'
<1>1. SUFFICES ASSUME StoreInv, [Next]_vars PROVE StoreInv'
  OBVIOUS
<1>2. CASE Tick \/ Camera
  BY <1>1, <1>2, SaveSnapshotStep, RecordingSteps, StopRecordingStep DEF Camera
<1>3. CASE Refresh
  BY <1>1, <1>3, RefreshStep
<1>4. ASSUME NEW i \in 1 .. Len(items),
             RemoveRow(i) \/ \E name \in UserNames : RenameRow(i, name)
      PROVE  StoreInv'
  BY <1>1, <1>4, RemoveRowStep, RenameRowStep
<1>5. CASE UNCHANGED vars
  BY <1>1, <1>5 DEF vars, StoreInv, TypeOK, LastCaptureIsFirst,
     NothingListedTwice, RowsHaveFiles, Exists
<1> QED BY <1>1, <1>2, <1>3, <1>4, <1>5 DEF Next

\* Whatever is taken, recorded, renamed, deleted and listed again, in whatever
\* order (capturestore.cpp): the last capture is the first row, no capture is
\* listed twice, and every row has its file.
THEOREM StoreCorrect ==
    Spec => [](TypeOK /\ LastCaptureIsFirst /\ NothingListedTwice /\ RowsHaveFiles)
<1>1. Spec => []StoreInv
  BY StoreInvInit, StoreInvStep, PTL DEF Spec
<1> QED BY <1>1, PTL DEF StoreInv

-----------------------------------------------------------------------------
(***************************************************************************)
(* No file takes the place of another.                                     *)
(***************************************************************************)

\* The number of files there are, in terms of those made.
Kept(before, after, new) ==
    /\ IsFiniteSet(after)
    /\ Cardinality(after) >= Cardinality(before) + new

\* A set of files stays as large when nothing or one more is written, ...
LEMMA KeptAdd ==
    ASSUME NEW S, IsFiniteSet(S), NEW p
    PROVE  /\ Kept(S, S, 0)
           /\ Kept(S, S \union {p}, 0)
           /\ p \notin S => Kept(S, S \union {p}, 1)
BY FS_CardinalityType, FS_AddElement DEF Kept

\* ... and when one of them moves to where there was none.
LEMMA KeptMove ==
    ASSUME NEW S, IsFiniteSet(S), NEW from \in S, NEW to, to \notin S
    PROVE  Kept(S, (S \ {from}) \union {to}, 0)
<1>1. /\ IsFiniteSet(S \ {from}) /\ Cardinality(S \ {from}) = Cardinality(S) - 1
      /\ Cardinality(S) \in Nat
  BY FS_CardinalityType, FS_RemoveElement
<1>2. /\ IsFiniteSet((S \ {from}) \union {to})
      /\ Cardinality((S \ {from}) \union {to}) = Cardinality(S \ {from}) + 1
  BY <1>1, FS_AddElement
<1> QED BY <1>1, <1>2 DEF Kept

\* Writing to a path puts a file there and leaves the others.
LEMMA WrittenFiles ==
    ASSUME StoreInv, NEW p \in Path, disk' = [disk EXCEPT ![p] = clock]
    PROVE  OnDisk' = OnDisk \union {p}
<1>1. disk \in [Path -> Nat] /\ clock # 0
  BY DEF StoreInv, TypeOK
<1>2. \A q \in Path : disk'[q] # 0 <=> disk[q] # 0 \/ q = p
  BY <1>1
<1> QED BY <1>2 DEF OnDisk, Exists

\* What every step does to the files: none is lost unless a row goes.
LEMMA FilesKept ==
    ASSUME StoreInv, IsFiniteSet(OnDisk), [Next]_vars
    PROVE  \/ Kept(OnDisk, OnDisk', made' - made)
           \/ IsFiniteSet(OnDisk') /\ Len(items') < Len(items)
<1>0. made \in Nat /\ disk \in [Path -> Nat]
  BY DEF StoreInv, TypeOK
<1>1. ASSUME NEW p, NEW kind, IsFreshPath(p, kind), p \in Path,
             disk' = [disk EXCEPT ![p] = clock], made' = made + 1
      PROVE  Kept(OnDisk, OnDisk', made' - made)
  <2>1. p \notin OnDisk /\ made' - made = 1
    BY <1>0, <1>1 DEF IsFreshPath, OnDisk
  <2>2. OnDisk' = OnDisk \union {p}
    BY <1>1, WrittenFiles
  <2> QED BY <2>1, <2>2, KeptAdd
<1>2. CASE SaveSnapshot \/ SaveSnapshotFails \/ StartRecording
  <2>1. PICK p \in Path, kind \in {"jpg", "mp4"} :
           IsFreshPath(p, kind) /\ disk' = [disk EXCEPT ![p] = clock]
    BY <1>2 DEF SaveSnapshot, SaveSnapshotFails, StartRecording
  <2>2. made' = made + 1
    BY <1>2 DEF SaveSnapshot, SaveSnapshotFails, StartRecording
  <2> QED BY <1>1, <2>1, <2>2
<1>3. ASSUME disk' = disk \/ disk' = Written, made' = made
      PROVE  Kept(OnDisk, OnDisk', made' - made)
  <2>1. made' - made = 0
    BY <1>0, <1>3
  <2>2. CASE disk' = disk
    <3>1. OnDisk' = OnDisk
      BY <2>2 DEF OnDisk, Exists
    <3> QED BY <2>1, <3>1, KeptAdd
  <2>3. CASE disk' # disk
    <3>1. recFile \in Path /\ disk' = [disk EXCEPT ![recFile] = clock]
      BY <1>3, <2>3 DEF Written, StoreInv, TypeOK
    <3> QED BY <2>1, <3>1, WrittenFiles, KeptAdd
  <2> QED BY <2>2, <2>3
<1>4. CASE RecorderWrites \/ StopRecording \/ RecordingFails \/ Tick \/ Refresh
           \/ UNCHANGED vars
  BY <1>3, <1>4 DEF RecorderWrites, StopRecording, RecordingFails, Tick,
     Refresh, vars
<1>5. ASSUME NEW i \in 1 .. Len(items), RemoveRow(i)
      PROVE  IsFiniteSet(OnDisk') /\ Len(items') < Len(items)
  <2>1. items[i].path \in Path /\ disk' = [disk EXCEPT ![items[i].path] = 0]
    BY <1>5, RowFacts DEF RemoveRow
  <2>2. OnDisk' \in SUBSET OnDisk
    BY <1>0, <2>1 DEF OnDisk, Exists
  <2>3. items \in Seq(Row) /\ items' = Without(items, i)
    BY <1>5 DEF RemoveRow, StoreInv, TypeOK
  <2>4. Len(items') = Len(items) - 1 /\ Len(items) \in Nat
    BY <2>3, WithoutRow
  <2> QED BY <2>2, <2>4, FS_Subset
<1>6. ASSUME NEW i \in 1 .. Len(items), NEW name \in UserNames,
             RenameRow(i, name)
      PROVE  Kept(OnDisk, OnDisk', made' - made)
  <2> DEFINE from == items[i].path
             to   == Renamed(from, name)
  <2>1. /\ from \in Path /\ Exists(from) /\ from # to /\ ~Exists(to)
        /\ disk' = [disk EXCEPT ![to] = disk[from], ![from] = 0]
        /\ made' = made
    BY <1>6, RowFacts DEF RenameRow, MoveFile
  <2>2. to \in Path
    <3>1. from.n \in 1 .. MaxSuffix /\ from.kind \in {"jpg", "mp4"}
      BY <2>1 DEF Path
    <3>2. 1 \in 1 .. MaxSuffix
      BY <3>1, StoreAssumption
    <3> QED BY <3>1, <3>2 DEF Renamed, Path
  <2> HIDE DEF from, to
  <2>3. from \in OnDisk /\ to \notin OnDisk
    BY <2>1 DEF OnDisk
  <2>4. \A q \in Path : disk'[q] # 0 <=> q = to \/ (disk[q] # 0 /\ q # from)
    BY <1>0, <2>1, <2>2 DEF Exists
  <2>5. OnDisk' = (OnDisk \ {from}) \union {to}
    BY <2>2, <2>4 DEF OnDisk, Exists
  <2>6. made' - made = 0
    BY <1>0, <2>1
  <2> QED BY <2>3, <2>5, <2>6, KeptMove
<1> QED BY <1>2, <1>4, <1>5, <1>6 DEF Next, Camera

\* No snapshot, recording or rename takes the place of a file, in any order of
\* them, within a second or across seconds: makePath and the refusal of an
\* existing target in rename().
THEOREM NoFileOverwritten == Spec => NothingOverwritten
<1> DEFINE Keeps == \/ Cardinality(OnDisk') >= Cardinality(OnDisk) + (made' - made)
                    \/ Len(items') < Len(items)
           Finite == IsFiniteSet(OnDisk)
<1>1. Init => Finite
  <2>1. Init => OnDisk = {}
    BY DEF Init, OnDisk, Exists
  <2> QED BY <2>1, FS_EmptySet
<1>2. StoreInv /\ Finite /\ [Next]_vars => Finite' /\ [Keeps]_vars
  BY FilesKept DEF Kept
<1> HIDE DEF Keeps, Finite
<1>3. Spec => [][Keeps]_vars
  BY <1>1, <1>2, StoreInvInit, StoreInvStep, PTL DEF Spec
<1> QED BY <1>3 DEF Keeps, NothingOverwritten
-----------------------------------------------------------------------------
(***************************************************************************)
(* The pages of the gallery.                                               *)
(***************************************************************************)

\* Each step of the pages is one of the store, or leaves it alone.
LEMMA GalleryStep == [GalleryNext]_gvars => [Next]_vars
<1> SUFFICES ASSUME [GalleryNext]_gvars PROVE [Next]_vars
  OBVIOUS
<1>1. CASE \E i \in 1 .. Len(items) : Choose("delete", i) \/ Choose("rename", i)
  BY <1>1 DEF Choose
<1>2. CASE Cancel
  BY <1>2 DEF Cancel
<1>3. CASE DeleteChosen
  BY <1>3 DEF DeleteChosen, RemoveRow, Next
<1>4. CASE RenameChosen
  BY <1>4 DEF RenameChosen, RenameRow, Next
<1>5. CASE Meanwhile
  BY <1>5 DEF Meanwhile, Next
<1>6. CASE UNCHANGED gvars
  BY <1>6 DEF gvars
<1> QED BY <1>1, <1>2, <1>3, <1>4, <1>5, <1>6 DEF GalleryNext

\* Whatever rows the pages keep, however late they use them: the store goes on
\* as if the rows had just been chosen, so list, files and last capture stay in
\* step and no file is overwritten (StoreCorrect, NoFileOverwritten).
THEOREM GalleryKeepsStore == GallerySpec => Spec
<1>1. GalleryInit => Init
  BY DEF GalleryInit
<1> QED BY <1>1, GalleryStep, PTL DEF GallerySpec, Spec

\* No step of the clock, the camera or refresh() takes a file away.
LEMMA MeanwhileKeeps ==
    ASSUME StoreInv, Tick \/ Camera \/ Refresh, NEW p \in OnDisk
    PROVE  p \in OnDisk'
<1> USE DEF StoreInv, TypeOK, OnDisk, Exists
<1>1. \/ disk' = disk
      \/ \E q : disk' = [disk EXCEPT ![q] = clock]
  BY DEF Tick, Camera, Refresh, SaveSnapshot, SaveSnapshotFails, StartRecording,
         RecorderWrites, StopRecording, RecordingFails, Written
<1>2. clock # 0
  OBVIOUS
<1> QED BY <1>1, <1>2

\* A delete or a rename takes the file of its row.
LEMMA RowTakesOwn ==
    ASSUME StoreInv, NEW i, NEW p \in OnDisk, p \notin OnDisk',
           RemoveRow(i) \/ \E name \in UserNames : RenameRow(i, name)
    PROVE  i \in 1 .. Len(items) /\ p = items[i].path
<1> USE DEF StoreInv, TypeOK, OnDisk, Exists
<1>1. CASE RemoveRow(i)
  BY <1>1 DEF RemoveRow
<1>2. CASE \E name \in UserNames : RenameRow(i, name)
  <2>1. PICK name \in UserNames : RenameRow(i, name)
    BY <1>2
  <2> DEFINE from == items[i].path
             to   == Renamed(from, name)
  <2>2. /\ i \in 1 .. Len(items) /\ disk[from] # 0
        /\ disk' = [disk EXCEPT ![to] = disk[from], ![from] = 0]
    BY <2>1 DEF RenameRow, MoveFile
  <2> HIDE DEF to
  <2> QED BY <2>2
<1> QED BY <1>1, <1>2

\* What Gallery_chosen leaves of the comment it refutes: a file is taken away
\* only by an operation that was chosen and is due, and it is the file at the
\* row that was kept, which is the chosen one as long as the list has not
\* shifted (GalleryPage.qml: remove(row), rename(dialog.index)).
THEOREM GalleryTakesItsRow ==
    GallerySpec =>
        [][\A p \in OnDisk : p \notin OnDisk' =>
              /\ DeleteChosen \/ RenameChosen
              /\ chosen.row \in 1 .. Len(items)
              /\ p = items[chosen.row].path]_gvars
<1> DEFINE Taken == \A p \in OnDisk : p \notin OnDisk' =>
                       /\ DeleteChosen \/ RenameChosen
                       /\ chosen.row \in 1 .. Len(items)
                       /\ p = items[chosen.row].path
<1>1. StoreInv /\ GalleryNext => Taken
  <2> SUFFICES ASSUME StoreInv, GalleryNext, NEW p \in OnDisk, p \notin OnDisk'
               PROVE  /\ DeleteChosen \/ RenameChosen
                      /\ chosen.row \in 1 .. Len(items)
                      /\ p = items[chosen.row].path
    OBVIOUS
  <2>1. ~UNCHANGED vars
    BY DEF vars, OnDisk, Exists
  <2>2. CASE DeleteChosen
    BY <2>1, <2>2, RowTakesOwn DEF DeleteChosen
  <2>3. CASE RenameChosen
    BY <2>1, <2>3, RowTakesOwn DEF RenameChosen
  <2>4. CASE Meanwhile
    BY <2>4, MeanwhileKeeps DEF Meanwhile
  <2> QED BY <2>1, <2>2, <2>3, <2>4 DEF GalleryNext, Choose, Cancel
<1>2. GallerySpec => []StoreInv
  BY GalleryKeepsStore, StoreInvInit, StoreInvStep, PTL DEF Spec
<1> HIDE DEF Taken
<1>3. GallerySpec => [][Taken]_gvars
  BY <1>1, <1>2, PTL DEF GallerySpec
<1> QED BY <1>3 DEF Taken
=============================================================================
