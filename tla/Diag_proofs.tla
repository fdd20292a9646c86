----------------------------- MODULE Diag_proofs -----------------------------
(***************************************************************************)
(* Proofs about the diagnostics of the app, for any number of threads,     *)
(* runs, connections and lines.  Of DiagLog: what is in memory is in the   *)
(* file while there is room for it, and the next run finds it.  Of         *)
(* RootLink: no answer is taken for another request's, and the helper      *)
(* does not leave a client that it serves.                                 *)
(***************************************************************************)
EXTENDS DiagLog, RootLink, FiniteSetTheorems, SequenceTheorems, TLAPS

-----------------------------------------------------------------------------
(***************************************************************************)
(* DiagLog.                                                                *)
(***************************************************************************)
Elements(s) == {s[i] : i \in DOMAIN s}

\* What the lock is held for: only for an open file; what is in its buffer is
\* the line being appended or the ring being copied, and nothing else unless a
\* write failed.
BufferInv ==
    /\ lockAt # "free" => isOpen
    /\ lockAt \in {"write", "flush"} => stamped[holder] # 0
    /\ isOpen => cur.exists
    /\ ~isOpen => buffered = <<>>
    /\ ~failed /\ lockAt \in {"free", "write", "backfill"} => buffered = <<>>
    /\ ~failed /\ lockAt = "flush" => buffered = <<stamped[holder]>>
    /\ ~failed /\ lockAt = "backfillFlush" => buffered = lines

MirrorInv == TypeOK /\ BufferInv /\ FileCounted /\ MirrorComplete

\* The last lines of a log are lines of it, and not more than asked for.
LEMMA TailsPart ==
    ASSUME NEW S, NEW s \in Seq(S), NEW n \in Nat
    PROVE  /\ Tails(s, n) \in Seq(S)
           /\ Len(Tails(s, n)) <= n
           /\ Elements(Tails(s, n)) \subseteq Elements(s)
<1>1. CASE Len(s) <= n
  <2>1. Tails(s, n) = s  BY <1>1 DEF Tails
  <2> QED  BY <1>1, <2>1
<1>2. CASE Len(s) > n
  <2> DEFINE m == Len(s) - n + 1
             t == SubSeq(s, m, Len(s))
  <2>1. Tails(s, n) = t  BY <1>2 DEF Tails
  <2>2. m \in 1 .. Len(s) + 1 /\ Len(s) - m + 1 = n  BY <1>2
  <2>3. t \in Seq(S) /\ Len(t) = n /\ \A i \in 1 .. n : t[i] = s[m + i - 1]
    BY <1>2, <2>2
  <2>4. \A i \in 1 .. n : m + i - 1 \in 1 .. Len(s)  BY <1>2, <2>2
  <2> HIDE DEF t, m
  <2>5. \A i \in DOMAIN t : t[i] \in Elements(s)
    <3>1. DOMAIN t = 1 .. n /\ DOMAIN s = 1 .. Len(s)  BY <2>3
    <3> QED  BY <3>1, <2>3, <2>4 DEF Elements
  <2> QED  BY <2>1, <2>3, <2>5 DEF Elements
<1> QED  BY <1>1, <1>2

LEMMA AppendedElements ==
    ASSUME NEW S, NEW s \in Seq(S), NEW x \in S
    PROVE  Append(s, x) \in Seq(S) /\ Elements(Append(s, x)) = Elements(s) \union {x}
<1>1. /\ Append(s, x) \in Seq(S) /\ DOMAIN Append(s, x) = 1 .. Len(s) + 1
      /\ DOMAIN s = 1 .. Len(s)
      /\ \A i \in 1 .. Len(s) : Append(s, x)[i] = s[i]
      /\ Append(s, x)[Len(s) + 1] = x
  OBVIOUS
<1>2. ASSUME NEW e \in Elements(Append(s, x)) PROVE e \in Elements(s) \union {x}
  BY <1>1 DEF Elements
<1>3. ASSUME NEW e \in Elements(s) PROVE e \in Elements(Append(s, x))
  BY <1>1 DEF Elements
<1>4. x \in Elements(Append(s, x))  BY <1>1 DEF Elements
<1> QED  BY <1>1, <1>2, <1>3, <1>4

LEMMA JoinedElements ==
    ASSUME NEW S, NEW s \in Seq(S), NEW t \in Seq(S)
    PROVE  /\ s \o t \in Seq(S) /\ Len(s \o t) = Len(s) + Len(t)
           /\ Elements(s) \subseteq Elements(s \o t)
           /\ Elements(t) \subseteq Elements(s \o t)
<1>1. /\ s \o t \in Seq(S) /\ DOMAIN (s \o t) = 1 .. Len(s) + Len(t)
      /\ DOMAIN t = 1 .. Len(t) /\ DOMAIN s = 1 .. Len(s)
      /\ \A i \in 1 .. Len(s) : (s \o t)[i] = s[i]
      /\ \A i \in 1 .. Len(t) : (s \o t)[Len(s) + i] = t[i]
      /\ Len(s \o t) = Len(s) + Len(t)
  OBVIOUS
<1>2. /\ \A i \in 1 .. Len(t) : Len(s) + i \in 1 .. Len(s) + Len(t)
      /\ \A i \in 1 .. Len(s) : i \in 1 .. Len(s) + Len(t)
  OBVIOUS
<1>3. ASSUME NEW e \in Elements(t) PROVE e \in Elements(s \o t)
  BY <1>1, <1>2 DEF Elements
<1>4. ASSUME NEW e \in Elements(s) PROVE e \in Elements(s \o t)
  BY <1>1, <1>2 DEF Elements
<1> QED  BY <1>1, <1>3, <1>4

LEMMA Files ==
    /\ NoFile \in File
    /\ \A s \in Seq(LineNo) :
         FileOf(s) \in File /\ FileOf(s).exists /\ FileOf(s).lines = s
    /\ \A f \in File : f.lines \in Seq(LineNo) /\ InFile(f) = Elements(f.lines)
    /\ InMemory = Elements(lines)
BY DEF NoFile, FileOf, File, InFile, InMemory, Elements

\* The first lines of a buffer, and the ones after them.
LEMMA PartsOf ==
    ASSUME NEW S, NEW s \in Seq(S), NEW n \in 0 .. Len(s)
    PROVE  /\ SubSeq(s, 1, n) \in Seq(S) /\ Len(SubSeq(s, 1, n)) = n
           /\ SubSeq(s, n + 1, Len(s)) \in Seq(S)
           /\ Len(SubSeq(s, n + 1, Len(s))) = Len(s) - n
           /\ n = Len(s) => SubSeq(s, 1, n) = s /\ SubSeq(s, n + 1, Len(s)) = <<>>
<1>1. Len(s) \in Nat /\ n \in Nat /\ n <= Len(s)  OBVIOUS
<1>2. \A i \in 1 .. n : s[i] \in S  BY <1>1
<1>3. \A i \in n + 1 .. Len(s) : s[i] \in S  BY <1>1
<1>4. SubSeq(s, 1, n) \in Seq(S) /\ Len(SubSeq(s, 1, n)) = n
  BY <1>1, <1>2, SubSeqProperties
<1>5. /\ SubSeq(s, n + 1, Len(s)) \in Seq(S)
      /\ Len(SubSeq(s, n + 1, Len(s))) = Len(s) - n
  BY <1>1, <1>3, SubSeqProperties
<1>6. ASSUME n = Len(s) PROVE SubSeq(s, 1, n) = s  BY <1>1, <1>6
<1>7. ASSUME n = Len(s) PROVE SubSeq(s, n + 1, Len(s)) = <<>>
  BY <1>1, <1>5, <1>7, EmptySeq
<1> QED  BY <1>4, <1>5, <1>6, <1>7

\* What the file is when a part of the buffer, or all of it, is on the disk.
LEMMA DiskParts ==
    ASSUME TypeOK, NEW n \in 0 .. Len(buffered)
    PROVE  /\ OnDisk(n) \in File
           /\ cur.exists => OnDisk(n).exists
           /\ Len(OnDisk(n).lines) = Len(cur.lines) + n
           /\ InFile(cur) \subseteq InFile(OnDisk(n))
           /\ n = Len(buffered) => Elements(buffered) \subseteq InFile(OnDisk(n))
<1>1. cur \in File /\ buffered \in Seq(LineNo)  BY DEF TypeOK
<1>2. cur.lines \in Seq(LineNo) /\ InFile(cur) = Elements(cur.lines)
  BY <1>1, Files
<1>3. CASE n = 0
  <2>1. OnDisk(n) = cur  BY <1>3 DEF OnDisk
  <2>2. Len(cur.lines) + n = Len(cur.lines)  BY <1>2, <1>3
  <2>3. n = Len(buffered) => Elements(buffered) = {}
    BY <1>1, <1>3 DEF Elements
  <2> QED  BY <1>1, <2>1, <2>2, <2>3
<1>4. CASE n # 0
  <2> DEFINE part == SubSeq(buffered, 1, n)
             all  == cur.lines \o part
  <2>1. part \in Seq(LineNo) /\ Len(part) = n /\ (n = Len(buffered) => part = buffered)
    BY <1>1, PartsOf
  <2>2. OnDisk(n) = FileOf(all)  BY <1>4 DEF OnDisk
  <2> HIDE DEF part
  <2>3. /\ all \in Seq(LineNo) /\ Len(all) = Len(cur.lines) + Len(part)
        /\ Elements(cur.lines) \subseteq Elements(all)
        /\ Elements(part) \subseteq Elements(all)
    BY <1>2, <2>1, JoinedElements
  <2> HIDE DEF all
  <2>4. /\ FileOf(all) \in File /\ FileOf(all).exists /\ FileOf(all).lines = all
        /\ InFile(FileOf(all)) = Elements(all)
    BY <2>3, Files
  <2> QED  BY <1>2, <2>1, <2>2, <2>3, <2>4
<1> QED  BY <1>3, <1>4

LEMMA MirrorInit == Init => MirrorInv
<1> SUFFICES ASSUME Init PROVE MirrorInv  OBVIOUS
<1> USE DiagLogAssumption DEF Init
<1>1. 0 \in 0 .. MaxStamp /\ <<0>> \in Seq(Nat) /\ Len(<<0>>) \in 1 .. MaxRuns
  OBVIOUS
<1>2. stamped \in [Threads -> 0 .. MaxStamp]  BY <1>1
<1>3. <<>> \in Seq(LineNo) /\ Len(<<>>) = 0  OBVIOUS
<1>4. cur \in File /\ prev \in File  BY Files
<1>5. verbose \in BOOLEAN /\ isOpen \in BOOLEAN /\ failed \in BOOLEAN  OBVIOUS
<1>6. lines \in Seq(LineNo) /\ Len(lines) <= MaxLines  BY <1>3
<1>7. previousRun \in Seq(LineNo) /\ Len(previousRun) <= TailLines  BY <1>3
<1>8. buffered \in Seq(LineNo)  BY <1>3
<1>9. TypeOK
  <2>1. fileBytes \in Nat /\ clock \in 0 .. MaxStamp  BY <1>1
  <2>2. begin \in Seq(Nat) /\ Len(begin) \in 1 .. MaxRuns  BY <1>1
  <2>3. holder \in Threads  OBVIOUS
  <2> HIDE DEF Init
  <2>4. switching \in {"no", "file", "note"}  BY DEF Init
  <2>5. lockAt \in {"free", "write", "flush", "backfill", "backfillFlush"}  BY DEF Init
  <2> QED
    BY <1>2, <1>4, <1>5, <1>6, <1>7, <1>8, <2>1, <2>2, <2>3, <2>4, <2>5, Zenon
    DEF TypeOK
<1>10. BufferInv  BY DEF BufferInv
<1> QED  BY <1>9, <1>10 DEF MirrorInv, MirrorComplete, FileGood, FileCounted

-----------------------------------------------------------------------------
\* The steps, one by one: what each leaves of the invariant.

\* Another run begins: what was on the disk is the previous log.
LEMMA RestartMirror ==
    ASSUME MirrorInv, Restart
    PROVE  MirrorInv'
<1> USE DiagLogAssumption DEF Restart
<1>1. TypeOK  BY DEF MirrorInv
<1>2. cur' \in File /\ prev' \in File
  <2>1. PICK n \in 0 .. Len(buffered) : Rotate(OnDisk(n))  OBVIOUS
  <2>2. OnDisk(n) \in File  BY <1>1, DiskParts
  <2> QED  BY <1>1, <2>1, <2>2, Files DEF Rotate, TypeOK
<1>3. previousRun' \in Seq(LineNo) /\ Len(previousRun') <= TailLines
  BY <1>2, Files, TailsPart
<1>4. stamped' \in [Threads -> 0 .. MaxStamp]  OBVIOUS
<1>5. begin' \in Seq(Nat) /\ Len(begin') \in 1 .. MaxRuns
  <2>1. begin \in Seq(Nat) /\ Len(begin) \in 1 .. MaxRuns /\ clock \in Nat
    BY <1>1 DEF TypeOK
  <2> QED  BY <2>1
<1>6. lines' \in Seq(LineNo) /\ Len(lines') <= MaxLines /\ buffered' \in Seq(LineNo)
  OBVIOUS
<1>7. fileBytes' \in Nat /\ clock' \in 0 .. MaxStamp  BY <1>1 DEF TypeOK
<1>8. holder' \in Threads  OBVIOUS
<1>9. TypeOK'
  <2>1. /\ verbose' \in BOOLEAN /\ isOpen' \in BOOLEAN /\ failed' \in BOOLEAN
        /\ switching' \in {"no", "file", "note"}
        /\ lockAt' \in {"free", "write", "flush", "backfill", "backfillFlush"}
    BY Zenon
  <2> HIDE DEF Restart
  <2> QED
    BY <1>2, <1>3, <1>4, <1>5, <1>6, <1>7, <1>8, <2>1, Zenon DEF TypeOK
<1>10. ~isOpen' /\ BufferInv'  BY DEF BufferInv
<1> QED  BY <1>9, <1>10 DEF MirrorInv, MirrorComplete, FileGood, FileCounted

\* A thread takes its stamp: it is not the one that holds the lock to append.
LEMMA StampMirror ==
    ASSUME MirrorInv, NEW t \in Threads, Stamp(t)
    PROVE  MirrorInv'
<1> USE DiagLogAssumption DEF Stamp
<1>1. TypeOK /\ BufferInv /\ clock \in 0 .. MaxStamp  BY DEF MirrorInv, TypeOK
<1>2. clock' \in 0 .. MaxStamp  BY <1>1
<1>3. stamped' \in [Threads -> 0 .. MaxStamp]  BY <1>1, <1>2 DEF TypeOK
<1>4. switching' \in {"no", "file", "note"}  BY <1>1 DEF TypeOK
<1>5. /\ UNCHANGED <<verbose, lines, isOpen, fileBytes, buffered, failed, cur>>
      /\ UNCHANGED <<prev, previousRun, begin, lockAt, holder>>
  BY DEF fileVars, runVars, lockVars
<1>6. lockAt \in {"write", "flush"} => stamped'[holder] = stamped[holder]
  BY <1>1 DEF BufferInv, TypeOK
<1> HIDE DEF Stamp
<1>7. TypeOK'  BY <1>1, <1>2, <1>3, <1>4, <1>5, Zenon DEF TypeOK
<1>8. BufferInv'  BY <1>1, <1>5, <1>6, Zenon DEF BufferInv
<1>9. FileCounted'  BY <1>5 DEF MirrorInv, FileCounted
<1>10. InProgress' = InProgress  BY <1>5, <1>6 DEF InProgress
<1>11. MirrorComplete'
  BY <1>5, <1>10
  DEF MirrorInv, MirrorComplete, FileGood, Opening, InMemory, InFile
<1> QED  BY <1>7, <1>8, <1>9, <1>11 DEF MirrorInv

\* A line goes to the ring, and the lock is kept if the file is to get it.
LEMMA AppendMirror ==
    ASSUME MirrorInv, NEW t \in Threads, AppendLine(t)
    PROVE  MirrorInv'
<1> USE DiagLogAssumption DEF AppendLine
<1>1. TypeOK /\ BufferInv  BY DEF MirrorInv
<1> DEFINE line == stamped[t]
           all == Append(lines, line)
<1>2. line \in LineNo  BY <1>1 DEF TypeOK, LineNo
<1>3. lines \in Seq(LineNo)  BY <1>1 DEF TypeOK
<1>4. all \in Seq(LineNo) /\ Elements(all) = Elements(lines) \union {line}
  BY <1>2, <1>3, AppendedElements
<1>5. lines' = Tails(all, MaxLines)  BY DEF Remember
<1>6. /\ lines' \in Seq(LineNo) /\ Len(lines') <= MaxLines
      /\ Elements(lines') \subseteq Elements(all)
  <2> HIDE DEF all
  <2> QED  BY <1>4, <1>5, TailsPart
<1>7. /\ UNCHANGED <<verbose, isOpen, fileBytes, buffered, failed, cur>>
      /\ UNCHANGED <<prev, previousRun, begin, switching, clock>>
      /\ lockAt = "free" /\ line # 0
  BY DEF fileVars, runVars
<1>8. FileCounted'  BY <1>7 DEF MirrorInv, FileCounted
<1>9. CASE isOpen /\ fileBytes < MaxFileLines
  <2>1. lockAt' = "write" /\ holder' = t /\ stamped' = stamped
    BY <1>9 DEF Acquire
  <2> HIDE DEF AppendLine, all, line
  <2>2. lockAt' \in {"free", "write", "flush", "backfill", "backfillFlush"}
    BY <2>1
  <2>3. holder' \in Threads /\ stamped' \in [Threads -> 0 .. MaxStamp]
    BY <1>1, <2>1 DEF TypeOK
  <2>4. TypeOK'  BY <1>1, <1>6, <1>7, <2>2, <2>3, Zenon DEF TypeOK
  <2>5. BufferInv'  BY <1>1, <1>7, <1>9, <2>1 DEF BufferInv, line
  <2>6. FileGood' => FileGood
    BY <1>7, <2>1, Zenon DEF FileGood, Opening
  <2>7. InProgress = {} /\ InProgress' = {line}
    BY <1>7, <2>1 DEF InProgress, line
  <2>8. ASSUME FileGood' PROVE (InMemory \ InProgress \subseteq InFile(cur))'
    <3>1. Elements(lines) \subseteq InFile(cur)
      BY <2>6, <2>7, <2>8, Files DEF MirrorInv, MirrorComplete
    <3>2. InMemory' = Elements(lines') /\ InFile(cur)' = InFile(cur)
      BY <1>7 DEF InMemory, InFile, Elements
    <3> QED  BY <1>4, <1>6, <2>7, <3>1, <3>2
  <2> QED  BY <1>8, <2>4, <2>5, <2>8 DEF MirrorInv, MirrorComplete
<1>10. CASE ~ (isOpen /\ fileBytes < MaxFileLines)
  <2>1. lockAt' = lockAt /\ holder' = holder /\ stamped' = [stamped EXCEPT ![t] = 0]
    BY <1>10 DEF lockVars
  <2>2. stamped' \in [Threads -> 0 .. MaxStamp]  BY <1>1, <2>1 DEF TypeOK
  <2> HIDE DEF AppendLine, all, line
  <2>3. TypeOK'  BY <1>1, <1>6, <1>7, <2>1, <2>2, Zenon DEF TypeOK
  <2>4. BufferInv'  BY <1>1, <1>7, <2>1 DEF BufferInv
  <2>5. ~FileGood'  BY <1>7, <1>10 DEF FileGood
  <2> QED  BY <1>8, <2>3, <2>4, <2>5 DEF MirrorInv, MirrorComplete
<1> QED  BY <1>9, <1>10

\* The line goes to the buffer of the file, or a write has failed.
LEMMA WriteMirror ==
    ASSUME MirrorInv, WriteLine
    PROVE  MirrorInv'
<1> USE DiagLogAssumption DEF WriteLine
<1>1. TypeOK /\ BufferInv  BY DEF MirrorInv
<1> DEFINE line == stamped[holder]
<1>2. /\ lockAt = "write" /\ lockAt' = "flush" /\ fileBytes' = fileBytes + 1
      /\ UNCHANGED <<verbose, lines, isOpen, cur, prev, previousRun, begin>>
      /\ UNCHANGED <<stamped, switching, holder, clock>>
  BY DEF runVars
<1>3. line \in LineNo /\ line # 0 /\ fileBytes \in Nat /\ buffered \in Seq(LineNo)
  BY <1>1, <1>2 DEF BufferInv, TypeOK, LineNo
<1>4. cur.lines \in Seq(LineNo)  BY <1>1, Files DEF TypeOK
<1>5. \/ buffered' = Append(buffered, line) /\ failed' = failed
      \/ buffered' = buffered /\ failed' = TRUE
  OBVIOUS
<1> HIDE DEF WriteLine, line
<1>6. /\ buffered' \in Seq(LineNo)
      /\ \/ Len(buffered') = Len(buffered) + 1 /\ failed' = failed
         \/ Len(buffered') = Len(buffered) /\ failed' = TRUE
  BY <1>3, <1>5
<1>7. failed' \in BOOLEAN /\ (failed => failed')
  BY <1>1, <1>5, Zenon DEF TypeOK
<1>8. TypeOK'
  <2>1. lockAt' \in {"free", "write", "flush", "backfill", "backfillFlush"}  BY <1>2
  <2>2. fileBytes' \in Nat  BY <1>2, <1>3
  <2> QED  BY <1>1, <1>2, <1>6, <1>7, <2>1, <2>2, Zenon DEF TypeOK
<1>9. BufferInv'
  <2>1. ASSUME ~failed' PROVE buffered' = <<stamped'[holder']>>
    <3>1. buffered = <<>>  BY <1>1, <1>2, <1>7, <2>1 DEF BufferInv
    <3>2. buffered' = Append(buffered, line)  BY <1>5, <2>1
    <3> QED  BY <1>2, <3>1, <3>2 DEF line
  <2>2. isOpen /\ cur.exists /\ stamped[holder] # 0  BY <1>1, <1>2 DEF BufferInv
  <2> QED  BY <1>2, <2>1, <2>2 DEF BufferInv
<1>10. FileCounted'
  <2> DEFINE c == Len(cur.lines)
             d == Len(buffered)
  <2>1. isOpen /\ fileBytes >= c + d /\ (~failed => fileBytes = c + d)
    BY <1>1, <1>2 DEF BufferInv, MirrorInv, FileCounted
  <2>2. c \in Nat /\ d \in Nat  BY <1>3, <1>4
  <2>3. Len(cur'.lines) = c  BY <1>2
  <2>4. \/ Len(buffered') = d + 1 /\ failed' = failed
        \/ Len(buffered') = d /\ failed' = TRUE
    BY <1>6
  <2> HIDE DEF c, d
  <2>5. fileBytes' >= c + Len(buffered')  BY <1>2, <1>3, <2>1, <2>2, <2>4
  <2>6. ASSUME ~failed' PROVE fileBytes' = c + Len(buffered')
    <3>1. Len(buffered') = d + 1 /\ ~failed  BY <1>7, <2>4, <2>6, Zenon
    <3>2. fileBytes = c + d  BY <2>1, <3>1, Zenon
    <3> QED  BY <1>2, <1>3, <2>2, <3>1, <3>2
  <2> QED  BY <2>3, <2>5, <2>6 DEF FileCounted
<1>11. MirrorComplete'
  <2>1. ASSUME FileGood' PROVE FileGood
    <3>1. fileBytes + 1 < MaxFileLines  BY <1>2, <2>1 DEF FileGood
    <3>2. fileBytes < MaxFileLines  BY <1>3, <3>1
    <3>3. isOpen /\ ~failed /\ ~Opening
      BY <1>2, <1>7, <2>1 DEF FileGood, Opening
    <3> QED  BY <3>2, <3>3 DEF FileGood
  <2>2. InProgress' = InProgress  BY <1>2 DEF InProgress
  <2>3. InMemory' = InMemory /\ InFile(cur)' = InFile(cur)
    BY <1>2 DEF InMemory, InFile
  <2> QED  BY <2>1, <2>2, <2>3 DEF MirrorInv, MirrorComplete
<1> QED  BY <1>8, <1>9, <1>10, <1>11 DEF MirrorInv

\* A flush moves lines from the buffer to the file, all of them unless it fails.
LEMMA FlushedParts ==
    ASSUME MirrorInv, isOpen, isOpen', fileBytes' = fileBytes, Flush
    PROVE  /\ cur' \in File /\ cur'.exists /\ buffered' \in Seq(LineNo)
           /\ failed' \in BOOLEAN /\ (failed => failed')
           /\ InFile(cur) \subseteq InFile(cur')
           /\ ~failed' => /\ Elements(buffered) \subseteq InFile(cur')
                          /\ buffered' = <<>>
           /\ FileCounted'
<1>1. TypeOK /\ cur.exists /\ fileBytes \in Nat /\ failed \in BOOLEAN
  BY DEF MirrorInv, BufferInv, TypeOK
<1>2. buffered \in Seq(LineNo) /\ cur.lines \in Seq(LineNo)
  BY <1>1, Files DEF TypeOK
<1>3. PICK n \in 0 .. Len(buffered) :
           /\ cur' = OnDisk(n)
           /\ buffered' = SubSeq(buffered, n + 1, Len(buffered))
           /\ failed' = (failed \/ n < Len(buffered))
  BY DEF Flush
<1>4. /\ cur' \in File /\ cur'.exists /\ Len(cur'.lines) = Len(cur.lines) + n
      /\ InFile(cur) \subseteq InFile(cur')
      /\ n = Len(buffered) => Elements(buffered) \subseteq InFile(cur')
  BY <1>1, <1>3, DiskParts
<1>5. /\ buffered' \in Seq(LineNo) /\ Len(buffered') = Len(buffered) - n
      /\ n = Len(buffered) => buffered' = <<>>
  BY <1>2, <1>3, PartsOf
<1>6. Len(buffered) \in Nat /\ n \in Nat /\ n <= Len(buffered)  BY <1>2
<1>7. failed' \in BOOLEAN  BY <1>3
<1>8. ASSUME ~failed' PROVE ~failed /\ n = Len(buffered)
  <2>1. ~failed /\ ~(n < Len(buffered))  BY <1>3, <1>8, Zenon
  <2>2. n = Len(buffered)  BY <1>6, <2>1
  <2> QED  BY <2>1, <2>2
<1>9. FileCounted'
  <2> DEFINE c == Len(cur.lines)
             d == Len(buffered)
  <2>1. fileBytes >= c + d /\ (~failed => fileBytes = c + d)
    BY DEF MirrorInv, FileCounted
  <2>2. c \in Nat /\ d \in Nat  BY <1>2
  <2>3. Len(cur'.lines) = c + n /\ Len(buffered') = d - n  BY <1>4, <1>5
  <2>4. n \in Nat  BY <1>6
  <2> HIDE DEF c, d
  <2>5. Len(cur'.lines) + Len(buffered') = c + d  BY <2>2, <2>3, <2>4
  <2>6. ~failed' => fileBytes = c + d  BY <1>8, <2>1, Zenon
  <2> QED  BY <2>1, <2>5, <2>6 DEF FileCounted
<1> QED  BY <1>4, <1>5, <1>7, <1>8, <1>9

LEMMA FlushMirror ==
    ASSUME MirrorInv, FlushLine
    PROVE  MirrorInv'
<1> USE DiagLogAssumption DEF FlushLine
<1>1. TypeOK /\ BufferInv  BY DEF MirrorInv
<1>2. /\ lockAt = "flush" /\ lockAt' = "free" /\ holder' = Gui /\ Flush
      /\ stamped' = [stamped EXCEPT ![holder] = 0]
      /\ UNCHANGED <<verbose, lines, isOpen, fileBytes, prev, previousRun, begin>>
      /\ UNCHANGED <<switching, clock>>
  BY DEF runVars, Release
<1> HIDE DEF FlushLine
<1>3. isOpen /\ isOpen'  BY <1>1, <1>2 DEF BufferInv
<1>4. /\ cur' \in File /\ cur'.exists /\ buffered' \in Seq(LineNo)
      /\ failed' \in BOOLEAN /\ (failed => failed')
      /\ InFile(cur) \subseteq InFile(cur')
      /\ ~failed' => /\ Elements(buffered) \subseteq InFile(cur')
                     /\ buffered' = <<>>
      /\ FileCounted'
  BY <1>2, <1>3, FlushedParts
<1>5. TypeOK'
  <2>1. stamped' \in [Threads -> 0 .. MaxStamp]  BY <1>1, <1>2 DEF TypeOK
  <2>2. lockAt' \in {"free", "write", "flush", "backfill", "backfillFlush"}  BY <1>2
  <2>3. holder' \in Threads  BY <1>2
  <2> QED  BY <1>1, <1>2, <1>4, <2>1, <2>2, <2>3, Zenon DEF TypeOK
<1>6. BufferInv'  BY <1>2, <1>3, <1>4 DEF BufferInv
<1>7. ASSUME FileGood' PROVE (InMemory \ InProgress \subseteq InFile(cur))'
  <2>1. ~failed' /\ ~failed  BY <1>4, <1>7 DEF FileGood
  <2>2. FileGood
    BY <1>2, <1>7, <2>1 DEF FileGood, Opening
  <2>3. InMemory \ {stamped[holder]} \subseteq InFile(cur)
    BY <1>2, <2>2 DEF MirrorInv, MirrorComplete, InProgress
  <2>4. stamped[holder] \in Elements(buffered)
    <3>1. buffered = <<stamped[holder]>>  BY <1>1, <1>2, <2>1 DEF BufferInv
    <3> QED  BY <3>1 DEF Elements
  <2>5. InMemory' = InMemory /\ InProgress' = {}  BY <1>2 DEF InMemory, InProgress
  <2>6. InFile(cur)' = InFile(cur')  BY DEF InFile
  <2> QED  BY <1>4, <2>1, <2>3, <2>4, <2>5, <2>6
<1> QED  BY <1>4, <1>5, <1>6, <1>7 DEF MirrorInv, MirrorComplete

\* What changes nothing of the file, the ring and the lock.
LEMMA SwitchMirror ==
    ASSUME MirrorInv, SetVerbose \/ OpenFails
    PROVE  MirrorInv'
<1>1. TypeOK /\ BufferInv  BY DEF MirrorInv
<1>2. /\ UNCHANGED <<lines, isOpen, fileBytes, buffered, failed, cur>>
      /\ UNCHANGED <<prev, previousRun, begin, stamped, lockAt, holder, clock>>
  BY DEF SetVerbose, OpenFails, fileVars, runVars, lockVars
<1>3. verbose' \in BOOLEAN /\ switching' \in {"no", "file", "note"}
  BY <1>1, Zenon DEF SetVerbose, OpenFails, TypeOK
<1>4. TypeOK'  BY <1>1, <1>2, <1>3, Zenon DEF TypeOK
<1>5. BufferInv'  BY <1>1, <1>2 DEF BufferInv
<1>6. FileCounted' /\ MirrorComplete'
  BY <1>2
  DEF MirrorInv, FileCounted, MirrorComplete, FileGood, Opening, InProgress,
      InMemory, InFile
<1> QED  BY <1>4, <1>5, <1>6 DEF MirrorInv

\* The file is open, and nothing is written yet.
LEMMA OpenMirror ==
    ASSUME MirrorInv, OpenFile
    PROVE  MirrorInv'
<1> USE DiagLogAssumption DEF OpenFile
<1>1. TypeOK /\ BufferInv  BY DEF MirrorInv
<1>2. /\ UNCHANGED <<verbose, lines, buffered, prev, previousRun, begin, stamped>>
      /\ UNCHANGED <<switching, clock>>
      /\ isOpen' = TRUE /\ failed' = FALSE /\ lockAt' = "backfill" /\ holder' = Gui
      /\ cur' = FileOf(cur.lines) /\ fileBytes' = Len(cur.lines) /\ ~isOpen
  BY DEF runVars, Acquire
<1> HIDE DEF OpenFile
<1>3. buffered = <<>>  BY <1>1, <1>2 DEF BufferInv
<1>4. cur.lines \in Seq(LineNo)  BY <1>1, Files DEF TypeOK
<1>5. cur' \in File /\ cur'.exists /\ cur'.lines = cur.lines
  BY <1>2, <1>4, Files
<1>6. TypeOK'
  <2>1. fileBytes' \in Nat /\ holder' \in Threads  BY <1>2, <1>4
  <2>2. lockAt' \in {"free", "write", "flush", "backfill", "backfillFlush"}  BY <1>2
  <2>3. isOpen' \in BOOLEAN /\ failed' \in BOOLEAN  BY <1>2, Zenon
  <2> QED  BY <1>1, <1>2, <1>5, <2>1, <2>2, <2>3, Zenon DEF TypeOK
<1>7. BufferInv'  BY <1>2, <1>3, <1>5 DEF BufferInv
<1>8. FileCounted'
  <2>1. Len(cur'.lines) = Len(cur.lines) /\ Len(buffered') = 0 /\ Len(cur.lines) \in Nat
    BY <1>2, <1>3, <1>4, <1>5
  <2> QED  BY <1>2, <2>1 DEF FileCounted
<1>9. ~FileGood'  BY <1>2 DEF FileGood, Opening
<1> QED  BY <1>6, <1>7, <1>8, <1>9 DEF MirrorInv, MirrorComplete

\* The ring goes to the buffer, or as much of it as can be written.
LEMMA BackfillMirror ==
    ASSUME MirrorInv, WriteBackfill
    PROVE  MirrorInv'
<1> USE DiagLogAssumption DEF WriteBackfill
<1>1. TypeOK /\ BufferInv  BY DEF MirrorInv
<1>2. /\ lockAt = "backfill" /\ lockAt' = "backfillFlush" /\ Backfill
      /\ UNCHANGED <<verbose, lines, isOpen, cur, prev, previousRun, begin>>
      /\ UNCHANGED <<stamped, switching, holder, clock>>
  BY DEF runVars
<1> HIDE DEF WriteBackfill
<1>3. /\ lines \in Seq(LineNo) /\ buffered \in Seq(LineNo) /\ fileBytes \in Nat
      /\ failed \in BOOLEAN /\ cur.lines \in Seq(LineNo)
  BY <1>1, Files DEF TypeOK
<1>4. PICK n \in 0 .. Len(lines) :
           /\ buffered' = buffered \o SubSeq(lines, 1, n)
           /\ failed' = (failed \/ n < Len(lines))
  BY <1>2 DEF Backfill
<1>5. fileBytes' = fileBytes + Len(lines)  BY <1>2 DEF Backfill
<1> DEFINE part == SubSeq(lines, 1, n)
<1>6. part \in Seq(LineNo) /\ Len(part) = n /\ (n = Len(lines) => part = lines)
  BY <1>3, PartsOf
<1>7. Len(lines) \in Nat /\ n \in Nat /\ n <= Len(lines)  BY <1>3
<1>8. buffered' = buffered \o part  BY <1>4
<1> HIDE DEF part
<1>9. buffered' \in Seq(LineNo) /\ Len(buffered') = Len(buffered) + n
  BY <1>3, <1>6, <1>8, JoinedElements
<1>10. ASSUME ~failed' PROVE ~failed /\ n = Len(lines)
  <2>1. ~failed /\ ~(n < Len(lines))  BY <1>4, <1>10, Zenon
  <2>2. n = Len(lines)  BY <1>7, <2>1
  <2> QED  BY <2>1, <2>2
<1>11. TypeOK'
  <2>1. fileBytes' \in Nat  BY <1>3, <1>5, <1>7
  <2>2. failed' \in BOOLEAN  BY <1>4
  <2>3. lockAt' \in {"free", "write", "flush", "backfill", "backfillFlush"}  BY <1>2
  <2> QED  BY <1>1, <1>2, <1>9, <2>1, <2>2, <2>3, Zenon DEF TypeOK
<1>12. BufferInv'
  <2>1. ASSUME ~failed' PROVE buffered' = lines'
    <3>1. buffered = <<>> /\ part = lines
      BY <1>1, <1>2, <1>6, <1>10, <2>1 DEF BufferInv
    <3>2. buffered' = <<>> \o lines  BY <1>8, <3>1
    <3> QED  BY <1>2, <1>3, <3>2
  <2>2. isOpen /\ cur.exists  BY <1>1, <1>2 DEF BufferInv
  <2> QED  BY <1>2, <2>1, <2>2 DEF BufferInv
<1>13. FileCounted'
  <2> DEFINE c == Len(cur.lines)
             d == Len(buffered)
             m == Len(lines)
  <2>1. fileBytes >= c + d /\ (~failed => fileBytes = c + d)
    BY <1>1, <1>2 DEF BufferInv, MirrorInv, FileCounted
  <2>2. c \in Nat /\ d \in Nat /\ m \in Nat /\ n <= m /\ n \in Nat  BY <1>3, <1>7
  <2>3. Len(cur'.lines) = c /\ Len(buffered') = d + n /\ fileBytes' = fileBytes + m
    BY <1>2, <1>5, <1>9
  <2>4. ~failed' => n = m /\ fileBytes = c + d  BY <1>10, <2>1, Zenon
  <2> HIDE DEF c, d, m
  <2>5. fileBytes' >= c + (d + n)  BY <1>3, <2>1, <2>2, <2>3
  <2>6. ASSUME ~failed' PROVE fileBytes' = c + (d + n)
    <3>1. n = m /\ fileBytes = c + d  BY <2>4, <2>6, Zenon
    <3> QED  BY <1>3, <2>2, <2>3, <3>1
  <2> QED  BY <2>3, <2>5, <2>6 DEF FileCounted
<1>14. ~FileGood'  BY <1>2 DEF FileGood, Opening
<1> QED  BY <1>11, <1>12, <1>13, <1>14 DEF MirrorInv, MirrorComplete

\* Then the file holds the whole ring.
LEMMA FlushBackfillMirror ==
    ASSUME MirrorInv, FlushBackfill
    PROVE  MirrorInv'
<1> USE DiagLogAssumption DEF FlushBackfill
<1>1. TypeOK /\ BufferInv  BY DEF MirrorInv
<1>2. /\ lockAt = "backfillFlush" /\ lockAt' = "free" /\ holder' = Gui /\ Flush
      /\ switching' = "note"
      /\ UNCHANGED <<verbose, lines, isOpen, fileBytes, prev, previousRun, begin>>
      /\ UNCHANGED <<stamped, clock>>
  BY DEF runVars, Release
<1> HIDE DEF FlushBackfill
<1>3. isOpen /\ isOpen'  BY <1>1, <1>2 DEF BufferInv
<1>4. /\ cur' \in File /\ cur'.exists /\ buffered' \in Seq(LineNo)
      /\ failed' \in BOOLEAN /\ (failed => failed')
      /\ ~failed' => /\ Elements(buffered) \subseteq InFile(cur')
                     /\ buffered' = <<>>
      /\ FileCounted'
  BY <1>2, <1>3, FlushedParts
<1>5. TypeOK'
  <2>1. switching' \in {"no", "file", "note"}  BY <1>2
  <2>2. lockAt' \in {"free", "write", "flush", "backfill", "backfillFlush"}  BY <1>2
  <2>3. holder' \in Threads  BY <1>2
  <2> QED  BY <1>1, <1>2, <1>4, <2>1, <2>2, <2>3, Zenon DEF TypeOK
<1>6. BufferInv'  BY <1>2, <1>3, <1>4 DEF BufferInv
<1>7. ASSUME FileGood' PROVE (InMemory \ InProgress \subseteq InFile(cur))'
  <2>1. ~failed' /\ ~failed  BY <1>4, <1>7 DEF FileGood
  <2>2. buffered = lines  BY <1>1, <1>2, <2>1 DEF BufferInv
  <2>3. InMemory' = Elements(lines)  BY <1>2 DEF InMemory, Elements
  <2>4. InFile(cur)' = InFile(cur')  BY DEF InFile
  <2> QED  BY <1>4, <2>1, <2>2, <2>3, <2>4
<1> QED  BY <1>4, <1>5, <1>6, <1>7 DEF MirrorInv, MirrorComplete

LEMMA CloseMirror ==
    ASSUME MirrorInv, CloseFile
    PROVE  MirrorInv'
<1> USE DEF CloseFile
<1>1. TypeOK  BY DEF MirrorInv
<1>2. /\ UNCHANGED <<verbose, lines, fileBytes, prev, previousRun, begin>>
      /\ UNCHANGED <<stamped, lockAt, holder, clock>>
      /\ ~isOpen' /\ buffered' = <<>> /\ lockAt = "free"
  BY DEF runVars, lockVars
<1>3. /\ isOpen' \in BOOLEAN /\ failed' \in BOOLEAN
      /\ switching' \in {"no", "file", "note"}
  BY Zenon
<1>4. cur' \in File  BY <1>1, DiskParts
<1>5. buffered' \in Seq(LineNo)  BY <1>2
<1> HIDE DEF CloseFile
<1>6. TypeOK'  BY <1>1, <1>2, <1>3, <1>4, <1>5, Zenon DEF TypeOK
<1>7. BufferInv'  BY <1>2 DEF BufferInv
<1> QED  BY <1>2, <1>6, <1>7 DEF MirrorInv, MirrorComplete, FileGood, FileCounted

LEMMA MirrorNext == MirrorInv /\ [Next]_vars => MirrorInv'
<1> SUFFICES ASSUME MirrorInv, [Next]_vars PROVE MirrorInv'  OBVIOUS
<1>1. CASE UNCHANGED vars
  <2>1. TypeOK' /\ BufferInv'
    BY <1>1, Zenon
    DEF MirrorInv, TypeOK, BufferInv, vars, fileVars, runVars, lockVars
  <2>2. FileCounted' /\ MirrorComplete'
    BY <1>1
    DEF MirrorInv, FileCounted, MirrorComplete, FileGood, Opening, InProgress,
        InMemory, InFile, vars, fileVars, runVars, lockVars
  <2> QED  BY <2>1, <2>2 DEF MirrorInv
<1> QED
  BY <1>1, RestartMirror, SwitchMirror, OpenMirror, BackfillMirror,
     FlushBackfillMirror, CloseMirror, StampMirror, AppendMirror, WriteMirror,
     FlushMirror DEF Next

LEMMA MirrorAlways == Spec => []MirrorInv
BY MirrorInit, MirrorNext, PTL DEF Spec

\* The log's state is of its types, with the ring and the part of the previous
\* log that is read within their limits; and m_fileBytes, by which the log judges
\* that its file is full, is what was written to it, so far as writes succeed.
\* The file has no limit of its own: a backfill does not look at it.
THEOREM LogTypes == Spec => [](TypeOK /\ FileCounted)
<1>1. MirrorInv => TypeOK /\ FileCounted  BY DEF MirrorInv
<1> QED  BY <1>1, MirrorAlways, PTL

\* All that is in memory, but the line being appended, is on the disk while the
\* file is open, has room and was never refused a write.
THEOREM LogMirrored == Spec => []MirrorComplete
<1>1. MirrorInv => MirrorComplete  BY DEF MirrorInv
<1> QED  BY <1>1, MirrorAlways, PTL

\* At whichever step a run ends, also between the write and the flush of a line,
\* the next run finds all that was in memory but that line in the previous log,
\* while the file is open, not being opened, has room and was never refused a
\* write.
THEOREM LogSurvivesCrash == Spec => CrashKeepsLog
<1> DEFINE A == begin' # begin /\ FileGood
                   => InMemory \ InProgress \subseteq InFile(prev')
<1>1. MirrorInv /\ [Next]_vars => [A]_vars
  <2> SUFFICES ASSUME MirrorInv, Next, begin' # begin, FileGood
               PROVE  InMemory \ InProgress \subseteq InFile(prev')
    OBVIOUS
  <2>1. Restart
    BY DEF Next, SetVerbose, OpenFile, OpenFails, WriteBackfill, FlushBackfill,
       CloseFile, Stamp, AppendLine, WriteLine, FlushLine, runVars
  <2>2. PICK n \in 0 .. Len(buffered) : Rotate(OnDisk(n))  BY <2>1 DEF Restart
  <2>3. OnDisk(n).exists /\ InFile(cur) \subseteq InFile(OnDisk(n))
    BY <2>2, DiskParts DEF MirrorInv, BufferInv, FileGood
  <2>4. prev' = OnDisk(n)  BY <2>2, <2>3 DEF Rotate
  <2> QED  BY <2>3, <2>4 DEF MirrorInv, MirrorComplete
<1> HIDE DEF A
<1>2. Spec => [][A]_vars  BY <1>1, MirrorAlways, PTL DEF Spec
<1> QED  BY <1>2 DEF A, CrashKeepsLog

-----------------------------------------------------------------------------
(***************************************************************************)
(* RootLink: the connections.                                              *)
(***************************************************************************)
States  == {"pending", "hung", "open", "left", "gone"}
Counted == {"open", "left"}

\* The connections the helper counts as clients.
ServedOf(ps) == {p \in DOMAIN ps : ps[p].state \in Counted}

\* The counter is exact, and where no helper runs there is nobody to count.
ClientsInv ==
    /\ helper \in BOOLEAN
    /\ peers \in Seq(Peer) /\ Len(peers) <= MaxPeers
    /\ clients = Cardinality(ServedOf(peers))
    /\ ~helper => \A p \in DOMAIN peers : peers[p].state = "gone"

LEMMA ServedFinite ==
    ASSUME NEW ps \in Seq(Peer)
    PROVE  /\ IsFiniteSet(ServedOf(ps))
           /\ Cardinality(ServedOf(ps)) \in Nat
<1>1. DOMAIN ps = 1 .. Len(ps) /\ Len(ps) \in Nat  OBVIOUS
<1>2. IsFiniteSet(1 .. Len(ps))  BY <1>1, FS_Interval
<1>3. ServedOf(ps) \subseteq 1 .. Len(ps)  BY <1>1 DEF ServedOf
<1> QED  BY <1>2, <1>3, FS_Subset, FS_CardinalityType

\* One connection changes its state.
LEMMA StateSet ==
    ASSUME NEW ps \in Seq(Peer), NEW p \in DOMAIN ps, NEW st \in States,
           NEW qs, qs = [ps EXCEPT ![p].state = st]
    PROVE  /\ qs \in Seq(Peer) /\ Len(qs) = Len(ps) /\ DOMAIN qs = DOMAIN ps
           /\ qs[p].state = st
           /\ \A q \in DOMAIN ps \ {p} : qs[q] = ps[q]
<1>1. /\ DOMAIN ps = 1 .. Len(ps) /\ Len(ps) \in Nat
      /\ p \in 1 .. Len(ps) /\ ps[p] \in Peer
  OBVIOUS
<1> DEFINE new == [ps[p] EXCEPT !.state = st]
<1>2. new \in Peer /\ new.state = st  BY <1>1 DEF Peer, States
<1>3. qs = [ps EXCEPT ![p] = new]  OBVIOUS
<1> HIDE DEF new
<1>4. qs \in Seq(Peer) /\ Len(qs) = Len(ps)  BY <1>1, <1>2, <1>3, ExceptSeq
<1>5. /\ DOMAIN qs = DOMAIN ps /\ qs[p] = new
      /\ \A q \in DOMAIN ps \ {p} : qs[q] = ps[q]
  BY <1>1, <1>3
<1> QED  BY <1>2, <1>4, <1>5

LEMMA CountOn ==
    ASSUME NEW ps \in Seq(Peer), NEW p \in DOMAIN ps, ps[p].state \notin Counted,
           NEW st \in Counted, NEW qs, qs = [ps EXCEPT ![p].state = st]
    PROVE  Cardinality(ServedOf(qs)) = Cardinality(ServedOf(ps)) + 1
<1>1. st \in States  BY DEF Counted, States
<1>2. ServedOf(qs) = ServedOf(ps) \union {p}  BY <1>1, StateSet DEF ServedOf
<1>3. p \notin ServedOf(ps)  BY DEF ServedOf
<1> QED  BY <1>2, <1>3, ServedFinite, FS_AddElement

LEMMA CountOff ==
    ASSUME NEW ps \in Seq(Peer), NEW p \in DOMAIN ps, ps[p].state \in Counted,
           NEW st \in States \ Counted, NEW qs, qs = [ps EXCEPT ![p].state = st]
    PROVE  Cardinality(ServedOf(qs)) = Cardinality(ServedOf(ps)) - 1
<1>1. ServedOf(qs) = ServedOf(ps) \ {p}  BY StateSet DEF ServedOf
<1>2. p \in ServedOf(ps)  BY DEF ServedOf
<1> QED  BY <1>1, <1>2, ServedFinite, FS_RemoveElement

LEMMA Joins ==
    ASSUME NEW ps \in Seq(Peer), NEW who \in {"app", "tool", "stranger"},
           NEW qs, qs = Append(ps, [who |-> who, state |-> "pending"])
    PROVE  /\ qs \in Seq(Peer) /\ Len(qs) = Len(ps) + 1
           /\ ServedOf(qs) = ServedOf(ps)
<1> DEFINE new == [who |-> who, state |-> "pending"]
<1>1. new \in Peer /\ new.state = "pending"  BY DEF Peer
<1> HIDE DEF new
<1>2. qs = Append(ps, new)  BY DEF new
<1>3. /\ qs \in Seq(Peer) /\ Len(qs) = Len(ps) + 1
      /\ DOMAIN ps = 1 .. Len(ps) /\ DOMAIN qs = 1 .. Len(ps) + 1
      /\ \A q \in 1 .. Len(ps) : qs[q] = ps[q]
      /\ qs[Len(ps) + 1] = new
  BY <1>1, <1>2
<1>4. ASSUME NEW q PROVE q \in ServedOf(qs) <=> q \in ServedOf(ps)
  <2>1. CASE q \in 1 .. Len(ps)  BY <1>3, <2>1 DEF ServedOf
  <2>2. CASE q = Len(ps) + 1
    BY <1>1, <1>3, <2>2 DEF ServedOf, Counted
  <2>3. CASE q \notin 1 .. Len(ps) + 1
    <3>1. q \notin DOMAIN qs /\ q \notin DOMAIN ps  BY <1>3, <2>3
    <3> QED  BY <3>1 DEF ServedOf
  <2> QED  BY <2>1, <2>2, <2>3, <1>3
<1> QED  BY <1>3, <1>4

\* The helper is gone, and every connection with it.
LEMMA AllGone ==
    ASSUME peers \in Seq(Peer)
    PROVE  /\ NobodyLeft \in Seq(Peer) /\ Len(NobodyLeft) = Len(peers)
           /\ \A p \in DOMAIN NobodyLeft : NobodyLeft[p].state = "gone"
           /\ Cardinality(ServedOf(NobodyLeft)) = 0
<1>1. /\ Len(peers) \in Nat /\ DOMAIN peers = 1 .. Len(peers)
      /\ \A p \in 1 .. Len(peers) : peers[p] \in Peer
  OBVIOUS
<1>2. \A p \in 1 .. Len(peers) :
        /\ [peers[p] EXCEPT !.state = "gone"] \in Peer
        /\ [peers[p] EXCEPT !.state = "gone"].state = "gone"
  BY <1>1 DEF Peer
<1>3. /\ NobodyLeft \in [1 .. Len(peers) -> Peer]
      /\ \A p \in 1 .. Len(peers) : NobodyLeft[p].state = "gone"
  BY <1>1, <1>2 DEF NobodyLeft
<1>4. NobodyLeft \in Seq(Peer) /\ Len(NobodyLeft) = Len(peers)
  BY <1>1, <1>3, SeqDef, LenProperties
<1>5. ServedOf(NobodyLeft) = {}  BY <1>3 DEF ServedOf, Counted
<1> QED  BY <1>3, <1>4, <1>5, FS_EmptySet

\* The app drops its connection: the helper has not noticed.
LEMMA HangUp ==
    ASSUME peers \in Seq(Peer), sock \in 0 .. Len(peers)
    PROVE  /\ HungUp \in Seq(Peer) /\ Len(HungUp) = Len(peers)
           /\ ServedOf(HungUp) = ServedOf(peers)
           /\ (\A p \in DOMAIN peers : peers[p].state = "gone")
                 => HungUp = peers
<1>1. CASE ~ (sock # 0 /\ peers[sock].state \in {"pending", "open"})
  BY <1>1 DEF HungUp
<1>2. CASE sock # 0 /\ peers[sock].state = "open"
  <2>1. sock \in DOMAIN peers /\ HungUp = [peers EXCEPT ![sock].state = "left"]
    BY <1>2 DEF HungUp
  <2>2. "left" \in States /\ "left" \in Counted /\ peers[sock].state \in Counted
    BY <1>2 DEF States, Counted
  <2>3. HungUp \in Seq(Peer) /\ Len(HungUp) = Len(peers)
    BY <2>1, <2>2, StateSet
  <2>4. ServedOf(HungUp) = ServedOf(peers)
    BY <2>1, <2>2, StateSet DEF ServedOf
  <2> QED  BY <1>2, <2>1, <2>3, <2>4
<1>3. CASE sock # 0 /\ peers[sock].state = "pending"
  <2>1. sock \in DOMAIN peers /\ HungUp = [peers EXCEPT ![sock].state = "hung"]
    BY <1>3 DEF HungUp
  <2>2. "hung" \in States \ Counted /\ peers[sock].state \notin Counted
    BY <1>3 DEF States, Counted
  <2>3. HungUp \in Seq(Peer) /\ Len(HungUp) = Len(peers)
    BY <2>1, <2>2, StateSet
  <2>4. ServedOf(HungUp) = ServedOf(peers)
    BY <2>1, <2>2, StateSet DEF ServedOf
  <2> QED  BY <1>3, <2>1, <2>3, <2>4
<1> QED  BY <1>1, <1>2, <1>3

-----------------------------------------------------------------------------
(***************************************************************************)
(* RootLink: the request in progress.  Lines that the helper has not       *)
(* handled and parts that the app has not read are never of a connection   *)
(* before this one, nor of a request before this one.                      *)
(***************************************************************************)
Line(n) == [peer : 1 .. n, cmd : Commands]
Part    == [part : {"header", "payload"}, cmd : Commands]

PartOf(what, cmd) == [part |-> what, cmd |-> cmd]

\* Where the lines of a connection are among those not handled.
AskedBy(p, todo) == {i \in DOMAIN todo : todo[i].peer = p}

\* What is on its way for the request in progress.
OnItsWay ==
    \/ /\ phase = "idle" /\ AskedBy(sock, toHelper) = {} /\ toApp = <<>>
    \/ /\ phase = "header" /\ toApp = <<>>
       /\ \A i, j \in AskedBy(sock, toHelper) : i = j
       /\ \A i \in AskedBy(sock, toHelper) : toHelper[i].cmd = asking
    \/ /\ phase = "header" /\ AskedBy(sock, toHelper) = {}
       /\ toApp = <<PartOf("header", asking), PartOf("payload", asking)>>
    \/ /\ phase = "payload" /\ AskedBy(sock, toHelper) = {}
       /\ toApp = <<PartOf("payload", asking)>>

RequestInv ==
    /\ sock \in 0 .. Len(peers)
    /\ toHelper \in Seq(Line(Len(peers)))
    /\ asking \in Commands \union {NoCommand}
    /\ asking = NoCommand <=> phase = "idle"
    /\ answered \in (Commands \union {NoCommand}) \X (Commands \union {NoCommand})
    /\ AnswersItsRequest
    /\ OnItsWay

\* What no action can disturb.
SwitchInv ==
    /\ wanted \in BOOLEAN /\ retry \in BOOLEAN /\ old \in BOOLEAN
    /\ starts \in 0 .. MaxStarts

LinkInv == ClientsInv /\ RequestInv /\ SwitchInv

LEMMA PartsTyped ==
    ASSUME NEW c \in Commands
    PROVE  /\ PartOf("header", c) \in Part /\ PartOf("payload", c) \in Part
           /\ PartOf("header", c).part = "header"
           /\ PartOf("payload", c).part = "payload"
           /\ PartOf("payload", c).cmd = c
BY DEF PartOf, Part

LEMMA InvIsTyped == LinkInv => LinkTypeOK
<1> SUFFICES ASSUME LinkInv PROVE LinkTypeOK  OBVIOUS
<1> USE DEF LinkInv
<1>1. clients \in Nat  BY ServedFinite DEF ClientsInv
<1>2. toHelper \in Seq([peer : Nat, cmd : Commands])
  <2>1. Line(Len(peers)) \subseteq [peer : Nat, cmd : Commands]  BY DEF Line
  <2> QED  BY <2>1, SeqMonotonic DEF RequestInv
<1>3. toApp \in Seq(Part)
  <2>1. CASE phase = "idle"  BY <2>1 DEF RequestInv, OnItsWay
  <2>2. CASE phase # "idle"
    <3>1. asking \in Commands  BY <2>2 DEF RequestInv
    <3> HIDE DEF LinkInv
    <3>2. OnItsWay  BY DEF LinkInv, RequestInv
    <3>3. <<>> \in Seq(Part)
          /\ <<PartOf("header", asking), PartOf("payload", asking)>> \in Seq(Part)
          /\ <<PartOf("payload", asking)>> \in Seq(Part)
      BY <3>1, PartsTyped
    <3> QED  BY <3>2, <3>3, <2>2 DEF OnItsWay
  <2> QED  BY <2>1, <2>2
<1>4. phase \in {"idle", "header", "payload"}  BY DEF RequestInv, OnItsWay
<1> HIDE DEF LinkInv
<1> QED
  BY <1>1, <1>2, <1>3, <1>4, Zenon DEF LinkInv, ClientsInv, RequestInv, SwitchInv,
     LinkTypeOK, Part

LEMMA LinkInit_Inv == LinkInit => LinkInv
<1> SUFFICES ASSUME LinkInit PROVE LinkInv  OBVIOUS
<1> USE LinkAssumption DEF LinkInit
<1>1. ServedOf(peers) = {}  BY DEF ServedOf
<1>2. ClientsInv
  <2>1. peers \in Seq(Peer) /\ Len(peers) <= MaxPeers  OBVIOUS
  <2>2. \A p \in DOMAIN peers : peers[p].state = "gone"  OBVIOUS
  <2>3. clients = Cardinality(ServedOf(peers))  BY <1>1, FS_EmptySet
  <2> QED  BY <2>1, <2>2, <2>3 DEF ClientsInv
<1>3. RequestInv
  <2>1. sock \in 0 .. Len(peers)  OBVIOUS
  <2>2. toHelper \in Seq(Line(Len(peers)))  OBVIOUS
  <2>3. AskedBy(sock, toHelper) = {}  BY DEF AskedBy
  <2>4. answered \in (Commands \union {NoCommand}) \X (Commands \union {NoCommand})
        /\ AnswersItsRequest
    BY DEF AnswersItsRequest
  <2> QED  BY <2>1, <2>2, <2>3, <2>4 DEF RequestInv, OnItsWay
<1>4. SwitchInv
  <2>1. starts \in 0 .. MaxStarts  OBVIOUS
  <2>2. wanted \in BOOLEAN /\ retry \in BOOLEAN /\ old \in BOOLEAN  BY Zenon
  <2> QED  BY <2>1, <2>2 DEF SwitchInv
<1> QED  BY <1>2, <1>3, <1>4 DEF LinkInv

-----------------------------------------------------------------------------
\* What each action does to the connections.

LEMMA ServesClients ==
    ASSUME ClientsInv, HelperServes
    PROVE  ClientsInv' /\ Len(peers') = Len(peers)
<1> USE DEF ClientsInv
<1>1. PICK p \in DOMAIN peers : Accept(p) \/ Leave(p)  BY DEF HelperServes
<1>2. helper /\ helper'  BY DEF HelperServes
<1>3. peers \in Seq(Peer) /\ Len(peers) <= MaxPeers
      /\ clients = Cardinality(ServedOf(peers)) /\ clients \in Nat
  BY ServedFinite
<1>4. CASE Accept(p) /\ peers[p].who = "stranger"
  <2>1. peers' = [peers EXCEPT ![p].state = "gone"] /\ clients' = clients
    BY <1>4 DEF Accept
  <2>2. "gone" \in States \ Counted /\ peers[p].state \notin Counted
    BY <1>4 DEF States, Counted, Accept
  <2>3. peers' \in Seq(Peer) /\ Len(peers') = Len(peers)
    BY <1>3, <2>1, <2>2, StateSet
  <2>4. ServedOf(peers') = ServedOf(peers)
    BY <1>3, <2>1, <2>2, StateSet DEF ServedOf
  <2> QED  BY <1>2, <1>3, <2>1, <2>3, <2>4
<1>5. CASE Accept(p) /\ peers[p].who # "stranger"
  <2> DEFINE st == Accepted(peers[p].state)
  <2>1. peers' = [peers EXCEPT ![p].state = st] /\ clients' = clients + 1
    BY <1>5 DEF Accept
  <2>2. st \in States /\ st \in Counted /\ peers[p].state \notin Counted
    BY <1>5 DEF States, Counted, Accept, Accepted
  <2> HIDE DEF st
  <2>3. peers' \in Seq(Peer) /\ Len(peers') = Len(peers)
    BY <1>3, <2>1, <2>2, StateSet
  <2>4. Cardinality(ServedOf(peers')) = Cardinality(ServedOf(peers)) + 1
    BY <1>3, <2>1, <2>2, CountOn
  <2> QED  BY <1>2, <1>3, <2>1, <2>3, <2>4
<1>6. CASE Leave(p)
  <2>1. peers' = [peers EXCEPT ![p].state = "gone"] /\ clients' = clients - 1
    BY <1>6 DEF Leave
  <2>2. "gone" \in States \ Counted /\ peers[p].state \in Counted
    BY <1>6 DEF States, Counted, Leave
  <2>3. peers' \in Seq(Peer) /\ Len(peers') = Len(peers)
    BY <1>3, <2>1, <2>2, StateSet
  <2>4. Cardinality(ServedOf(peers')) = Cardinality(ServedOf(peers)) - 1
    BY <1>3, <2>1, <2>2, CountOff
  <2> QED  BY <1>2, <1>3, <2>1, <2>3, <2>4
<1> QED  BY <1>1, <1>4, <1>5, <1>6

LEMMA EndsClients ==
    ASSUME ClientsInv, HelperEnds
    PROVE  ClientsInv' /\ Len(peers') = Len(peers)
BY AllGone DEF ClientsInv, HelperEnds

LEMMA HangUpClients ==
    ASSUME ClientsInv, RequestInv, peers' = HungUp, UNCHANGED <<helper, clients>>
    PROVE  ClientsInv' /\ Len(peers') = Len(peers)
<1>1. /\ peers' \in Seq(Peer) /\ Len(peers') = Len(peers)
      /\ ServedOf(peers') = ServedOf(peers)
      /\ (\A p \in DOMAIN peers : peers[p].state = "gone") => peers' = peers
  BY HangUp DEF ClientsInv, RequestInv
<1> QED  BY <1>1 DEF ClientsInv

LEMMA ConnectClients ==
    ASSUME ClientsInv, NEW who \in {"app", "tool", "stranger"}, Connect(who),
           UNCHANGED <<helper, clients>>
    PROVE  ClientsInv' /\ Len(peers') = Len(peers) + 1
<1>1. /\ peers' \in Seq(Peer) /\ Len(peers') = Len(peers) + 1
      /\ ServedOf(peers') = ServedOf(peers)
  BY Joins DEF ClientsInv, Connect
<1>2. helper' /\ Len(peers') <= MaxPeers
  BY <1>1, LinkAssumption DEF Connect, ClientsInv
<1> QED  BY <1>1, <1>2 DEF ClientsInv

LEMMA StartsClients ==
    ASSUME ClientsInv, Starts, UNCHANGED peers
    PROVE  ClientsInv'
<1>1. CASE helper  BY <1>1 DEF Starts, ClientsInv, helperVars
<1>2. CASE ~helper
  <2>1. ServedOf(peers) = {}  BY <1>2 DEF ClientsInv, ServedOf, Counted
  <2> QED  BY <1>2, <2>1, FS_EmptySet DEF Starts, ClientsInv
<1> QED  BY <1>1, <1>2

LEMMA LeavesClients ==
    ASSUME ClientsInv, OtherLeaves
    PROVE  ClientsInv' /\ Len(peers') = Len(peers)
<1>1. PICK p \in DOMAIN peers :
         peers[p].state = "open" /\ peers' = [peers EXCEPT ![p].state = "left"]
  BY DEF OtherLeaves
<1>2. "left" \in States /\ "left" \in Counted /\ peers[p].state \in Counted
  BY <1>1 DEF States, Counted
<1>3. peers \in Seq(Peer)  BY DEF ClientsInv
<1>4. peers' \in Seq(Peer) /\ Len(peers') = Len(peers)
  BY <1>1, <1>2, <1>3, StateSet
<1>5. ServedOf(peers') = ServedOf(peers)
  BY <1>1, <1>2, <1>3, StateSet DEF ServedOf
<1>6. helper /\ UNCHANGED <<helper, clients>>
  BY <1>1 DEF ClientsInv, OtherLeaves, helperVars
<1> QED  BY <1>4, <1>5, <1>6 DEF ClientsInv

\* Connections are added and change; their numbers stay theirs.
LEMMA ClientsNext ==
    ASSUME ClientsInv, RequestInv, LinkNext
    PROVE  ClientsInv' /\ Len(peers') \in Nat /\ Len(peers') >= Len(peers)
<1>0. Len(peers) \in Nat  BY DEF ClientsInv
<1>1. CASE UNCHANGED <<helper, clients, peers>>  BY <1>0, <1>1 DEF ClientsInv
<1>2. CASE HelperServes  BY <1>0, <1>2, ServesClients
<1>3. CASE IdleTimer  BY <1>0, <1>3, EndsClients DEF IdleTimer
<1>4. CASE OtherConnects
  BY <1>0, <1>4, ConnectClients DEF OtherConnects, helperVars
<1>5. CASE OtherLeaves  BY <1>0, <1>5, LeavesClients
<1>6. CASE SetHelperOn
  <2>1. UNCHANGED peers  BY <1>6 DEF SetHelperOn
  <2>2. ClientsInv'
    BY <1>6, <2>1, <1>1, StartsClients DEF SetHelperOn, helperVars
  <2> QED  BY <1>0, <2>1, <2>2
<1>7. CASE SetHelperOff
  BY <1>0, <1>7, EndsClients, HangUpClients DEF SetHelperOff
<1>8. CASE Probe  BY <1>0, <1>8, ConnectClients DEF Probe, helperVars
<1>9. CASE RequestFails
  BY <1>0, <1>9, HangUpClients DEF RequestFails, Abort, helperVars
<1>10. CASE AppRestarts
  BY <1>0, <1>10, HangUpClients DEF AppRestarts, Abort, helperVars
<1> QED
  BY <1>1, <1>2, <1>3, <1>4, <1>5, <1>6, <1>7, <1>8, <1>9, <1>10
  DEF LinkNext, App, Handle, Age, SeeDisconnect, Request, ReadHeader, ReadPayload,
      helperVars, appVars

-----------------------------------------------------------------------------
\* What each action does to the request in progress.

\* No line is of a connection that was not made yet, nor of connection 0.
LEMMA NotAsked ==
    ASSUME NEW n \in Nat, NEW todo \in Seq(Line(n)), NEW p, p \notin 1 .. n
    PROVE  AskedBy(p, todo) = {}
<1>1. \A i \in DOMAIN todo : todo[i] \in Line(n)  OBVIOUS
<1> QED  BY <1>1 DEF AskedBy, Line

LEMMA MoreLines ==
    ASSUME NEW m \in Nat, NEW n \in Nat, n >= m, NEW todo \in Seq(Line(m))
    PROVE  todo \in Seq(Line(n))
<1>1. 1 .. m \subseteq 1 .. n  OBVIOUS
<1>2. Line(m) \subseteq Line(n)  BY <1>1 DEF Line
<1> QED  BY <1>2, SeqMonotonic

\* More connections change nothing of a request.
LEMMA RequestKept ==
    ASSUME RequestInv, Len(peers) \in Nat, Len(peers') \in Nat,
           Len(peers') >= Len(peers),
           UNCHANGED <<sock, asking, phase, answered, toHelper, toApp>>
    PROVE  RequestInv'
<1>1. toHelper' \in Seq(Line(Len(peers')))  BY MoreLines DEF RequestInv
<1>2. sock' \in 0 .. Len(peers')  BY DEF RequestInv
<1>3. OnItsWay'  BY DEF RequestInv, OnItsWay, AskedBy
<1> QED  BY <1>1, <1>2, <1>3 DEF RequestInv, AnswersItsRequest

\* A connection is dropped while no request is in progress, or with it: what
\* was on its way is not for the app any more.
LEMMA RequestDropped ==
    ASSUME RequestInv, Len(peers) \in Nat, Len(peers') = Len(peers),
           sock' = 0, toApp' = <<>>, asking' = NoCommand, phase' = "idle",
           answered' \in {answered, <<NoCommand, NoCommand>>},
           toHelper' \in {toHelper, <<>>}
    PROVE  RequestInv'
<1>1. toHelper' \in Seq(Line(Len(peers')))
  <2>1. CASE toHelper' = toHelper  BY <2>1 DEF RequestInv
  <2>2. CASE toHelper' = <<>>  BY <2>2
  <2> QED  BY <2>1, <2>2
<1>2. AskedBy(sock', toHelper') = {}  BY <1>1, NotAsked
<1>3. answered' \in (Commands \union {NoCommand}) \X (Commands \union {NoCommand})
      /\ AnswersItsRequest'
  BY DEF RequestInv, AnswersItsRequest
<1> QED  BY <1>1, <1>2, <1>3 DEF RequestInv, OnItsWay

\* What was on its way to the helper is lost with it.
LEMMA RequestLost ==
    ASSUME RequestInv, Len(peers) \in Nat, Len(peers') = Len(peers), toHelper' = <<>>,
           UNCHANGED <<sock, asking, phase, answered, toApp>>
    PROVE  RequestInv'
<1>1. AskedBy(sock', toHelper') = {}  BY DEF AskedBy
<1>2. OnItsWay'  BY <1>1 DEF RequestInv, OnItsWay
<1> QED  BY <1>2 DEF RequestInv, AnswersItsRequest

\* The lines but the first.
LEMMA TailAsked ==
    ASSUME NEW n \in Nat, NEW todo \in Seq(Line(n)), todo # <<>>, NEW p
    PROVE  /\ Tail(todo) \in Seq(Line(n)) /\ Head(todo) \in Line(n)
           /\ \A i \in AskedBy(p, Tail(todo)) :
                 i + 1 \in AskedBy(p, todo) /\ todo[i + 1] = Tail(todo)[i]
           /\ Head(todo).peer = p => 1 \in AskedBy(p, todo)
<1>1. /\ Tail(todo) \in Seq(Line(n)) /\ Head(todo) = todo[1]
      /\ Len(todo) \in Nat \ {0} /\ DOMAIN todo = 1 .. Len(todo)
      /\ DOMAIN Tail(todo) = 1 .. Len(todo) - 1
      /\ \A i \in 1 .. Len(todo) - 1 : Tail(todo)[i] = todo[i + 1]
  OBVIOUS
<1>2. 1 \in DOMAIN todo /\ todo[1] \in Line(n)  BY <1>1
<1>3. \A i \in 1 .. Len(todo) - 1 : i + 1 \in 1 .. Len(todo)  BY <1>1
<1> QED  BY <1>1, <1>2, <1>3 DEF AskedBy

\* The helper answers one line: of the request in progress, or of a connection
\* that is over.
LEMMA HandleRequest ==
    ASSUME RequestInv, Len(peers) \in Nat, Handle
    PROVE  RequestInv'
<1> DEFINE line == Head(toHelper)
           answer == <<PartOf("header", line.cmd), PartOf("payload", line.cmd)>>
<1>1. /\ toHelper \in Seq(Line(Len(peers))) /\ toHelper # <<>>
      /\ toHelper' = Tail(toHelper)
      /\ UNCHANGED <<sock, asking, phase, answered, peers>>
  BY DEF Handle, RequestInv, appVars
<1>2. toHelper' \in Seq(Line(Len(peers')))  BY <1>1
<1>3. /\ \A i \in AskedBy(sock, toHelper') :
           i + 1 \in AskedBy(sock, toHelper) /\ toHelper[i + 1] = toHelper'[i]
      /\ line.peer = sock => 1 \in AskedBy(sock, toHelper)
      /\ AskedBy(sock, toHelper') \subseteq Nat
  <2>1. AskedBy(sock, toHelper') \subseteq Nat
    BY <1>2 DEF AskedBy
  <2> QED  BY <1>1, <2>1, TailAsked
<1>4. toApp' = IF line.peer = sock THEN toApp \o answer ELSE toApp
  BY DEF Handle, PartOf
<1> HIDE DEF line, answer
<1>5. OnItsWay'
  <2>1. CASE line.peer = sock
    <3>1. 1 \in AskedBy(sock, toHelper)  BY <1>3, <2>1
    <3>2. /\ phase = "header" /\ toApp = <<>>
          /\ \A i, j \in AskedBy(sock, toHelper) : i = j
          /\ \A i \in AskedBy(sock, toHelper) : toHelper[i].cmd = asking
      BY <3>1 DEF RequestInv, OnItsWay
    <3>3. line.cmd = asking  BY <1>1, <3>1, <3>2 DEF line
    <3>4. AskedBy(sock, toHelper') = {}
      <4>1. ASSUME NEW i \in AskedBy(sock, toHelper') PROVE FALSE
        <5>1. i \in Nat /\ i + 1 \in AskedBy(sock, toHelper)  BY <1>3, <4>1
        <5>2. i + 1 = 1  BY <3>1, <3>2, <5>1
        <5>3. i = 0  BY <5>1, <5>2
        <5>4. i \in 1 .. Len(toHelper')  BY <1>2, <4>1 DEF AskedBy
        <5> QED  BY <5>3, <5>4
      <4> QED  BY <4>1
    <3>5. toApp' = answer  BY <1>4, <2>1, <3>2 DEF answer
    <3> QED  BY <1>1, <3>2, <3>3, <3>4, <3>5 DEF OnItsWay, answer
  <2>2. CASE line.peer # sock
    <3>1. toApp' = toApp  BY <1>4, <2>2
    <3>2. CASE AskedBy(sock, toHelper) = {}
      <4>1. AskedBy(sock, toHelper') = {}  BY <1>3, <3>2
      <4> QED  BY <1>1, <3>1, <3>2, <4>1 DEF RequestInv, OnItsWay
    <3>3. CASE AskedBy(sock, toHelper) # {}
      <4>1. /\ phase = "header" /\ toApp = <<>>
            /\ \A i, j \in AskedBy(sock, toHelper) : i = j
            /\ \A i \in AskedBy(sock, toHelper) : toHelper[i].cmd = asking
        BY <3>3 DEF RequestInv, OnItsWay
      <4>2. \A i, j \in AskedBy(sock, toHelper') : i = j
        <5>1. ASSUME NEW i \in AskedBy(sock, toHelper'),
                     NEW j \in AskedBy(sock, toHelper')
              PROVE  i = j
          <6>1. i \in Nat /\ j \in Nat /\ i + 1 = j + 1  BY <1>3, <4>1
          <6> QED  BY <6>1
        <5> QED  BY <5>1
      <4>3. \A i \in AskedBy(sock, toHelper') : toHelper'[i].cmd = asking
        BY <1>3, <4>1
      <4> QED  BY <1>1, <3>1, <4>1, <4>2, <4>3 DEF OnItsWay
    <3> QED  BY <3>2, <3>3
  <2> QED  BY <2>1, <2>2
<1> QED  BY <1>1, <1>2, <1>5 DEF RequestInv, AnswersItsRequest

\* The app asks: one line of its connection, and no answer yet.
LEMMA AskRequest ==
    ASSUME RequestInv, Len(peers) \in Nat, NEW cmd \in Commands, Request(cmd)
    PROVE  RequestInv'
<1> DEFINE line == [peer |-> sock, cmd |-> cmd]
           n == Len(toHelper) + 1
<1>1. /\ asking = NoCommand /\ sock # 0 /\ asking' = cmd /\ phase' = "header"
      /\ toHelper' = Append(toHelper, line)
      /\ UNCHANGED <<sock, answered, peers, toApp>>
  BY DEF Request, AppIdle
<1>2. /\ toHelper \in Seq(Line(Len(peers))) /\ sock \in 1 .. Len(peers)
      /\ AskedBy(sock, toHelper) = {} /\ toApp = <<>>
  BY <1>1 DEF RequestInv, OnItsWay
<1>3. line \in Line(Len(peers)) /\ line.peer = sock /\ line.cmd = cmd
  BY <1>2 DEF Line
<1> HIDE DEF line
<1>4. /\ toHelper' \in Seq(Line(Len(peers)))
      /\ DOMAIN toHelper' = 1 .. n /\ DOMAIN toHelper = 1 .. Len(toHelper)
      /\ toHelper'[n] = line
      /\ \A i \in 1 .. Len(toHelper) : toHelper'[i] = toHelper[i]
      /\ \A i \in 1 .. n : i = n \/ i \in 1 .. Len(toHelper)
  BY <1>1, <1>2, <1>3
<1> HIDE DEF n
<1>5. \A i \in AskedBy(sock, toHelper') : i = n  BY <1>2, <1>4 DEF AskedBy
<1>6. OnItsWay'  BY <1>1, <1>2, <1>3, <1>4, <1>5 DEF OnItsWay
<1>7. asking' # NoCommand  BY <1>1, LinkAssumption
<1> QED  BY <1>1, <1>4, <1>6, <1>7 DEF RequestInv, AnswersItsRequest

LEMMA ReadHeaderRequest ==
    ASSUME RequestInv, ReadHeader
    PROVE  RequestInv'
<1>1. /\ phase = "header" /\ toApp # <<>> /\ phase' = "payload"
      /\ toApp' = Tail(toApp)
      /\ UNCHANGED <<sock, asking, answered, peers, toHelper>>
  BY DEF ReadHeader
<1>2. AskedBy(sock, toHelper) = {}
      /\ toApp = <<PartOf("header", asking), PartOf("payload", asking)>>
  BY <1>1 DEF RequestInv, OnItsWay
<1>3. toApp' = <<PartOf("payload", asking)>>  BY <1>1, <1>2
<1>4. OnItsWay'  BY <1>1, <1>2, <1>3 DEF OnItsWay
<1> QED  BY <1>1, <1>4 DEF RequestInv, AnswersItsRequest

\* The rest of the answer is of the command that was asked.
LEMMA ReadPayloadRequest ==
    ASSUME RequestInv, ReadPayload
    PROVE  RequestInv'
<1>1. /\ phase = "payload" /\ answered' = <<asking, Head(toApp).cmd>>
      /\ phase' = "idle" /\ asking' = NoCommand /\ toApp' = Tail(toApp)
      /\ UNCHANGED <<sock, peers, toHelper>>
  BY DEF ReadPayload
<1>2. AskedBy(sock, toHelper) = {} /\ toApp = <<PartOf("payload", asking)>>
  BY <1>1 DEF RequestInv, OnItsWay
<1>3. asking \in Commands  BY <1>1 DEF RequestInv
<1>4. toApp' = <<>> /\ Head(toApp) = PartOf("payload", asking)  BY <1>1, <1>2
<1>5. answered' = <<asking, asking>>  BY <1>1, <1>3, <1>4, PartsTyped
<1>6. OnItsWay'  BY <1>1, <1>2, <1>4 DEF OnItsWay
<1>7. AnswersItsRequest'  BY <1>5 DEF AnswersItsRequest
<1> QED  BY <1>1, <1>3, <1>5, <1>6, <1>7 DEF RequestInv

\* A new connection has asked for nothing.
LEMMA ProbeRequest ==
    ASSUME RequestInv, Len(peers) \in Nat, Len(peers') = Len(peers) + 1, Probe
    PROVE  RequestInv'
<1>1. /\ asking = NoCommand /\ sock' = Len(peers) + 1
      /\ UNCHANGED <<asking, phase, answered, toHelper, toApp>>
  BY DEF Probe, AppIdle
<1>2. toHelper \in Seq(Line(Len(peers))) /\ phase = "idle" /\ toApp = <<>>
  BY <1>1 DEF RequestInv, OnItsWay
<1>3. toHelper' \in Seq(Line(Len(peers')))  BY <1>1, <1>2, MoreLines
<1>4. sock' \notin 1 .. Len(peers) /\ sock' \in 0 .. Len(peers')  BY <1>1
<1>5. AskedBy(sock', toHelper') = {}  BY <1>1, <1>2, <1>4, NotAsked
<1>6. OnItsWay'  BY <1>1, <1>2, <1>5 DEF OnItsWay
<1> QED  BY <1>1, <1>3, <1>4, <1>6 DEF RequestInv, AnswersItsRequest

\* Every action, with what the connections do meanwhile.
LEMMA RequestNext ==
    ASSUME ClientsInv, RequestInv, LinkNext
    PROVE  RequestInv'
<1>0. /\ Len(peers) \in Nat /\ Len(peers') \in Nat /\ Len(peers') >= Len(peers)
  BY ClientsNext DEF ClientsInv
<1>1. CASE UNCHANGED <<sock, asking, phase, answered, toHelper, toApp>>
  BY <1>0, <1>1, RequestKept
<1>2. CASE HelperServes \/ Age \/ OtherConnects \/ OtherLeaves \/ SetHelperOn
  BY <1>1, <1>2 DEF HelperServes, Age, OtherConnects, OtherLeaves, SetHelperOn, appVars
<1>3. CASE Handle  BY <1>0, <1>3, HandleRequest
<1>4. CASE IdleTimer
  <2>1. Len(peers') = Len(peers)  BY <1>4, EndsClients DEF IdleTimer
  <2> QED  BY <1>0, <1>4, <2>1, RequestLost DEF IdleTimer, HelperEnds, appVars
<1>5. CASE SetHelperOff
  <2>1. Len(peers') = Len(peers)
    BY <1>5, EndsClients, HangUpClients DEF SetHelperOff
  <2>2. phase' = "idle" /\ asking' = NoCommand
    BY <1>5 DEF SetHelperOff, AppIdle, RequestInv
  <2>3. toHelper' \in {toHelper, <<>>}  BY <1>5 DEF SetHelperOff, HelperEnds
  <2> QED  BY <1>0, <1>5, <2>1, <2>2, <2>3, RequestDropped DEF SetHelperOff
<1>6. CASE SeeDisconnect
  <2>1. phase' = "idle" /\ asking' = NoCommand
    BY <1>6 DEF SeeDisconnect, AppIdle, RequestInv
  <2> QED  BY <1>0, <1>6, <2>1, RequestDropped DEF SeeDisconnect
<1>7. CASE RequestFails
  <2>1. Len(peers') = Len(peers)
    BY <1>7, HangUpClients DEF RequestFails, Abort, helperVars
  <2> QED  BY <1>0, <1>7, <2>1, RequestDropped DEF RequestFails, Abort
<1>8. CASE AppRestarts
  <2>1. Len(peers') = Len(peers)
    BY <1>8, HangUpClients DEF AppRestarts, Abort, helperVars
  <2> QED  BY <1>0, <1>8, <2>1, RequestDropped DEF AppRestarts, Abort
<1>9. CASE Probe
  <2>1. Len(peers') = Len(peers) + 1
    BY <1>9, ConnectClients DEF Probe, helperVars
  <2> QED  BY <1>0, <1>9, <2>1, ProbeRequest
<1>10. CASE \E cmd \in Commands : Request(cmd)  BY <1>0, <1>10, AskRequest
<1>11. CASE ReadHeader  BY <1>11, ReadHeaderRequest
<1>12. CASE ReadPayload  BY <1>12, ReadPayloadRequest
<1> QED
  BY <1>2, <1>3, <1>4, <1>5, <1>6, <1>7, <1>8, <1>9, <1>10, <1>11, <1>12
  DEF LinkNext, App

LEMMA SwitchNext ==
    ASSUME SwitchInv, LinkNext
    PROVE  SwitchInv'
<1>1. wanted' \in BOOLEAN /\ retry' \in BOOLEAN /\ old' \in BOOLEAN
  BY Zenon
  DEF SwitchInv, LinkNext, App, HelperServes, Handle, Age, IdleTimer, HelperEnds,
      OtherConnects, OtherLeaves, SetHelperOn, Starts, SetHelperOff, Probe,
      SeeDisconnect, Request, ReadHeader, ReadPayload, RequestFails, AppRestarts,
      appVars, helperVars
<1>2. starts' = starts \/ (starts < MaxStarts /\ starts' = starts + 1)
  BY Zenon
  DEF LinkNext, App, HelperServes, Handle, Age, IdleTimer, HelperEnds,
      OtherConnects, OtherLeaves, SetHelperOn, Starts, SetHelperOff, Probe,
      SeeDisconnect, Request, ReadHeader, ReadPayload, RequestFails, AppRestarts,
      appVars, helperVars
<1>3. starts' \in 0 .. MaxStarts  BY <1>2, LinkAssumption DEF SwitchInv
<1> QED  BY <1>1, <1>3 DEF SwitchInv

LEMMA LinkNext_Inv == LinkInv /\ [LinkNext]_linkVars => LinkInv'
<1> SUFFICES ASSUME LinkInv, [LinkNext]_linkVars PROVE LinkInv'  OBVIOUS
<1>1. CASE LinkNext
  BY <1>1, ClientsNext, RequestNext, SwitchNext DEF LinkInv
<1>2. CASE UNCHANGED linkVars
  BY <1>2 DEF LinkInv, ClientsInv, RequestInv, SwitchInv, AnswersItsRequest,
     OnItsWay, AskedBy, linkVars, appVars, helperVars
<1> QED  BY <1>1, <1>2

LEMMA LinkAlways == LinkSpec => []LinkInv
BY LinkInit_Inv, LinkNext_Inv, PTL DEF LinkSpec

\* The link's state is of its types: the helper's counter of clients, which
\* roothelper.cpp counts down on every disconnect, never falls below zero.
THEOREM LinkTypes == LinkSpec => []LinkTypeOK
BY LinkAlways, InvIsTyped, PTL

\* No answer is taken for another request's, whatever timed out before.
THEOREM AnswersMatch == LinkSpec => []AnswersItsRequest
<1>1. LinkInv => AnswersItsRequest  BY DEF LinkInv, RequestInv
<1> QED  BY <1>1, LinkAlways, PTL

\* The helper's counter is that of the connections it serves, for any number of
\* connections and starts.
THEOREM CounterCorrect == LinkSpec => []CounterExact
<1>1. LinkInv => CounterExact
  BY DEF LinkInv, ClientsInv, CounterExact, ServedOf, Counted
<1> QED  BY <1>1, LinkAlways, PTL

\* The helper leaves by itself only when it serves nobody.
THEOREM HelperStays == LinkSpec => NoQuitUnderClient
<1> DEFINE A == IdleTimer => \A p \in DOMAIN peers : peers[p].state # "open"
<1>1. LinkInv /\ [LinkNext]_linkVars => [A]_linkVars
  <2> SUFFICES ASSUME LinkInv, IdleTimer, NEW p \in DOMAIN peers
               PROVE  peers[p].state # "open"
    OBVIOUS
  <2>1. peers \in Seq(Peer) /\ Cardinality(ServedOf(peers)) = 0
    BY DEF LinkInv, ClientsInv, IdleTimer
  <2>2. ServedOf(peers) = {}  BY <2>1, ServedFinite, FS_EmptySet
  <2> QED  BY <2>2 DEF ServedOf, Counted
<1> HIDE DEF A
<1>2. LinkSpec => [][A]_linkVars  BY <1>1, LinkAlways, PTL DEF LinkSpec
<1> QED  BY <1>2 DEF A, NoQuitUnderClient
=============================================================================
