------------------------------- MODULE DiagLog -------------------------------
(***************************************************************************)
(* The application's log (src/diag/diaglog.cpp): a ring of lines in memory *)
(* that any thread appends to, and while "verbose" is on a file with the   *)
(* same lines, which the next run of the app finds as the previous log.    *)
(*                                                                         *)
(* A line is the number of its time stamp; the numbers grow across runs.   *)
(* Sizes are counted in lines.                                             *)
(***************************************************************************)
EXTENDS Naturals, Sequences

CONSTANTS
    Threads,       \* threads that log; Gui is one of them
    Gui,           \* the thread that switches verbose
    MaxLines,      \* MAX_LINES, of the ring
    MaxFileLines,  \* MAX_FILE_BYTES
    TailLines,     \* part of the previous log that is read, 256 KiB
    MaxRuns,       \* bound: starts of the app
    MaxStamp       \* bound: lines logged

ASSUME DiagLogAssumption ==
    /\ Gui \in Threads
    /\ MaxLines \in Nat \ {0} /\ MaxFileLines \in Nat \ {0}
    /\ TailLines \in Nat /\ MaxRuns \in Nat \ {0} /\ MaxStamp \in Nat

VARIABLES
    verbose,      \* s_verbose
    lines,        \* m_lines
    isOpen,       \* m_file.isOpen()
    fileBytes,    \* m_fileBytes
    buffered,     \* lines in m_file's own buffer: a crash loses them
    failed,       \* history: a write to m_file failed since it was opened
    cur,          \* pipecam.log on the disk
    prev,         \* pipecam.prev.log
    previousRun,  \* m_previousRun
    stamped,      \* line a thread is in append() with, 0 if none
    switching,    \* setVerbose: the flag is set, what follows is not done yet
    lockAt,       \* how far the thread that holds m_lock is, "free" if none does
    holder,       \* that thread; Gui while the lock is free
    clock,        \* last stamp given
    begin         \* clock at the start of each run

fileVars == <<isOpen, fileBytes, buffered, failed, cur>>
runVars  == <<prev, previousRun, begin>>
lockVars == <<lockAt, holder>>
vars == <<verbose, lines, fileVars, runVars, stamped, switching, lockVars, clock>>

NoFile    == [exists |-> FALSE, lines |-> <<>>]
FileOf(s) == [exists |-> TRUE, lines |-> s]
LineNo    == 1 .. MaxStamp
File      == [exists : BOOLEAN, lines : Seq(LineNo)]

TypeOK ==
    /\ verbose \in BOOLEAN /\ isOpen \in BOOLEAN /\ failed \in BOOLEAN
    /\ lines \in Seq(LineNo) /\ Len(lines) <= MaxLines
    /\ fileBytes \in Nat /\ buffered \in Seq(LineNo)
    /\ cur \in File /\ prev \in File
    /\ previousRun \in Seq(LineNo) /\ Len(previousRun) <= TailLines
    /\ stamped \in [Threads -> 0 .. MaxStamp]
    /\ switching \in {"no", "file", "note"}
    /\ lockAt \in {"free", "write", "flush", "backfill", "backfillFlush"}
    /\ holder \in Threads
    /\ clock \in 0 .. MaxStamp
    /\ begin \in Seq(Nat) /\ Len(begin) \in 1 .. MaxRuns

Tails(s, n) == IF Len(s) > n THEN SubSeq(s, Len(s) - n + 1, Len(s)) ELSE s
InFile(f)   == {f.lines[i] : i \in DOMAIN f.lines}
InMemory    == {lines[i] : i \in DOMAIN lines}

Init ==
    /\ verbose = FALSE /\ lines = <<>>
    /\ isOpen = FALSE /\ fileBytes = 0 /\ buffered = <<>> /\ failed = FALSE
    /\ cur = NoFile /\ prev = NoFile /\ previousRun = <<>>
    /\ stamped = [t \in Threads |-> 0] /\ switching = "no"
    /\ lockAt = "free" /\ holder = Gui
    /\ clock = 0 /\ begin = <<0>>

-----------------------------------------------------------------------------
\* The file when the first n lines of the buffer have gone to the disk.
OnDisk(n) == IF n = 0 THEN cur ELSE FileOf(cur.lines \o SubSeq(buffered, 1, n))

\* The constructor, in the next run of the app: what the last run left on the
\* disk becomes the previous log, in place of the older one.
Rotate(left) ==
    IF left.exists
    THEN prev' = left /\ cur' = NoFile
    ELSE UNCHANGED <<prev, cur>>

\* The app ends between any two steps, by a crash or not, and is started again:
\* of the buffer a part, all or nothing has gone to the disk.
Restart ==
    /\ Len(begin) < MaxRuns
    /\ \E n \in 0 .. Len(buffered) : Rotate(OnDisk(n))
    /\ previousRun' = Tails(prev'.lines, TailLines)
    /\ verbose' = FALSE /\ lines' = <<>>
    /\ isOpen' = FALSE /\ fileBytes' = 0 /\ buffered' = <<>> /\ failed' = FALSE
    /\ stamped' = [t \in Threads |-> 0] /\ switching' = "no"
    /\ lockAt' = "free" /\ holder' = Gui
    /\ begin' = Append(begin, clock)
    /\ UNCHANGED clock

Acquire(t, at) == lockAt = "free" /\ lockAt' = at /\ holder' = t
Release        == lockAt' = "free" /\ holder' = Gui

-----------------------------------------------------------------------------
\* append: the stamp is taken before the lock.
Stamp(t) ==
    /\ stamped[t] = 0 /\ clock < MaxStamp
    /\ t = Gui => switching # "file"
    /\ clock' = clock + 1
    /\ stamped' = [stamped EXCEPT ![t] = clock + 1]
    /\ switching' = IF t = Gui THEN "no" ELSE switching
    /\ UNCHANGED <<verbose, lines, fileVars, runVars, lockVars>>

\* With the lock: the ring first.
Remember(line) == lines' = Tails(Append(lines, line), MaxLines)

AppendLine(t) ==
    /\ stamped[t] # 0 /\ lockAt = "free"
    /\ Remember(stamped[t])
    /\ IF isOpen /\ fileBytes < MaxFileLines
       THEN Acquire(t, "write") /\ UNCHANGED stamped
       ELSE stamped' = [stamped EXCEPT ![t] = 0] /\ UNCHANGED lockVars
    /\ UNCHANGED <<verbose, fileVars, runVars, switching, clock>>

\* Then the file's buffer; the count goes up whether or not the write succeeds.
WriteLine ==
    /\ lockAt = "write" /\ lockAt' = "flush"
    /\ fileBytes' = fileBytes + 1
    /\ \/ buffered' = Append(buffered, stamped[holder]) /\ UNCHANGED failed
       \/ UNCHANGED buffered /\ failed' = TRUE
    /\ UNCHANGED <<verbose, lines, isOpen, cur, runVars, stamped, switching, holder,
                   clock>>

\* Faulty variant first: the lines stay in the buffer.
Flush_None == UNCHANGED <<buffered, cur, failed>>

\* flush() moves the whole buffer to the disk, or fails, on a full one, after a
\* part of it.
Flush ==
    \E n \in 0 .. Len(buffered) :
        /\ cur' = OnDisk(n)
        /\ buffered' = SubSeq(buffered, n + 1, Len(buffered))
        /\ failed' = (failed \/ n < Len(buffered))

FlushLine ==
    /\ lockAt = "flush" /\ Flush /\ Release
    /\ stamped' = [stamped EXCEPT ![holder] = 0]
    /\ UNCHANGED <<verbose, lines, isOpen, fileBytes, runVars, switching, clock>>

-----------------------------------------------------------------------------
\* setVerbose: the flag, then the file under the lock, then a line about it.
SetVerbose ==
    /\ switching = "no" /\ stamped[Gui] = 0
    /\ verbose' = ~verbose /\ switching' = "file"
    /\ UNCHANGED <<lines, fileVars, runVars, stamped, lockVars, clock>>

\* The file is opened to append to what it holds, and created if need be.
OpenFile ==
    /\ switching = "file" /\ verbose /\ ~isOpen
    /\ Acquire(Gui, "backfill")
    /\ isOpen' = TRUE /\ failed' = FALSE
    /\ cur' = FileOf(cur.lines) /\ fileBytes' = Len(cur.lines)
    /\ UNCHANGED <<verbose, lines, buffered, runVars, stamped, switching, clock>>

\* It is open already, or cannot be opened.
OpenFails ==
    /\ switching = "file" /\ verbose /\ switching' = "note"
    /\ lockAt = "free"
    /\ UNCHANGED <<verbose, lines, fileVars, runVars, stamped, lockVars, clock>>

\* Faulty variant first: the lines logged before are not written.
Backfill_None == UNCHANGED <<buffered, failed, fileBytes>>

\* The whole ring, line by line and however much the file holds, or as many
\* lines of it as can be written.  A crash in the middle is one after it that
\* leaves a part of the buffer on the disk.
Backfill ==
    /\ fileBytes' = fileBytes + Len(lines)
    /\ \E n \in 0 .. Len(lines) :
         /\ buffered' = buffered \o SubSeq(lines, 1, n)
         /\ failed' = (failed \/ n < Len(lines))

WriteBackfill ==
    /\ lockAt = "backfill" /\ lockAt' = "backfillFlush"
    /\ Backfill
    /\ UNCHANGED <<verbose, lines, isOpen, cur, runVars, stamped, switching, holder,
                   clock>>

FlushBackfill ==
    /\ lockAt = "backfillFlush" /\ Flush /\ Release
    /\ switching' = "note"
    /\ UNCHANGED <<verbose, lines, isOpen, fileBytes, runVars, stamped, clock>>

\* What is left in the buffer goes to the disk, as far as it can, and the buffer
\* is given up.
CloseFile ==
    /\ switching = "file" /\ ~verbose /\ switching' = "note"
    /\ lockAt = "free"
    /\ \E n \in 0 .. Len(buffered) : cur' = OnDisk(n)
    /\ isOpen' = FALSE /\ buffered' = <<>> /\ failed' = FALSE
    /\ UNCHANGED <<verbose, lines, fileBytes, runVars, stamped, lockVars, clock>>

Next ==
    \/ Restart
    \/ SetVerbose \/ OpenFile \/ OpenFails \/ WriteBackfill \/ FlushBackfill
    \/ CloseFile
    \/ \E t \in Threads : Stamp(t) \/ AppendLine(t)
    \/ WriteLine \/ FlushLine

Spec == Init /\ [][Next]_vars

-----------------------------------------------------------------------------
\* The line that append() has put in the ring and not flushed yet.
InProgress == IF lockAt \in {"write", "flush"} THEN {stamped[holder]} ELSE {}
Opening    == lockAt \in {"backfill", "backfillFlush"}

\* The file is as the user may rely on it: open, not full, and every write to it
\* succeeded.
FileGood == isOpen /\ ~Opening /\ ~failed /\ fileBytes < MaxFileLines

\* The disk holds all that the app would show of its log while the file is good,
\* the lines from before verbose was on as well: all but the line that is being
\* appended.  Two threads append while the file is opened and closed.
MirrorComplete == FileGood => InMemory \ InProgress \subseteq InFile(cur)

\* "flush per line: must survive a crash" (diaglog.cpp:127): wherever a run ends
\* while the file is good, the next run finds all that was in memory, but for the
\* line that was being appended, in the previous log.
CrashKeepsLog ==
    [][begin' # begin /\ FileGood
          => InMemory \ InProgress \subseteq InFile(prev')]_vars

\* m_fileBytes, by which the log decides that the file is full, is the size of
\* the file it has open: what is on the disk and what is about to go there, and
\* never less after a failed write.  (The note that the file is full, which
\* diaglog.cpp:126 writes and does not count, is left out.)
FileCounted ==
    isOpen => /\ fileBytes >= Len(cur.lines) + Len(buffered)
              /\ ~failed => fileBytes = Len(cur.lines) + Len(buffered)
=============================================================================
