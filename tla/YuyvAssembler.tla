---------------------------- MODULE YuyvAssembler ----------------------------
(***************************************************************************)
(* How the YUYV stream becomes frames (src/camera/yuyvassembler.h): the    *)
(* data of a frame follows its header, and a header ends the transfer it   *)
(* is in.  There are no frame ids; a frame is what lies between two        *)
(* headers, if its length is one of the known sizes.                       *)
(*                                                                         *)
(* A unit of data is the number of the frame the camera took it from, 0    *)
(* for a short packet that is no header.  A header is the number of the    *)
(* frame it announces.  The camera drops data while no transfer is queued, *)
(* inside a frame as well as a header (src/camera/uppprotocol.h).          *)
(*                                                                         *)
(* What was sent is kept in history variables beside the program's own     *)
(* state.  They guard no step; the properties speak of them, so that they  *)
(* do not rest on what the assembler believes it has.                      *)
(*                                                                         *)
(* YuyvStream and YuyvAssembler are proved about in one module, so what    *)
(* every specification has (a type invariant, Init, Next) is named         *)
(* Assembler... here.                                                      *)
(***************************************************************************)
EXTENDS Integers, Sequences

CONSTANTS
    FrameUnits,   \* length of the camera's frames
    KnownUnits,   \* lengths that frameSizeForBytes knows
    MaxUnits,     \* MAX_FRAME_BYTES
    MaxLost,      \* bound: headers lost in a row
    MaxStrays,    \* bound: short packets between headers that are none
    MaxDropped,   \* bound: units dropped by the camera between headers
    MaxFrame      \* bound: number of the last frame

\* The lengths in bytes that frameSizeForBytes knows: with a byte for a unit,
\* the KnownUnits of the program.
KnownBytes == {2 * 640 * 480, 2 * 320 * 240, 2 * 1280 * 720, 2 * 640 * 360,
               2 * 800 * 600, 2 * 1024 * 768, 2 * 1920 * 1080, 2 * 352 * 288,
               2 * 176 * 144, 2 * 160 * 120}

\* What runs into one frame when headers are lost or strays come has no known
\* length.  For the sizes of the program that is so with one header lost, and
\* not with two in a row: three frames of 640x480 are as long as one of 1280x720.
\* Nothing is assumed of what is left of a frame when data is dropped inside it:
\* three quarters of 640x480 are as long as 640x360.
ASSUME AssemblerAssumption ==
    /\ FrameUnits \in Nat \ {0} /\ FrameUnits \in KnownUnits
    /\ KnownUnits \subseteq Nat /\ MaxUnits \in Nat
    /\ MaxLost \in Nat /\ MaxStrays \in Nat /\ MaxDropped \in Nat
    /\ MaxFrame \in Nat
    /\ \A k \in 1 .. MaxLost + 1, s \in 0 .. MaxStrays :
          k * FrameUnits + s \in KnownUnits => k = 1 /\ s = 0

VARIABLES
    cam,             \* the frame the camera is sending
    left,            \* units of it still to be sent
    lost,            \* headers lost since the last one that came
    strays,          \* short packets since then that are no header
    dropped,         \* units since then that the camera dropped
    acc,             \* m_acc
    haveHeader,      \* m_haveHeader
    header,          \* m_header
    lastHadHeader,   \* m_lastHadHeader
    frame,           \* m_frame and m_frameHeader, the last frame that was ready
    frameHeader,
    result,          \* what feed() returned
    fed,             \* the header that the last transfer ended in, 0 for none
    heard,           \* history: the last header that came, 0 if none did
    came,            \* history: the data that came since then
    before           \* history: how much came between it and the one before

camera == <<cam, left, lost, strays, dropped>>
feedVars == <<acc, haveHeader, header, lastHadHeader, frame, frameHeader,
              result, fed>>
history == <<heard, came, before>>
assemblerVars == <<camera, feedVars, history>>

FrameNo == 0 .. MaxFrame + 1

AssemblerTypeOK ==
    /\ cam \in FrameNo /\ left \in 0 .. FrameUnits
    /\ lost \in 0 .. MaxLost /\ strays \in 0 .. MaxStrays
    /\ dropped \in 0 .. MaxDropped
    /\ acc \in Seq(FrameNo) /\ Len(acc) <= MaxUnits
    /\ haveHeader \in BOOLEAN /\ lastHadHeader \in BOOLEAN
    /\ header \in FrameNo /\ frameHeader \in FrameNo
    /\ frame \in Seq(FrameNo)
    /\ result \in {"Nothing", "FrameReady", "FrameDropped", "Overflow"}
    /\ fed \in FrameNo
    /\ heard \in FrameNo /\ came \in Seq(FrameNo) /\ before \in Nat

\* The camera may be anywhere in a frame.
AssemblerInit ==
    /\ cam = 1 /\ left \in 0 .. FrameUnits
    /\ lost = 0 /\ strays = 0 /\ dropped = 0
    /\ acc = <<>> /\ haveHeader = FALSE /\ header = 0 /\ lastHadHeader = FALSE
    /\ frame = <<>> /\ frameHeader = 0
    /\ result = "Nothing" /\ fed = 0
    /\ heard = 0 /\ came = <<>> /\ before = 0

-----------------------------------------------------------------------------
\* No header within MAX_FRAME_BYTES: everything goes, the header that this
\* transfer ends in as well.
\* Faulty variant first: the header from before is still believed in.
FeedOverflow_KeepsHeader ==
    /\ acc' = <<>> /\ result' = "Overflow"
    /\ UNCHANGED <<haveHeader, header, frame, frameHeader>>

FeedOverflow ==
    /\ acc' = <<>> /\ haveHeader' = FALSE /\ result' = "Overflow"
    /\ UNCHANGED <<header, frame, frameHeader>>

FeedData(data) ==
    /\ acc' = data /\ result' = "Nothing"
    /\ UNCHANGED <<haveHeader, header, frame, frameHeader>>

\* A header closes the data before it, and begins the next frame.
CloseAt(data) ==
    IF data # <<>> /\ haveHeader /\ Len(data) \in KnownUnits
    THEN frame' = data /\ frameHeader' = header /\ result' = "FrameReady"
    ELSE /\ result' = IF data = <<>> THEN "Nothing" ELSE "FrameDropped"
         /\ UNCHANGED <<frame, frameHeader>>

\* Faulty variant first: the next header is stored before the frame has taken
\* the one it had.
FeedHeader_StoredFirst(data, hdr) ==
    /\ acc' = <<>> /\ header' = hdr /\ haveHeader' = TRUE
    /\ IF data # <<>> /\ haveHeader /\ Len(data) \in KnownUnits
       THEN frame' = data /\ frameHeader' = hdr /\ result' = "FrameReady"
       ELSE /\ result' = IF data = <<>> THEN "Nothing" ELSE "FrameDropped"
            /\ UNCHANGED <<frame, frameHeader>>

FeedHeader(data, hdr) ==
    /\ CloseAt(data)
    /\ acc' = <<>> /\ header' = hdr /\ haveHeader' = TRUE

\* feed(): a transfer of these units, and the header it ends in, 0 for none.
FeedUnits(units, hdr) ==
    /\ lastHadHeader' = (hdr # 0)
    /\ fed' = hdr
    /\ LET data == acc \o units
       IN  IF Len(data) > MaxUnits THEN FeedOverflow
           ELSE IF hdr = 0 THEN FeedData(data) ELSE FeedHeader(data, hdr)

-----------------------------------------------------------------------------
\* n units of the frame that is being sent.
Run(n) == [i \in 1 .. n |-> cam]

\* A transfer is full, or a short packet that is no header ends it, before the
\* frame is at its end.  (A transfer without data feeds nothing.)
Data ==
    \E n \in 0 .. left, stray \in {<<>>, <<0>>} :
        /\ n > 0 \/ stray # <<>>
        /\ strays + Len(stray) <= MaxStrays
        /\ FeedUnits(Run(n) \o stray, 0)
        /\ left' = left - n /\ strays' = strays + Len(stray)
        /\ came' = came \o (Run(n) \o stray)
        /\ UNCHANGED <<cam, lost, dropped, heard, before>>

\* No transfer is queued: the next units of the frame are gone.
DropData ==
    \E n \in 1 .. left :
        /\ dropped + n <= MaxDropped
        /\ left' = left - n /\ dropped' = dropped + n
        /\ UNCHANGED <<cam, lost, strays, feedVars, history>>

\* The rest of the frame comes, and then the next frame's header, or none.
NextHeader ==
    /\ cam < MaxFrame
    /\ FeedUnits(Run(left), cam + 1)
    /\ cam' = cam + 1 /\ left' = FrameUnits
    /\ lost' = 0 /\ strays' = 0 /\ dropped' = 0
    /\ heard' = cam + 1 /\ came' = <<>> /\ before' = Len(came) + left

LostHeader ==
    /\ cam < MaxFrame /\ left = 0 /\ lost < MaxLost
    /\ cam' = cam + 1 /\ left' = FrameUnits /\ lost' = lost + 1
    /\ UNCHANGED <<strays, dropped, feedVars, history>>

AssemblerNext == Data \/ DropData \/ NextHeader \/ LostHeader

AssemblerSpec == AssemblerInit /\ [][AssemblerNext]_assemblerVars

-----------------------------------------------------------------------------
\* A header comes, and ends what came since the last one.
HeaderComes == cam' = cam + 1 /\ fed' = cam + 1

Picture(f) == [i \in 1 .. FrameUnits |-> f]

\* A frame that is ready has the last header that came before it, and is all the
\* data that came since: not what the stream began in, and not what is left after
\* an overflow.  Unless the camera dropped data inside it, it is that header's
\* picture, whole, and not two pictures whose header between was lost.
FrameOfItsHeader ==
    [][HeaderComes /\ result' = "FrameReady" =>
          /\ heard # 0 /\ frameHeader' = heard
          /\ frame' = came \o Run(left)
          /\ dropped = 0 => frame' = Picture(heard)]_assemblerVars

\* A picture that was sent whole between two headers, with nothing lost or
\* dropped and no stray packet, is ready when the second one comes: whatever came
\* before, if it was no more than the accumulator takes.  (The header at the end
\* of a transfer that overflows is not kept, and its picture is lost.)
WholeFramesReady ==
    [][/\ HeaderComes
       /\ heard = cam /\ lost = 0 /\ strays = 0 /\ dropped = 0
       /\ before <= MaxUnits /\ FrameUnits <= MaxUnits
       => result' = "FrameReady" /\ frameHeader' = cam /\ frame' = Picture(cam)
      ]_assemblerVars
=============================================================================
