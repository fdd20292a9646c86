------------------------ MODULE CameraSession_proofs ------------------------
(***************************************************************************)
(* Theorems about CameraSession, for every choice of its constants.        *)
(***************************************************************************)
EXTENDS CameraSession, SequenceTheorems, TLAPS

\* The five ways a pass of the YUYV loop can report button edges.
LEMMA YuyvCases ==
    ASSUME TypeOK, YuyvButton
    PROVE  \/ /\ lastButton = "released" /\ lastButton' = "pressed"
              /\ queue' = Append(queue, Ev("pressed"))
           \/ /\ lastButton = "released" /\ lastButton' = "released"
              /\ queue' = Append(Append(queue, Ev("pressed")), Ev("released"))
           \/ /\ lastButton = "pressed" /\ lastButton' = "released"
              /\ queue' = Append(queue, Ev("released"))
           \/ /\ lastButton = "pressed" /\ lastButton' = "pressed"
              /\ queue' = Append(Append(queue, Ev("released")), Ev("pressed"))
           \/ /\ lastButton = "pressed" /\ lastButton' = "released"
              /\ queue' = Append(Append(Append(queue, Ev("released")),
                                        Ev("pressed")), Ev("released"))
  BY DEF YuyvButton, YuyvQueue, TypeOK, Edge

\* Appending an event keeps a queue of events.
LEMMA AppendEvent ==
    ASSUME NEW q \in Seq(Event), NEW what \in Status \union Edge \union Format
                                                     \union {"frame"},
           session \in Nat
    PROVE  Append(q, Ev(what)) \in Seq(Event)
  BY DEF Ev, Event

\* A live handle belongs to a camera that is on the bus: what Identify reads
\* from the descriptors is a variant.
LiveOnBus == handle = "live" => device # "absent"

TypeInv == TypeOK /\ LiveOnBus

\* The constructors set a typed state with no handle open.
LEMMA TypeInit == Init => TypeInv
  <1>1. <<>> \in Seq(Event)
    OBVIOUS
  <1>2. /\ "Idle" \in Status /\ "released" \in Edge /\ "off" \in Steps
        /\ "none" \in Variant
    BY DEF Status, Edge, Steps, Detached, Variant
  <1>3. ASSUME Init PROVE TypeOK
    BY <1>1, <1>2, <1>3 DEF Init, TypeOK
  <1> QED
    BY <1>3 DEF Init, TypeInv, LiveOnBus

\* Every step of the GUI thread, the worker and the bus keeps the types; the
\* variant Identify reads is one because a live handle has its camera on the
\* bus.
LEMMA TypeNext == TypeInv /\ [Next]_vars => TypeInv'
  <1> SUFFICES ASSUME TypeInv, [Next]_vars PROVE TypeInv'
    OBVIOUS
  <1> USE DEF TypeInv, TypeOK, LiveOnBus, guiVars, usbVars, workerVars,
              envVars, Steps, Detached, Opened, Attached, Goto, Post
  <1>0. /\ {"Idle", "Searching", "Connecting", "Streaming", "Error"} = Status
        /\ Edge = {"pressed", "released"} /\ Format = {"MJPEG", "YUYV"}
    BY DEF Status, Edge, Format
  <1>1. CASE Start
    <2>1. /\ variant' \in Variant /\ lastButton' \in Edge /\ pc' \in Steps
          /\ session' \in Nat
      BY <1>1 DEF Start, Variant, Edge
    <2> QED
      BY <1>1, <2>1 DEF Start
  <1>2. CASE StopBegin
    BY <1>2 DEF StopBegin
  <1>3. CASE StopEnd
    BY <1>3 DEF StopEnd, Status
  <1>4. CASE Deliver
    <2>1. Head(queue) \in Event /\ queue' \in Seq(Event)
      BY <1>4 DEF Deliver
    <2>2. Head(queue).gen \in Nat
      BY <2>1 DEF Event
    <2> QED
      BY <1>4, <2>1, <2>2 DEF Deliver, OnFrameReady, OnStatusChanged,
         OnDeviceInfoReady, OnButtonChanged
  <1>5. CASE LibusbInit
    BY <1>0, <1>5, AppendEvent DEF LibusbInit, Fault, NoFault
  <1>6. CASE LoopHead
    BY <1>0, <1>6, AppendEvent DEF LoopHead
  <1>7. CASE OpenDevice
    BY <1>0, <1>7, AppendEvent DEF OpenDevice
  <1>8. CASE ScanDevices
    BY <1>0, <1>8, AppendEvent DEF ScanDevices
  <1>9. CASE Identify
    <2>1. faults' \in Nat
      BY <1>9 DEF Identify, DetectVariant, CallOk, CallFail, Fault, NoFault
    <2>2. variant' \in Variant
      BY <1>9, DevicesAssumption
         DEF Identify, DetectVariant, CallOk, CallFail, Variant
    <2>3. queue' \in Seq(Event)
      BY <1>0, <1>9, AppendEvent DEF Identify, DetectVariant, FormatOf
    <2> QED
      BY <1>9, <2>1, <2>2, <2>3 DEF Identify
  <1>10. CASE HandshakeStep
    <2>1. ASSUME Refuse PROVE queue' \in Seq(Event)
      BY <1>0, <2>1, AppendEvent DEF Refuse
    <2>2. ASSUME NEW from, NEW i \in {0, 1}, NEW to \in Steps,
                 Claim(from, i, to)
          PROVE  TypeInv'
      <3>1. faults' \in Nat
        BY <2>2 DEF Claim, CallOk, CallFail, Fault, NoFault
      <3>2. CASE Refuse
        BY <2>1, <2>2, <3>1, <3>2 DEF Claim, Refuse
      <3>3. CASE ~Refuse
        <4>1. pc' \in Steps /\ claimed' \subseteq {0, 1}
              /\ UNCHANGED <<guiVars, queue, session, stopFlag, variant,
                            lastButton, handle, alt, device, accessible>>
          BY <2>2, <3>3 DEF Claim
        <4> QED
          BY <3>1, <4>1
      <3> QED
        BY <3>2, <3>3
    <2>3. ASSUME NEW from, NEW to \in Steps, NEW STATE setting,
                 setting \in {0, 1}, Command(from, to, setting)
          PROVE  TypeInv'
      <3>1. faults' \in Nat
        BY <2>3 DEF Command, CallOk, CallFail, Fault, NoFault
      <3>2. CASE Refuse
        BY <2>1, <2>3, <3>1, <3>2 DEF Command, Refuse
      <3>3. CASE ~Refuse
        <4>1. pc' \in Steps /\ alt' \in {0, 1} /\ lastButton' = lastButton
              /\ UNCHANGED <<guiVars, queue, session, stopFlag, variant, handle,
                            claimed, device, accessible>>
          BY <2>3, <3>3 DEF Command
        <4> QED
          BY <3>1, <4>1
      <3> QED
        BY <3>2, <3>3
    <2> QED
      BY <1>10, <2>2, <2>3 DEF HandshakeStep, ClaimIap, ClaimStream,
         AltSetting, InitCmd, ConnectCmd, ClaimYuyv, CameraUp
  <1>11. CASE Settle
    BY <1>0, <1>11, AppendEvent DEF Settle
  <1>12. CASE StreamFrame
    BY <1>12, AppendEvent DEF StreamFrame
  <1>13. CASE MjpegButton
    BY <1>13, AppendEvent DEF MjpegButton
  <1>14. CASE YuyvButton
    <2>1. queue' \in Seq(Event) /\ lastButton' \in Edge
      BY <1>0, <1>14, YuyvCases, AppendEvent
    <2> QED
      BY <1>14, <2>1 DEF YuyvButton
  <1>15. CASE StreamEnd
    <2>1. queue' \in Seq(Event) /\ lastButton' \in Edge
      BY <1>0, <1>15, AppendEvent DEF StreamEnd
    <2>2. faults' \in Nat
      BY <1>15 DEF StreamEnd, CallFail, Fault, NoFault
    <2> QED
      BY <1>15, <2>1, <2>2 DEF StreamEnd
  <1>16. CASE Retry
    BY <1>16 DEF Retry
  <1>17. CASE LibusbExit
    BY <1>0, <1>17, AppendEvent DEF LibusbExit
  <1>18. CASE Unplug
    BY <1>18 DEF Unplug
  <1>19. CASE Plug
    BY <1>19, DevicesAssumption DEF Plug
  <1>20. CASE UNCHANGED vars
    BY <1>20 DEF vars
  <1> QED
    BY <1>1, <1>2, <1>3, <1>4, <1>5, <1>6, <1>7, <1>8, <1>9, <1>10, <1>11,
       <1>12, <1>13, <1>14, <1>15, <1>16, <1>17, <1>18, <1>19, <1>20
       DEF Next, Gui, Worker

\* Every variable keeps its type; a queue of any length is allowed.
THEOREM TypeCorrect == Spec => []TypeOK
  <1>1. TypeInv => TypeOK
    BY DEF TypeInv
  <1> QED
    BY <1>1, TypeInit, TypeNext, PTL DEF Spec

-----------------------------------------------------------------------------
(***************************************************************************)
(* Off stays off, and a thread exists only inside a session.               *)
(***************************************************************************)

\* Before the first start() the camera is off.
LEMMA OffInit == Init => OffStaysOff
  BY DEF Init, OffStaysOff

\* Once off, only start() changes that: no worker runs to announce anything and
\* the guard of onStatusChanged refuses what is still queued.
LEMMA OffNext == OffStaysOff /\ [Next]_vars => OffStaysOff'
  <1> SUFFICES ASSUME OffStaysOff, [Next]_vars PROVE OffStaysOff'
    OBVIOUS
  <1> USE DEF OffStaysOff, guiVars, Goto
  <1>1. CASE Start \/ StopBegin \/ StopEnd
    BY <1>1 DEF Start, StopBegin, StopEnd
  <1>2. CASE Deliver
    <2>1. Status \intersect (Edge \union Format \union {"frame"}) = {}
      BY DEF Status, Edge, Format
    <2> QED
      BY <1>2, <2>1 DEF Deliver, OnFrameReady, OnStatusChanged,
         OnDeviceInfoReady, OnButtonChanged
  <1>3. ASSUME Worker PROVE UNCHANGED guiVars /\ pc # "off"
    <2>1. ASSUME HandshakeStep PROVE UNCHANGED guiVars /\ pc # "off"
      BY <2>1 DEF HandshakeStep, ClaimIap, ClaimStream, ClaimYuyv, Claim,
         AltSetting, InitCmd, ConnectCmd, CameraUp, Command
    <2> QED
      BY <1>3, <2>1 DEF Worker, LibusbInit, LoopHead, OpenDevice, ScanDevices,
         Identify, Settle, Streaming, StreamFrame, MjpegButton, YuyvButton,
         StreamEnd, Retry, LibusbExit
  <1>4. CASE Worker \/ Unplug \/ Plug \/ UNCHANGED vars
    BY <1>3, <1>4 DEF Unplug, Plug, vars
  <1> QED
    BY <1>1, <1>2, <1>4 DEF Next, Gui

\* stop() and the guard of onStatusChanged keep a stopped camera at Idle, with
\* no thread running.
THEOREM OffStaysOffCorrect == Spec => []OffStaysOff
  BY OffInit, OffNext, PTL DEF Spec

-----------------------------------------------------------------------------
(***************************************************************************)
(* The handle and its interfaces.                                          *)
(***************************************************************************)

\* Each step of a handshake finds what the step before it claimed, and every
\* way
\* out of an attempt closes the handle.
LEMMA ClaimNext ==
    TypeInv /\ OffStaysOff /\ ClaimDiscipline /\ [Next]_vars => ClaimDiscipline'
  <1> SUFFICES ASSUME TypeInv, OffStaysOff, ClaimDiscipline, [Next]_vars
               PROVE  ClaimDiscipline'
    OBVIOUS
  <1> USE DEF ClaimDiscipline, Detached, Opened, Goto, usbVars, workerVars,
              guiVars, envVars
  <1>1. CASE Start \/ StopEnd
    BY <1>1 DEF Start, StopEnd, OffStaysOff
  <1>2. CASE StopBegin \/ Deliver
    BY <1>2 DEF StopBegin, Deliver
  <1>3. CASE LibusbInit \/ LoopHead \/ ScanDevices \/ Retry \/ LibusbExit
    BY <1>3 DEF LibusbInit, LoopHead, ScanDevices, Retry, LibusbExit
  <1>4. CASE OpenDevice
    BY <1>4 DEF OpenDevice
  <1>5. CASE Identify
    <2>1. variant' \in {"mjpeg", "yuyv", "unknown"}
      BY <1>5, DevicesAssumption
         DEF Identify, DetectVariant, CallOk, CallFail, TypeInv, TypeOK, LiveOnBus
    <2> QED
      BY <1>5, <2>1 DEF Identify
  <1>6. ASSUME Refuse PROVE ClaimDiscipline'
    BY <1>6 DEF Refuse
  <1>7. CASE ClaimIap
    BY <1>6, <1>7 DEF ClaimIap, Claim
  <1>7a. CASE ClaimStream
    BY <1>6, <1>7a DEF ClaimStream, Claim
  <1>7b. CASE ClaimYuyv
    BY <1>6, <1>7b DEF ClaimYuyv, Claim
  <1>8. CASE AltSetting
    BY <1>6, <1>8 DEF AltSetting, Command
  <1>8a. CASE InitCmd
    BY <1>6, <1>8a DEF InitCmd, Command
  <1>8b. CASE ConnectCmd
    BY <1>6, <1>8b DEF ConnectCmd, Command, Needed
  <1>8c. CASE CameraUp
    BY <1>6, <1>8c DEF CameraUp, Command, Needed
  <1>9. CASE Settle
    BY <1>9 DEF Settle, Needed
  <1>10. CASE StreamFrame \/ MjpegButton \/ YuyvButton
    BY <1>10 DEF StreamFrame, MjpegButton, YuyvButton, Needed
  <1>11. CASE StreamEnd
    BY <1>11 DEF StreamEnd
  <1>12. CASE Unplug
    BY <1>12 DEF Unplug, Needed
  <1>13. CASE Plug
    BY <1>13 DEF Plug, Needed
  <1>14. CASE UNCHANGED vars
    BY <1>14 DEF vars, Needed
  <1> QED
    BY <1>1, <1>2, <1>3, <1>4, <1>5, <1>7, <1>7a, <1>7b, <1>8, <1>8a, <1>8b, <1>8c,
       <1>9, <1>10, <1>11, <1>12, <1>13, <1>14 DEF Next, Gui, Worker, HandshakeStep

\* No attempt leaves a handle or an interface behind, and no command or stream
\* runs without the interfaces of its variant: handshakeMjpeg, handshakeYuyv,
\* teardown and the two exits of the loop body of run().
THEOREM ClaimsCorrect == Spec => []ClaimDiscipline
  <1>1. Init => ClaimDiscipline
    BY DEF Init, ClaimDiscipline, Detached, Opened
  <1> QED
    BY <1>1, TypeInit, TypeNext, OffInit, OffNext, ClaimNext, PTL DEF Spec

-----------------------------------------------------------------------------
(***************************************************************************)
(* What the GUI settles on.  EndsIn is restated for an arbitrary queue q   *)
(* and an arbitrary value shown, so that lemmas can say what appending an  *)
(* event and delivering one do to it.                                      *)
(***************************************************************************)

Settles(W, q, shown, values) ==
    IF \E i \in DOMAIN q : q[i].what \in W
    THEN \A i \in DOMAIN q :
            /\ q[i].what \in W
            /\ \A j \in DOMAIN q : j > i => q[j].what \notin W
            => q[i].what \in values
    ELSE shown \in values

\* The elements of an appended queue.
LEMMA AppendElements ==
    ASSUME NEW q \in Seq(Event), NEW e \in Event
    PROVE  /\ Append(q, e) \in Seq(Event)
           /\ Len(q) \in Nat
           /\ DOMAIN q = 1 .. Len(q)
           /\ DOMAIN Append(q, e) = 1 .. (Len(q) + 1)
           /\ \A i \in 1 .. Len(q) : Append(q, e)[i] = q[i]
           /\ Append(q, e)[Len(q) + 1] = e
  OBVIOUS

\* The elements of what is left of a queue.
LEMMA TailElements ==
    ASSUME NEW q \in Seq(Event), q # <<>>
    PROVE  /\ Tail(q) \in Seq(Event)
           /\ Len(q) \in Nat \ {0}
           /\ DOMAIN q = 1 .. Len(q)
           /\ DOMAIN Tail(q) = 1 .. (Len(q) - 1)
           /\ \A i \in 1 .. (Len(q) - 1) : Tail(q)[i] = q[i + 1]
           /\ Head(q) = q[1]
  OBVIOUS

\* An event of W at the end is what the GUI will show last.
LEMMA SettlesAppendIn ==
    ASSUME NEW W, NEW q \in Seq(Event), NEW e \in Event, NEW shown, NEW values,
           e.what \in W, e.what \in values
    PROVE  Settles(W, Append(q, e), shown, values)
  BY AppendElements DEF Settles

\* Posting an event outside W does not change what the GUI settles on.
LEMMA SettlesAppendOther ==
    ASSUME NEW W, NEW q \in Seq(Event), NEW e \in Event, NEW shown, NEW values,
           e.what \notin W, Settles(W, q, shown, values)
    PROVE  Settles(W, Append(q, e), shown, values)
  BY AppendElements DEF Settles

\* Delivering the first event shows it, and what the GUI settles on stays.
LEMMA SettlesTail ==
    ASSUME NEW W, NEW q \in Seq(Event), q # <<>>, NEW shown, NEW values,
           Settles(W, q, shown, values)
    PROVE  Settles(W, Tail(q),
                   IF Head(q).what \in W THEN Head(q).what ELSE shown, values)
  <1> DEFINE now == IF Head(q).what \in W THEN Head(q).what ELSE shown
  <1>1. CASE \E i \in DOMAIN Tail(q) : Tail(q)[i].what \in W
    <2> SUFFICES ASSUME NEW i \in DOMAIN Tail(q), Tail(q)[i].what \in W,
                        \A j \in DOMAIN Tail(q) :
                            j > i => Tail(q)[j].what \notin W
                 PROVE  Tail(q)[i].what \in values
      BY <1>1 DEF Settles
    <2>1. /\ i + 1 \in DOMAIN q /\ q[i + 1] = Tail(q)[i]
          /\ \A j \in DOMAIN q : j > i + 1 =>
                j - 1 \in DOMAIN Tail(q) /\ j - 1 > i /\ q[j] = Tail(q)[j - 1]
      BY TailElements
    <2> QED
      BY <2>1 DEF Settles
  <1>2. CASE \A i \in DOMAIN Tail(q) : Tail(q)[i].what \notin W
    <2>1. \A j \in DOMAIN q : j > 1 => q[j].what \notin W
      <3> SUFFICES ASSUME NEW j \in DOMAIN q, j > 1
                   PROVE  q[j].what \notin W
        OBVIOUS
      <3>1. j - 1 \in DOMAIN Tail(q) /\ Tail(q)[j - 1] = q[j]
        BY TailElements
      <3> QED
        BY <1>2, <3>1
    <2>2. now \in values
      <3>1. 1 \in DOMAIN q /\ Head(q) = q[1]
        BY TailElements
      <3>2. CASE Head(q).what \in W
        BY <2>1, <3>1, <3>2 DEF Settles
      <3>3. CASE Head(q).what \notin W
        <4>1. \A j \in DOMAIN q : q[j].what \notin W
          BY <2>1, <3>1, <3>3, TailElements
        <4> QED
          BY <3>3, <4>1 DEF Settles
      <3> QED
        BY <3>2, <3>3
    <2> QED
      BY <1>2, <2>2 DEF Settles
  <1> QED
    BY <1>1, <1>2

-----------------------------------------------------------------------------
(***************************************************************************)
(* The cable button: ButtonConverges and ButtonAlternates, restated in the *)
(* same way.                                                               *)
(***************************************************************************)

Converges(q, shown, v) == Settles(Edge, q, shown, {v})

Alternates(q, shown) ==
    \A j \in DOMAIN q :
        q[j].what \in Edge =>
            IF \E i \in 1 .. (j - 1) : q[i].what \in Edge
            THEN \A i \in 1 .. (j - 1) :
                    /\ q[i].what \in Edge
                    /\ \A k \in (i + 1) .. (j - 1) : q[k].what \notin Edge
                    => q[i].what # q[j].what
            ELSE q[j].what # shown

\* The two properties of the button are these predicates of the queue.
LEMMA Restated ==
    /\ ButtonConverges <=> Converges(queue, buttonPressed, lastButton)
    /\ ButtonAlternates <=> Alternates(queue, buttonPressed)
  BY DEF ButtonConverges, EndsIn, Settles, Converges, ButtonAlternates, Alternates

\* Posting the opposite of what the button settles on keeps the edges
\* alternating.
LEMMA AlternatesAppendEdge ==
    ASSUME NEW q \in Seq(Event), NEW e \in Event, NEW shown, NEW v,
           Alternates(q, shown), Converges(q, shown, v), e.what # v
    PROVE  Alternates(Append(q, e), shown)
  <1> DEFINE a == Append(q, e)
  <1> SUFFICES ASSUME NEW j \in DOMAIN a, a[j].what \in Edge
               PROVE  IF \E i \in 1 .. (j - 1) : a[i].what \in Edge
                      THEN \A i \in 1 .. (j - 1) :
                              /\ a[i].what \in Edge
                              /\ \A k \in (i + 1) .. (j - 1) :
                                    a[k].what \notin Edge
                              => a[i].what # a[j].what
                      ELSE a[j].what # shown
    BY DEF Alternates
  <1>1. CASE j \in DOMAIN q
    <2>1. \A i \in 1 .. j : a[i] = q[i]
      BY <1>1, AppendElements
    <2> HIDE DEF a
    <2>2. j \in Nat /\ 1 <= j
      BY <1>1, AppendElements
    <2>3. a[j] = q[j] /\ \A i \in 1 .. (j - 1) : a[i] = q[i]
      BY <2>1, <2>2
    <2>4. \A i \in 1 .. (j - 1) : \A k \in (i + 1) .. (j - 1) : a[k] = q[k]
      BY <2>2, <2>3
    <2>5. CASE \E i \in 1 .. (j - 1) : a[i].what \in Edge
      BY <1>1, <2>3, <2>4, <2>5 DEF Alternates
    <2>6. CASE ~ \E i \in 1 .. (j - 1) : a[i].what \in Edge
      BY <1>1, <2>3, <2>6 DEF Alternates
    <2> QED
      BY <2>5, <2>6
  <1>2. CASE j \notin DOMAIN q
    <2>1. /\ j = Len(q) + 1 /\ a[j] = e /\ 1 .. (j - 1) = DOMAIN q
          /\ \A i \in DOMAIN q : a[i] = q[i]
          /\ Len(q) \in Nat /\ DOMAIN q = 1 .. Len(q)
      BY <1>2, AppendElements
    <2> HIDE DEF a
    <2>2. CASE \E i \in 1 .. (j - 1) : a[i].what \in Edge
      <3> SUFFICES ASSUME NEW i \in 1 .. (j - 1), a[i].what \in Edge,
                          \A k \in (i + 1) .. (j - 1) : a[k].what \notin Edge
                   PROVE  a[i].what # a[j].what
        BY <2>2
      <3>1. i \in DOMAIN q /\ q[i].what \in Edge
        BY <2>1
      <3>2. \A k \in DOMAIN q : k > i => q[k].what \notin Edge
        BY <2>1
      <3> QED
        BY <2>1, <3>1, <3>2 DEF Converges, Settles
    <2>3. CASE ~ \E i \in 1 .. (j - 1) : a[i].what \in Edge
      BY <2>1, <2>3 DEF Converges, Settles
    <2> QED
      BY <2>2, <2>3
  <1> QED
    BY <1>1, <1>2

\* Posting an event that is no edge keeps them alternating as well.
LEMMA AlternatesAppendOther ==
    ASSUME NEW q \in Seq(Event), NEW e \in Event, NEW shown,
           Alternates(q, shown), e.what \notin Edge
    PROVE  Alternates(Append(q, e), shown)
  <1> DEFINE a == Append(q, e)
  <1> SUFFICES ASSUME NEW j \in DOMAIN a, a[j].what \in Edge
               PROVE  IF \E i \in 1 .. (j - 1) : a[i].what \in Edge
                      THEN \A i \in 1 .. (j - 1) :
                              /\ a[i].what \in Edge
                              /\ \A k \in (i + 1) .. (j - 1) :
                                    a[k].what \notin Edge
                              => a[i].what # a[j].what
                      ELSE a[j].what # shown
    BY DEF Alternates
  <1>1. j \in DOMAIN q /\ \A i \in 1 .. j : a[i] = q[i]
    BY AppendElements
  <1>2. j \in Nat /\ 1 <= j
    BY <1>1, AppendElements
  <1> HIDE DEF a
  <1> QED
    BY <1>1, <1>2 DEF Alternates

\* Delivering the first event keeps the rest alternating with what is then
\* shown.
LEMMA AlternatesTail ==
    ASSUME NEW q \in Seq(Event), q # <<>>, NEW shown, Alternates(q, shown)
    PROVE  Alternates(Tail(q),
                      IF Head(q).what \in Edge THEN Head(q).what ELSE shown)
  <1> DEFINE t   == Tail(q)
             now == IF Head(q).what \in Edge THEN Head(q).what ELSE shown
  <1> SUFFICES ASSUME NEW j \in DOMAIN t, t[j].what \in Edge
               PROVE  IF \E i \in 1 .. (j - 1) : t[i].what \in Edge
                      THEN \A i \in 1 .. (j - 1) :
                              /\ t[i].what \in Edge
                              /\ \A k \in (i + 1) .. (j - 1) :
                                    t[k].what \notin Edge
                              => t[i].what # t[j].what
                      ELSE t[j].what # now
    BY DEF Alternates
  <1>1. /\ j \in Nat /\ 1 <= j /\ j + 1 \in DOMAIN q /\ t[j] = q[j + 1]
        /\ \A i \in 1 .. j : t[i] = q[i + 1]
        /\ Head(q) = q[1]
    BY TailElements
  <1> HIDE DEF t
  <1>2. CASE \E i \in 1 .. (j - 1) : t[i].what \in Edge
    <2> SUFFICES ASSUME NEW i \in 1 .. (j - 1), t[i].what \in Edge,
                        \A k \in (i + 1) .. (j - 1) : t[k].what \notin Edge
                 PROVE  t[i].what # t[j].what
      BY <1>2
    <2>1. i + 1 \in 1 .. ((j + 1) - 1) /\ q[i + 1] = t[i]
      BY <1>1
    <2>2. \A k \in ((i + 1) + 1) .. ((j + 1) - 1) : q[k].what \notin Edge
      <3> SUFFICES ASSUME NEW k \in ((i + 1) + 1) .. ((j + 1) - 1)
                   PROVE  q[k].what \notin Edge
        OBVIOUS
      <3>1. k - 1 \in (i + 1) .. (j - 1) /\ t[k - 1] = q[(k - 1) + 1]
        BY <1>1
      <3>2. (k - 1) + 1 = k
        BY <1>1
      <3> QED
        BY <3>1, <3>2
    <2> QED
      BY <1>1, <2>1, <2>2 DEF Alternates
  <1>3. CASE ~ \E i \in 1 .. (j - 1) : t[i].what \in Edge
    <2>1. \A k \in 2 .. j : q[k].what \notin Edge
      <3> SUFFICES ASSUME NEW k \in 2 .. j PROVE q[k].what \notin Edge
        OBVIOUS
      <3>1. k - 1 \in 1 .. (j - 1) /\ t[k - 1] = q[(k - 1) + 1]
            /\ (k - 1) + 1 = k
        BY <1>1
      <3> QED
        BY <1>3, <3>1
    <2>2. CASE Head(q).what \in Edge
      <3>1. 1 \in 1 .. ((j + 1) - 1)
        BY <1>1
      <3>2. \A k \in (1 + 1) .. ((j + 1) - 1) : q[k].what \notin Edge
        BY <1>1, <2>1
      <3> QED
        BY <1>1, <1>3, <2>2, <3>1, <3>2 DEF Alternates
    <2>3. CASE Head(q).what \notin Edge
      <3>1. ~ \E i \in 1 .. ((j + 1) - 1) : q[i].what \in Edge
        BY <1>1, <2>1, <2>3
      <3> QED
        BY <1>1, <1>3, <2>3, <3>1 DEF Alternates
    <2> QED
      BY <2>2, <2>3
  <1> QED
    BY <1>2, <1>3

\* Both at once, and what posting and delivering do to them.
ButtonOK(q, shown, v) == Converges(q, shown, v) /\ Alternates(q, shown)

\* An edge the worker emits, opposite to the level it knew, becomes that level.
LEMMA PostEdge ==
    ASSUME NEW q \in Seq(Event), NEW shown, NEW v, NEW what \in Edge,
           session \in Nat, ButtonOK(q, shown, v), what # v
    PROVE  /\ Append(q, Ev(what)) \in Seq(Event)
           /\ ButtonOK(Append(q, Ev(what)), shown, what)
  <1>1. Ev(what) \in Event /\ Ev(what).what = what
    BY DEF Ev, Event
  <1> QED
    BY <1>1, AppendElements, SettlesAppendIn, AlternatesAppendEdge
       DEF ButtonOK, Converges

\* Any other signal leaves the button as it is.
LEMMA PostOther ==
    ASSUME NEW q \in Seq(Event), NEW shown, NEW v, session \in Nat,
           NEW what \in Status \union Format \union {"frame"},
           ButtonOK(q, shown, v)
    PROVE  /\ Append(q, Ev(what)) \in Seq(Event)
           /\ ButtonOK(Append(q, Ev(what)), shown, v)
  <1>1. Ev(what) \in Event /\ Ev(what).what \notin Edge
    BY DEF Ev, Event, Edge, Status, Format
  <1> QED
    BY <1>1, AppendElements, SettlesAppendOther, AlternatesAppendOther
       DEF ButtonOK, Converges

\* A button is held only while its stream runs; run() has announced the
\* release before it looks for a camera again or ends.
HeldInStream == lastButton = "pressed" => pc = "stream"

ButtonInv == ButtonOK(queue, buttonPressed, lastButton) /\ HeldInStream

\* At first nothing is queued and the button is up for both threads.
LEMMA ButtonInit == Init => ButtonInv
  BY DEF Init, ButtonInv, ButtonOK, Converges, Settles, Alternates, HeldInStream

\* Every step keeps both properties; the one that matters is the end of a
\* stream,
\* which announces the release of a held button.
LEMMA ButtonNext ==
    TypeInv /\ OffStaysOff /\ ButtonInv /\ [Next]_vars => ButtonInv'
  <1> SUFFICES ASSUME TypeInv, OffStaysOff, ButtonInv, [Next]_vars
               PROVE  ButtonInv'
    OBVIOUS
  <1> USE DEF ButtonInv, HeldInStream, Goto, guiVars, workerVars, usbVars
  <1>0. /\ queue \in Seq(Event) /\ session \in Nat /\ lastButton \in Edge
        /\ Edge = {"pressed", "released"}
        /\ {"Idle", "Searching", "Connecting", "Streaming", "Error", "MJPEG",
            "YUYV", "frame"} \subseteq Status \union Format \union {"frame"}
    BY DEF TypeInv, TypeOK, Edge, Status, Format
  \* Steps that leave the queue, the level seen and the value shown alone.
  <1>1. CASE Start
    BY <1>0, <1>1 DEF Start, OffStaysOff
  <1>2. CASE StopBegin \/ StopEnd \/ Retry \/ Unplug \/ Plug \/ UNCHANGED vars
    BY <1>2 DEF StopBegin, StopEnd, Retry, Unplug, Plug, vars
  <1>3. CASE Deliver
    <2>1. /\ queue # <<>> /\ queue' = Tail(queue)
          /\ UNCHANGED <<lastButton, pc>>
      BY <1>3 DEF Deliver
    <2>2. buttonPressed' = IF Head(queue).what \in Edge THEN Head(queue).what
                                                        ELSE buttonPressed
      <3>1. Edge \intersect (Status \union Format \union {"frame"}) = {}
        BY DEF Status, Edge, Format
      <3> QED
        BY <1>3, <3>1 DEF Deliver, OnFrameReady, OnStatusChanged,
           OnDeviceInfoReady, OnButtonChanged
    <2> QED
      BY <1>0, <2>1, <2>2, SettlesTail, AlternatesTail DEF ButtonOK, Converges
  \* Steps that post anything but an edge, from outside the stream.
  <1>4. ASSUME NEW w \in Status \union Format \union {"frame"},
               queue' = queue \/ Post(w),
               UNCHANGED <<buttonPressed, lastButton>>,
               pc = "stream" => pc' = "stream"
        PROVE  ButtonInv'
    BY <1>0, <1>4, PostOther DEF Post
  <1>5. CASE LibusbInit
    BY <1>0, <1>4, <1>5 DEF LibusbInit
  <1>6. CASE LoopHead
    BY <1>0, <1>4, <1>6 DEF LoopHead
  <1>7. CASE OpenDevice
    BY <1>0, <1>4, <1>7 DEF OpenDevice
  <1>8. CASE ScanDevices
    BY <1>0, <1>4, <1>8 DEF ScanDevices
  <1>9. CASE Identify
    <2>1. CASE variant' = "unknown"
      <3>1. /\ queue' = Append(Append(queue, Ev("MJPEG")), Ev("Error"))
            /\ UNCHANGED <<buttonPressed, lastButton>> /\ pc # "stream"
        BY <1>9, <2>1 DEF Identify
      <3> QED
        BY <1>0, <3>1, PostOther
    <2>2. CASE variant' # "unknown"
      BY <1>0, <1>4, <1>9, <2>2 DEF Identify, DetectVariant, FormatOf
    <2> QED
      BY <2>1, <2>2
  <1>10. CASE HandshakeStep
    <2>1. ASSUME NEW from \in {"claimIap", "claimStream", "claimYuyv"},
                 NEW i, NEW to, Claim(from, i, to)
          PROVE  ButtonInv'
      BY <1>0, <1>4, <2>1 DEF Claim, Refuse
    <2>2. ASSUME NEW from \in {"altSetting", "initCmd", "connectCmd",
                               "cameraUp"},
                 NEW to, NEW STATE setting, Command(from, to, setting)
          PROVE  ButtonInv'
      BY <1>0, <1>4, <2>2 DEF Command, Refuse
    <2> QED
      BY <1>10, <2>1, <2>2 DEF HandshakeStep, ClaimIap, ClaimStream,
         AltSetting, InitCmd, ConnectCmd, ClaimYuyv, CameraUp
  <1>11. CASE Settle
    BY <1>0, <1>4, <1>11 DEF Settle
  <1>12. CASE StreamFrame
    BY <1>0, <1>4, <1>12 DEF StreamFrame
  \* Steps that post edges.
  <1>13. CASE MjpegButton
    BY <1>0, <1>13, PostEdge DEF MjpegButton, Streaming, Post
  <1>14. CASE YuyvButton
    <2>1. UNCHANGED <<buttonPressed, pc>> /\ pc = "stream"
      BY <1>14 DEF YuyvButton, Streaming
    <2> DEFINE q1 == Append(queue, Ev("pressed"))
               r1 == Append(queue, Ev("released"))
    <2>2. lastButton = "released" =>
             /\ ButtonOK(q1, buttonPressed, "pressed")
             /\ ButtonOK(Append(q1, Ev("released")), buttonPressed, "released")
      BY <1>0, PostEdge
    <2>3. lastButton = "pressed" =>
             /\ ButtonOK(r1, buttonPressed, "released")
             /\ ButtonOK(Append(r1, Ev("pressed")), buttonPressed, "pressed")
             /\ ButtonOK(Append(Append(r1, Ev("pressed")), Ev("released")),
                         buttonPressed, "released")
      BY <1>0, PostEdge
    <2> QED
      BY <1>0, <1>14, <2>1, <2>2, <2>3, YuyvCases DEF TypeInv
  <1>15. CASE StreamEnd
    BY <1>0, <1>15, PostEdge DEF StreamEnd, Post
  <1>16. CASE LibusbExit
    BY <1>0, <1>4, <1>16 DEF LibusbExit
  <1> QED
    BY <1>1, <1>2, <1>3, <1>5, <1>6, <1>7, <1>8, <1>9, <1>10, <1>11, <1>12,
       <1>13, <1>14, <1>15, <1>16 DEF Next, Gui, Worker

\* No press of the cable button is lost and none gets stuck, through any
\* number of unplugs, reconnections and restarts of the worker: the emissions
\* in streamLoopMjpeg, streamLoopYuyv and at the end of run()'s loop body,
\* against the duplicate check of onButtonChanged.
THEOREM ButtonCorrect == Spec => [](ButtonConverges /\ ButtonAlternates)
  <1>1. ButtonInv => ButtonConverges /\ ButtonAlternates
    BY Restated DEF ButtonInv, ButtonOK
  <1> QED
    BY <1>1, TypeInit, TypeNext, OffInit, OffNext, ButtonInit, ButtonNext, PTL
       DEF Spec

-----------------------------------------------------------------------------
(***************************************************************************)
(* The status and the device information.                                  *)
(***************************************************************************)

\* An event posted at the end, inside W or outside it.
LEMMA PostSettles ==
    ASSUME NEW W, NEW q \in Seq(Event), NEW shown, NEW values,
           NEW what \in Status \union Edge \union Format \union {"frame"},
           session \in Nat,
           what \in W => what \in values,
           what \notin W => Settles(W, q, shown, values)
    PROVE  /\ Append(q, Ev(what)) \in Seq(Event)
           /\ Settles(W, Append(q, Ev(what)), shown, values)
  <1>1. Ev(what) \in Event /\ Ev(what).what = what
    BY DEF Ev, Event
  <1> QED
    BY <1>1, AppendElements, SettlesAppendIn, SettlesAppendOther

\* Button edges change neither the status nor the format the GUI settles on.
LEMMA YuyvSettles ==
    ASSUME TypeOK, YuyvButton, NEW W, W \intersect Edge = {}, NEW shown,
           NEW values, Settles(W, queue, shown, values)
    PROVE  Settles(W, queue', shown, values)
  <1> DEFINE P(q) == q \in Seq(Event) /\ Settles(W, q, shown, values)
  <1>1. ASSUME NEW q, P(q), NEW e \in {"pressed", "released"}
        PROVE  P(Append(q, Ev(e)))
    <2>1. e \in Edge /\ e \notin W /\ session \in Nat
      BY DEF Edge, TypeOK
    <2> QED
      BY <1>1, <2>1, PostSettles
  <1>2. P(queue)
    BY DEF TypeOK
  <1> HIDE DEF P
  <1>3. P(queue')
    BY <1>1, <1>2, YuyvCases
  <1> QED
    BY <1>3 DEF P

\* A value that needs no announcement: every queued one of W is in W.
LEMMA SettlesTrivially ==
    ASSUME NEW W, NEW q \in Seq(Event), NEW shown \in W
    PROVE  Settles(W, q, shown, W)
  BY DEF Settles

\* stop() has cleared m_worker before it sets m_stop, and waits only then;
\* nobody leaves the supervision loop before that.
StopOrder ==
    /\ stopFlag => ~hasWorker
    /\ blocked => ~hasWorker
    /\ pc = "exit" => stopFlag
    /\ pc = "off" => ~hasWorker

\* Before the first start() nobody has asked anything to stop.
LEMMA StopOrderInit == Init => StopOrder
  BY DEF Init, StopOrder

\* Only stop() sets the flag and only start() makes a worker.
LEMMA StopOrderNext == StopOrder /\ [Next]_vars => StopOrder'
  <1> SUFFICES ASSUME StopOrder, [Next]_vars PROVE StopOrder'
    OBVIOUS
  <1> USE DEF StopOrder, guiVars, workerVars, Goto
  <1>1. CASE Gui
    BY <1>1 DEF Gui, Start, StopBegin, StopEnd, Deliver
  <1>2. CASE HandshakeStep
    <2>1. UNCHANGED <<guiVars, stopFlag>> /\ pc' \notin {"exit", "off"}
      BY <1>2 DEF HandshakeStep, ClaimIap, ClaimStream, ClaimYuyv, Claim,
         AltSetting, InitCmd, ConnectCmd, CameraUp, Command, Refuse
    <2> QED
      BY <1>2, <2>1 DEF HandshakeStep, ClaimIap, ClaimStream, ClaimYuyv, Claim,
         AltSetting, InitCmd, ConnectCmd, CameraUp, Command
  <1>3. CASE LibusbInit \/ LoopHead \/ OpenDevice \/ ScanDevices \/ Identify
    BY <1>3 DEF LibusbInit, LoopHead, OpenDevice, ScanDevices, Identify
  <1>4. CASE \/ Settle \/ StreamFrame \/ MjpegButton \/ YuyvButton \/ StreamEnd
             \/ Retry \/ LibusbExit
    BY <1>4 DEF Settle, StreamFrame, MjpegButton, YuyvButton, StreamEnd, Retry,
       LibusbExit
  <1>5. CASE Unplug \/ Plug \/ UNCHANGED vars
    BY <1>5 DEF Unplug, Plug, vars
  <1> QED
    BY <1>1, <1>2, <1>3, <1>4, <1>5 DEF Next, Worker

\* What is proved inductive: StatusConverges of the queue, and InfoConverges.
StatusInv == hasWorker => Settles(Status, queue, status, Announced)
InfoInv   == pc \in (Opened \union Attached) \ {"identify"} =>
                Settles(Format, queue, info, {FormatOf(variant)})

\* At first there is no worker.
LEMMA SettleInit == Init => StatusInv /\ InfoInv
  BY DEF Init, StatusInv, InfoInv, Opened, Attached

\* Where the worker has announced nothing new, there is nothing to show.
LEMMA StatusUnsaid ==
    ASSUME TypeOK', pc' \in {"init", "loop", "exit", "off"}
    PROVE  StatusInv'
  <1>1. Announced' = Status
    BY DEF Announced, Opened, Attached
  <1>2. queue' \in Seq(Event) /\ status' \in Status
    BY DEF TypeOK
  <1>3. Settles(Status, queue', status', Status)
    BY <1>2, SettlesTrivially
  <1> QED
    BY <1>1, <1>3 DEF StatusInv

\* A step of the worker that leaves what the GUI shows alone and ends in the
\* announcement of what `values` allows.
LEMMA StatusSaid ==
    ASSUME TypeOK, NEW what \in Status, UNCHANGED <<hasWorker, status>>,
           NEW q \in Seq(Event), queue' = Append(q, Ev(what)),
           what \in Announced'
    PROVE  StatusInv'
  <1>1. session \in Nat
    BY DEF TypeOK
  <1>2. Settles(Status, queue', status', Announced')
    BY <1>1, PostSettles
  <1> QED
    BY <1>2 DEF StatusInv

\* A step that posts no status and after which the same announcement stands.
LEMMA StatusKept ==
    ASSUME TypeOK, StatusInv, UNCHANGED <<hasWorker, status>>,
           NEW what \in Edge \union Format \union {"frame"},
           queue' = queue \/ Post(what), Announced' = Announced
    PROVE  StatusInv'
  <1>1. /\ session \in Nat /\ queue \in Seq(Event) /\ what \notin Status
    BY DEF TypeOK, Status, Edge, Format
  <1>2. hasWorker => Settles(Status, queue, status, Announced)
    BY DEF StatusInv
  <1>3. hasWorker => Settles(Status, queue', status, Announced)
    BY <1>1, <1>2, PostSettles DEF Post
  <1> QED
    BY <1>3 DEF StatusInv

\* Every announcement of run() is the last status it has posted, and nothing
\* but a delivery changes what is shown while there is a worker.
LEMMA StatusNext ==
    TypeInv /\ TypeInv' /\ StopOrder /\ StatusInv /\ [Next]_vars => StatusInv'
  <1> SUFFICES ASSUME TypeInv, TypeInv', StopOrder, StatusInv, [Next]_vars
               PROVE  StatusInv'
    OBVIOUS
  <1> USE DEF TypeInv, Goto, guiVars, workerVars, usbVars
  <1>0. /\ TypeOK /\ TypeOK' /\ queue \in Seq(Event) /\ session \in Nat
        /\ {"Idle", "Searching", "Connecting", "Streaming", "Error"} = Status
        /\ {"MJPEG", "YUYV", "frame", "pressed", "released"}
              = Edge \union Format \union {"frame"}
    BY DEF TypeOK, Status, Edge, Format
  <1> HIDE DEF TypeInv
  <1>1. CASE Start \/ StopEnd \/ Retry
    BY <1>0, <1>1, StatusUnsaid DEF Start, StopEnd, Retry
  <1>2. CASE StopBegin
    BY <1>2 DEF StopBegin, StatusInv
  <1>3. CASE Deliver
    <2>1. /\ queue # <<>> /\ queue' = Tail(queue) /\ UNCHANGED <<hasWorker, pc>>
      BY <1>3 DEF Deliver
    <2>2. Status \intersect (Edge \union Format \union {"frame"}) = {}
      BY DEF Status, Edge, Format
    <2>3. hasWorker => status' = IF Head(queue).what \in Status
                                 THEN Head(queue).what ELSE status
      BY <1>3, <2>2 DEF Deliver, OnFrameReady, OnStatusChanged,
         OnDeviceInfoReady, OnButtonChanged
    <2>4. Announced' = Announced
      BY <2>1 DEF Announced
    <2> HIDE DEF Announced
    <2> QED
      BY <1>0, <2>1, <2>3, <2>4, SettlesTail DEF StatusInv
  <1>4. CASE LibusbInit
    <2>1. CASE pc' = "loop"
      BY <1>0, <2>1, StatusUnsaid
    <2>2. CASE pc' # "loop"
      <3>1. Announced' = {"Error"}
        BY <1>4, <2>2 DEF LibusbInit, Announced, Opened, Attached
      <3> QED
        BY <1>0, <1>4, <2>2, <3>1, StatusSaid DEF LibusbInit, Post
    <2> QED
      BY <2>1, <2>2
  <1>5. CASE LoopHead
    <2>1. CASE pc' = "exit"
      BY <1>0, <2>1, StatusUnsaid
    <2>2. CASE pc' # "exit"
      <3>1. Announced' = {"Searching"}
        BY <1>5, <2>2 DEF LoopHead, Announced, Opened, Attached
      <3> QED
        BY <1>0, <1>5, <2>2, <3>1, StatusSaid DEF LoopHead, Post
    <2> QED
      BY <2>1, <2>2
  <1>6. CASE OpenDevice
    <2>1. CASE pc' = "identify"
      <3>1. Announced' = {"Connecting"}
        BY <2>1 DEF Announced, Opened, Attached
      <3> QED
        BY <1>0, <1>6, <2>1, <3>1, StatusSaid DEF OpenDevice, Post
    <2>2. CASE pc' # "identify"
      <3>1. Announced' = Announced
        BY <1>6, <2>2 DEF OpenDevice, Announced, Opened, Attached
      <3> QED
        BY <1>0, <1>6, <2>2, <3>1, StatusKept DEF OpenDevice
    <2> QED
      BY <2>1, <2>2
  <1>7. CASE ScanDevices
    <2>1. Announced' = {"Searching", "Error"}
      BY <1>7 DEF ScanDevices, Announced, Opened, Attached
    <2> QED
      BY <1>0, <1>7, <2>1, StatusSaid DEF ScanDevices, Post
  <1>8. CASE Identify
    <2>1. CASE variant' = "unknown"
      <3>1. Announced' = {"Searching", "Error"}
        BY <1>8, <2>1 DEF Identify, Announced, Opened, Attached
      <3>2. Append(queue, Ev("MJPEG")) \in Seq(Event)
        BY <1>0, AppendEvent
      <3> QED
        BY <1>0, <1>8, <2>1, <3>1, <3>2, StatusSaid DEF Identify
    <2>2. CASE variant' # "unknown"
      <3>1. pc = "identify" /\ pc' \in {"claimYuyv", "claimIap"}
        BY <1>8, <2>2 DEF Identify
      <3>2. Announced' = Announced
        BY <3>1 DEF Announced, Opened, Attached
      <3>3. Post(FormatOf(variant')) /\ FormatOf(variant') \in {"MJPEG", "YUYV"}
        BY <1>8, <2>2 DEF Identify, FormatOf
      <3> QED
        BY <1>0, <1>8, <3>2, <3>3, StatusKept DEF Identify
    <2> QED
      BY <2>1, <2>2
  <1>9. CASE HandshakeStep
    <2>1. ASSUME Refuse, UNCHANGED guiVars PROVE StatusInv'
      <3>1. Announced' = {"Searching", "Error"}
        BY <2>1 DEF Refuse, Announced, Opened, Attached
      <3> QED
        BY <1>0, <2>1, <3>1, StatusSaid DEF Refuse, Post
    <2>2. UNCHANGED guiVars /\ (Refuse \/ queue' = queue)
      BY <1>9 DEF HandshakeStep, ClaimIap, ClaimStream, ClaimYuyv, Claim,
         AltSetting, InitCmd, ConnectCmd, CameraUp, Command
    <2>3. CASE ~Refuse
      <3>1. /\ pc \in (Opened \union Attached) \ {"stream"}
            /\ pc' \in (Opened \union Attached) \ {"stream"}
        BY <1>9, <2>3 DEF HandshakeStep, ClaimIap, ClaimStream, ClaimYuyv,
           Claim, AltSetting, InitCmd, ConnectCmd, CameraUp, Command, Opened,
           Attached
      <3>2. Announced' = Announced
        BY <3>1 DEF Announced, Opened, Attached
      <3> QED
        BY <1>0, <2>2, <2>3, <3>2, StatusKept
    <2> QED
      BY <2>1, <2>2, <2>3
  <1>10. CASE Settle
    <2>1. Announced' = {"Streaming"}
      BY <1>10 DEF Settle, Announced, Opened, Attached
    <2> QED
      BY <1>0, <1>10, <2>1, StatusSaid DEF Settle, Post
  <1>11. CASE StreamFrame
    BY <1>0, <1>11, StatusKept DEF StreamFrame, Announced
  <1>12. CASE MjpegButton
    <2>1. lastButton' \in Edge /\ Post(lastButton') /\ UNCHANGED <<guiVars, pc>>
      BY <1>12 DEF MjpegButton
    <2> QED
      BY <1>0, <2>1, StatusKept DEF Announced
  <1>13. CASE YuyvButton
    <2>1. UNCHANGED <<guiVars, pc>>
      BY <1>13 DEF YuyvButton
    <2>2. Announced' = Announced
      BY <2>1 DEF Announced
    <2>3. Status \intersect Edge = {}
      BY DEF Status, Edge
    <2> QED
      BY <1>0, <1>13, <2>1, <2>2, <2>3, YuyvSettles DEF StatusInv
  <1>14. CASE StreamEnd
    BY <1>0, <1>14, StatusUnsaid DEF StreamEnd
  <1>15. CASE LibusbExit
    BY <1>15 DEF LibusbExit, StopOrder, StatusInv
  <1>16. CASE Unplug \/ Plug \/ UNCHANGED vars
    <2>1. UNCHANGED <<hasWorker, status, queue, pc>>
      BY <1>16 DEF Unplug, Plug, vars
    <2> QED
      BY <1>0, <2>1, StatusKept DEF Announced
  <1> QED
    BY <1>1, <1>2, <1>3, <1>4, <1>5, <1>6, <1>7, <1>8, <1>9, <1>10, <1>11,
       <1>12, <1>13, <1>14, <1>15, <1>16 DEF Next, Gui, Worker

\* What the camera page shows settles on what the worker of this session has
\* announced last, whatever earlier workers left in the queue: the emissions of
\* statusChanged in run(), openDevice and the handshakes, against the guard of
\* onStatusChanged.
THEOREM StatusCorrect == Spec => []StatusConverges
  <1>1. StatusInv => StatusConverges
    BY DEF StatusInv, StatusConverges, EndsIn, Settles
  <1> QED
    BY <1>1, TypeInit, TypeNext, StopOrderInit, StopOrderNext, SettleInit,
       StatusNext, PTL DEF Spec

\* A step that posts no format, keeps the variant and stays in the attempt.
LEMMA InfoKept ==
    ASSUME TypeOK, InfoInv, UNCHANGED <<info, variant>>,
           NEW what \in Edge \union Status \union {"frame"},
           queue' = queue \/ Post(what),
           pc' \in (Opened \union Attached) \ {"identify"} =>
               pc \in (Opened \union Attached) \ {"identify"}
    PROVE  InfoInv'
  <1> SUFFICES ASSUME pc' \in (Opened \union Attached) \ {"identify"}
               PROVE  Settles(Format, queue', info', {FormatOf(variant')})
    BY DEF InfoInv
  <1>1. session \in Nat /\ queue \in Seq(Event) /\ what \notin Format
    BY DEF TypeOK, Status, Edge, Format
  <1>2. Settles(Format, queue, info, {FormatOf(variant)})
    BY DEF InfoInv
  <1>3. Settles(Format, queue', info, {FormatOf(variant)})
    BY <1>1, <1>2, PostSettles DEF Post
  <1>4. FormatOf(variant') = FormatOf(variant)
    BY DEF FormatOf
  <1> QED
    BY <1>3, <1>4

\* Identify announces the format of the variant it detected, and the variant
\* stays as long as the attempt and its stream last.
LEMMA InfoNext ==
    TypeInv /\ OffStaysOff /\ InfoInv /\ [Next]_vars => InfoInv'
  <1> SUFFICES ASSUME TypeInv, OffStaysOff, InfoInv, [Next]_vars PROVE InfoInv'
    OBVIOUS
  <1> USE DEF TypeInv, Goto, guiVars, workerVars, usbVars
  <1>0. /\ TypeOK /\ queue \in Seq(Event) /\ session \in Nat
        /\ {"Idle", "Searching", "Connecting", "Streaming", "Error"} = Status
        /\ {"pressed", "released"} = Edge /\ {"MJPEG", "YUYV"} = Format
    BY DEF TypeOK, Status, Edge, Format
  <1> HIDE DEF TypeInv
  \* Steps that end, or are, outside an attempt on an identified camera.
  <1>1. ASSUME pc' \notin (Opened \union Attached) \ {"identify"}
        PROVE  InfoInv'
    BY <1>1 DEF InfoInv
  <1>2. CASE \/ Start \/ StopEnd \/ LibusbInit \/ LoopHead \/ OpenDevice
             \/ ScanDevices \/ StreamEnd \/ Retry \/ LibusbExit
    BY <1>1, <1>2 DEF Start, StopEnd, LibusbInit, LoopHead, OpenDevice,
       ScanDevices, StreamEnd, Retry, LibusbExit, Opened, Attached
  <1>3. CASE StopBegin \/ Unplug \/ Plug \/ UNCHANGED vars
    <2>1. UNCHANGED <<info, variant, queue, pc>>
      BY <1>3 DEF StopBegin, Unplug, Plug, vars
    <2> QED
      BY <1>0, <2>1, InfoKept
  <1>4. CASE Deliver
    <2>1. /\ queue # <<>> /\ queue' = Tail(queue) /\ UNCHANGED <<variant, pc>>
      BY <1>4 DEF Deliver
    <2>2. Format \intersect (Edge \union Status \union {"frame"}) = {}
      BY DEF Status, Edge, Format
    <2>3. info' = IF Head(queue).what \in Format THEN Head(queue).what ELSE info
      BY <1>4, <2>2 DEF Deliver, OnFrameReady, OnStatusChanged,
         OnDeviceInfoReady, OnButtonChanged
    <2>4. FormatOf(variant') = FormatOf(variant)
      BY <2>1 DEF FormatOf
    <2> QED
      BY <1>0, <2>1, <2>3, <2>4, SettlesTail DEF InfoInv
  <1>5. CASE Identify
    <2>1. CASE variant' = "unknown"
      BY <1>1, <1>5, <2>1 DEF Identify, Opened, Attached
    <2>2. CASE variant' # "unknown"
      <3>1. queue' = Append(queue, Ev(FormatOf(variant')))
        BY <1>5, <2>2 DEF Identify, Post
      <3>2. FormatOf(variant') \in Format
        BY DEF FormatOf, Format
      <3>3. Settles(Format, queue', info', {FormatOf(variant')})
        BY <1>0, <3>1, <3>2, PostSettles
      <3> QED
        BY <3>3 DEF InfoInv
    <2> QED
      BY <2>1, <2>2
  <1>6. CASE HandshakeStep
    <2>1. CASE Refuse
      BY <1>1, <2>1 DEF Refuse, Opened, Attached
    <2>2. CASE ~Refuse
      <3>1. /\ UNCHANGED <<info, variant, queue>>
            /\ pc \in (Opened \union Attached) \ {"identify"}
        BY <1>6, <2>2 DEF HandshakeStep, ClaimIap, ClaimStream, ClaimYuyv,
           Claim, AltSetting, InitCmd, ConnectCmd, CameraUp, Command, Opened,
           Attached
      <3> QED
        BY <1>0, <3>1, InfoKept
    <2> QED
      BY <2>1, <2>2
  <1>7. CASE Settle
    <2>1. pc \in (Opened \union Attached) \ {"identify"}
      BY <1>7 DEF Settle, Attached
    <2> QED
      BY <1>0, <1>7, <2>1, InfoKept DEF Settle
  <1>8. CASE StreamFrame
    BY <1>0, <1>8, InfoKept DEF StreamFrame
  <1>9. CASE MjpegButton
    <2>1. /\ lastButton' \in Edge /\ Post(lastButton')
          /\ UNCHANGED <<info, variant, pc>>
      BY <1>9 DEF MjpegButton
    <2> QED
      BY <1>0, <2>1, InfoKept
  <1>10. CASE YuyvButton
    <2>1. UNCHANGED <<info, variant, pc>>
      BY <1>10 DEF YuyvButton
    <2>2. Format \intersect Edge = {} /\ FormatOf(variant') = FormatOf(variant)
      BY <2>1 DEF Format, Edge, FormatOf
    <2> QED
      BY <1>0, <1>10, <2>1, <2>2, YuyvSettles DEF InfoInv
  <1> QED
    BY <1>2, <1>3, <1>4, <1>5, <1>6, <1>7, <1>8, <1>9, <1>10
       DEF Next, Gui, Worker

\* While a camera is being connected or streams, the device information shown
\* settles on its own format, not on that of the camera before: the emission of
\* deviceInfoReady in run(), after detectVariant.
THEOREM InfoCorrect == Spec => []InfoConverges
  <1>1. InfoInv => InfoConverges
    BY DEF InfoInv, InfoConverges, EndsIn, Settles
  <1> QED
    BY <1>1, TypeInit, TypeNext, OffInit, OffNext, SettleInit, InfoNext, PTL
       DEF Spec


-----------------------------------------------------------------------------
(***************************************************************************)
(* The order of the worker's steps.                                        *)
(***************************************************************************)

\* stop() is in wait() only after it has set the flag, and start() cannot
\* interrupt it there.
AskedInv == blocked => stopFlag

\* Start leaves AskedInv alone, because it needs a GUI thread that is not blocked.
LEMMA AskedNext == AskedInv /\ [Next]_vars => AskedInv'
  <1> SUFFICES ASSUME AskedInv, [Next]_vars PROVE AskedInv'
    OBVIOUS
  <1> USE DEF AskedInv, guiVars, workerVars
  <1>1. CASE Gui
    BY <1>1 DEF Gui, Start, StopBegin, StopEnd, Deliver
  <1>2. CASE ~Gui
    <2>1. UNCHANGED <<blocked, stopFlag>>
      BY <1>2 DEF Next, vars, Worker, LibusbInit, LoopHead, OpenDevice,
         ScanDevices, Identify, HandshakeStep, ClaimIap, ClaimStream, ClaimYuyv,
         Claim, AltSetting, InitCmd, ConnectCmd, CameraUp, Command, Settle,
         StreamFrame, MjpegButton, YuyvButton, StreamEnd, Retry, LibusbExit,
         Unplug, Plug
    <2> QED
      BY <2>1
  <1> QED
    BY <1>1, <1>2

\* At first there is no worker.
LEMMA OrderInit == Init => Order!Init
  BY DEF Init, Order!Init

\* Each step of a worker, of start() and of stop() is one of its order; the
\* others do not concern it.
LEMMA OrderStep ==
    TypeOK /\ OffStaysOff /\ AskedInv /\ [Next]_vars => [Order!Next]_(Order!vars)
  <1> SUFFICES ASSUME TypeOK, OffStaysOff, AskedInv, [Next]_vars
               PROVE  [Order!Next]_(Order!vars)
    OBVIOUS
  <1> USE DEF Order!vars, Order!Next, Order!Moves, guiVars, workerVars, Goto
  <1>1. CASE Start
    BY <1>1 DEF Start, OffStaysOff, Order!Start
  <1>2. CASE StopBegin
    BY <1>2 DEF StopBegin, Order!Request, TypeOK
  <1>3. CASE StopEnd
    BY <1>3 DEF StopEnd, AskedInv, Order!Deleted
  <1>4. CASE LibusbInit \/ LibusbExit
    BY <1>4 DEF LibusbInit, LibusbExit, Order!Initialise
  <1>5. CASE LoopHead
    BY <1>5 DEF LoopHead, Order!Begin, Order!Leave
  <1>6. CASE OpenDevice \/ ScanDevices \/ Identify
    BY <1>6 DEF OpenDevice, ScanDevices, Identify, Order!Ends
  <1>7. CASE HandshakeStep
    BY <1>7 DEF HandshakeStep, ClaimIap, ClaimStream, ClaimYuyv, Claim,
       AltSetting, InitCmd, ConnectCmd, CameraUp, Command, Refuse,
       Order!Command, Order!Ends
  <1>8. CASE Settle
    BY <1>8 DEF Settle, Order!Stream
  <1>9. CASE StreamEnd \/ Retry
    BY <1>9 DEF StreamEnd, Retry, Order!Ends
  <1>10. CASE \/ Deliver \/ StreamFrame \/ MjpegButton \/ YuyvButton
              \/ Unplug \/ Plug \/ UNCHANGED vars
    BY <1>10 DEF Deliver, StreamFrame, MjpegButton, YuyvButton, Unplug, Plug, vars
  <1> QED
    BY <1>1, <1>2, <1>3, <1>4, <1>5, <1>6, <1>7, <1>8, <1>9, <1>10
       DEF Next, Gui, Worker

\* Once stop() was called no attempt is begun, and each attempt gives the
\* commands of its variant in order: run() keeps the order of WorkerOrder, in
\* which StopTiming counts the time.
THEOREM SessionKeepsOrder == Spec => OrderSpec
  <1>1. Init => AskedInv
    BY DEF Init, AskedInv
  <1>2. TypeInv => TypeOK
    BY DEF TypeInv
  <1> QED
    BY <1>1, <1>2, TypeInit, TypeNext, OffInit, OffNext, AskedNext, OrderInit,
       OrderStep, PTL DEF Spec, OrderSpec, Order!Spec
=============================================================================
