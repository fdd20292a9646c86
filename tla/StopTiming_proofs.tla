-------------------------- MODULE StopTiming_proofs --------------------------
(***************************************************************************)
(* The bound on stop() for every choice of the limits that fits the two    *)
(* waits, from what each call of the worker can still take.                *)
(***************************************************************************)
EXTENDS StopTiming, TLAPS

\* The longest ways out of the two handshakes, from the drain and from getinfo.
MjpegWayOut == DrainReads + 2 * CallLimit + ConnectSettle
YuyvWayOut  == 3 * CallLimit + CameraUpSettle + ConnectSettle + ReapLimit

\* They fit into the waits.
LimitsFit ==
    /\ MjpegWayOut <= StopWait + DeleteWait
    /\ YuyvWayOut <= StopWait + DeleteWait

\* What reading the strings from the nth on takes at most.
StringsFrom(n) == (StringReads - n) * CallLimit

\* What a worker that was asked to stop at the beginning of its present call
\* still takes at most.
Remaining ==
    CASE pc = "strings"    -> StringsFrom(reads) + IF variant = "mjpeg"
                                                   THEN MjpegWayOut
                                                   ELSE YuyvWayOut
      [] pc = "drain"      -> (DrainReads - reads) + 2 * CallLimit
                                + ConnectSettle
      [] pc = "init"       -> 2 * CallLimit + ConnectSettle
      [] pc = "connect"    -> CallLimit + ConnectSettle
      [] pc = "getinfo"    -> YuyvWayOut
      [] pc = "cameraUp"   -> 2 * CallLimit + CameraUpSettle + ConnectSettle
                                + ReapLimit
      [] pc = "upSettle"   -> CallLimit + CameraUpSettle + ConnectSettle
                                + ReapLimit
      [] pc = "settle"     -> IF variant = "mjpeg" THEN ConnectSettle
                              ELSE ConnectSettle + ReapLimit + CallLimit
      [] pc = "events"     -> ReapLimit + CallLimit
      [] pc = "reap"       -> ReapLimit + CallLimit
      [] pc = "cameraDown" -> CallLimit
      [] OTHER             -> 0

\* The time there is for a worker that was asked in the present way.
Allowed == StopWait + DeleteWait
               + IF asked = "strings" THEN StringsFrom(0) ELSE 0

\* The handshake in progress is the one of the variant; time counts from the
\* request; elapsed and remaining time stay within what is allowed.
TimeInv ==
    /\ TypeOK
    /\ pc \in {"init", "connect", "read"} => variant = "mjpeg"
    /\ pc = "drain" => variant = "mjpeg" /\ reads < DrainReads
    /\ pc = "strings" => reads <= StringReads
    /\ pc \in {"getinfo", "cameraUp", "upSettle", "events", "reap",
               "cameraDown"} => variant = "yuyv"
    /\ stop = 0 => since = 0
    /\ stop = 1 /\ pc = "strings" => asked = "strings"
    /\ stop = 1 => since + Remaining <= Allowed

\* At first nobody has asked the worker to stop.
LEMMA TimeInit == Init => TimeInv
  <1> SUFFICES ASSUME Init PROVE TimeInv
    OBVIOUS
  <1>1. TypeOK
    BY LimitsAssumption DEF Init, TypeOK, Step
  <1> QED
    BY <1>1 DEF Init, TimeInv

\* One read less takes the limit of a call less.
LEMMA StringsShrink ==
    ASSUME NEW n \in 0 .. StringReads
    PROVE  /\ StringsFrom(n) \in Nat /\ StringsFrom(n) <= StringsFrom(0)
           /\ n < StringReads => StringsFrom(n) = StringsFrom(n + 1) + CallLimit
  <1>1. CallLimit \in Nat /\ StringReads \in Nat /\ n \in Nat
    BY LimitsAssumption
  <1>2. /\ (StringReads - n) * CallLimit \in Nat /\ n * CallLimit \in Nat
        /\ (StringReads - n) * CallLimit = StringReads * CallLimit - n * CallLimit
    BY <1>1, SMT
  <1>3. n < StringReads => (StringReads - (n + 1)) * CallLimit
                              = (StringReads - n) * CallLimit - CallLimit
    BY <1>1, SMT
  <1>4. StringReads * CallLimit \in Nat /\ (StringReads - 0) = StringReads
    BY <1>1, SMT
  <1> QED
    BY <1>1, <1>2, <1>3, <1>4 DEF StringsFrom

\* Each call of the worker takes away from what remains as much as it adds to
\* the time since the request.
LEMMA TimeNext == LimitsFit /\ TimeInv /\ [Next]_vars => TimeInv'
  <1> SUFFICES ASSUME LimitsFit, TimeInv, [Next]_vars PROVE TimeInv'
    OBVIOUS
  <1> DEFINE all == StringsFrom(0)
  <1>0. /\ all \in Nat
        /\ CallLimit \in Nat /\ StringReads \in Nat /\ DrainReads \in Nat \ {0}
        /\ ReapLimit \in Nat /\ StopWait \in Nat /\ DeleteWait \in Nat
    BY LimitsAssumption, StringsShrink
  <1> HIDE DEF all
  <1>17. Allowed = StopWait + DeleteWait + IF asked = "strings" THEN all ELSE 0
    BY DEF Allowed, all
  <1>18. Allowed' = StopWait + DeleteWait + IF asked' = "strings" THEN all ELSE 0
    BY DEF Allowed, all
  <1>19. pc = "strings" =>
           /\ StringsFrom(reads) \in Nat /\ StringsFrom(reads) <= all
           /\ reads < StringReads =>
                 /\ StringsFrom(reads + 1) \in Nat
                 /\ StringsFrom(reads) = StringsFrom(reads + 1) + CallLimit
    BY <1>0, StringsShrink DEF TimeInv, TypeOK, all
  <1> USE <1>0, <1>17, <1>18
          DEF LimitsFit, MjpegWayOut, YuyvWayOut, TimeInv, TypeOK, Step, Variant,
              ConnectSettle, CameraUpSettle
  <1>1. CASE LoopHead
    <2>1. pc' = "strings" => stop' = 0
      BY <1>1 DEF LoopHead
    <2> QED
      BY <1>1, <2>1 DEF LoopHead, Remaining
  <1>2. CASE Retry
    BY <1>2 DEF Retry, Call, Blocking, RetrySlice, Remaining
  <1>3. CASE Drain
    BY <1>3 DEF Drain, Blocking, Remaining
  <1>4. CASE InitCmd
    BY <1>4 DEF InitCmd, Call, Blocking, Remaining
  <1>5. CASE ConnectCmd
    BY <1>5 DEF ConnectCmd, Call, Blocking, Remaining
  <1>6. CASE GetInfo
    BY <1>6 DEF GetInfo, Call, Blocking, Remaining
  <1>7. CASE CameraUp
    BY <1>7 DEF CameraUp, Call, Blocking, Remaining
  <1>8. CASE UpSettle
    BY <1>8 DEF UpSettle, Call, Blocking, Remaining
  <1>9. CASE Settle
    BY <1>9 DEF Settle, Call, Blocking, Remaining
  <1>10. CASE MjpegRead
    BY <1>10 DEF MjpegRead, Call, Blocking, Remaining
  <1>11. CASE YuyvEvents
    BY <1>11 DEF YuyvEvents, Call, Blocking, EventWait, Remaining
  <1>12. CASE Reap
    BY <1>12 DEF Reap, Call, Blocking, Remaining
  <1>13. CASE CameraDown
    BY <1>13 DEF CameraDown, Call, Blocking, Remaining
  <1>14. CASE Request
    BY <1>14, <1>19 DEF Request, Remaining
  <1>15. CASE ReadString
    BY <1>15, <1>19 DEF ReadString, Blocking, Remaining
  <1>16. CASE HandshakeBegins
    BY <1>16, <1>19 DEF HandshakeBegins, Remaining
  <1>20. CASE UNCHANGED vars
    BY <1>20 DEF vars, Remaining
  <1> QED
    BY <1>1, <1>2, <1>3, <1>4, <1>5, <1>6, <1>7, <1>8, <1>9, <1>10, <1>11,
       <1>12, <1>13, <1>14, <1>15, <1>16, <1>20 DEF Next

\* What remains is never negative, so the time since the request is allowed.
LEMMA TimeAllowed == TimeInv => (stop = 1 => since <= Allowed)
  <1> SUFFICES ASSUME TimeInv, stop = 1 PROVE since <= Allowed
    OBVIOUS
  <1>1. pc = "strings" => StringsFrom(reads) \in Nat
    BY StringsShrink DEF TimeInv, TypeOK
  <1>2. MjpegWayOut \in Nat /\ YuyvWayOut \in Nat
    BY LimitsAssumption DEF MjpegWayOut, YuyvWayOut, ConnectSettle, CameraUpSettle
  <1>3. Remaining \in Nat
    BY <1>1, <1>2, LimitsAssumption
       DEF TimeInv, TypeOK, Remaining, Step, ConnectSettle, CameraUpSettle, Variant
  <1>4. Allowed \in Nat
    BY StringsShrink, LimitsAssumption DEF Allowed
  <1> QED
    BY <1>3, <1>4 DEF TimeInv, TypeOK

\* With limits that fit, stop() and the destructor of the worker together wait
\* long enough: the thread object is never destroyed while its thread runs,
\* unless the request found the worker reading the strings of the camera.
THEOREM StopBound == LimitsFit => (Spec => []EndsBeforeDestroyed)
  <1> SUFFICES ASSUME LimitsFit PROVE Spec => []EndsBeforeDestroyed
    OBVIOUS
  <1>1. TimeInv => EndsBeforeDestroyed
    BY TimeAllowed, LimitsAssumption
       DEF TimeInv, TypeOK, EndsBeforeDestroyed, Allowed
  <1>2. TimeInv /\ [Next]_vars => TimeInv'
    BY TimeNext
  <1> QED
    BY <1>1, <1>2, TimeInit, PTL DEF Spec

\* Even then the worker ends; reading the strings is what comes on top.
THEOREM StringsBound ==
    LimitsFit =>
        (Spec => [](since <= StopWait + DeleteWait + StringReads * CallLimit))
  <1> SUFFICES ASSUME LimitsFit
               PROVE Spec => [](since <= StopWait + DeleteWait
                                           + StringReads * CallLimit)
    OBVIOUS
  <1>1. TimeInv => since <= StopWait + DeleteWait + StringReads * CallLimit
    <2>1. StringsFrom(0) = StringReads * CallLimit /\ StringsFrom(0) \in Nat
      BY StringsShrink, LimitsAssumption DEF StringsFrom
    <2> QED
      BY <2>1, TimeAllowed, LimitsAssumption DEF TimeInv, TypeOK, Allowed
  <1>2. TimeInv /\ [Next]_vars => TimeInv'
    BY TimeNext
  <1> QED
    BY <1>1, <1>2, TimeInit, PTL DEF Spec

-----------------------------------------------------------------------------
\* Whatever the limits are, the calls keep the types.
LEMMA TypeNext == TypeOK /\ [Next]_vars => TypeOK'
  <1> SUFFICES ASSUME TypeOK, [Next]_vars PROVE TypeOK'
    OBVIOUS
  <1> USE LimitsAssumption DEF TypeOK, Step, Variant, Call, Blocking, ConnectSettle,
          CameraUpSettle, EventWait, RetrySlice
  <1>1. CASE LoopHead \/ Retry \/ ReadString \/ HandshakeBegins \/ Drain
    BY <1>1 DEF LoopHead, Retry, ReadString, HandshakeBegins, Drain
  <1>2. CASE InitCmd \/ ConnectCmd \/ GetInfo \/ CameraUp \/ UpSettle \/ Settle
    BY <1>2 DEF InitCmd, ConnectCmd, GetInfo, CameraUp, UpSettle, Settle
  <1>3. CASE MjpegRead \/ YuyvEvents \/ Reap \/ CameraDown
    BY <1>3 DEF MjpegRead, YuyvEvents, Reap, CameraDown
  <1>4. CASE Request \/ UNCHANGED vars
    BY <1>4 DEF Request, vars
  <1> QED
    BY <1>1, <1>2, <1>3, <1>4 DEF Next

\* At first no attempt is in progress and nobody has asked.
LEMMA OrderInit == Init => Order!Init
  BY DEF Init, Order!Init

\* Each call is a step of the worker's order, or none.
LEMMA OrderStep == TypeOK /\ [Next]_vars => [Order!Next]_(Order!vars)
  <1> SUFFICES ASSUME TypeOK, [Next]_vars PROVE [Order!Next]_(Order!vars)
    OBVIOUS
  <1> USE DEF TypeOK, Call, Blocking, Order!vars, Order!Next, Order!Moves,
          Order!Request
  <1>1. CASE LoopHead
    BY <1>1 DEF LoopHead, Order!Begin, Order!Leave
  <1>2. CASE Retry
    BY <1>2 DEF Retry
  <1>3. CASE ReadString
    BY <1>3 DEF ReadString
  <1>4. CASE HandshakeBegins \/ Drain
    BY <1>4 DEF HandshakeBegins, Drain, Order!Command, Order!Ends
  <1>5. CASE InitCmd \/ ConnectCmd
    BY <1>5 DEF InitCmd, ConnectCmd, Order!Command, Order!Ends
  <1>6. CASE GetInfo \/ CameraUp \/ UpSettle
    BY <1>6 DEF GetInfo, CameraUp, UpSettle, Order!Command, Order!Ends
  <1>7. CASE Settle
    BY <1>7 DEF Settle, Order!Stream
  <1>8. CASE MjpegRead
    BY <1>8 DEF MjpegRead, Order!Ends
  <1>9. CASE YuyvEvents \/ Reap
    BY <1>9 DEF YuyvEvents, Reap
  <1>10. CASE CameraDown
    BY <1>10 DEF CameraDown, Order!Ends
  <1>11. CASE Request
    BY <1>11 DEF Request
  <1>12. CASE UNCHANGED vars
    BY <1>12 DEF vars
  <1> QED
    BY <1>1, <1>2, <1>3, <1>4, <1>5, <1>6, <1>7, <1>8, <1>9, <1>10, <1>11,
       <1>12 DEF Next

\* The calls that are timed are made in the order of WorkerOrder.
THEOREM TimingKeepsOrder == Spec => OrderSpec
  <1>1. Init => TypeOK
    BY LimitsAssumption DEF Init, TypeOK, Step
  <1> QED
    BY <1>1, TypeNext, OrderInit, OrderStep, PTL DEF Spec, OrderSpec, Order!Spec
=============================================================================
