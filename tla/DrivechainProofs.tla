-------------------------- MODULE DrivechainProofs --------------------------
(***************************************************************************)
(* Safety of the drive node for any set of motors and ids, any mounting,   *)
(* any commands and timeout, and any subset of the services and of what    *)
(* the bus may do to a frame.                                              *)
(***************************************************************************)
EXTENDS Drivechain, TLAPS

-----------------------------------------------------------------------------
(* The speed arithmetic, for every int16 command *)

\* Int16 by its bounds.
LEMMA Int16Bounds ==
  ASSUME NEW x \in Int16
  PROVE  x \in Int /\ -32768 <= x /\ x <= 32767
<1>1. MinInt16 \in Int /\ MaxInt16 \in Int
  BY DEF MinInt16, MaxInt16
<1>2. x \in Int /\ MinInt16 <= x /\ x <= MaxInt16
  BY <1>1 DEF Int16
<1> QED
  BY <1>2 DEF MinInt16, MaxInt16

LEMMA BoundsInt16 ==
  ASSUME NEW x \in Int, -32768 <= x, x <= 32767
  PROVE  x \in Int16
<1>1. MinInt16 \in Int /\ MaxInt16 \in Int /\ MinInt16 <= x /\ x <= MaxInt16
  BY DEF MinInt16, MaxInt16
<1> QED
  BY <1>1 DEF Int16

\* Narrowing changes nothing inside the int16 range.
LEMMA NarrowIdentity ==
  ASSUME NEW x \in Int16
  PROVE  NarrowInt16(x) = x
<1>1. x \in Int /\ -32768 <= x /\ x <= 32767
  BY Int16Bounds
<1>2. (x + 32768) % 65536 = x + 32768
  BY <1>1
<1> QED
  BY <1>1, <1>2 DEF NarrowInt16

\* Narrowing lands in the int16 range, whatever it is given.
LEMMA NarrowInt ==
  ASSUME NEW x \in Int
  PROVE  NarrowInt16(x) \in Int16
<1>1. x + 32768 \in Int
  OBVIOUS
<1>2. (x + 32768) % 65536 \in Int /\ 0 <= (x + 32768) % 65536 /\ (x + 32768) % 65536 <= 65535
  BY <1>1
<1>3. NarrowInt16(x) \in Int /\ -32768 <= NarrowInt16(x) /\ NarrowInt16(x) <= 32767
  BY <1>2 DEF NarrowInt16
<1> QED
  BY <1>3, BoundsInt16

\* The clamp keeps every speed within the speed loop and commutes with the sign.
LEMMA ClampWire ==
  ASSUME NEW x \in Int
  PROVE  ClampRpm(x) \in WireRpm
BY DEF ClampRpm, WireRpm

LEMMA ClampOdd ==
  ASSUME NEW x \in Int
  PROVE  ClampRpm(x) \in Int /\ ClampRpm(-x) = -ClampRpm(x)
BY DEF ClampRpm

\* The frame always carries a speed the motor's speed loop accepts: the clamp sees the
\* narrowed product, so no int16, not even the lowest one, escapes it.
THEOREM SendRpmInRange ==
  ASSUME NEW raw \in Int16, NEW sign \in Signs
  PROVE  SendRpm(raw, sign) \in WireRpm
<1>1. raw * sign \in Int
  BY Int16Bounds DEF Signs
<1>2. SignedRpm(raw, sign) \in Int
  BY <1>1, NarrowInt, Int16Bounds DEF SignedRpm
<1> QED
  BY <1>2, ClampWire DEF SendRpm

\* Except for the lowest int16, the wheel turns the way the command says once the
\* mounting is accounted for, at the commanded speed up to the limit.
THEOREM SendRpmDirection ==
  ASSUME NEW raw \in Int16, raw # MinInt16, NEW sign \in Signs
  PROVE  SendRpm(raw, sign) = sign * ClampRpm(raw)
<1>1. raw \in Int /\ -32768 <= raw /\ raw <= 32767 /\ raw # -32768
  BY Int16Bounds DEF MinInt16
<1>2. CASE sign = 1
  <2>1. raw * 1 = raw /\ 1 * ClampRpm(raw) = ClampRpm(raw)
    BY <1>1, ClampOdd
  <2>2. NarrowInt16(raw) = raw
    BY NarrowIdentity
  <2> QED
    BY <1>2, <2>1, <2>2, Zenon DEF SendRpm, SignedRpm
<1>3. CASE sign = -1
  <2>1. -raw \in Int /\ -32768 <= -raw /\ -raw <= 32767
    BY <1>1
  <2>2. NarrowInt16(-raw) = -raw
    BY <2>1, BoundsInt16, NarrowIdentity
  <2>3. raw * sign = -raw
    BY <1>1, <1>3
  <2>4. SignedRpm(raw, sign) = -raw
    BY <2>2, <2>3 DEF SignedRpm
  <2>5. SendRpm(raw, sign) = -ClampRpm(raw)
    BY <2>4, <1>1, ClampOdd DEF SendRpm
  <2>6. sign * ClampRpm(raw) = -ClampRpm(raw)
    BY <1>1, <1>3, ClampOdd
  <2> QED
    BY <2>5, <2>6
<1> QED
  BY <1>2, <1>3 DEF Signs

\* What is published for a motor that follows its frame is the commanded speed,
\* limited: the sign is undone on the way back.
THEOREM FeedbackRoundTrip ==
  ASSUME NEW raw \in Int16, raw # MinInt16, NEW sign \in Signs
  PROVE  ReportedRpm(SendRpm(raw, sign), sign) = ClampRpm(raw)
<1>1. ClampRpm(raw) \in Int
  BY Int16Bounds, ClampOdd
<1>2. SendRpm(raw, sign) = sign * ClampRpm(raw)
  BY SendRpmDirection
<1> QED
  BY <1>1, <1>2 DEF ReportedRpm, Signs

\* The one exception: full reverse on a motor mounted in reverse is narrowed back to the
\* lowest int16, and the frame turns the wheel forward at the limit.
THEOREM LowestTurnsForward == SendRpm(MinInt16, -1) = -200 /\ ReportedRpm(-200, -1) = 200
<1>1. MinInt16 * (-1) = 32768
  BY SMT DEF MinInt16
<1>2. NarrowInt16(32768) = -32768
  BY SMT DEF NarrowInt16
<1>3. SignedRpm(MinInt16, -1) = -32768
  BY <1>1, <1>2 DEF SignedRpm
<1>4. ClampRpm(-32768) = -200
  BY SMT DEF ClampRpm
<1>5. SendRpm(MinInt16, -1) = -200
  BY <1>3, <1>4 DEF SendRpm
<1> QED
  BY <1>5, SMT DEF ReportedRpm

-----------------------------------------------------------------------------
(* The data that handlers write *)

LEMMA ZeroType == Zero \in [MotorIds -> Int16]
<1>1. 0 \in Int16
  BY BoundsInt16
<1> QED
  BY <1>1 DEF Zero

LEMMA AtRestType == AtRest \in [Units -> WireRpm]
BY DEF AtRest, WireRpm

\* A frame with a speed in range leaves every set point in range.
LEMMA SetSpeedType ==
  ASSUME TypeOK, NEW id, NEW rpm \in WireRpm, NEW o, SetSpeed(id, rpm, o)
  PROVE  motor' \in [Units -> WireRpm]
BY DEF TypeOK, SetSpeed

\* A ping, like a stop, only ever writes zero.
LEMMA StopType ==
  ASSUME TypeOK, NEW id, NEW o, SetSpeed(id, 0, o) \/ Ping(id, o)
  PROVE  motor' \in [Units -> WireRpm]
<1>1. 0 \in WireRpm
  BY DEF WireRpm
<1>2. CASE SetSpeed(id, 0, o)
  BY <1>1, <1>2, SetSpeedType
<1>3. CASE Ping(id, o)
  BY <1>1, <1>3, SetSpeedType DEF Ping, TypeOK
<1> QED
  BY <1>2, <1>3

\* The tick writes the clamped, signed speed of the command it copied.
LEMMA TickSpeedType ==
  ASSUME TypeOK, NEW id \in MotorIds
  PROVE  SendRpm(cmdMap[id], Sign[id]) \in WireRpm
<1>1. cmdMap[id] \in Int16 /\ Sign[id] \in Signs
  BY ConfigAssumption DEF TypeOK
<1> QED
  BY <1>1, SendRpmInRange

-----------------------------------------------------------------------------
(* Type correctness *)

\* Every listed motor is an id; the tick never holds any other id.
TickIds == main = "tick_set" => todoMain \subseteq MotorIds

LEMMA TypeInit == Init => TypeOK /\ TickIds
<1> SUFFICES ASSUME Init PROVE TypeOK /\ TickIds
  OBVIOUS
<1>1. 1 \in 1 .. MaxBoots /\ CommandTimeout \in 0 .. CommandTimeout
  BY ConfigAssumption
<1> QED
  BY <1>1, ZeroType, AtRestType, ConfigAssumption
  DEF Init, TypeOK, TickIds, LcStates, MainSteps, MainHolding, SrvSteps, SrvLocking,
      SrvHolding, NoReply

\* The types of what a response writes.
Responded ==
  /\ reply' \in [op : Handlers \cup {"none"}, ok : BOOLEAN]
  /\ srv' \in SrvSteps /\ todoSrv' \in SUBSET Ids /\ mutex' \in {"free", "main", "srv"}

LEMMA RespondType ==
  ASSUME NEW op \in Handlers, NEW ok \in BOOLEAN, Respond(op, ok)
  PROVE  Responded
<1>1. [op |-> op, ok |-> ok] \in [op : Handlers \cup {"none"}, ok : BOOLEAN]
  BY Zenon
<1>2. reply' \in [op : Handlers \cup {"none"}, ok : BOOLEAN]
  BY <1>1, Zenon DEF Respond
<1> QED
  BY <1>2 DEF Respond, Release, SrvSteps, Responded

LEMMA TypeStep == TypeOK /\ TickIds /\ [Next]_vars => TypeOK' /\ TickIds'
<1> SUFFICES ASSUME TypeOK, TickIds, [Next]_vars
             PROVE  TypeOK' /\ TickIds'
  OBVIOUS
<1> USE ConfigAssumption
    DEF TypeOK, TickIds, LcStates, MainSteps, MainHolding, SrvSteps, SrvLocking,
        SrvHolding, procVars, nodeVars, portVars, storeVars, mainVars, srvVars, busVars
<1>a. CommandTimeout \in 0 .. CommandTimeout /\ 0 \in 0 .. CommandTimeout
  OBVIOUS
<1>b. /\ "connect" \in Handlers /\ "stop" \in Handlers /\ "set_id" \in Handlers
      /\ TRUE \in BOOLEAN /\ FALSE \in BOOLEAN
  BY DEF Handlers
<1>1. CASE Configure
  <2>1. /\ objs' \in BOOLEAN /\ trees' \in BOOLEAN /\ registered' \in BOOLEAN
        /\ fd' \in BOOLEAN /\ connected' \in BOOLEAN
    BY <1>1, Zenon DEF Configure, FreshObjects
  <2> QED
    BY <1>1, <2>1, <1>a, ZeroType, AtRestType DEF Configure, MainIdle, FreshObjects
<1>2. CASE ConfigureFails
  <2>1. /\ objs' \in BOOLEAN /\ registered' \in BOOLEAN
        /\ fd' \in BOOLEAN /\ connected' \in BOOLEAN
    BY <1>2, Zenon DEF ConfigureFails, FreshObjects
  <2> QED
    BY <1>2, <2>1, <1>a, ZeroType, AtRestType DEF ConfigureFails, MainIdle, FreshObjects
<1>3. CASE Activate
  BY <1>3 DEF Activate, MainIdle
<1>4. CASE Deactivate
  <2>1. drive_active_' \in BOOLEAN /\ drive_timer_' \in BOOLEAN
    BY <1>4, Zenon DEF Deactivate, CancelTimer
  <2> QED
    BY <1>4, <2>1 DEF Deactivate, MainIdle
<1>5. CASE Cleanup
  <2>1. /\ objs' \in BOOLEAN /\ trees' \in BOOLEAN /\ drive_timer_' \in BOOLEAN
        /\ fd' \in BOOLEAN /\ connected' \in BOOLEAN
    BY <1>5, Zenon DEF Cleanup, CancelTimer
  <2> QED
    BY <1>5, <2>1, <1>a, ZeroType, AtRestType DEF Cleanup, MainIdle
<1>6. CASE Shutdown
  <2>1. drive_timer_' \in BOOLEAN
    BY <1>6, Zenon DEF Shutdown, CancelTimer
  <2> QED
    BY <1>6, <2>1 DEF Shutdown, MainIdle
<1>7. CASE Tick
  BY <1>7 DEF Tick, MainIdle
<1>8. CASE DeactivateLock
  BY <1>8 DEF DeactivateLock, Acquire, MutexFree, MotorsToStop
<1>9. CASE ShutdownLock
  BY <1>9 DEF ShutdownLock, Acquire, MutexFree, MotorsToStop
<1>10. CASE TickLock
  BY <1>10, ZeroType DEF TickLock, Acquire, MutexFree, FreshCommand
<1>11. CASE MainZero
  BY <1>11, StopType DEF MainZero, MainStopping
<1>12. CASE MainClose
  <2>1. fd' \in BOOLEAN /\ connected' \in BOOLEAN
    BY <1>12, Zenon DEF MainClose, ClosePort
  <2> QED
    BY <1>12, <2>1, AtRestType DEF MainClose, MainStopping, ClosePort, Release
<1>13. CASE TickSet
  <2>1. PICK id \in todoMain, o \in Outcomes :
          SetSpeed(id, SendRpm(cmdMap[id], Sign[id]), o) /\ todoMain' = todoMain \ {id}
    BY <1>13 DEF TickSet
  <2>2. id \in MotorIds
    BY <1>13, <2>1 DEF TickSet
  <2>3. motor' \in [Units -> WireRpm]
    BY <2>1, <2>2, TickSpeedType, SetSpeedType
  <2> QED
    BY <1>13, <2>1, <2>3 DEF TickSet
<1>14. CASE TickEnd
  BY <1>14, ZeroType DEF TickEnd, Release
<1>15. CASE Request
  <2>1. PICK op \in Handlers, step \in SrvSteps : Begin(op, step)
    BY <1>15 DEF Request, Connect, Stop, Drive, SetId, Handlers
  <2>2. reply' \in [op : Handlers \cup {"none"}, ok : BOOLEAN]
    <3>1. [op |-> op, ok |-> FALSE] \in [op : Handlers \cup {"none"}, ok : BOOLEAN]
      BY Zenon
    <3> QED
      BY <2>1, <3>1, Zenon DEF Begin
  <2> QED
    BY <2>1, <2>2 DEF Begin
<1>16. CASE SrvLock
  BY <1>16 DEF SrvLock, Acquire, MutexFree, MotorsToStop
<1>17. CASE ConnectOpen
  <2>1. fd' \in BOOLEAN /\ connected' \in BOOLEAN
    BY <1>17, Zenon DEF ConnectOpen, OpenPort, OpenPortFails
  <2>2. CASE srv' = "connect_ping" /\ todoSrv' = MotorIds /\ UNCHANGED <<mutex, reply>>
    BY <1>17, <2>1, <2>2 DEF ConnectOpen
  <2>3. CASE Respond("connect", FALSE)
    <3>1. Responded
      BY <1>b, <2>3, RespondType, Zenon
    <3> QED
      BY <1>17, <2>1, <3>1 DEF ConnectOpen, Responded
  <2> QED
    BY <1>17, <2>2, <2>3 DEF ConnectOpen
<1>18. CASE ConnectPing
  <2>1. PICK id \in todoSrv, o \in Outcomes :
          /\ Ping(id, o)
          /\ IF Answers(id, o)
             THEN todoSrv' = todoSrv \ {id} /\ UNCHANGED <<srv, mutex, reply>>
             ELSE Respond("connect", FALSE)
    BY <1>18 DEF ConnectPing
  <2>2. motor' \in [Units -> WireRpm]
    BY <2>1, StopType
  <2>3. CASE Respond("connect", FALSE)
    <3>1. Responded
      BY <1>b, <2>3, RespondType, Zenon
    <3> QED
      BY <1>18, <2>2, <3>1 DEF ConnectPing, Responded
  <2>4. CASE todoSrv' = todoSrv \ {id} /\ UNCHANGED <<srv, mutex, reply>>
    BY <1>18, <2>2, <2>4 DEF ConnectPing
  <2> QED
    BY <2>1, <2>3, <2>4
<1>19. CASE ConnectDone
  BY <1>19 DEF ConnectDone, SrvRuns, Respond, Release, Handlers
<1>20. CASE StopZero
  BY <1>20, StopType DEF StopZero, SrvRuns
<1>21. CASE StopClose
  <2>1. fd' \in BOOLEAN /\ connected' \in BOOLEAN
    BY <1>21, Zenon DEF StopClose, ClosePort
  <2> QED
    <3>1. Responded
      BY <1>21, <1>b, RespondType, Zenon DEF StopClose
    <3> QED
      BY <1>21, <2>1, <3>1, AtRestType DEF StopClose, ClosePort, Responded
<1>22. CASE DriveUpdate
  BY <1>22, <1>a DEF DriveUpdate, Handlers
<1>23. CASE SetIdStop
  BY <1>23, StopType DEF SetIdStop, SrvRuns
<1>24. CASE SetIdChange
  <2>1. CASE Respond("set_id", FALSE) /\ UNCHANGED busId
    <3>1. Responded
      BY <1>b, <2>1, RespondType, Zenon
    <3> QED
      BY <1>24, <2>1, <3>1 DEF SetIdChange, Responded
  <2>2. CASE /\ \E new \in Ids, o \in Outcomes : ChangeId(new, o) /\ todoSrv' = {new}
             /\ srv' = "set_id_confirm" /\ UNCHANGED <<mutex, reply>>
    BY <1>24, <2>2 DEF SetIdChange, ChangeId
  <2> QED
    BY <1>24, <2>1, <2>2 DEF SetIdChange
<1>25. CASE SetIdConfirm
  BY <1>25, StopType DEF SetIdConfirm, SrvRuns, Respond, Release, Handlers, Answers
<1>26. CASE ProcessEnds
  BY <1>26, <1>a, ZeroType, AtRestType DEF ProcessEnds, NoReply
<1>27. CASE Dangling
  <2>1. CASE /\ \E ok \in BOOLEAN :
                 Respond(IF srv = "stop_zero" THEN "stop" ELSE "set_id", ok)
             /\ UNCHANGED <<procVars, nodeVars, portVars, storeVars, mainVars, busVars>>
    <3>1. PICK ok \in BOOLEAN : Respond(IF srv = "stop_zero" THEN "stop" ELSE "set_id", ok)
      BY <2>1
    <3>2. PICK op \in Handlers : Respond(op, ok)
      BY <1>b, <3>1, Zenon
    <3>3. Responded
      BY <3>2, RespondType, Zenon
    <3> QED
      BY <2>1, <3>3 DEF Responded
  <2> QED
    BY <1>27, <1>26, <2>1 DEF Dangling
<1>28. CASE Elapse
  BY <1>28 DEF Elapse
<1>29. CASE Exit
  BY <1>29, <1>26 DEF Exit
<1>30. CASE Restart
  BY <1>30 DEF Restart
<1>31. CASE UNCHANGED vars
  BY <1>31 DEF vars
<1> QED
  BY <1>1, <1>2, <1>3, <1>4, <1>5, <1>6, <1>7, <1>8, <1>9, <1>10, <1>11, <1>12, <1>13,
     <1>14, <1>15, <1>16, <1>17, <1>18, <1>19, <1>20, <1>21, <1>22, <1>23, <1>24, <1>25,
     <1>27, <1>28, <1>29, <1>30, <1>31, Zenon
  DEF Next, Transition, MainLock, MainRun, SrvRun

\* Type correctness; with it, the range of the speeds that reach the motors.
THEOREM TypeCorrect == Spec => []TypeOK
<1>1. Spec => [](TypeOK /\ TickIds)
  BY TypeInit, TypeStep, PTL DEF Spec
<1> QED
  BY <1>1, PTL

-----------------------------------------------------------------------------
(* Mutual exclusion on the UART *)

LEMMA OwnerStep == TypeOK /\ OneUartUser /\ [Next]_vars => OneUartUser'
<1> SUFFICES ASSUME TypeOK, OneUartUser, [Next]_vars
             PROVE  OneUartUser'
  OBVIOUS
<1> USE DEF OneUartUser, MainHolding, SrvHolding, procVars, nodeVars, portVars, storeVars,
            mainVars, srvVars, busVars
<1>1. CASE Configure \/ ConfigureFails \/ Activate \/ Cleanup
  BY <1>1 DEF Configure, ConfigureFails, Activate, Cleanup
<1>2. CASE Deactivate \/ Shutdown \/ Tick
  BY <1>2 DEF Deactivate, Shutdown, Tick, MainIdle
<1>3. CASE MainLock
  BY <1>3 DEF MainLock, DeactivateLock, ShutdownLock, TickLock, Acquire, MutexFree
<1>4. CASE MainRun
  BY <1>4 DEF MainRun, MainZero, MainClose, TickSet, TickEnd, MainStopping, Release
<1>5. CASE Request
  BY <1>5 DEF Request, Connect, Stop, Drive, SetId, Begin
<1>6. CASE SrvLock
  BY <1>6 DEF SrvLock, SrvLocking, Acquire, MutexFree
<1>7. CASE ConnectOpen \/ ConnectPing \/ ConnectDone
  BY <1>7 DEF ConnectOpen, ConnectPing, ConnectDone, SrvRuns, Respond, Release
<1>8. CASE StopZero \/ StopClose \/ DriveUpdate
  BY <1>8 DEF StopZero, StopClose, DriveUpdate, SrvRuns, Respond, Release
<1>9. CASE SetIdStop \/ SetIdChange \/ SetIdConfirm
  BY <1>9 DEF SetIdStop, SetIdChange, SetIdConfirm, SrvRuns, Respond, Release
<1>10. CASE ProcessEnds
  BY <1>10 DEF ProcessEnds
<1>11. CASE Dangling
  BY <1>11, <1>10 DEF Dangling, Respond, Release
<1>12. CASE Elapse \/ Exit \/ Restart \/ UNCHANGED vars
  BY <1>12, <1>10 DEF Elapse, Exit, Restart, vars
<1> QED
  BY <1>1, <1>2, <1>3, <1>4, <1>5, <1>6, <1>7, <1>8, <1>9, <1>11, <1>12, Zenon
  DEF Next, Transition, SrvRun

\* A tick, a handler and a transition's stop tree never talk to the board at once, and
\* whoever does owns uart_mutex_.
THEOREM UartExclusive == Spec => []OneUartUser
<1>1. Init => OneUartUser
  BY DEF Init, OneUartUser, MainHolding, SrvHolding
<1> QED
  BY <1>1, TypeCorrect, OwnerStep, PTL DEF Spec

-----------------------------------------------------------------------------
(* The lifecycle, the port and where the two groups are *)

LEMMA ControlStep == TypeOK /\ OneUartUser /\ ControlInv /\ [Next]_vars => ControlInv'
<1> SUFFICES ASSUME TypeOK, OneUartUser, ControlInv, [Next]_vars
             PROVE  ControlInv'
  OBVIOUS
<1> USE ConfigAssumption
    DEF TypeOK, OneUartUser, ControlInv, IsOpen, MainHolding, SrvHolding, procVars, nodeVars,
        portVars, storeVars, mainVars, srvVars, busVars
<1>1. CASE Configure
  BY <1>1 DEF Configure, MainIdle, FreshObjects
<1>2. CASE ConfigureFails
  BY <1>2 DEF ConfigureFails, MainIdle, FreshObjects
<1>3. CASE Activate \/ Deactivate
  BY <1>3 DEF Activate, Deactivate, MainIdle, CancelTimer
<1>4. CASE Cleanup
  BY <1>4 DEF Cleanup, MainIdle, CancelTimer
<1>5. CASE Shutdown \/ Tick
  BY <1>5 DEF Shutdown, Tick, MainIdle, CancelTimer
<1>6. CASE MainLock
  BY <1>6 DEF MainLock, DeactivateLock, ShutdownLock, TickLock, Acquire, MutexFree
<1>7. CASE MainZero \/ TickSet \/ TickEnd
  BY <1>7 DEF MainZero, TickSet, TickEnd, MainStopping
<1>8. CASE MainClose
  BY <1>8 DEF MainClose, MainStopping, ClosePort, Release
<1>9. CASE Request
  BY <1>9 DEF Request, Connect, Stop, Drive, SetId, Begin
<1>10. CASE SrvLock
  BY <1>10 DEF SrvLock, SrvLocking
<1>11. CASE ConnectOpen
  BY <1>11 DEF ConnectOpen, OpenPort, OpenPortFails, SrvRuns, Respond
<1>12. CASE ConnectPing \/ ConnectDone
  BY <1>12 DEF ConnectPing, ConnectDone, SrvRuns, Respond
<1>13. CASE StopZero \/ StopClose \/ DriveUpdate
  BY <1>13 DEF StopZero, StopClose, DriveUpdate, ClosePort, SrvRuns, Respond
<1>14. CASE SetIdStop \/ SetIdChange \/ SetIdConfirm
  BY <1>14 DEF SetIdStop, SetIdChange, SetIdConfirm, SrvRuns, Respond
<1>15. CASE ProcessEnds
  BY <1>15 DEF ProcessEnds
<1>16. CASE Dangling
  <2>1. CASE srv' = "idle" /\ UNCHANGED <<procVars, nodeVars, portVars, storeVars, mainVars, busVars>>
    BY <2>1
  <2>2. ProcessEnds
          \/ (srv' = "idle" /\ UNCHANGED <<procVars, nodeVars, portVars, storeVars, mainVars, busVars>>)
    BY <1>16 DEF Dangling, Respond
  <2> QED
    BY <1>15, <2>1, <2>2, Zenon
<1>17. CASE Elapse \/ Exit \/ Restart \/ UNCHANGED vars
  BY <1>17, <1>15 DEF Elapse, Exit, Restart, vars
<1> QED
  BY <1>1, <1>2, <1>3, <1>4, <1>5, <1>6, <1>7, <1>8, <1>9, <1>10, <1>11, <1>12, <1>13,
     <1>14, <1>16, <1>17, Zenon
  DEF Next, Transition, MainRun, SrvRun

\* The agreement of the two groups with the lifecycle and the port, which the theorems
\* below rest on.
THEOREM ControlConsistent == Spec => []ControlInv
<1>1. Init => ControlInv
  BY DEF Init, ControlInv
<1> QED
  BY <1>1, TypeCorrect, UartExclusive, ControlStep, PTL DEF Spec

-----------------------------------------------------------------------------
(* What sets a motor turning *)

\* Everything but the tick's own frames leaves a motor as it was or stops it.
LEMMA OnlyTickStarts ==
  ASSUME TypeOK, [Next]_vars, NEW u \in Units, Starts(u)
  PROVE  TickSet /\ IsOpen
<1> USE DEF TypeOK, Starts, procVars, nodeVars, portVars, storeVars, mainVars, srvVars, busVars
<1>1. ASSUME NEW id, NEW o, SetSpeed(id, 0, o) \/ Ping(id, o) PROVE FALSE
  BY <1>1 DEF SetSpeed, Ping
<1>2. ASSUME motor' = (IF sim_mode_ THEN AtRest ELSE motor) PROVE FALSE
  BY <1>2 DEF AtRest
<1>3. ASSUME UNCHANGED motor PROVE FALSE
  BY <1>3
<1>4. ~Transition
  <2>1. CASE Configure \/ ConfigureFails \/ Cleanup
    BY <1>2, <2>1 DEF Configure, ConfigureFails, Cleanup, FreshObjects
  <2>2. CASE Activate \/ Deactivate \/ Shutdown
    BY <1>3, <2>2 DEF Activate, Deactivate, Shutdown
  <2> QED
    BY <2>1, <2>2 DEF Transition
<1>5. ~(Tick \/ MainLock)
  BY <1>3 DEF Tick, MainLock, DeactivateLock, ShutdownLock, TickLock
<1>6. ~(MainZero \/ MainClose \/ TickEnd)
  BY <1>1, <1>2, <1>3 DEF MainZero, MainClose, ClosePort, TickEnd
<1>7. ~(Request \/ SrvLock)
  BY <1>3 DEF Request, Connect, Stop, Drive, SetId, Begin, SrvLock
<1>8. ~SrvRun
  <2>1. ~(ConnectPing \/ StopZero \/ SetIdStop \/ SetIdConfirm)
    BY <1>1 DEF ConnectPing, StopZero, SetIdStop, SetIdConfirm
  <2>2. ~(ConnectOpen \/ ConnectDone \/ DriveUpdate \/ SetIdChange)
    BY <1>3 DEF ConnectOpen, ConnectDone, DriveUpdate, SetIdChange
  <2>3. ~StopClose
    BY <1>2 DEF StopClose, ClosePort
  <2> QED
    BY <2>1, <2>2, <2>3 DEF SrvRun
<1>9. ~(Exit \/ Dangling)
  BY <1>2, <1>3 DEF Exit, Dangling, ProcessEnds
<1>10. ~(Elapse \/ Restart \/ UNCHANGED vars)
  BY <1>3 DEF Elapse, Restart, vars
<1>11. TickSet
  BY <1>4, <1>5, <1>6, <1>7, <1>8, <1>9, <1>10 DEF Next, MainRun
<1>12. IsOpen
  BY <1>3, <1>11 DEF TickSet, SetSpeed, Reaches, IsOpen
<1> QED
  BY <1>11, <1>12

\* A motor starts only while the node is ACTIVE, in a tick that owns the mutex: no handler,
\* no transition and no tick that was still waiting when a transition began moves one.
THEOREM MotionNeedsActive == Spec => MotionOnlyWhileActive
<1>1. ASSUME TypeOK, OneUartUser, ControlInv, [Next]_vars
      PROVE  (\E u \in Units : Starts(u)) =>
               lc = "ACTIVE" /\ drive_active_ /\ mutex = "main" /\ (connected \/ sim_mode_)
  <2>1. (\E u \in Units : Starts(u)) => lc = "ACTIVE" /\ drive_active_ /\ mutex = "main"
    BY <1>1, OnlyTickStarts DEF TickSet, ControlInv, OneUartUser, MainHolding
  <2>2. (\E u \in Units : Starts(u)) => connected \/ sim_mode_
    BY <1>1, OnlyTickStarts DEF IsOpen, ControlInv
  <2> QED
    BY <2>1, <2>2
<1> QED
  BY <1>1, TypeCorrect, UartExclusive, ControlConsistent, PTL DEF Spec, MotionOnlyWhileActive

-----------------------------------------------------------------------------
(* What the answers of connect and stop mean *)

LEMMA RepliesStep ==
  ASSUME TypeOK, OneUartUser, ControlInv, [Next]_vars
  PROVE  /\ Responds("connect") => connected' /\ (sim_mode_ \/ fd')
         /\ Responds("stop") => ~connected' /\ ~fd'
<1> USE DEF TypeOK, Responds, ControlInv, IsOpen, SrvRuns, procVars, nodeVars, portVars,
            storeVars, mainVars, srvVars, busVars
<1> DEFINE Good == /\ Responds("connect") => connected' /\ (sim_mode_ \/ fd')
                   /\ Responds("stop") => ~connected' /\ ~fd'
<1> SUFFICES Good
  OBVIOUS
<1>1. ASSUME UNCHANGED srvVars PROVE Good
  BY <1>1
<1>2. CASE Transition
  BY <1>1, <1>2 DEF Transition, Configure, ConfigureFails, Activate, Deactivate, Cleanup, Shutdown
<1>3. CASE Tick \/ MainLock \/ MainRun
  BY <1>1, <1>3 DEF Tick, MainLock, DeactivateLock, ShutdownLock, TickLock, MainRun, MainZero,
                    MainClose, TickSet, TickEnd
<1>4. CASE Request
  BY <1>4 DEF Request, Connect, Stop, Drive, SetId, Begin
<1>5. CASE SrvLock
  BY <1>5 DEF SrvLock
<1>6. CASE ConnectOpen \/ ConnectPing \/ ConnectDone
  BY <1>6 DEF ConnectOpen, ConnectPing, ConnectDone, Respond
<1>7. CASE StopZero \/ StopClose
  BY <1>7 DEF StopZero, StopClose, ClosePort, Respond
<1>8. CASE DriveUpdate
  BY <1>8 DEF DriveUpdate
<1>9. CASE SetIdStop \/ SetIdChange \/ SetIdConfirm
  BY <1>9 DEF SetIdStop, SetIdChange, SetIdConfirm, Respond
<1>10. CASE ProcessEnds
  BY <1>10 DEF ProcessEnds, NoReply
<1>11. CASE Dangling
  <2>1. ProcessEnds \/ (\E ok \in BOOLEAN :
                          /\ ~trees /\ UNCHANGED portVars
                          /\ Respond(IF srv = "stop_zero" THEN "stop" ELSE "set_id", ok))
    BY <1>11 DEF Dangling
  <2> QED
    BY <1>10, <2>1 DEF Respond
<1>12. CASE Elapse \/ Exit \/ Restart \/ UNCHANGED vars
  BY <1>1, <1>10, <1>12 DEF Elapse, Exit, Restart, vars
<1> QED
  BY <1>2, <1>3, <1>4, <1>5, <1>6, <1>7, <1>8, <1>9, <1>11, <1>12, Zenon DEF Next, SrvRun

\* After a connect that answered success the port is open and recorded, after a stop it is
\* neither: a deactivation, shutdown or cleanup cannot slip between the work and the answer.
THEOREM RepliesTrue == Spec => RepliesMatchPort
BY TypeCorrect, UartExclusive, ControlConsistent, RepliesStep, PTL DEF Spec, RepliesMatchPort

-----------------------------------------------------------------------------
(* A reliable bus: closing the port leaves the motors at rest *)

\* Frames arrive and are echoed, the device opens, ids are not changed, every motor on the
\* bus is listed, and no process is started on a bus that an earlier one left turning.
Reliable ==
  /\ Outcomes \subseteq {"ok"} /\ ~OpenCanFail
  /\ "set_id" \notin Services
  /\ MaxBoots = 1
  /\ \A u \in Units : BusId0[u] \in MotorIds

\* A delivered stop, or a closed port with the motors at rest: either way the addressed
\* motor is at rest afterwards and the others are as they were, or at rest too.
LEMMA ZeroEffect ==
  ASSUME TypeOK, Reliable, up, RestInv, NEW id, NEW o \in Outcomes,
         SetSpeed(id, 0, o)
  PROVE  /\ ~IsOpen => motor' = AtRest
         /\ motor = AtRest => motor' = AtRest
         /\ \A u \in Units : motor'[u] = 0 \/ motor'[u] = motor[u]
         /\ \A u \in Units : busId[u] = id => motor'[u] = 0
BY DEF TypeOK, Reliable, RestInv, SetSpeed, Reaches, IsOpen, AtRest

LEMMA PingEffect ==
  ASSUME TypeOK, Reliable, up, RestInv, NEW id, NEW o \in Outcomes, Ping(id, o)
  PROVE  (~IsOpen => motor' = AtRest) /\ (motor = AtRest => motor' = AtRest)
BY ZeroEffect DEF Ping, IsOpen

LEMMA AllZero ==
  ASSUME TypeOK, \A u \in Units : motor[u] = 0
  PROVE  motor = AtRest
BY DEF TypeOK, AtRest

LEMMA RestStep ==
  ASSUME Reliable, TypeOK, OneUartUser, ControlInv, RestInv, [Next]_vars
  PROVE  RestInv'
<1> SUFFICES ASSUME up'
             PROVE  RestInv'
  BY DEF RestInv
<1> USE DEF RestInv, Reliable, IsOpen, procVars, nodeVars, portVars, storeVars, mainVars, srvVars, busVars
<1>0. up
  <2>1. CASE Restart
    BY <2>1 DEF Restart, TypeOK
  <2> QED
    BY <2>1 DEF Next, Transition, Configure, ConfigureFails, Activate, Deactivate, Cleanup,
       Shutdown, MainIdle, Tick, MainLock, DeactivateLock, ShutdownLock, TickLock, MainRun,
       MainZero, MainClose, MainStopping, TickSet, TickEnd, Request, Connect, Stop, Drive,
       SetId, Begin, SrvLock, SrvRun, ConnectOpen, ConnectPing, ConnectDone, StopZero,
       StopClose, DriveUpdate, SetIdStop, SetIdChange, SetIdConfirm, SrvRuns, Dangling,
       Elapse, Exit, vars
<1>1. CASE Configure \/ ConfigureFails \/ Cleanup
  BY <1>0, <1>1 DEF Configure, ConfigureFails, Cleanup, MainIdle, FreshObjects
<1>2. CASE Activate \/ Deactivate \/ Tick
  BY <1>0, <1>2 DEF Activate, Deactivate, Tick, MainIdle
<1>3. CASE Shutdown
  BY <1>0, <1>3 DEF Shutdown, MainIdle, ControlInv, IsOpen
<1>4. CASE DeactivateLock \/ ShutdownLock
  BY <1>0, <1>4 DEF DeactivateLock, ShutdownLock, MotorsToStop, IsOpen, ControlInv
<1>5. CASE TickLock
  BY <1>0, <1>5 DEF TickLock
<1>6. CASE MainZero
  <2>1. PICK id \in todoMain, o \in Outcomes :
          SetSpeed(id, 0, o) /\ todoMain' = todoMain \ {id}
    BY <1>6 DEF MainZero
  <2>2. UNCHANGED <<up, sim_mode_, lc, trees, fd, main, srv, todoSrv, busId>>
    BY <1>6 DEF MainZero
  <2>3. srv # "stop_zero" /\ lc \notin {"UNCONFIGURED", "INACTIVE", "FINALIZED"}
    BY <1>6 DEF MainZero, MainStopping, OneUartUser, MainHolding, SrvHolding, ControlInv
  <2>4. ~IsOpen => motor' = AtRest
    BY <1>0, <2>1, ZeroEffect
  <2>5. \A u \in Units : busId[u] \notin todoMain' => motor'[u] = 0
    BY <1>0, <1>6, <2>1, ZeroEffect DEF MainZero, MainStopping
  <2>6. ~trees => motor' = AtRest
    BY <1>0, <2>1, ZeroEffect
  <2> QED
    BY <1>0, <2>2, <2>3, <2>4, <2>5, <2>6
<1>7. CASE MainClose
  <2>1. motor = AtRest
    BY <1>0, <1>7, AllZero DEF MainClose, MainStopping
  <2> QED
    BY <1>0, <1>7, <2>1 DEF MainClose, MainStopping, ClosePort
<1>8. CASE TickSet
  <2>1. UNCHANGED <<up, sim_mode_, lc, trees, fd, main, srv, busId>>
    BY <1>8 DEF TickSet
  <2>2. srv # "stop_zero" /\ lc = "ACTIVE" /\ main = "tick_set" /\ trees
    BY <1>8 DEF TickSet, OneUartUser, MainHolding, SrvHolding, ControlInv
  <2>3. ~IsOpen => motor' = motor
    BY <1>8 DEF TickSet, SetSpeed, Reaches
  <2> QED
    BY <1>0, <2>1, <2>2, <2>3
<1>9. CASE TickEnd
  BY <1>0, <1>9 DEF TickEnd
<1>10. CASE Request
  BY <1>0, <1>10 DEF Request, Connect, Stop, Drive, SetId, Begin
<1>11. CASE SrvLock
  BY <1>0, <1>11 DEF SrvLock, MotorsToStop
<1>12. CASE ConnectOpen \/ ConnectDone
  <2>1. UNCHANGED <<up, sim_mode_, lc, trees, main, todoMain, motor, busId>> /\ trees
    BY <1>12 DEF ConnectOpen, ConnectDone, SrvRuns
  <2>2. ~IsOpen' => motor' = AtRest
    <3>1. OpenPort \/ UNCHANGED fd
      BY <1>12 DEF ConnectOpen, ConnectDone, OpenPortFails
    <3>2. OpenPort => IsOpen'
      BY <2>1, Zenon DEF OpenPort
    <3> QED
      BY <1>0, <2>1, <3>1, <3>2
  <2>3. srv' \in {"connect_ping", "idle"}
    BY <1>12 DEF ConnectOpen, ConnectDone, Respond
  <2> QED
    BY <1>0, <2>1, <2>2, <2>3
<1>13. CASE ConnectPing
  <2>1. PICK id \in todoSrv, o \in Outcomes : Ping(id, o)
    BY <1>13 DEF ConnectPing
  <2>2. UNCHANGED <<up, sim_mode_, lc, trees, fd, main, todoMain, busId>> /\ srv' \in {"connect_ping", "idle"}
    BY <1>13 DEF ConnectPing, SrvRuns, Respond
  <2>3. (~IsOpen => motor' = AtRest) /\ (motor = AtRest => motor' = AtRest)
    BY <1>0, <2>1, PingEffect
  <2>4. main \notin {"deactivate_zero", "shutdown_zero"}
    BY <1>13 DEF ConnectPing, SrvRuns, OneUartUser, MainHolding, SrvHolding
  <2> QED
    BY <1>0, <2>2, <2>3, <2>4
<1>14. CASE StopZero
  <2>1. PICK id \in todoSrv, o \in Outcomes :
          SetSpeed(id, 0, o) /\ todoSrv' = todoSrv \ {id}
    BY <1>14 DEF StopZero
  <2>2. UNCHANGED <<up, sim_mode_, lc, trees, fd, main, todoMain, srv, busId>> /\ srv = "stop_zero"
    BY <1>14 DEF StopZero, SrvRuns
  <2>3. main \notin {"deactivate_zero", "shutdown_zero"}
    BY <2>2 DEF OneUartUser, MainHolding, SrvHolding
  <2>4. (~IsOpen => motor' = AtRest) /\ (motor = AtRest => motor' = AtRest)
    BY <1>0, <2>1, ZeroEffect DEF AtRest
  <2>5. \A u \in Units : busId[u] \notin todoSrv' => motor'[u] = 0
    BY <1>0, <2>1, <2>2, ZeroEffect
  <2> QED
    BY <1>0, <2>2, <2>3, <2>4, <2>5
<1>15. CASE StopClose
  <2>1. motor = AtRest
    BY <1>0, <1>15, AllZero DEF StopClose, SrvRuns
  <2>2. main \notin {"deactivate_zero", "shutdown_zero"}
    BY <1>15 DEF StopClose, SrvRuns, OneUartUser, MainHolding, SrvHolding
  <2> QED
    BY <1>0, <1>15, <2>1, <2>2 DEF StopClose, ClosePort, Respond
<1>16. CASE DriveUpdate
  BY <1>0, <1>16 DEF DriveUpdate
<1>17. CASE SetIdStop \/ SetIdChange \/ SetIdConfirm
  BY <1>0, <1>17 DEF SetIdStop, SetIdChange, SetIdConfirm, SrvRuns
<1>18. CASE Dangling
  BY <1>0, <1>18 DEF Dangling, ProcessEnds, Respond
<1>19. CASE Elapse \/ Exit \/ Restart \/ UNCHANGED vars
  BY <1>0, <1>19 DEF Elapse, Exit, ProcessEnds, Restart, vars
<1> QED
  BY <1>1, <1>2, <1>3, <1>4, <1>5, <1>6, <1>7, <1>8, <1>9, <1>10, <1>11, <1>12, <1>13,
     <1>14, <1>15, <1>16, <1>17, <1>18, <1>19, Zenon
  DEF Next, Transition, MainLock, MainRun, SrvRun

\* On a reliable bus every stop that is under way has put to rest the motors it no longer has to
\* visit, and keeps them there.
THEOREM RestConsistent == ASSUME Reliable PROVE Spec => []RestInv
<1>1. Init => RestInv
  BY DEF Init, RestInv
<1>2. ASSUME TypeOK, OneUartUser, ControlInv, RestInv, [Next]_vars
      PROVE  RestInv'
  BY <1>2, RestStep
<1> QED
  BY <1>1, <1>2, TypeCorrect, UartExclusive, ControlConsistent, PTL DEF Spec

\* On a reliable bus a closed port means that the motors are at rest, whatever handler was in
\* flight when it was closed.
THEOREM RestOnReliableBus == ASSUME Reliable PROVE Spec => []ClosedMeansStopped
<1>1. RestInv => ClosedMeansStopped
  BY DEF RestInv, ClosedMeansStopped, IsOpen, Reliable
<1> QED
  BY <1>1, RestConsistent, PTL

\* On a reliable bus a node that is not ACTIVE, and has ended the transition it left by, has
\* its motors at rest.
THEOREM RestOutsideActive == ASSUME Reliable PROVE Spec => []RestUnlessActive
<1>1. RestInv => RestUnlessActive
  BY DEF RestInv, RestUnlessActive, IsOpen, Reliable
<1> QED
  BY <1>1, RestConsistent, PTL
-----------------------------------------------------------------------------
(* What the answer of set_motor_id means *)

\* Hardware, and no buffered echo is ever taken for an answer.
NoStaleEcho == SimModes \subseteq {FALSE} /\ "stale" \notin Outcomes

SetIdBefore == {"set_id_lock", "set_id_stop", "set_id_change"}

\* A handler that has changed an id still has its trees: it cannot have found the port open
\* in a node that a deactivation had already left INACTIVE, so no cleanup can have come.
SetIdInv ==
  /\ ~sim_mode_
  /\ lc \in {"UNCONFIGURED", "INACTIVE", "DEACTIVATING"} => ~drive_active_
  /\ srv \notin {"connect_ping", "stop_zero", "set_id_confirm"} => todoSrv = {}
  /\ srv \in SetIdBefore /\ lc = "INACTIVE" => ~fd
  /\ srv = "set_id_confirm" =>
       trees /\ lc # "INACTIVE" /\ \A a, b \in todoSrv : a = b

LEMMA SetIdStep ==
  ASSUME TypeOK, OneUartUser, ControlInv, SetIdInv, [Next]_vars
  PROVE  SetIdInv'
<1> USE DEF OneUartUser, ControlInv, SetIdInv, SetIdBefore, IsOpen, MainHolding, SrvHolding,
            procVars, nodeVars, portVars, storeVars, mainVars, srvVars, busVars
<1>1. CASE Configure \/ ConfigureFails \/ Cleanup
  BY <1>1 DEF Configure, ConfigureFails, Cleanup, MainIdle, FreshObjects
<1>2. CASE Activate \/ Deactivate \/ Shutdown \/ Tick
  BY <1>2 DEF Activate, Deactivate, Shutdown, Tick, MainIdle
<1>3. CASE MainLock
  BY <1>3 DEF MainLock, DeactivateLock, ShutdownLock, TickLock, Acquire, MutexFree
<1>4. CASE MainRun
  BY <1>4 DEF MainRun, MainZero, MainClose, TickSet, TickEnd, MainStopping, ClosePort
<1>5. CASE Request
  BY <1>5 DEF Request, Connect, Stop, Drive, SetId, Begin
<1>6. CASE SrvLock
  BY <1>6 DEF SrvLock, SrvLocking
<1>7. CASE ConnectOpen \/ ConnectPing \/ ConnectDone
  BY <1>7 DEF ConnectOpen, OpenPort, OpenPortFails, ConnectPing, ConnectDone, SrvRuns, Respond
<1>8. CASE StopZero \/ DriveUpdate
  BY <1>8 DEF StopZero, DriveUpdate, SrvRuns
<1>13. CASE StopClose
  <2>1. srv' = "idle" /\ todoSrv' = {}
    BY <1>13 DEF StopClose, Respond
  <2>2. UNCHANGED <<sim_mode_, lc, drive_active_>>
    BY <1>13 DEF StopClose
  <2> QED
    BY <2>1, <2>2
<1>9. CASE SetIdStop \/ SetIdChange \/ SetIdConfirm
  BY <1>9 DEF SetIdStop, SetIdChange, SetIdConfirm, SrvRuns, Respond
<1>10. CASE ProcessEnds
  BY <1>10 DEF ProcessEnds
<1>11. CASE Dangling
  <2>1. ASSUME NEW op, NEW ok, Respond(op, ok), UNCHANGED <<procVars, nodeVars, portVars>>
        PROVE  SetIdInv'
    <3>1. srv' = "idle" /\ todoSrv' = {} /\ UNCHANGED <<sim_mode_, lc, drive_active_>>
      BY <2>1 DEF Respond
    <3> QED
      BY <3>1
  <2> QED
    BY <1>11, <1>10, <2>1 DEF Dangling
<1>12. CASE Elapse \/ Exit \/ Restart \/ UNCHANGED vars
  BY <1>12, <1>10 DEF Elapse, Exit, Restart, vars
<1> QED
  BY <1>1, <1>2, <1>3, <1>4, <1>5, <1>6, <1>7, <1>8, <1>9, <1>11, <1>12, <1>13, Zenon
  DEF Next, Transition, SrvRun

\* The ping that confirms the new id, if a motor of that id echoed it, also stopped it.
LEMMA ConfirmStops ==
  ASSUME NoStaleEcho, TypeOK, SetIdInv, NEW id, NEW o \in Outcomes,
         Ping(id, o), Answers(id, o), UNCHANGED busId
  PROVE  \E u \in Units : busId'[u] = id /\ motor'[u] = 0
<1>1. fd /\ o = "ok" /\ \E u \in Units : busId[u] = id
  BY DEF NoStaleEcho, SetIdInv, Answers
<1>2. PICK u \in Units : busId[u] = id
  BY <1>1
<1>3. motor' = [w \in Units |-> IF busId[w] = id THEN 0 ELSE motor[w]]
  BY <1>1 DEF SetIdInv, Ping, SetSpeed, Reaches
<1> QED
  BY <1>2, <1>3

LEMMA SetIdReplyStep ==
  ASSUME NoStaleEcho, TypeOK, SetIdInv, [Next]_vars, NEW id \in todoSrv, Responds("set_id")
  PROVE  \E u \in Units : busId'[u] = id /\ motor'[u] = 0
<1> USE DEF Responds, procVars, nodeVars, portVars, storeVars, mainVars, srvVars, busVars
<1>1. ASSUME UNCHANGED srv PROVE FALSE
  BY <1>1
<1>2. ~(Transition \/ Tick \/ MainLock \/ MainRun \/ Elapse \/ UNCHANGED vars)
  BY <1>1 DEF Transition, Configure, ConfigureFails, Activate, Deactivate, Cleanup, Shutdown, Tick,
     MainLock, DeactivateLock, ShutdownLock, TickLock, MainRun, MainZero, MainClose, TickSet,
     TickEnd, Elapse, vars
<1>3. ~ProcessEnds
  BY DEF ProcessEnds, NoReply
<1>4. ~(Exit \/ Restart \/ Request \/ SrvLock)
  BY <1>1, <1>3 DEF Exit, Restart, Request, Connect, Stop, Drive, SetId, Begin, SrvLock
<1>5. ~(ConnectOpen \/ ConnectPing \/ ConnectDone)
  BY DEF ConnectOpen, ConnectPing, ConnectDone, SrvRuns, Respond
<1>6. ~(StopZero \/ StopClose \/ DriveUpdate \/ SetIdStop)
  BY DEF StopZero, StopClose, DriveUpdate, SetIdStop, SrvRuns, Respond
<1>7. ~SetIdChange
  BY DEF SetIdChange, SrvRuns, SetIdInv
<1>8. ~Dangling
  <2>1. srv \in {"connect_ping", "stop_zero", "set_id_confirm"}
    BY DEF SetIdInv
  <2>2. ASSUME NEW ok \in BOOLEAN, srv = "stop_zero",
               Respond(IF srv = "stop_zero" THEN "stop" ELSE "set_id", ok)
        PROVE  FALSE
    BY <2>2 DEF Respond
  <2> QED
    BY <1>3, <2>1, <2>2 DEF Dangling, SetIdInv
<1>9. SetIdConfirm
  BY <1>2, <1>4, <1>5, <1>6, <1>7, <1>8, Zenon DEF Next, SrvRun
<1>10. PICK new \in todoSrv, o \in Outcomes : Ping(new, o) /\ Respond("set_id", Answers(new, o))
  BY <1>9 DEF SetIdConfirm
<1>11. Answers(new, o)
  BY <1>10 DEF Respond
<1>12. new = id
  BY <1>9, <1>10 DEF SetIdConfirm, SrvRuns, SetIdInv
<1> QED
  BY <1>9, <1>10, <1>11, <1>12, ConfirmStops DEF SetIdConfirm

\* On hardware whose echoes are never stale, a set_motor_id that reports success left a motor
\* that has the id that was asked for and is at rest, however many motors took it.
THEOREM SetIdTrue == ASSUME NoStaleEcho PROVE Spec => SetIdReplyTrue
<1>1. Init => SetIdInv
  BY ConfigAssumption DEF Init, SetIdInv, SetIdBefore, NoStaleEcho
<1>2. ASSUME TypeOK, OneUartUser, ControlInv, SetIdInv, [Next]_vars
      PROVE  SetIdInv'
  BY <1>2, SetIdStep
<1>3. Spec => []SetIdInv
  BY <1>1, <1>2, TypeCorrect, UartExclusive, ControlConsistent, PTL DEF Spec
<1>4. ASSUME TypeOK, SetIdInv, [Next]_vars
      PROVE  \A id \in todoSrv :
               Responds("set_id") => \E u \in Units : busId'[u] = id /\ motor'[u] = 0
  BY <1>4, SetIdReplyStep
<1> QED
  BY <1>3, <1>4, TypeCorrect, PTL DEF Spec, SetIdReplyTrue
=============================================================================
