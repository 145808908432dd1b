------------------------- MODULE DriveServiceProofs -------------------------
(***************************************************************************)
(* Drivechain implements DriveService, for any motors, mounting, wiring,   *)
(* commands and timeout, on any bus and for any number of restarts: as     *)
(* long as ids are not changed and nobody asks for the lowest int16, whose *)
(* sign is lost (LowestTurnsForward).                                      *)
(***************************************************************************)
EXTENDS DrivechainProofs

Clients == "set_id" \notin Services /\ \A c \in Commands, id \in MotorIds : c[id] # MinInt16

SetIdSteps == {"set_id_lock", "set_id_stop", "set_id_change", "set_id_confirm"}

\* What the mapping needs to know of a state: ids stay, a request is held only while a tick
\* carries it out, and the lowest int16 never gets in.
ServiceInv ==
  /\ busId = BusId0 /\ srv \notin SetIdSteps
  /\ main # "tick_set" => cmdMap = Zero
  /\ \A id \in MotorIds : cmd[id] # MinInt16 /\ cmdMap[id] # MinInt16

LEMMA ZeroNotLowest == \A id \in MotorIds : Zero[id] # MinInt16
BY DEF Zero, MinInt16

LEMMA ServiceInvInit == Init => ServiceInv
BY ZeroNotLowest DEF Init, ServiceInv, SetIdSteps

LEMMA ServiceInvStep ==
  ASSUME Clients
  PROVE  TypeOK /\ ServiceInv /\ [Next]_vars => ServiceInv'
<1> SUFFICES ASSUME TypeOK, ServiceInv, [Next]_vars
             PROVE  ServiceInv'
  OBVIOUS
<1> USE ZeroNotLowest
    DEF ServiceInv, SetIdSteps, procVars, nodeVars, portVars, storeVars, mainVars, srvVars, busVars
<1>1. CASE Configure \/ ConfigureFails \/ Activate
  BY <1>1 DEF Configure, ConfigureFails, Activate, FreshObjects, MainIdle
<1>2. CASE Deactivate \/ Cleanup \/ Shutdown \/ Tick
  BY <1>2 DEF Deactivate, Cleanup, Shutdown, Tick, MainIdle
<1>3. CASE DeactivateLock \/ ShutdownLock
  BY <1>3 DEF DeactivateLock, ShutdownLock
<1>4. CASE TickLock
  BY <1>4 DEF TickLock, FreshCommand
<1>5. CASE MainZero \/ MainClose
  BY <1>5 DEF MainZero, MainClose, MainStopping
<1>6. CASE TickSet \/ TickEnd
  BY <1>6 DEF TickSet, TickEnd
<1>7. CASE Request
  BY <1>7 DEF Clients, Request, Connect, Stop, Drive, SetId, Begin
<1>8. CASE SrvLock
  BY <1>8 DEF SrvLock, SrvLocking
<1>9. CASE ConnectOpen \/ ConnectDone \/ StopClose
  BY <1>9 DEF ConnectOpen, ConnectDone, StopClose, Respond, SrvRuns
<1>10. CASE ConnectPing \/ StopZero
  BY <1>10 DEF ConnectPing, StopZero, Respond, SrvRuns
<1>11. CASE DriveUpdate
  BY <1>11 DEF Clients, DriveUpdate
<1>12. CASE SetIdStop \/ SetIdChange \/ SetIdConfirm
  BY <1>12 DEF SetIdStop, SetIdChange, SetIdConfirm, SrvRuns
<1>13. CASE ProcessEnds
  BY <1>13 DEF ProcessEnds
<1>14. CASE Dangling
  BY <1>14, <1>13 DEF Dangling, Respond
<1>15. CASE Elapse \/ Exit \/ Restart \/ UNCHANGED vars
  BY <1>15, <1>13 DEF Elapse, Exit, Restart, vars
<1> QED
  BY <1>1, <1>2, <1>3, <1>4, <1>5, <1>6, <1>7, <1>8, <1>9, <1>10, <1>11, <1>12, <1>14, <1>15,
     Zenon
  DEF Next, Transition, MainLock, MainRun, SrvRun

-----------------------------------------------------------------------------
(* The motors in the terms of a request *)

Turning == [u \in Units |-> ReportedRpm(motor[u], Mounting(BusId0[u]))]

LEMMA MountingSign ==
  ASSUME NEW id
  PROVE  Mounting(id) \in {1, -1}
BY ConfigAssumption DEF Mounting, Signs

LEMMA ReportedType ==
  ASSUME NEW id, NEW rpm \in WireRpm
  PROVE  ReportedRpm(rpm, Mounting(id)) \in Int
BY MountingSign DEF ReportedRpm, WireRpm

LEMMA ReportedRest ==
  ASSUME NEW id
  PROVE  ReportedRpm(0, Mounting(id)) = 0
BY MountingSign DEF ReportedRpm

\* Motors that stop or go on as they did are a brake.
LEMMA Braking ==
  ASSUME TypeOK, TypeOK', \A u \in Units : motor'[u] \in {0, motor[u]}
  PROVE  Turning' \in [Units -> Int] /\ Service!Brakes
<1>1. \A u \in Units : Turning'[u] \in Int
  BY ReportedType DEF Turning, TypeOK
<1>2. \A u \in Units : Turning'[u] \in {0, Turning[u]}
  BY ReportedRest DEF Turning
<1> QED
  BY <1>1, <1>2 DEF Turning, Service!Brakes

LEMMA StopFrame ==
  ASSUME TypeOK, NEW id, NEW o, SetSpeed(id, 0, o) \/ Ping(id, o)
  PROVE  \A u \in Units : motor'[u] \in {0, motor[u]}
BY DEF SetSpeed, Ping, TypeOK

LEMMA PortClosed ==
  ASSUME TypeOK, motor' = IF sim_mode_ THEN AtRest ELSE motor
  PROVE  \A u \in Units : motor'[u] \in {0, motor[u]}
BY DEF AtRest, TypeOK

LEMMA LimitedIsClamp ==
  ASSUME NEW rpm \in Int
  PROVE  Service!Limited(rpm) = ClampRpm(rpm)
BY DEF Service!Limited, ClampRpm

\* A frame of the tick that arrives does to the motors of that id what the request said.
LEMMA FrameApplies ==
  ASSUME TypeOK, ServiceInv, NEW id \in MotorIds, NEW o, Reaches(o),
         SetSpeed(id, SendRpm(cmdMap[id], Sign[id]), o)
  PROVE  Turning' = [u \in Units |-> IF BusId0[u] = id THEN Service!Limited(cmdMap[id])
                                                       ELSE Turning[u]]
<1>1. /\ cmdMap[id] \in Int16 /\ cmdMap[id] # MinInt16 /\ cmdMap[id] \in Int
      /\ Sign[id] \in Signs /\ Mounting(id) = Sign[id]
  BY ConfigAssumption, Int16Bounds DEF TypeOK, ServiceInv, Mounting
<1>2. ReportedRpm(SendRpm(cmdMap[id], Sign[id]), Mounting(id)) = Service!Limited(cmdMap[id])
  BY <1>1, FeedbackRoundTrip, LimitedIsClamp
<1>3. \A u \in Units : motor'[u] = IF BusId0[u] = id THEN SendRpm(cmdMap[id], Sign[id]) ELSE motor[u]
  BY DEF SetSpeed, ServiceInv
<1> QED
  BY <1>2, <1>3 DEF Turning

-----------------------------------------------------------------------------
(* The refinement *)

LEMMA ServiceInit == Init => Service!Init
<1> SUFFICES ASSUME Init PROVE Service!Init
  OBVIOUS
<1>1. Turning = [u \in Units |-> 0]
  BY ReportedRest DEF Init, AtRest, Turning
<1> QED
  BY <1>1 DEF Init, Zero, Turning, Service!Init, Service!Nothing

\* The steps that only stop motors, and those that forget the request as well.
LEMMA BrakeStep ==
  ASSUME TypeOK, TypeOK', \A u \in Units : motor'[u] \in {0, motor[u]},
         UNCHANGED <<cmd, age, cmdMap>>
  PROVE  Service!Next
<1>1. Service!Brake
  BY Braking DEF Service!Brake, Turning
<1> QED
  BY <1>1 DEF Service!Next

LEMMA ResetStep ==
  ASSUME TypeOK, TypeOK', motor' = IF sim_mode_ THEN AtRest ELSE motor,
         cmd' = Zero, age' = CommandTimeout, cmdMap' = Zero
  PROVE  Service!Next
<1>1. Turning' \in [Units -> Int] /\ Service!Brakes
  BY Braking, PortClosed
<1>2. Service!Reset
  BY <1>1 DEF Service!Reset, Service!Nothing, Zero, Turning
<1> QED
  BY <1>2 DEF Service!Next

LEMMA StutterStep ==
  ASSUME UNCHANGED <<cmd, age, cmdMap, motor>>
  PROVE  UNCHANGED Service!vars
BY DEF Service!vars

\* Every step of the node is one of the service or leaves the client's view as it is.
LEMMA ServiceStep ==
  TypeOK /\ TypeOK' /\ TickIds /\ ServiceInv /\ [Next]_vars => [Service!Next]_(Service!vars)
<1> SUFFICES ASSUME TypeOK, TypeOK', TickIds, ServiceInv, [Next]_vars
             PROVE  Service!Next \/ UNCHANGED Service!vars
  OBVIOUS
<1> USE DEF procVars, nodeVars, portVars, storeVars, mainVars, srvVars, busVars
<1>1. CASE Configure \/ ConfigureFails \/ Cleanup
  <2>1. main = "idle" /\ UNCHANGED cmdMap
    BY <1>1 DEF Configure, ConfigureFails, Cleanup, MainIdle
  <2>2. cmdMap' = Zero
    BY <2>1 DEF ServiceInv
  <2> QED
    BY <1>1, <2>2, ResetStep DEF Configure, ConfigureFails, Cleanup, FreshObjects
<1>2. CASE Activate \/ Deactivate \/ Shutdown \/ Tick
  BY <1>2, StutterStep DEF Activate, Deactivate, Shutdown, Tick
<1>3. CASE DeactivateLock \/ ShutdownLock
  BY <1>3, StutterStep DEF DeactivateLock, ShutdownLock
<1>4. CASE TickLock
  <2>1. cmdMap = Zero /\ UNCHANGED <<cmd, age, motor>>
    BY <1>4 DEF TickLock, ServiceInv
  <2>2. CASE cmdMap' = FreshCommand
    <3>1. Service!Take
      BY <2>1, <2>2 DEF Service!Take, Service!Nothing, FreshCommand, Zero
    <3> QED
      BY <3>1 DEF Service!Next
  <2>3. CASE UNCHANGED cmdMap
    BY <2>1, <2>3, StutterStep
  <2> QED
    BY <1>4, <2>2, <2>3 DEF TickLock
<1>5. CASE MainZero \/ StopZero
  BY <1>5, StopFrame, BrakeStep DEF MainZero, StopZero
<1>6. CASE MainClose \/ StopClose
  BY <1>6, PortClosed, BrakeStep DEF MainClose, StopClose, ClosePort
<1>7. CASE TickSet
  <2>1. PICK id \in todoMain, o \in Outcomes : SetSpeed(id, SendRpm(cmdMap[id], Sign[id]), o)
    BY <1>7 DEF TickSet
  <2>2. id \in MotorIds /\ UNCHANGED <<cmd, age, cmdMap>>
    BY <1>7, <2>1 DEF TickSet, TickIds
  <2>3. CASE Reaches(o)
    <3>1. Service!Apply(id)
      BY <2>1, <2>2, <2>3, FrameApplies DEF Service!Apply, Turning
    <3> QED
      BY <2>2, <3>1 DEF Service!Next
  <2>4. CASE ~Reaches(o)
    BY <2>1, <2>2, <2>4, StutterStep DEF SetSpeed
  <2> QED
    BY <2>3, <2>4
<1>8. CASE TickEnd
  <2>1. Service!Done
    BY <1>8 DEF TickEnd, Service!Done, Service!Nothing, Zero
  <2> QED
    BY <2>1 DEF Service!Next
<1>9. CASE Request \/ SrvLock \/ ConnectOpen \/ ConnectDone
  BY <1>9, StutterStep
  DEF Request, Connect, Stop, Drive, SetId, Begin, SrvLock, ConnectOpen, ConnectDone
<1>10. CASE ConnectPing
  BY <1>10, StopFrame, BrakeStep DEF ConnectPing
<1>11. CASE DriveUpdate
  <2>1. Service!Accept
    BY <1>11 DEF DriveUpdate, Service!Accept
  <2> QED
    BY <2>1 DEF Service!Next
<1>12. CASE SetIdStop \/ SetIdChange \/ SetIdConfirm
  BY <1>12 DEF SetIdStop, SetIdChange, SetIdConfirm, SrvRuns, ServiceInv, SetIdSteps
<1>13. CASE ProcessEnds
  BY <1>13, ResetStep DEF ProcessEnds
<1>14. CASE Dangling
  BY <1>14, <1>13, StutterStep DEF Dangling
<1>15. CASE Elapse
  <2>1. Service!Elapse
    BY <1>15 DEF Elapse, Service!Elapse
  <2> QED
    BY <2>1 DEF Service!Next
<1>16. CASE Exit \/ Restart \/ UNCHANGED vars
  BY <1>16, <1>13, StutterStep DEF Exit, Restart, vars
<1> QED
  BY <1>1, <1>2, <1>3, <1>4, <1>5, <1>6, <1>7, <1>8, <1>9, <1>10, <1>11, <1>12, <1>14, <1>15,
     <1>16, Zenon
  DEF Next, Transition, MainLock, MainRun, SrvRun

\* The node implements the service it offers: whatever its two callback groups do to each
\* other, whichever frames are lost and however often the process ends, a client sees requests
\* taken up while fresh, motors that turn as they said, and otherwise only stops.
THEOREM ServiceImplemented ==
  ASSUME Clients
  PROVE  Spec => ImplementsService
<1>1. Spec => [](TypeOK /\ TickIds)
  BY TypeInit, TypeStep, PTL DEF Spec
<1>2. TypeOK /\ ServiceInv /\ [Next]_vars => ServiceInv'
  BY ServiceInvStep
<1>3. Spec => []ServiceInv
  BY <1>1, <1>2, ServiceInvInit, PTL DEF Spec
<1>4. Spec => Service!Init /\ [][Service!Next]_(Service!vars)
  BY <1>1, <1>3, ServiceInit, ServiceStep, PTL DEF Spec
<1> QED
  BY <1>4 DEF ImplementsService, Service!Spec
=============================================================================
