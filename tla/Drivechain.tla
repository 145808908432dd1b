----------------------------- MODULE Drivechain -----------------------------
(***************************************************************************)
(* DrivechainNode: a lifecycle node spun by a MultiThreadedExecutor.       *)
(*                                                                         *)
(* Two callbacks can run at once, one of each mutually exclusive group:    *)
(*   - "main", the node's default group: lifecycle transitions and the     *)
(*     drive timer;                                                        *)
(*   - "srv", service_cbg_: the ~/connect, ~/stop, ~/drive and             *)
(*     ~/set_motor_id handlers.                                            *)
(* They share the flag drive_active_, the behaviour trees, the UART        *)
(* behind uart_mutex_, and the store of the last drive command.            *)
(*                                                                         *)
(* Every handler is cut where the other group can interleave: at the test  *)
(* of drive_active_, at the mutex, and at each frame on the bus.  The bus  *)
(* (ESP32 and motors) is external: a frame is delivered or not and echoed  *)
(* or not.                                                                 *)
(***************************************************************************)
EXTENDS DriveMath

CONSTANTS
  SimModes,       \* the backends to consider: {FALSE} is hardware, {TRUE} simulation
  Ids,            \* motor ids that appear on the bus or in requests
  MotorIds,       \* the enabled entries of motor_list
  Sign,           \* their mounting signs
  Units,          \* the physical motors wired to the bus
  BusId0,         \* the id each of them has at power-up
  Commands,       \* what drive requests ask for, per enabled motor
  CommandTimeout, \* drive.command_timeout_ms, in units of Elapse
  Services,       \* the services clients call: some of the four handlers
  Outcomes,       \* what may happen to a frame, some of FrameOutcomes
  OpenCanFail,    \* whether ::open of the device may fail
  MaxBoots        \* bound on process starts

\* "ok": delivered and echoed in time.  "mute": delivered, no echo in time, or one that
\* reports a fault.
\* "lost": not delivered.  "stale": not delivered, but a buffered echo of an
\* earlier frame to the same id is taken for the answer.
FrameOutcomes == {"ok", "mute", "lost", "stale"}

Handlers == {"connect", "stop", "drive", "set_id"}

ASSUME ConfigAssumption ==
  /\ SimModes \subseteq BOOLEAN
  /\ MotorIds \subseteq Ids
  /\ Sign \in [MotorIds -> Signs]
  /\ BusId0 \in [Units -> Ids]
  /\ Commands \subseteq [MotorIds -> Int16]
  /\ CommandTimeout \in Nat \ {0}
  /\ Services \subseteq Handlers
  /\ Outcomes \subseteq FrameOutcomes
  /\ OpenCanFail \in BOOLEAN
  /\ MaxBoots \in Nat \ {0}

VARIABLES
  up, boots,      \* the process runs; how often it was started
  sim_mode_,      \* the backend it was launched with: drive.backend is not "hardware"
  lc,             \* lifecycle state, with the two transitions that wait
  drive_active_, drive_timer_,
  objs,           \* blackboard_, uart_ and drive_cmd_store_ exist
  trees,          \* trees_ are built and the services exist
  registered,     \* factory_ already holds the node types
  fd,             \* the UART's descriptor fd_ is open
  connected,      \* blackboard entry uart_connected
  cmd, age,       \* drive_cmd_store_; age CommandTimeout stands for stale or unset
  mutex,          \* owner of uart_mutex_: "free", "main" or "srv"
  main, todoMain, cmdMap,  \* default group: where it is, ids left, local cmd_map
  srv, todoSrv, reply,     \* service group: where it is, ids left, last response
  motor, busId    \* external: speed set point and bus id of each physical motor

procVars  == <<up, boots, sim_mode_>>
nodeVars  == <<lc, drive_active_, drive_timer_, objs, trees, registered>>
portVars  == <<fd, connected>>
storeVars == <<cmd, age>>
mainVars  == <<main, todoMain, cmdMap>>
srvVars   == <<srv, todoSrv, reply>>
busVars   == <<motor, busId>>
vars == <<procVars, nodeVars, portVars, storeVars, mutex, mainVars, srvVars, busVars>>

Zero == [id \in MotorIds |-> 0]
AtRest == [u \in Units |-> 0]
NoReply == [op |-> "none", ok |-> FALSE]

LcStates == {"UNCONFIGURED", "INACTIVE", "ACTIVE", "DEACTIVATING",
             "SHUTTINGDOWN", "FINALIZED"}
MainHolding == {"tick_set", "deactivate_zero", "shutdown_zero"}
MainSteps == MainHolding \cup {"idle", "tick_lock", "deactivate_lock", "shutdown_lock"}
SrvLocking == {"connect_lock", "stop_lock", "set_id_lock"}
SrvHolding == {"connect_open", "connect_ping", "stop_zero",
               "set_id_stop", "set_id_change", "set_id_confirm"}
SrvSteps == SrvLocking \cup SrvHolding \cup {"idle", "drive_update"}

-----------------------------------------------------------------------------
(* The UART layer and the bus *)

\* DriveUart::is_open
IsOpen == sim_mode_ \/ fd

Reaches(o) == sim_mode_ \/ (fd /\ o \in {"ok", "mute"})

\* (mutant) an echo of any motor is taken for the answer
AnyEcho(id, o) == sim_mode_ \/ (fd /\ o \in {"ok", "stale"})

\* set_speed's result: the matching echo was read.
Answers(id, o) ==
  \/ sim_mode_
  \/ fd /\ (o = "stale" \/ (o = "ok" /\ \E u \in Units : busId[u] = id))

\* DriveUart::set_speed.  In sim mode motor stands for sim_cmds_.
SetSpeed(id, rpm, o) ==
  motor' = IF Reaches(o)
           THEN [u \in Units |-> IF busId[u] = id THEN rpm ELSE motor[u]]
           ELSE motor

\* DriveUart::ping sends a stop frame, except in sim mode.  Repeated attempts
\* add nothing: whether one of them was delivered or answered is one outcome.
Ping(id, o) == IF sim_mode_ THEN UNCHANGED motor ELSE SetSpeed(id, 0, o)

\* DriveUart::change_id broadcasts: every motor on the bus takes the new id.
ChangeId(new, o) ==
  busId' = IF ~sim_mode_ /\ Reaches(o) THEN [u \in Units |-> new] ELSE busId

\* OpenUart, success: fd_ is overwritten without closing what it held.
OpenPort ==
  /\ fd' = ~sim_mode_
  /\ connected' = TRUE

\* OpenUart, ::open failed: fd_ is now -1 and uart_connected is not touched.
OpenPortFails ==
  /\ OpenCanFail /\ ~sim_mode_
  /\ fd' = FALSE
  /\ UNCHANGED connected

\* (mutant) a close that only clears the flag
CloseFlagOnly == connected' = FALSE /\ UNCHANGED <<fd, motor>>

\* CloseUart and DriveUart::close, which also clears sim_cmds_.
ClosePort ==
  /\ fd' = FALSE
  /\ connected' = FALSE
  /\ motor' = IF sim_mode_ THEN AtRest ELSE motor

-----------------------------------------------------------------------------
(* uart_mutex_ and the process *)

\* (mutant) the lock is not waited for
NoWait == TRUE

\* std::lock_guard on uart_mutex_: what its constructor waits for.
MutexFree == mutex = "free"

Acquire(t) == MutexFree /\ mutex' = t

\* (mutant) the lock is kept
KeepLock == UNCHANGED mutex

Release == mutex' = "free"

\* The process ends without any callback of the node: an exception that leaves
\* a handler, a fault, or Ctrl+C (main just returns from spin).  The kernel closes
\* every descriptor; nothing tells the motors.
ProcessEnds ==
  /\ up' = FALSE
  /\ lc' = "UNCONFIGURED" /\ drive_active_' = FALSE /\ drive_timer_' = FALSE
  /\ objs' = FALSE /\ trees' = FALSE /\ registered' = FALSE
  /\ fd' = FALSE /\ connected' = FALSE
  /\ cmd' = Zero /\ age' = CommandTimeout
  /\ mutex' = "free"
  /\ main' = "idle" /\ todoMain' = {} /\ cmdMap' = Zero
  /\ srv' = "idle" /\ todoSrv' = {} /\ reply' = NoReply
  /\ motor' = IF sim_mode_ THEN AtRest ELSE motor
  /\ UNCHANGED <<boots, sim_mode_, busId>>

Exit == up /\ boots < MaxBoots /\ ProcessEnds

Restart ==
  /\ ~up /\ boots < MaxBoots
  /\ up' = TRUE /\ boots' = boots + 1
  /\ UNCHANGED <<sim_mode_, nodeVars, portVars, storeVars, mutex, mainVars, srvVars, busVars>>

\* Time passes; the age of the stored command matters up to the timeout.
Elapse ==
  /\ up /\ age < CommandTimeout
  /\ age' = age + 1
  /\ UNCHANGED <<procVars, nodeVars, portVars, cmd, mutex, mainVars, srvVars, busVars>>

-----------------------------------------------------------------------------
(* Default group: lifecycle transitions *)

MainIdle == up /\ main = "idle"

\* The objects on_configure makes before it builds the trees.  Assigning uart_
\* destroys, and so closes, the previous one.
FreshObjects ==
  /\ objs' = TRUE
  /\ fd' = FALSE /\ connected' = FALSE
  /\ cmd' = Zero /\ age' = CommandTimeout
  /\ motor' = IF sim_mode_ THEN AtRest ELSE motor
  /\ registered' = TRUE

Configure ==
  /\ MainIdle /\ lc = "UNCONFIGURED" /\ ~registered
  /\ FreshObjects
  /\ trees' = TRUE /\ lc' = "INACTIVE"
  /\ UNCHANGED <<procVars, drive_active_, drive_timer_, mutex,
                 mainVars, srvVars, busId>>

\* registerNodeType throws on an id the factory holds, so a second configuration
\* of the same process always ends here; the first one may, on a missing tree file.
ConfigureFails ==
  /\ MainIdle /\ lc = "UNCONFIGURED"
  /\ FreshObjects
  /\ UNCHANGED <<procVars, lc, drive_active_, drive_timer_, trees, mutex,
                 mainVars, srvVars, busId>>

Activate ==
  /\ MainIdle /\ lc = "INACTIVE"
  /\ lc' = "ACTIVE" /\ drive_active_' = TRUE /\ drive_timer_' = TRUE
  /\ UNCHANGED <<procVars, objs, trees, registered, portVars, storeVars, mutex,
                 mainVars, srvVars, busVars>>

\* (mutant) a transition that leaves the timer running
KeepTimer == UNCHANGED drive_timer_

CancelTimer == drive_timer_' = FALSE

\* on_deactivate clears the flag and the timer, then waits for the mutex.
Deactivate ==
  /\ MainIdle /\ lc = "ACTIVE"
  /\ lc' = "DEACTIVATING" /\ drive_active_' = FALSE /\ CancelTimer
  /\ main' = "deactivate_lock"
  /\ UNCHANGED <<procVars, objs, trees, registered, portVars, storeVars, mutex,
                 todoMain, cmdMap, srvVars, busVars>>

\* (mutant) a stop tree that closes the port without zeroing the motors
NoMotors == {}

\* StopAllMotors: the motors it zeroes before CloseUart.
MotorsToStop == MotorIds

\* on_deactivate with the mutex: the stop tree, if the port is open.
DeactivateLock ==
  /\ up /\ main = "deactivate_lock" /\ MutexFree
  /\ \/ /\ IsOpen
        /\ Acquire("main") /\ main' = "deactivate_zero" /\ todoMain' = MotorsToStop
        /\ UNCHANGED lc
     \/ /\ ~IsOpen
        /\ main' = "idle" /\ lc' = "INACTIVE"
        /\ UNCHANGED <<mutex, todoMain>>
  /\ UNCHANGED <<procVars, drive_active_, drive_timer_, objs, trees, registered,
                 portVars, storeVars, cmdMap, srvVars, busVars>>

\* on_cleanup takes no lock: a handler of the other group may be under way.
Cleanup ==
  /\ MainIdle /\ lc = "INACTIVE"
  /\ lc' = "UNCONFIGURED" /\ objs' = FALSE /\ trees' = FALSE /\ CancelTimer
  /\ fd' = FALSE /\ connected' = FALSE
  /\ cmd' = Zero /\ age' = CommandTimeout
  /\ motor' = IF sim_mode_ THEN AtRest ELSE motor
  /\ UNCHANGED <<procVars, drive_active_, registered, mutex,
                 mainVars, srvVars, busId>>

\* on_shutdown looks at the port before it waits for the mutex, and leaves
\* drive_active_ as it is.
Shutdown ==
  /\ MainIdle /\ lc \in {"UNCONFIGURED", "INACTIVE", "ACTIVE"}
  /\ CancelTimer
  /\ \/ objs /\ IsOpen /\ main' = "shutdown_lock" /\ lc' = "SHUTTINGDOWN"
     \/ ~(objs /\ IsOpen) /\ lc' = "FINALIZED" /\ UNCHANGED main
  /\ UNCHANGED <<procVars, drive_active_, objs, trees, registered, portVars, storeVars,
                 mutex, todoMain, cmdMap, srvVars, busVars>>

\* With no trees (a failed configuration) ticking throws, which also finalizes.
ShutdownLock ==
  /\ up /\ main = "shutdown_lock" /\ MutexFree
  /\ \/ /\ trees
        /\ Acquire("main") /\ main' = "shutdown_zero" /\ todoMain' = MotorsToStop
        /\ UNCHANGED lc
     \/ /\ ~trees
        /\ main' = "idle" /\ lc' = "FINALIZED"
        /\ UNCHANGED <<mutex, todoMain>>
  /\ UNCHANGED <<procVars, drive_active_, drive_timer_, objs, trees, registered,
                 portVars, storeVars, cmdMap, srvVars, busVars>>

MainStopping == up /\ main \in {"deactivate_zero", "shutdown_zero"}

\* The stop tree of a transition, one motor at a time, then CloseUart.
MainZero ==
  /\ MainStopping
  /\ \E id \in todoMain, o \in Outcomes :
       SetSpeed(id, 0, o) /\ todoMain' = todoMain \ {id}
  /\ UNCHANGED <<procVars, nodeVars, portVars, storeVars, mutex, main, cmdMap,
                 srvVars, busId>>

MainClose ==
  /\ MainStopping /\ todoMain = {}
  /\ ClosePort /\ Release
  /\ main' = "idle"
  /\ lc' = IF main = "deactivate_zero" THEN "INACTIVE" ELSE "FINALIZED"
  /\ UNCHANGED <<procVars, drive_active_, drive_timer_, objs, trees, registered,
                 storeVars, todoMain, cmdMap, srvVars, busId>>

-----------------------------------------------------------------------------
(* Default group: the drive timer *)

\* tick_drive_tree up to the mutex.
Tick ==
  /\ MainIdle /\ drive_timer_ /\ drive_active_
  /\ main' = "tick_lock"
  /\ UNCHANGED <<procVars, nodeVars, portVars, storeVars, mutex, todoMain, cmdMap,
                 srvVars, busVars>>

\* (mutant) the command is used however old it is
AnyCommand == cmd

\* SetAllMotors reads age_ms and then latest, each under the store's own lock.  A
\* request between the two only makes a fresh command fresher, so one read stands
\* for both.
FreshCommand == IF age < CommandTimeout THEN cmd ELSE Zero

\* drive_tree with the mutex: UartOpen, then the read at the head of SetAllMotors.
TickLock ==
  /\ up /\ main = "tick_lock" /\ MutexFree
  /\ \/ /\ IsOpen
        /\ Acquire("main") /\ main' = "tick_set" /\ todoMain' = MotorIds
        /\ cmdMap' = FreshCommand
     \/ /\ ~IsOpen
        /\ main' = "idle"
        /\ UNCHANGED <<mutex, todoMain, cmdMap>>
  /\ UNCHANGED <<procVars, nodeVars, portVars, storeVars, srvVars, busVars>>

\* SetAllMotors, one motor; the frame's result only fills the feedback.
TickSet ==
  /\ up /\ main = "tick_set"
  /\ \E id \in todoMain, o \in Outcomes :
       SetSpeed(id, SendRpm(cmdMap[id], Sign[id]), o) /\ todoMain' = todoMain \ {id}
  /\ UNCHANGED <<procVars, nodeVars, portVars, storeVars, mutex, main, cmdMap,
                 srvVars, busId>>

\* The publishing nodes, and the end of the tick.
TickEnd ==
  /\ up /\ main = "tick_set" /\ todoMain = {}
  /\ main' = "idle" /\ cmdMap' = Zero /\ Release
  /\ UNCHANGED <<procVars, nodeVars, portVars, storeVars, todoMain, srvVars, busVars>>

-----------------------------------------------------------------------------
(* Service group *)

\* The head of every handler: refuse, or go on to the first step.
Begin(op, step) ==
  /\ up /\ srv = "idle" /\ trees /\ op \in Services
  /\ IF drive_active_
     THEN srv' = step /\ UNCHANGED reply
     ELSE reply' = [op |-> op, ok |-> FALSE] /\ UNCHANGED srv
  /\ UNCHANGED <<procVars, nodeVars, portVars, storeVars, mutex, mainVars, todoSrv, busVars>>

Connect == Begin("connect", "connect_lock")
Stop    == Begin("stop", "stop_lock")
Drive   == Begin("drive", "drive_update")
SetId   == Begin("set_id", "set_id_lock")

\* A handler with the mutex whose trees are still there starts on its tree.
SrvLock ==
  /\ up /\ srv \in SrvLocking /\ trees /\ Acquire("srv")
  /\ \/ srv = "connect_lock" /\ srv' = "connect_open" /\ UNCHANGED todoSrv
     \/ srv = "stop_lock" /\ srv' = "stop_zero" /\ todoSrv' = MotorsToStop
     \/ srv = "set_id_lock" /\ srv' = "set_id_stop" /\ UNCHANGED todoSrv
  /\ UNCHANGED <<procVars, nodeVars, portVars, storeVars, mainVars, reply, busVars>>

\* The response, the end of the handler and of its lock.
Respond(op, ok) ==
  /\ reply' = [op |-> op, ok |-> ok]
  /\ srv' = "idle" /\ todoSrv' = {} /\ Release

SrvRuns(step) == up /\ srv = step /\ trees

ConnectOpen ==
  /\ SrvRuns("connect_open")
  /\ \/ OpenPort /\ srv' = "connect_ping" /\ todoSrv' = MotorIds /\ UNCHANGED <<mutex, reply>>
     \/ OpenPortFails /\ Respond("connect", FALSE)
  /\ UNCHANGED <<procVars, nodeVars, storeVars, mainVars, busVars>>

\* ConnectAllMotors, one motor: ping, then set_mode, which a pinged motor accepts.
\* A failure leaves the port open and the flag set.
ConnectPing ==
  /\ SrvRuns("connect_ping")
  /\ \E id \in todoSrv, o \in Outcomes :
       /\ Ping(id, o)
       /\ IF Answers(id, o)
          THEN todoSrv' = todoSrv \ {id} /\ UNCHANGED <<srv, mutex, reply>>
          ELSE Respond("connect", FALSE)
  /\ UNCHANGED <<procVars, nodeVars, portVars, storeVars, mainVars, busId>>

ConnectDone ==
  /\ SrvRuns("connect_ping") /\ todoSrv = {}
  /\ Respond("connect", TRUE)
  /\ UNCHANGED <<procVars, nodeVars, portVars, storeVars, mainVars, busVars>>

StopZero ==
  /\ SrvRuns("stop_zero")
  /\ \E id \in todoSrv, o \in Outcomes :
       SetSpeed(id, 0, o) /\ todoSrv' = todoSrv \ {id}
  /\ UNCHANGED <<procVars, nodeVars, portVars, storeVars, mutex, mainVars, srv, reply, busId>>

StopClose ==
  /\ SrvRuns("stop_zero") /\ todoSrv = {}
  /\ ClosePort /\ Respond("stop", TRUE)
  /\ UNCHANGED <<procVars, nodeVars, storeVars, mainVars, busId>>

\* on_drive takes no uart_mutex_; after a cleanup drive_cmd_store_ is null.
DriveUpdate ==
  /\ up /\ srv = "drive_update" /\ objs
  /\ \E c \in Commands : cmd' = c
  /\ age' = 0
  /\ reply' = [op |-> "drive", ok |-> TRUE] /\ srv' = "idle"
  /\ UNCHANGED <<procVars, nodeVars, portVars, mutex, mainVars, todoSrv, busVars>>

\* set_id_tree: StopMotor on the target, whatever comes of it.
SetIdStop ==
  /\ SrvRuns("set_id_stop")
  /\ \E target \in Ids, o \in Outcomes : SetSpeed(target, 0, o)
  /\ srv' = "set_id_change"
  /\ UNCHANGED <<procVars, nodeVars, portVars, storeVars, mutex, mainVars, todoSrv,
                 reply, busId>>

\* SetMotorId: the broadcast, if the port is open.
SetIdChange ==
  /\ SrvRuns("set_id_change")
  /\ \/ /\ IsOpen
        /\ \E new \in Ids, o \in Outcomes : ChangeId(new, o) /\ todoSrv' = {new}
        /\ srv' = "set_id_confirm"
        /\ UNCHANGED <<mutex, reply>>
     \/ ~IsOpen /\ Respond("set_id", FALSE) /\ UNCHANGED busId
  /\ UNCHANGED <<procVars, nodeVars, portVars, storeVars, mainVars, motor>>

\* change_id's own ping of the new id and PingMotor's, as one outcome.
SetIdConfirm ==
  /\ SrvRuns("set_id_confirm")
  /\ \E id \in todoSrv, o \in Outcomes : Ping(id, o) /\ Respond("set_id", Answers(id, o))
  /\ UNCHANGED <<procVars, nodeVars, portVars, storeVars, mainVars, busId>>

\* A handler that finds the trees or the store gone.  One that has not started on
\* them throws or faults; one that was under way uses freed memory, and may fault
\* or, but for connect, which reads the blackboard afterwards, still come to an end.
Dangling ==
  /\ up
  /\ \/ srv \in SrvLocking /\ ~trees /\ MutexFree /\ ProcessEnds
     \/ srv = "drive_update" /\ ~objs /\ ProcessEnds
     \/ srv \in SrvHolding /\ ~trees /\ ProcessEnds
     \/ /\ srv \in SrvHolding \ {"connect_open", "connect_ping"} /\ ~trees
        /\ \E ok \in BOOLEAN :
             Respond(IF srv = "stop_zero" THEN "stop" ELSE "set_id", ok)
        /\ UNCHANGED <<procVars, nodeVars, portVars, storeVars, mainVars, busVars>>

-----------------------------------------------------------------------------
Init ==
  /\ up = TRUE /\ boots = 1 /\ sim_mode_ \in SimModes
  /\ lc = "UNCONFIGURED" /\ drive_active_ = FALSE /\ drive_timer_ = FALSE
  /\ objs = FALSE /\ trees = FALSE /\ registered = FALSE
  /\ fd = FALSE /\ connected = FALSE
  /\ cmd = Zero /\ age = CommandTimeout
  /\ mutex = "free"
  /\ main = "idle" /\ todoMain = {} /\ cmdMap = Zero
  /\ srv = "idle" /\ todoSrv = {} /\ reply = NoReply
  /\ motor = AtRest /\ busId = BusId0

MainLock == DeactivateLock \/ ShutdownLock \/ TickLock
MainRun == MainZero \/ MainClose \/ TickSet \/ TickEnd
SrvRun ==
  \/ ConnectOpen \/ ConnectPing \/ ConnectDone \/ StopZero \/ StopClose
  \/ DriveUpdate \/ SetIdStop \/ SetIdChange \/ SetIdConfirm
Transition ==
  \/ Configure \/ ConfigureFails \/ Activate \/ Deactivate \/ Cleanup \/ Shutdown
Request == Connect \/ Stop \/ Drive \/ SetId

Next ==
  \/ Transition \/ Tick \/ MainLock \/ MainRun
  \/ Request \/ SrvLock \/ SrvRun \/ Dangling
  \/ Elapse \/ Exit \/ Restart

Spec == Init /\ [][Next]_vars

\* The executor's threads keep running callbacks that are under way, the timer fires as
\* long as it exists, and a free mutex that somebody waits for is taken by some waiter.
\* Nobody has to call a service or a transition.
Fairness ==
  /\ WF_vars(Tick) /\ WF_vars(MainRun) /\ WF_vars(SrvRun)
  /\ WF_vars(MainLock \/ SrvLock \/ Dangling)

\* An assumption, not a fact of the code: std::mutex promises no order, yet a thread that
\* waits again and again gets the lock in the end.
LockGranted == SF_vars(MainLock) /\ SF_vars(SrvLock) /\ SF_vars(Dangling)

FairSpec == Spec /\ Fairness

GrantedSpec == FairSpec /\ LockGranted

-----------------------------------------------------------------------------
(* Safety *)

\* Every variable has its type; in particular what reaches a motor is within
\* the +-200 rpm of the speed loop, whatever int16 was asked for.
TypeOK ==
  /\ up \in BOOLEAN /\ boots \in 1 .. MaxBoots /\ sim_mode_ \in BOOLEAN
  /\ lc \in LcStates /\ drive_active_ \in BOOLEAN /\ drive_timer_ \in BOOLEAN
  /\ objs \in BOOLEAN /\ trees \in BOOLEAN /\ registered \in BOOLEAN
  /\ fd \in BOOLEAN /\ connected \in BOOLEAN
  /\ cmd \in [MotorIds -> Int16] /\ age \in 0 .. CommandTimeout
  /\ mutex \in {"free", "main", "srv"}
  /\ main \in MainSteps /\ todoMain \in SUBSET Ids /\ cmdMap \in [MotorIds -> Int16]
  /\ srv \in SrvSteps /\ todoSrv \in SUBSET Ids
  /\ reply \in [op : Handlers \cup {"none"}, ok : BOOLEAN]
  /\ motor \in [Units -> WireRpm] /\ busId \in [Units -> Ids]

\* The two threads never talk to the board at the same time, and whoever talks to it
\* owns uart_mutex_: a tick, a handler and a transition's stop tree exclude each other.
OneUartUser ==
  /\ (main \in MainHolding) <=> (mutex = "main")
  /\ (srv \in SrvHolding) <=> (mutex = "srv")

Starts(u) == motor'[u] # motor[u] /\ motor'[u] # 0

\* A motor is given a non-zero speed only while the node is ACTIVE, and on hardware only
\* once ~/connect has opened the port: no handler, no transition and no tick that was
\* waiting for the mutex moves a motor once deactivation or shutdown has begun, before
\* activation, or behind a port that was closed or lost meanwhile.
MotionOnlyWhileActive ==
  [][(\E u \in Units : Starts(u)) =>
       lc = "ACTIVE" /\ drive_active_ /\ mutex = "main" /\ (connected \/ sim_mode_)]_vars

Responds(op) == srv # "idle" /\ srv' = "idle" /\ reply'.op = op /\ reply'.ok

\* What ~/connect and ~/stop answer is so at the moment they answer: after a
\* successful connect the port is open and recorded, after a stop it is neither.
RepliesMatchPort ==
  [][/\ Responds("connect") => connected' /\ (sim_mode_ \/ fd')
     /\ Responds("stop") => ~connected' /\ ~fd']_vars

\* (reliable bus) While the port is closed no motor turns: every way of closing it
\* zeroes the motors first, and none is restarted behind a closed port.
ClosedMeansStopped == up /\ ~IsOpen => motor = AtRest

\* (reliable bus) Outside ACTIVE and the two transitions that are stopping them, the
\* motors are at rest, whatever handler was in flight when the transition began.
RestUnlessActive ==
  up /\ lc \in {"UNCONFIGURED", "INACTIVE", "FINALIZED"} => motor = AtRest

\* (one motor wired, no stale echoes) A set_motor_id that reports success left the motor
\* stopped and answering to the id that was asked for.
SetIdReplyTrue ==
  [][\A id \in todoSrv :
       Responds("set_id") => \E u \in Units : busId'[u] = id /\ motor'[u] = 0]_vars

\* Where the two groups are agrees with the lifecycle, the port and the objects, even
\* across a cleanup that runs under a handler: the timer exists only while ACTIVE, a tick
\* past its test keeps the node ACTIVE, without trees there is no port, and a connect that
\* is pinging has a recorded, open port.
ControlInv ==
  /\ drive_timer_ => lc = "ACTIVE"
  /\ lc = "ACTIVE" => drive_active_
  /\ main \in {"tick_lock", "tick_set"} => lc = "ACTIVE"
  /\ (main \in {"deactivate_lock", "deactivate_zero"}) <=> (lc = "DEACTIVATING")
  /\ (main \in {"shutdown_lock", "shutdown_zero"}) <=> (lc = "SHUTTINGDOWN")
  /\ ~registered => srv = "idle" /\ ~trees
  /\ lc = "UNCONFIGURED" => ~trees
  /\ lc \in {"INACTIVE", "ACTIVE", "DEACTIVATING"} => trees
  /\ trees => objs
  /\ ~trees => ~fd /\ ~connected
  /\ fd => connected /\ ~sim_mode_
  /\ srv = "connect_ping" /\ trees => connected /\ IsOpen

\* (reliable bus) What makes a stop complete: a stop tree, of a transition or of ~/stop, has
\* zeroed every motor it no longer has to do, and nothing restarts one meanwhile.
RestInv ==
  up =>
    /\ busId = BusId0 /\ srv \notin {"set_id_lock", "set_id_stop", "set_id_change", "set_id_confirm"}
    /\ ~IsOpen \/ ~trees => motor = AtRest
    /\ lc \in {"UNCONFIGURED", "INACTIVE", "FINALIZED"} => motor = AtRest
    /\ main \in {"deactivate_zero", "shutdown_zero"} =>
         \A u \in Units : busId[u] \notin todoMain => motor[u] = 0
    /\ srv = "stop_zero" => \A u \in Units : busId[u] \notin todoSrv => motor[u] = 0

\* Storing a drive command is thread-safe: no interleaving of on_drive with the other
\* group makes it touch a store that is gone.
DriveUpdateSafe == up /\ srv = "drive_update" => objs

-----------------------------------------------------------------------------
(* Liveness *)

\* (reliable bus, waiters granted the lock) The dead man: once no drive request has arrived
\* for the command timeout, every motor comes to rest, unless a new request arrives first.
DeadMan == (age = CommandTimeout) ~> (age < CommandTimeout \/ motor = AtRest \/ ~up)

\* Whoever has uart_mutex_ gives it back, and two busy callback groups do not hold each
\* other up: every tick, stop tree and handler that has the lock, and a drive request, which
\* needs none, comes to an end whatever frames are lost, whether or not the port opens, and
\* with a cleanup under it; and when both groups are busy one of them becomes idle.  How
\* long a waiter is passed over is not said: std::mutex leaves that open.
MutexReleased ==
  /\ (mutex # "free") ~> (mutex = "free")
  /\ (main \in MainHolding) ~> (main = "idle")
  /\ (srv \in SrvHolding \cup {"drive_update"}) ~> (srv = "idle")
  /\ (main # "idle" /\ srv # "idle") ~> (main = "idle" \/ srv = "idle")

\* With the port closed the motors come to rest.
ClosedPortStopsMotors == (up /\ ~IsOpen) ~> (motor = AtRest \/ IsOpen)
-----------------------------------------------------------------------------
(* The promise to a client of ~/drive *)

Mounting(id) == IF id \in MotorIds THEN Sign[id] ELSE 1

\* A request's terms are those of the feedback: a motor's own direction times its sign.
Service == INSTANCE DriveService WITH
  Motors <- MotorIds, Obeys <- BusId0, Requests <- Commands,
  Limit <- 200, Timeout <- CommandTimeout,
  request <- cmd, applied <- cmdMap,
  turning <- [u \in Units |-> ReportedRpm(motor[u], Mounting(BusId0[u]))]

\* (no id changes, and no request for the lowest int16) Whatever the two callback groups do,
\* whichever frames are lost and however often the process restarts, all that a client of
\* ~/drive can see of the node is what DriveService promises.
ImplementsService == Service!Spec
=============================================================================
