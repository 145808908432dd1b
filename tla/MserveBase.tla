----------------------------- MODULE MserveBase -----------------------------
(***************************************************************************)
(* BaseNode, and what its requests do at the drivechain.                   *)
(*                                                                         *)
(* mserve_base turns the last /cmd_vel into a request to                   *)
(* /mserve_drivechain/drive on every tick, fire and forget.  One thread    *)
(* runs all of its callbacks, so each is one action.  The drivechain is    *)
(* reduced to what a client of ~/drive sees of it: the last command, its   *)
(* age, whether its ticks reach the bus, and the wheels that they set;     *)
(* Drivechain models the rest.  Both ends have a dead man of their own,    *)
(* and requests wait in between.                                           *)
(*                                                                         *)
(* Linear and angular speeds are in the motor rpm that they turn the       *)
(* wheels at, which stands for the division by the geometry.               *)
(***************************************************************************)
EXTENDS Integers, Sequences, SequencesExt

CONSTANTS
  Twists,          \* what /cmd_vel carries: records with linear and angular
  Limits,          \* what limits.* may be set to, a record of the same fields
  CmdVelTimeout,   \* drive.cmd_vel_timeout_ms, in units of Elapse
  CommandTimeout,  \* drive.command_timeout_ms of the drivechain
  MaxDelay,        \* how long a request may wait to be served
  MaxQueue         \* bound on requests under way

ASSUME BaseAssumption ==
  /\ Twists \subseteq [linear : Int, angular : Int]
  /\ Limits \subseteq [linear : Nat, angular : Nat] /\ Limits # {}
  /\ CmdVelTimeout \in Nat \ {0} /\ CommandTimeout \in Nat \ {0}
  /\ MaxDelay \in Nat /\ MaxQueue \in Nat \ {0}

VARIABLES
  lc, drive_active_, drive_timer_,
  registered,       \* factory_ already holds the node types
  objs,             \* blackboard_, cmd_vel_store_, drive_client_ and the subscription
  params, limits,   \* limits.* as declared, and as the blackboard has them
  twist, age,       \* cmd_vel_store_; age CmdVelTimeout stands for stale or unset
  queue,            \* requests under way, in the order they were sent
  service,          \* whether ~/drive exists at the drivechain
  ticking,          \* the drivechain is ACTIVE with an open port: its ticks use the bus
  command,          \* the drivechain's store: wheels, its age, and the twist's
  wheels            \* what the drivechain last told the two motors

nodeVars  == <<lc, drive_active_, drive_timer_, registered, objs>>
paramVars == <<params, limits>>
cmdVars   == <<twist, age>>
chainVars == <<service, ticking, command, wheels>>
vars == <<nodeVars, paramVars, cmdVars, queue, chainVars>>

NoTwist == [linear |-> 0, angular |-> 0]
Zero == [left |-> 0, right |-> 0]

\* The oldest a twist can be while something is still done with it.
Horizon == CmdVelTimeout + MaxDelay + CommandTimeout

NoCommand == [wheels |-> Zero, age |-> CommandTimeout, origin |-> Horizon]

-----------------------------------------------------------------------------
(* drive_tree: from a twist to wheels *)

\* std::clamp; the descriptor ranges of limits.* keep the bounds from crossing.
Clamp(x, low, high) == IF x < low THEN low ELSE IF x > high THEN high ELSE x

\* (mutant) the twist is used however old it is
AnyTwist == twist

\* ApplyCmdVelSafety
SafeTwist ==
  IF age < CmdVelTimeout
  THEN [linear  |-> Clamp(twist.linear, -limits.linear, limits.linear),
        angular |-> Clamp(twist.angular, -limits.angular, limits.angular)]
  ELSE NoTwist

\* (mutant) no limit on the reverse side
ClampTop(rpm) == IF rpm > 200 THEN 200 ELSE rpm

\* kMotorRpmMin and kMotorRpmMax
ClampRpm(rpm) == Clamp(rpm, -200, 200)

\* ComputeKinematics
WheelCommands(t) == [left  |-> ClampRpm(t.linear - t.angular),
                     right |-> ClampRpm(t.linear + t.angular)]

\* CallDriveService: sent if the service is there, and forgotten.  origin is the age of
\* the twist it was made from.
Send(w, origin) ==
  queue' = IF service THEN Append(queue, [wheels |-> w, wait |-> 0, origin |-> origin])
                      ELSE queue

\* send_zero_drive
SendZero == IF objs THEN Send(Zero, Horizon) ELSE UNCHANGED queue

Room == Len(queue) < MaxQueue

-----------------------------------------------------------------------------
(* BaseNode *)

\* Objects that on_configure makes, with load_params, before the node types.
FreshObjects ==
  /\ objs' = TRUE /\ registered' = TRUE
  /\ limits' = params
  /\ twist' = NoTwist /\ age' = CmdVelTimeout

Configure ==
  /\ lc = "UNCONFIGURED" /\ ~registered
  /\ FreshObjects /\ lc' = "INACTIVE"
  /\ UNCHANGED <<drive_active_, drive_timer_, params, queue, chainVars>>

\* registerNodeType throws the second time, with the objects and the subscription made.
ConfigureFails ==
  /\ lc = "UNCONFIGURED" /\ registered
  /\ FreshObjects
  /\ UNCHANGED <<lc, drive_active_, drive_timer_, params, queue, chainVars>>

Activate ==
  /\ lc = "INACTIVE"
  /\ lc' = "ACTIVE" /\ drive_active_' = TRUE /\ drive_timer_' = TRUE
  /\ UNCHANGED <<registered, objs, paramVars, cmdVars, queue, chainVars>>

\* (mutant) a transition that leaves the timer running
KeepTimer == UNCHANGED drive_timer_

CancelTimer == drive_timer_' = FALSE

Deactivate ==
  /\ lc = "ACTIVE" /\ Room
  /\ lc' = "INACTIVE" /\ drive_active_' = FALSE /\ CancelTimer
  /\ SendZero
  /\ UNCHANGED <<registered, objs, paramVars, cmdVars, chainVars>>

Cleanup ==
  /\ lc = "INACTIVE"
  /\ lc' = "UNCONFIGURED" /\ CancelTimer
  /\ objs' = FALSE
  /\ twist' = NoTwist /\ age' = CmdVelTimeout
  /\ UNCHANGED <<drive_active_, registered, paramVars, queue, chainVars>>

\* drive_active_ is left as it is.
Shutdown ==
  /\ lc \in {"UNCONFIGURED", "INACTIVE", "ACTIVE"} /\ Room
  /\ lc' = "FINALIZED" /\ CancelTimer
  /\ SendZero
  /\ UNCHANGED <<drive_active_, registered, objs, paramVars, cmdVars, chainVars>>

\* The process ends in any state, without a callback: Ctrl+C or a fault.
Ends ==
  /\ lc # "ENDED"
  /\ lc' = "ENDED" /\ drive_active_' = FALSE /\ drive_timer_' = FALSE
  /\ registered' = FALSE /\ objs' = FALSE /\ limits' = params
  /\ twist' = NoTwist /\ age' = CmdVelTimeout
  /\ UNCHANGED <<params, queue, chainVars>>

\* on_cmd_vel; the subscription exists from the configuration on, in any state.
OnCmdVel ==
  /\ objs
  /\ twist' \in Twists /\ age' = 0
  /\ UNCHANGED <<nodeVars, paramVars, queue, chainVars>>

\* tick_drive_tree, with what the tree publishes left out.
Tick ==
  /\ drive_timer_ /\ drive_active_ /\ Room
  /\ Send(WheelCommands(SafeTwist), IF age < CmdVelTimeout THEN age ELSE Horizon)
  /\ UNCHANGED <<nodeVars, paramVars, cmdVars, chainVars>>

\* on_parameters: a hot parameter is put on the blackboard as soon as it is met; if one
\* after it in the same request is locked, the request is refused and stays half applied.
OnParameters ==
  /\ lc # "ENDED"
  /\ \E l \in Limits, refused \in BOOLEAN :
       /\ limits' = IF objs THEN l ELSE limits
       /\ params' = IF refused THEN params ELSE l
       /\ refused => lc # "UNCONFIGURED"
  /\ UNCHANGED <<nodeVars, cmdVars, queue, chainVars>>

-----------------------------------------------------------------------------
(* The drivechain, as its client sees it *)

\* on_drive: the oldest request is stored, or refused or lost.
Serve ==
  /\ service /\ queue # <<>>
  /\ queue' = Tail(queue)
  /\ \/ command' = [wheels |-> Head(queue).wheels, age |-> 0, origin |-> Head(queue).origin]
     \/ UNCHANGED command
  /\ UNCHANGED <<nodeVars, paramVars, cmdVars, service, ticking, wheels>>

\* (mutant) the command is used however old it is
AnyCommand == command.wheels

\* SetAllMotors' choice
FreshCommand == IF command.age < CommandTimeout THEN command.wheels ELSE Zero

\* Frames to the two wheels, each of which may be lost.
Reaches(w) == wheels' \in [left : {wheels.left, w.left}, right : {wheels.right, w.right}]

\* The drivechain's drive tick.
SetWheels ==
  /\ ticking
  /\ Reaches(FreshCommand)
  /\ UNCHANGED <<nodeVars, paramVars, cmdVars, queue, service, ticking, command>>

\* The drivechain is activated or deactivated, connected or stopped, or loses its port:
\* the stop frames that go with it, if any, may be lost.
PortChanges ==
  /\ service
  /\ ticking' \in BOOLEAN
  /\ Reaches(Zero)
  /\ UNCHANGED <<nodeVars, paramVars, cmdVars, queue, service, command>>

\* The drivechain is cleaned up, or its process ends, with a stop of the wheels before it,
\* with one of which frames are lost, or with none.
ServiceDown ==
  /\ service
  /\ service' = FALSE /\ ticking' = FALSE
  /\ command' = NoCommand /\ Reaches(Zero)
  /\ queue' = <<>>
  /\ UNCHANGED <<nodeVars, paramVars, cmdVars>>

ServiceUp ==
  /\ ~service
  /\ service' = TRUE
  /\ UNCHANGED <<nodeVars, paramVars, cmdVars, queue, ticking, command, wheels>>

Older(n, bound) == IF n < bound THEN n + 1 ELSE n

Aged(request) ==
  [request EXCEPT !.wait = request.wait + 1, !.origin = Older(request.origin, Horizon)]

\* Time passes for everyone, as long as no request is left waiting beyond MaxDelay.
Elapse ==
  /\ \A i \in DOMAIN queue : queue[i].wait < MaxDelay
  /\ age' = Older(age, CmdVelTimeout)
  /\ queue' = [i \in DOMAIN queue |-> Aged(queue[i])]
  /\ command' = [command EXCEPT !.age = Older(command.age, CommandTimeout),
                                !.origin = Older(command.origin, Horizon)]
  /\ UNCHANGED <<nodeVars, paramVars, twist, service, ticking, wheels>>

-----------------------------------------------------------------------------
Init ==
  /\ lc = "UNCONFIGURED" /\ drive_active_ = FALSE /\ drive_timer_ = FALSE
  /\ registered = FALSE /\ objs = FALSE
  /\ params \in Limits /\ limits = params
  /\ twist = NoTwist /\ age = CmdVelTimeout
  /\ queue = <<>>
  /\ service \in BOOLEAN /\ ticking = FALSE
  /\ command = NoCommand /\ wheels = Zero

Transition ==
  Configure \/ ConfigureFails \/ Activate \/ Deactivate \/ Cleanup \/ Shutdown \/ Ends

Next ==
  \/ Transition \/ OnCmdVel \/ Tick \/ OnParameters
  \/ Serve \/ SetWheels \/ PortChanges \/ ServiceDown \/ ServiceUp \/ Elapse

Spec == Init /\ [][Next]_vars

\* Timers fire as long as they exist, the drivechain serves what was sent, and time
\* passes.  Nobody has to publish a twist, call a transition, or start, connect or keep up
\* the drivechain.  An assumption about the bus: as long as the drivechain ticks, one of
\* its ticks reaches both wheels in the end.
Fairness ==
  /\ WF_vars(Tick) /\ WF_vars(Serve) /\ WF_vars(Elapse)
  /\ WF_vars(SetWheels /\ wheels' = FreshCommand)

FairSpec == Spec /\ Fairness

-----------------------------------------------------------------------------
(* Properties *)

Rpm == -200 .. 200
Wheels == [left : Rpm, right : Rpm]
Request == [wheels : Wheels, wait : 0 .. MaxDelay, origin : 0 .. Horizon]

\* Every variable has its type; what a request asks for is within the motors' range
\* whatever /cmd_vel said.
TypeOK ==
  /\ lc \in {"UNCONFIGURED", "INACTIVE", "ACTIVE", "FINALIZED", "ENDED"}
  /\ drive_active_ \in BOOLEAN /\ drive_timer_ \in BOOLEAN
  /\ registered \in BOOLEAN /\ objs \in BOOLEAN
  /\ params \in Limits /\ limits \in Limits
  /\ twist \in Twists \cup {NoTwist} /\ age \in 0 .. CmdVelTimeout
  /\ queue \in Seq(Request) /\ Len(queue) <= MaxQueue
  /\ service \in BOOLEAN /\ ticking \in BOOLEAN
  /\ command \in [wheels : Wheels, age : 0 .. CommandTimeout, origin : 0 .. Horizon]
  /\ wheels \in Wheels

Sends == Len(queue') > Len(queue)

\* A base that is not ACTIVE asks for nothing but zero, although a shutdown leaves
\* drive_active_ set and twists keep arriving: the zero request of a deactivation or a
\* shutdown is never followed by motion.
OnlyZeroUnlessActive == [][Sends /\ lc' # "ACTIVE" => Last(queue').wheels = Zero]_vars

\* Staleness adds up along the way but is bounded: a wheel is set in motion only for a
\* twist that was fresh when its request was sent, waited no longer than a request may, and
\* was then a fresh command at the drivechain.
NoStaleMotion ==
  [][(\E side \in {"left", "right"} :
        wheels'[side] # wheels[side] /\ wheels'[side] # 0) =>
       command.origin <= (CmdVelTimeout - 1) + MaxDelay + (CommandTimeout - 1)]_vars

\* (as long as the drivechain's ticks use the bus) When /cmd_vel falls silent the wheels come
\* to rest or it speaks again: also when the base ends, when requests are refused or lost
\* or still under way, and when a stale command is still in the drivechain's store.  A
\* drivechain that is not ACTIVE, has lost its port or is gone promises nothing about
\* wheels that its stop frames did not reach.
DeadMan == (age = CmdVelTimeout) ~> (age < CmdVelTimeout \/ wheels = Zero \/ ~ticking)

\* (as long as the drivechain's ticks use the bus) However the base leaves ACTIVE, whether or
\* not its zero request arrives, and whatever is still published on /cmd_vel, the wheels
\* come to rest unless it is activated again.
LeavingActiveRests == (lc # "ACTIVE") ~> (lc = "ACTIVE" \/ wheels = Zero \/ ~ticking)
=============================================================================
