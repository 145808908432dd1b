-------------------------- MODULE MserveBaseProofs --------------------------
(***************************************************************************)
(* Safety of the arbiter, for any twists, limits, timeouts and delay, and  *)
(* any number of requests under way.                                       *)
(***************************************************************************)
EXTENDS MserveBase, SequenceTheorems, TLAPS

-----------------------------------------------------------------------------
(* The wheels of a request *)

\* Whatever the twist and its limits, the wheels are in range.
LEMMA ClampRpmRange == \A rpm \in Int : ClampRpm(rpm) \in Rpm
BY DEF ClampRpm, Clamp, Rpm

LEMMA SafeTwistType ==
  ASSUME TypeOK
  PROVE  SafeTwist.linear \in Int /\ SafeTwist.angular \in Int
<1>1. twist \in [linear : Int, angular : Int] /\ limits \in [linear : Int, angular : Int]
  BY BaseAssumption DEF TypeOK, NoTwist
<1>2. twist.linear \in Int /\ twist.angular \in Int /\ limits.linear \in Int /\ limits.angular \in Int
  BY <1>1
<1>3. \A x, y \in Int : Clamp(x, -y, y) \in Int
  BY DEF Clamp
<1>4. CASE age < CmdVelTimeout
  BY <1>2, <1>3, <1>4 DEF SafeTwist
<1>5. CASE ~(age < CmdVelTimeout)
  BY <1>5 DEF SafeTwist, NoTwist
<1> QED
  BY <1>4, <1>5

LEMMA WheelCommandsType ==
  ASSUME TypeOK
  PROVE  WheelCommands(SafeTwist) \in Wheels
<1>1. SafeTwist.linear \in Int /\ SafeTwist.angular \in Int
  BY SafeTwistType
<1> DEFINE left == SafeTwist.linear - SafeTwist.angular
           right == SafeTwist.linear + SafeTwist.angular
<1>2. left \in Int /\ right \in Int
  BY <1>1
<1>3. ClampRpm(left) \in Rpm /\ ClampRpm(right) \in Rpm
  BY <1>2, ClampRpmRange
<1> QED
  BY <1>3 DEF WheelCommands, Wheels

LEMMA ZeroType == Zero \in Wheels
BY DEF Zero, Wheels, Rpm

LEMMA StaleIsZero == age >= CmdVelTimeout /\ age \in Nat => WheelCommands(SafeTwist) = Zero
BY BaseAssumption DEF SafeTwist, NoTwist, WheelCommands, ClampRpm, Clamp, Zero

LEMMA Times ==
  /\ CmdVelTimeout \in Nat \ {0} /\ CommandTimeout \in Nat \ {0} /\ MaxDelay \in Nat
  /\ MaxQueue \in Nat \ {0} /\ Horizon \in Nat /\ CmdVelTimeout <= Horizon
BY BaseAssumption DEF Horizon

LEMMA NoCommandType ==
  NoCommand \in [wheels : Wheels, age : 0 .. CommandTimeout, origin : 0 .. Horizon]
BY ZeroType, Times DEF NoCommand

-----------------------------------------------------------------------------
(* The queue *)

\* What frames do to the wheels.
LEMMA ReachesType ==
  ASSUME TypeOK, NEW w \in Wheels, Reaches(w)
  PROVE  wheels' \in Wheels
BY DEF Reaches, Wheels, TypeOK

\* What a request to send does to the queue.
LEMMA SendType ==
  ASSUME TypeOK, Room, NEW w \in Wheels, NEW origin \in 0 .. Horizon, Send(w, origin)
  PROVE  queue' \in Seq(Request) /\ Len(queue') <= MaxQueue
<1>1. [wheels |-> w, wait |-> 0, origin |-> origin] \in Request
  BY Times DEF Request
<1> QED
  BY <1>1, Times, AppendProperties DEF TypeOK, Send, Room

LEMMA SendZeroType ==
  ASSUME TypeOK, Room, SendZero
  PROVE  queue' \in Seq(Request) /\ Len(queue') <= MaxQueue
<1>1. Horizon \in 0 .. Horizon
  BY Times
<1> QED
  BY <1>1, ZeroType, SendType DEF SendZero, TypeOK

LEMMA OlderType == \A bound \in Nat : \A n \in 0 .. bound : Older(n, bound) \in 0 .. bound
BY DEF Older

LEMMA OlderBound == \A n, bound \in Nat : Older(n, bound) \in Nat /\ Older(n, bound) <= n + 1
BY DEF Older

LEMMA AgedType ==
  ASSUME NEW request \in Request, request.wait < MaxDelay
  PROVE  /\ Aged(request) \in Request
         /\ Aged(request).wheels = request.wheels
         /\ Aged(request).wait = request.wait + 1
         /\ Aged(request).origin = Older(request.origin, Horizon)
<1>1. request.wait + 1 \in 0 .. MaxDelay
  BY Times DEF Request
<1>2. Older(request.origin, Horizon) \in 0 .. Horizon
  BY OlderType, Times DEF Request
<1> QED
  BY <1>1, <1>2 DEF Aged, Request

\* Time leaves the requests in the queue, each a step older.
LEMMA ElapseQueue ==
  ASSUME TypeOK, Elapse
  PROVE  /\ queue' \in Seq(Request) /\ Len(queue') = Len(queue)
         /\ \A i \in 1 .. Len(queue) : queue[i] \in Request /\ queue'[i] = Aged(queue[i])
<1>1. DOMAIN queue = 1 .. Len(queue) /\ Len(queue) \in Nat
  BY DEF TypeOK
<1>2. \A i \in 1 .. Len(queue) : queue[i] \in Request /\ queue[i].wait < MaxDelay
  BY <1>1 DEF TypeOK, Elapse
<1>3. queue' = [i \in 1 .. Len(queue) |-> Aged(queue[i])]
  BY <1>1 DEF Elapse
<1>4. \A i \in 1 .. Len(queue) : Aged(queue[i]) \in Request
  BY <1>2, AgedType
<1>5. queue' \in [1 .. Len(queue) -> Request]
  BY <1>3, <1>4
<1>6. queue' \in Seq(Request) /\ Len(queue') = Len(queue)
  BY <1>1, <1>5, IsASeq
<1> QED
  BY <1>2, <1>3, <1>6

-----------------------------------------------------------------------------
(* Type correctness *)

LEMMA TypeInit == Init => TypeOK
<1> SUFFICES ASSUME Init PROVE TypeOK
  OBVIOUS
<1>1. queue \in Seq(Request) /\ Len(queue) <= MaxQueue
  BY Times DEF Init
<1>2. command \in [wheels : Wheels, age : 0 .. CommandTimeout, origin : 0 .. Horizon]
  BY NoCommandType DEF Init
<1>3. wheels \in Wheels
  BY ZeroType DEF Init
<1>4. age \in 0 .. CmdVelTimeout
  BY BaseAssumption DEF Init
<1> QED
  BY <1>1, <1>2, <1>3, <1>4 DEF Init, TypeOK

\* What the base's callbacks change besides the queue.
LEMMA NodeTypes ==
  ASSUME TypeOK, Transition \/ OnCmdVel \/ Tick \/ OnParameters
  PROVE  /\ lc' \in {"UNCONFIGURED", "INACTIVE", "ACTIVE", "FINALIZED", "ENDED"}
         /\ drive_active_' \in BOOLEAN /\ drive_timer_' \in BOOLEAN
         /\ registered' \in BOOLEAN /\ objs' \in BOOLEAN
         /\ params' \in Limits /\ limits' \in Limits
         /\ twist' \in Twists \cup {NoTwist} /\ age' \in 0 .. CmdVelTimeout
         /\ UNCHANGED chainVars
<1> USE Times DEF TypeOK, FreshObjects, CancelTimer, nodeVars, paramVars, cmdVars
<1>1. CASE Configure
  BY <1>1 DEF Configure
<1>2. CASE ConfigureFails
  BY <1>2 DEF ConfigureFails
<1>3. CASE Activate
  BY <1>3 DEF Activate
<1>4. CASE Deactivate \/ Shutdown
  BY <1>4 DEF Deactivate, Shutdown
<1>5. CASE Cleanup
  <2>1. lc' = "UNCONFIGURED" /\ drive_timer_' = FALSE /\ objs' = FALSE /\ UNCHANGED chainVars
    BY <1>5 DEF Cleanup
  <2>2. params' \in Limits /\ limits' \in Limits /\ twist' = NoTwist
        /\ age' \in 0 .. CmdVelTimeout
    BY <1>5 DEF Cleanup
  <2>3. drive_active_' = drive_active_ /\ registered' = registered
    BY <1>5 DEF Cleanup
  <2> QED
    BY <2>1, <2>2, <2>3, Zenon
<1>6. CASE Ends
  <2>1. lc' = "ENDED" /\ drive_active_' = FALSE /\ drive_timer_' = FALSE
        /\ registered' = FALSE /\ objs' = FALSE /\ UNCHANGED chainVars
    BY <1>6 DEF Ends
  <2>2. params' \in Limits /\ limits' \in Limits /\ twist' = NoTwist
        /\ age' \in 0 .. CmdVelTimeout
    BY <1>6 DEF Ends
  <2> QED
    BY <2>1, <2>2, Zenon
<1>7. CASE OnCmdVel \/ Tick
  BY <1>7 DEF OnCmdVel, Tick
<1>8. CASE OnParameters
  BY <1>8 DEF OnParameters
<1> QED
  BY <1>1, <1>2, <1>3, <1>4, <1>5, <1>6, <1>7, <1>8 DEF Transition

\* What they do to it.
LEMMA NodeQueue ==
  ASSUME TypeOK, Transition \/ OnCmdVel \/ Tick \/ OnParameters
  PROVE  queue' \in Seq(Request) /\ Len(queue') <= MaxQueue
<1>1. CASE Deactivate \/ Shutdown
  BY <1>1, SendZeroType DEF Deactivate, Shutdown
<1>2. CASE Tick
  <2>1. (IF age < CmdVelTimeout THEN age ELSE Horizon) \in 0 .. Horizon
    BY Times DEF TypeOK
  <2> QED
    BY <1>2, <2>1, SendType, WheelCommandsType DEF Tick
<1>3. CASE UNCHANGED queue
  BY <1>3 DEF TypeOK
<1> QED
  BY <1>1, <1>2, <1>3
  DEF Transition, Configure, ConfigureFails, Activate, Cleanup, Ends, OnCmdVel, OnParameters

LEMMA TypeStep == TypeOK /\ [Next]_vars => TypeOK'
<1> SUFFICES ASSUME TypeOK, [Next]_vars PROVE TypeOK'
  OBVIOUS
<1> USE DEF nodeVars, paramVars, cmdVars, chainVars
<1>1. CASE Transition \/ OnCmdVel \/ Tick \/ OnParameters
  BY <1>1, NodeTypes, NodeQueue DEF TypeOK
<1>2. CASE Serve
  <2>1. queue' \in Seq(Request) /\ Len(queue') <= MaxQueue /\ Head(queue) \in Request
    BY <1>2, HeadTailProperties, Times DEF Serve, TypeOK
  <2>2. command' \in [wheels : Wheels, age : 0 .. CommandTimeout, origin : 0 .. Horizon]
    BY <1>2, <2>1, Times DEF Serve, TypeOK, Request
  <2> QED
    BY <1>2, <2>1, <2>2 DEF Serve, TypeOK
<1>3. CASE SetWheels
  <2>1. FreshCommand \in Wheels
    BY ZeroType DEF FreshCommand, TypeOK
  <2>2. wheels' \in Wheels
    BY <1>3, <2>1, ReachesType DEF SetWheels
  <2> QED
    BY <1>3, <2>2 DEF SetWheels, TypeOK
<1>4. CASE ServiceDown
  <2>1. command' \in [wheels : Wheels, age : 0 .. CommandTimeout, origin : 0 .. Horizon]
    BY <1>4, NoCommandType DEF ServiceDown
  <2>2. wheels' \in Wheels
    BY <1>4, ZeroType, ReachesType DEF ServiceDown
  <2>3. queue' \in Seq(Request) /\ Len(queue') <= MaxQueue
    BY <1>4, Times DEF ServiceDown
  <2> QED
    BY <1>4, <2>1, <2>2, <2>3 DEF ServiceDown, TypeOK
<1>8. CASE PortChanges
  <2>1. wheels' \in Wheels
    BY <1>8, ZeroType, ReachesType DEF PortChanges
  <2> QED
    BY <1>8, <2>1 DEF PortChanges, TypeOK
<1>5. CASE ServiceUp
  BY <1>5 DEF ServiceUp, TypeOK
<1>6. CASE Elapse
  <2>1. queue' \in Seq(Request) /\ Len(queue') <= MaxQueue
    BY <1>6, ElapseQueue DEF TypeOK
  <2>2. age' \in 0 .. CmdVelTimeout
    BY <1>6, OlderType, Times DEF Elapse, TypeOK
  <2>3. Older(command.age, CommandTimeout) \in 0 .. CommandTimeout
        /\ Older(command.origin, Horizon) \in 0 .. Horizon
    BY OlderType, Times DEF TypeOK
  <2>4. command' \in [wheels : Wheels, age : 0 .. CommandTimeout, origin : 0 .. Horizon]
    BY <1>6, <2>3 DEF Elapse, TypeOK
  <2> QED
    BY <1>6, <2>1, <2>2, <2>4 DEF Elapse, TypeOK
<1>7. CASE UNCHANGED vars
  BY <1>7 DEF vars, TypeOK
<1> QED
  BY <1>1, <1>2, <1>3, <1>4, <1>5, <1>6, <1>7, <1>8 DEF Next

\* Every variable has its type for all constants: whatever is published on /cmd_vel and set as
\* limits, what is requested of the wheels is within the motors' range.
THEOREM TypeCorrect == Spec => []TypeOK
BY TypeInit, TypeStep, PTL DEF Spec

-----------------------------------------------------------------------------
(* Zero unless ACTIVE *)

\* on_shutdown leaves drive_active_ set: only the timer tells that the node is ACTIVE.
TimerInv == drive_timer_ => lc = "ACTIVE"

LEMMA TimerStep == TimerInv /\ [Next]_vars => TimerInv'
BY DEF TimerInv, Next, Transition, Configure, ConfigureFails, Activate, Deactivate, Cleanup,
  Shutdown, Ends, CancelTimer, OnCmdVel, Tick, OnParameters, Serve, SetWheels, PortChanges, ServiceDown,
  ServiceUp, Elapse, vars, nodeVars

LEMMA LastSent ==
  ASSUME TypeOK, NEW w \in Wheels, NEW origin, Send(w, origin), Len(queue') > Len(queue)
  PROVE  Last(queue').wheels = w
BY DEF TypeOK, Send, Last

LEMMA SendsStep ==
  ASSUME TypeOK, TimerInv, [Next]_vars, Sends, lc' # "ACTIVE"
  PROVE  Last(queue').wheels = Zero
<1> USE DEF Sends
<1>1. CASE Deactivate \/ Shutdown
  <2>1. SendZero
    BY <1>1 DEF Deactivate, Shutdown
  <2>2. CASE objs
    BY <2>1, <2>2, LastSent, ZeroType DEF SendZero
  <2>3. CASE ~objs
    BY <2>1, <2>3 DEF SendZero, TypeOK
  <2> QED
    BY <2>2, <2>3
<1>2. CASE Tick
  BY <1>2 DEF Tick, TimerInv, nodeVars
<1>3. CASE Serve
  BY <1>3, HeadTailProperties DEF Serve, TypeOK
<1>4. CASE ServiceDown
  BY <1>4 DEF ServiceDown, TypeOK
<1>5. CASE Elapse
  BY <1>5, ElapseQueue DEF TypeOK
<1>6. CASE UNCHANGED queue
  BY <1>6 DEF TypeOK
<1> QED
  BY <1>1, <1>2, <1>3, <1>4, <1>5, <1>6
  DEF Next, Transition, Configure, ConfigureFails, Activate, Cleanup, Ends, OnCmdVel,
      OnParameters, SetWheels, PortChanges, ServiceUp, vars

\* A base that is not ACTIVE asks for nothing but zero, for all constants, although its flag
\* stays set after a shutdown and twists keep arriving.
THEOREM ZeroUnlessActive == Spec => OnlyZeroUnlessActive
<1>1. Init => TimerInv
  BY DEF Init, TimerInv
<1> QED
  BY <1>1, TypeCorrect, TimerStep, SendsStep, PTL DEF Spec, OnlyZeroUnlessActive

-----------------------------------------------------------------------------
(* How old a twist may be that still moves a wheel *)

\* The age adds up on the way: up to the timeout at the base, then what a request has
\* waited, then the age of the command.  Zero requests are not about any twist.
QueueInv ==
  \A i \in 1 .. Len(queue) :
    queue[i].wheels # Zero => queue[i].origin <= CmdVelTimeout - 1 + queue[i].wait

CommandInv ==
  command.wheels # Zero /\ command.age < CommandTimeout =>
    command.origin <= CmdVelTimeout - 1 + MaxDelay + command.age

LEMMA NoCommandInv == NoCommand.wheels = Zero
BY DEF NoCommand

LEMMA SendKeepsAges ==
  ASSUME TypeOK, QueueInv, NEW w \in Wheels, NEW origin \in 0 .. Horizon, Send(w, origin),
         w # Zero => origin <= CmdVelTimeout - 1
  PROVE  QueueInv'
<1> DEFINE r == [wheels |-> w, wait |-> 0, origin |-> origin]
<1>1. CASE service
  <2>1. queue' = Append(queue, r)
    BY <1>1 DEF Send
  <2>2. /\ Len(queue') = Len(queue) + 1 /\ queue'[Len(queue) + 1] = r
        /\ \A i \in 1 .. Len(queue) : queue'[i] = queue[i]
    <3>1. queue \in Seq(Request) /\ r \in Request
      BY Times DEF TypeOK, Request
    <3> QED
      BY <2>1, <3>1, AppendProperties
  <2>3. Len(queue) \in Nat
    BY DEF TypeOK
  <2>4. r.wheels # Zero => r.origin <= CmdVelTimeout - 1 + r.wait
    BY Times
  <2> QED
    BY <2>2, <2>3, <2>4 DEF QueueInv
<1>2. CASE ~service
  BY <1>2 DEF Send, QueueInv
<1> QED
  BY <1>1, <1>2

LEMMA ElapseKeepsAges ==
  ASSUME TypeOK, QueueInv, CommandInv, Elapse
  PROVE  QueueInv' /\ CommandInv'
<1>1. ASSUME NEW i \in 1 .. Len(queue), queue'[i].wheels # Zero
      PROVE  queue'[i].origin <= CmdVelTimeout - 1 + queue'[i].wait
  <2>1. /\ queue[i] \in Request /\ queue[i].wait < MaxDelay
        /\ queue'[i] = Aged(queue[i])
    BY ElapseQueue DEF Elapse, TypeOK
  <2>2. /\ queue'[i].wheels = queue[i].wheels /\ queue'[i].wait = queue[i].wait + 1
        /\ queue'[i].origin = Older(queue[i].origin, Horizon)
    BY <2>1, AgedType
  <2>3. queue[i].origin <= CmdVelTimeout - 1 + queue[i].wait
    BY <1>1, <2>2 DEF QueueInv
  <2>4. queue[i].origin \in Nat /\ queue[i].wait \in Nat
    BY <2>1 DEF Request
  <2>5. queue'[i].origin \in Nat /\ queue'[i].origin <= queue[i].origin + 1
    BY <2>2, <2>4, OlderBound, Times
  <2>6. \A o, w, older, t \in Nat : older <= o + 1 /\ o <= t - 1 + w => older <= t - 1 + (w + 1)
    OBVIOUS
  <2>7. queue'[i].origin <= CmdVelTimeout - 1 + (queue[i].wait + 1)
    BY <2>3, <2>4, <2>5, <2>6, Times
  <2> QED
    BY <2>2, <2>7
<1>2. QueueInv'
  BY <1>1, ElapseQueue DEF QueueInv
<1>3. /\ command'.wheels = command.wheels
      /\ command'.age = Older(command.age, CommandTimeout)
      /\ command'.origin = Older(command.origin, Horizon)
  BY DEF Elapse, TypeOK
<1>4. command.age \in Nat /\ command.origin \in Nat /\ command.age <= CommandTimeout
  BY DEF TypeOK
<1>5. CommandInv'
  BY <1>3, <1>4, Times DEF CommandInv, Older
<1> QED
  BY <1>2, <1>5

LEMMA AgesStep == TypeOK /\ QueueInv /\ CommandInv /\ [Next]_vars => QueueInv' /\ CommandInv'
<1> SUFFICES ASSUME TypeOK, QueueInv, CommandInv, [Next]_vars
             PROVE  QueueInv' /\ CommandInv'
  OBVIOUS
<1> USE DEF chainVars
<1>1. CASE Deactivate \/ Shutdown
  <2>1. QueueInv'
    <3>1. CASE objs
      <4>1. Horizon \in 0 .. Horizon
        BY Times
      <4> QED
        BY <1>1, <3>1, <4>1, ZeroType, SendKeepsAges DEF Deactivate, Shutdown, SendZero
    <3>2. CASE ~objs
      BY <1>1, <3>2 DEF Deactivate, Shutdown, SendZero, QueueInv
    <3> QED
      BY <3>1, <3>2
  <2> QED
    BY <1>1, <2>1 DEF Deactivate, Shutdown, CommandInv
<1>2. CASE Tick
  <2> DEFINE origin == IF age < CmdVelTimeout THEN age ELSE Horizon
  <2>1. origin \in 0 .. Horizon
    BY Times DEF TypeOK
  <2>2. WheelCommands(SafeTwist) # Zero => origin <= CmdVelTimeout - 1
    BY StaleIsZero, Times DEF TypeOK
  <2>3. Send(WheelCommands(SafeTwist), origin)
    BY <1>2 DEF Tick
  <2>4. QueueInv'
    BY <2>1, <2>2, <2>3, SendKeepsAges, WheelCommandsType
  <2> QED
    BY <1>2, <2>4 DEF Tick, CommandInv
<1>3. CASE Serve
  <2>1. /\ Len(queue) \in Nat \ {0} /\ Len(queue') = Len(queue) - 1
        /\ \A i \in 1 .. Len(queue') : queue'[i] = queue[i + 1]
        /\ Head(queue) = queue[1] /\ queue[1] \in Request
    BY <1>3, HeadTailProperties DEF Serve, TypeOK
  <2>2. QueueInv'
    BY <2>1 DEF QueueInv
  <2>3. CASE UNCHANGED command
    BY <2>2, <2>3 DEF CommandInv
  <2>4. CASE command' = [wheels |-> Head(queue).wheels, age |-> 0, origin |-> Head(queue).origin]
    <3>1. /\ command'.wheels = queue[1].wheels /\ command'.age = 0
          /\ command'.origin = queue[1].origin
      BY <2>1, <2>4
    <3>2. queue[1].wheels # Zero => queue[1].origin <= CmdVelTimeout - 1 + queue[1].wait
      BY <2>1 DEF QueueInv
    <3>3. queue[1].wait \in 0 .. MaxDelay /\ queue[1].origin \in Nat
      BY <2>1 DEF Request
    <3> QED
      BY <2>2, <3>1, <3>2, <3>3, Times DEF CommandInv
  <2> QED
    BY <1>3, <2>3, <2>4 DEF Serve
<1>4. CASE ServiceDown
  BY <1>4, NoCommandInv DEF ServiceDown, QueueInv, CommandInv
<1>5. CASE Elapse
  BY <1>5, ElapseKeepsAges
<1>6. CASE UNCHANGED <<queue, command>>
  BY <1>6 DEF QueueInv, CommandInv
<1> QED
  BY <1>1, <1>2, <1>3, <1>4, <1>5, <1>6
  DEF Next, Transition, Configure, ConfigureFails, Activate, Cleanup, Ends, OnCmdVel,
      OnParameters, SetWheels, PortChanges, ServiceUp, vars

\* Only a tick of the drivechain with a fresh command sets a wheel in motion.
LEMMA Moves ==
  ASSUME TypeOK, [Next]_vars, NEW side \in {"left", "right"},
         wheels'[side] # wheels[side], wheels'[side] # 0
  PROVE  command.age < CommandTimeout /\ command.wheels # Zero
<1>1. ASSUME Reaches(Zero) PROVE FALSE
  BY <1>1 DEF Reaches, Zero
<1>2. wheels' # wheels
  OBVIOUS
<1>3. SetWheels
  BY <1>1, <1>2
  DEF Next, Transition, Configure, ConfigureFails, Activate, Deactivate, Cleanup, Shutdown,
    Ends, OnCmdVel, Tick, OnParameters, Serve, PortChanges, ServiceDown, ServiceUp, Elapse,
    vars, chainVars
<1>4. Reaches(FreshCommand)
  BY <1>3 DEF SetWheels
<1>5. FreshCommand # Zero
  BY <1>1, <1>4
<1> QED
  BY <1>5 DEF FreshCommand

LEMMA StaleStep ==
  ASSUME TypeOK, CommandInv, [Next]_vars, NEW side \in {"left", "right"},
         wheels'[side] # wheels[side], wheels'[side] # 0
  PROVE  command.origin <= (CmdVelTimeout - 1) + MaxDelay + (CommandTimeout - 1)
<1>1. command.age < CommandTimeout /\ command.wheels # Zero
  BY Moves
<1>2. command.age \in Nat /\ command.origin \in Nat
  BY DEF TypeOK
<1> QED
  BY <1>1, <1>2, Times DEF CommandInv

\* However the three delays combine, a wheel is set in motion only for a twist no older than
\* the two timeouts and the longest wait of a request together.
THEOREM MotionIsFresh == Spec => NoStaleMotion
<1>1. Init => QueueInv /\ CommandInv
  BY NoCommandInv DEF Init, QueueInv, CommandInv
<1>2. TypeOK /\ CommandInv /\ [Next]_vars =>
        ((\E side \in {"left", "right"} :
            wheels'[side] # wheels[side] /\ wheels'[side] # 0) =>
           command.origin <= (CmdVelTimeout - 1) + MaxDelay + (CommandTimeout - 1))
  BY StaleStep
<1> QED
  BY <1>1, <1>2, TypeCorrect, AgesStep, PTL DEF Spec, NoStaleMotion
=============================================================================
