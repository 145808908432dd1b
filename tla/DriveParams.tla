---------------------------- MODULE DriveParams ----------------------------
(***************************************************************************)
(* The parameters of the drivechain node: what is declared, what was       *)
(* copied to the blackboard, and the rate the drive timer runs at.         *)
(*                                                                         *)
(* Parameter services and transitions share the node's default callback    *)
(* group: each runs alone.  A request names several parameters.  The       *)
(* plain service sets them one by one, the atomic one all or none; values  *)
(* out of a descriptor's range are refused by rclcpp before on_parameters  *)
(* sees them, and are not offered here.                                    *)
(*                                                                         *)
(* uart_device, motor_names and motor_accel are treated like backend.      *)
(***************************************************************************)
EXTENDS Integers, Sequences, SequencesExt

CONSTANTS
  Values,     \* per parameter, the values that are in its range
  Launched,   \* what the node may be launched with: full settings
  Requests,   \* atomic requests: sequences of settings of one parameter each
  MaxBoots    \* bound on process starts

HardwareParams == {"backend", "motor_count", "motor_ids", "motor_signs", "motor_enabled"}
HotParams == {"feedback_rate", "command_timeout_ms"}
Params == HardwareParams \cup HotParams

\* Each parameter has a value in its range.
IsFull(s) == DOMAIN s = Params /\ \A p \in Params : s[p] \in Values[p]

\* Settings of one parameter each, in a row.
IsRequest(r) ==
  /\ Len(r) \in Nat /\ DOMAIN r = 1 .. Len(r)
  /\ \A i \in DOMAIN r : r[i].name \in Params /\ r[i].value \in Values[r[i].name]

\* The types are the declared ones; a rate of 0 is out of range.
ASSUME ParamsAssumption ==
  /\ DOMAIN Values = Params
  /\ Values["motor_count"] \subseteq Int
  /\ \A ids \in Values["motor_ids"] : ids \in Seq(Int)
  /\ \A signs \in Values["motor_signs"] : signs \in Seq(Int)
  /\ \A enabled \in Values["motor_enabled"] : enabled \in Seq(BOOLEAN)
  /\ Values["feedback_rate"] \subseteq Nat \ {0}
  /\ \A s \in Launched : IsFull(s)
  /\ \A r \in Requests : IsRequest(r)
  /\ MaxBoots \in Nat \ {0}

VARIABLES
  lc, registered, boots,
  declared,    \* the node's parameters
  blackboard,  \* what load_params and on_parameters put there
  drive_timer, \* the rate of drive_timer_, 0: none
  torn         \* an atomic request was refused after some of it took effect

nodeVars == <<lc, registered, boots, declared, blackboard, drive_timer, torn>>

\* blackboard_ is null.
NoBlackboard == [sim_mode |-> TRUE, motors |-> <<>>, rate |-> 0, timeout |-> 0]

-----------------------------------------------------------------------------
(* load_params *)

\* (mutant) the id is taken as it is
WideId(x) == x

\* static_cast<uint8_t>
ByteId(x) == x % 256

\* A sign that was given is folded to +1 or -1; one that was not is +1.
SignOf(s, i) == IF i \in DOMAIN s.motor_signs /\ s.motor_signs[i] < 0 THEN -1 ELSE 1

Motor(s, i) ==
  [id      |-> ByteId(s.motor_ids[i]),
   sign    |-> SignOf(s, i),
   enabled |-> i \in DOMAIN s.motor_enabled => s.motor_enabled[i]]

MotorList(s) ==
  [i \in {j \in DOMAIN s.motor_ids : j <= s.motor_count} |-> Motor(s, i)]

LoadParams(s) ==
  [sim_mode |-> s.backend # "hardware", motors |-> MotorList(s),
   rate |-> s.feedback_rate, timeout |-> s.command_timeout_ms]

-----------------------------------------------------------------------------
(* on_parameters *)

\* (mutant) the lock holds while ACTIVE only
LockedWhileActive == lc = "ACTIVE"

\* Hardware parameters are locked outside UNCONFIGURED.
Locked == lc # "UNCONFIGURED"

Refused(p) ==
  \/ p.name \in HardwareParams /\ Locked
  \/ p.name = "motor_signs" /\ \E i \in DOMAIN p.value : p.value[i] \notin {1, -1}

\* The settings that on_parameters goes through: it returns at the first one it refuses.
Considered(request) == {i \in DOMAIN request : \A j \in 1 .. i : ~Refused(request[j])}

\* The settings that the plain service gets through: one call for each.
Accepted(request) == {i \in DOMAIN request : ~Refused(request[i])}

\* What the settings at these places leave of a value: the last of them counts.
LastSet(request, at, name, old) ==
  LET those == {i \in at : request[i].name = name}
  IN  IF those = {} THEN old ELSE request[Max(those)].value

\* (mutant) the timeout waits for the next configuration
RateOnly(request, at) ==
  IF blackboard = NoBlackboard THEN blackboard
  ELSE [blackboard EXCEPT !.rate = LastSet(request, at, "feedback_rate", @)]

\* The hot parameters among them go to the blackboard, if there is one,
SetHot(request, at) ==
  IF blackboard = NoBlackboard THEN blackboard
  ELSE [blackboard EXCEPT !.rate = LastSet(request, at, "feedback_rate", @),
                          !.timeout = LastSet(request, at, "command_timeout_ms", @)]

\* and the timer is made anew where there is one.
NewTimer(request, at) ==
  IF drive_timer = 0 \/ blackboard = NoBlackboard THEN drive_timer
  ELSE LastSet(request, at, "feedback_rate", drive_timer)

OnParameters(request, at) ==
  /\ blackboard' = SetHot(request, at)
  /\ drive_timer' = NewTimer(request, at)

\* rclcpp: the values the node reports.
Assign(request, at) == [p \in Params |-> LastSet(request, at, p, declared[p])]

\* rclcpp: the callback first, then, if it agreed, the declared values.  Node parameters exist
\* before the callbacks run, and in every lifecycle state.
SetParametersAtomically(request) ==
  LET agreed == Considered(request) = DOMAIN request IN
  /\ lc # "DOWN"
  /\ OnParameters(request, Considered(request))
  /\ declared' = IF agreed THEN Assign(request, DOMAIN request) ELSE declared
  /\ torn' = (torn \/ (~agreed /\ blackboard' # blackboard))
  /\ UNCHANGED <<lc, registered, boots>>

\* The plain service: one call per parameter, whatever became of those before it.
SetParameters(request) ==
  /\ lc # "DOWN"
  /\ OnParameters(request, Accepted(request))
  /\ declared' = Assign(request, Accepted(request))
  /\ UNCHANGED <<lc, registered, boots, torn>>

-----------------------------------------------------------------------------
(* The transitions, as far as they use parameters *)

\* A second configuration of one process fails at registerNodeType, after load_params.
Configure ==
  /\ lc = "UNCONFIGURED"
  /\ blackboard' = LoadParams(declared) /\ torn' = FALSE
  /\ lc' = IF registered THEN "UNCONFIGURED" ELSE "INACTIVE"
  /\ registered' = TRUE
  /\ UNCHANGED <<boots, declared, drive_timer>>

Activate ==
  /\ lc = "INACTIVE" /\ lc' = "ACTIVE"
  /\ drive_timer' = blackboard.rate
  /\ UNCHANGED <<registered, boots, declared, blackboard, torn>>

DropTimer == drive_timer' = 0

Deactivate ==
  /\ lc = "ACTIVE" /\ lc' = "INACTIVE" /\ DropTimer
  /\ UNCHANGED <<registered, boots, declared, blackboard, torn>>

Cleanup ==
  /\ lc = "INACTIVE" /\ lc' = "UNCONFIGURED" /\ DropTimer
  /\ blackboard' = NoBlackboard /\ torn' = FALSE
  /\ UNCHANGED <<registered, boots, declared>>

Shutdown ==
  /\ lc \in {"UNCONFIGURED", "INACTIVE", "ACTIVE"} /\ lc' = "FINALIZED" /\ DropTimer
  /\ UNCHANGED <<registered, boots, declared, blackboard, torn>>

\* What was set at run time is gone with the process.
Ends ==
  /\ lc # "DOWN" /\ lc' = "DOWN"
  /\ registered' = FALSE /\ blackboard' = NoBlackboard /\ drive_timer' = 0 /\ torn' = FALSE
  /\ UNCHANGED <<boots, declared>>

\* declare_params takes launch values unchecked: on_parameters is not registered yet.
Launch ==
  /\ lc = "DOWN" /\ boots < MaxBoots /\ lc' = "UNCONFIGURED"
  /\ boots' = boots + 1 /\ declared' \in Launched
  /\ UNCHANGED <<registered, blackboard, drive_timer, torn>>

NodeInit ==
  /\ lc = "DOWN" /\ registered = FALSE /\ boots = 0
  /\ declared \in Launched
  /\ blackboard = NoBlackboard /\ drive_timer = 0 /\ torn = FALSE

Transition == Configure \/ Activate \/ Deactivate \/ Cleanup \/ Shutdown

NodeNext ==
  \/ (\E r \in Requests : SetParametersAtomically(r))
  \/ Transition \/ Ends \/ Launch

-----------------------------------------------------------------------------
(* Properties of the node *)

Motors == [id : 0 .. 255, sign : {1, -1}, enabled : BOOLEAN]

NodeTypeOK ==
  /\ lc \in {"DOWN", "UNCONFIGURED", "INACTIVE", "ACTIVE", "FINALIZED"}
  /\ registered \in BOOLEAN /\ boots \in 0 .. MaxBoots /\ torn \in BOOLEAN
  /\ IsFull(declared)
  /\ DOMAIN blackboard = DOMAIN NoBlackboard /\ blackboard.sim_mode \in BOOLEAN
  /\ \A i \in DOMAIN blackboard.motors : blackboard.motors[i] \in Motors
  /\ {blackboard.rate, drive_timer} \subseteq Values["feedback_rate"] \cup {0}
  /\ blackboard.timeout \in Values["command_timeout_ms"] \cup {0}

\* While the node is INACTIVE or ACTIVE the motors that are driven are those it reports: as
\* many, with the reported ids, signs and enabled flags, and on the reported backend, whoever
\* sets what and whichever requests are refused.  Two things a launch file may hold are not
\* driven as reported: an id that does not fit a byte, which is narrowed, and a sign other
\* than +-1, which is folded to one of them.
HardwareInForce ==
  lc \in {"INACTIVE", "ACTIVE"} =>
    /\ DOMAIN blackboard.motors =
         {i \in DOMAIN declared.motor_ids : i <= declared.motor_count}
    /\ \A i \in DOMAIN blackboard.motors :
         LET motor == blackboard.motors[i] IN
         /\ declared.motor_ids[i] \in 0 .. 255 => motor.id = declared.motor_ids[i]
         /\ i \in DOMAIN declared.motor_signs /\ declared.motor_signs[i] \in {1, -1} =>
              motor.sign = declared.motor_signs[i]
         /\ i \in DOMAIN declared.motor_enabled => motor.enabled = declared.motor_enabled[i]
    /\ blackboard.sim_mode = (declared.backend # "hardware")

\* A hot parameter that the node reports is the one it uses, as long as no atomic request was
\* refused half way; and the drive timer runs exactly while the node is ACTIVE and at the rate
\* in force, which a change of the rate neither starts elsewhere nor misses.
HotInForce ==
  /\ drive_timer = IF lc = "ACTIVE" THEN blackboard.rate ELSE 0
  /\ lc \in {"INACTIVE", "ACTIVE"} /\ ~torn =>
       blackboard.rate = declared.feedback_rate /\ blackboard.timeout = declared.command_timeout_ms
=============================================================================
