-------------------------- MODULE ParamPanelProofs --------------------------
(***************************************************************************)
(* The parameters in force are those the node reports: for any values and  *)
(* launch files, any atomic requests and anything that users type.         *)
(***************************************************************************)
EXTENDS ParamPanel, WellFoundedInduction, TLAPS

-----------------------------------------------------------------------------
(* The last setting of a request *)

\* The least-number principle, from the order of the naturals being well founded.
LEMMA Least ==
  ASSUME NEW T, T \subseteq Nat, T # {}
  PROVE  \E x \in T : \A y \in T : x <= y
<1> DEFINE R == {ss \in Nat \X Nat : ss[1] < ss[2]}
<1>1. IsWellFoundedOn(R, Nat)
  BY NatLessThanWellFounded DEF OpToRel
<1>2. PICK x \in T : \A y \in T : ~ (<<y, x>> \in R)
  <2> HIDE DEF R
  <2> QED
    BY <1>1, WFMin
<1>3. \A y \in T : ~ (y < x)
  BY <1>2
<1> QED
  BY <1>3

\* Among places of a request there is a last one.
LEMMA MaxIn ==
  ASSUME NEW n \in Nat, NEW I, I \subseteq 1 .. n, I # {}
  PROVE  Max(I) \in I
<1> DEFINE T == {m \in Nat : n - m \in I}
<1>1. T \subseteq Nat
  OBVIOUS
<1>2. T # {}
  <2>1. PICK i \in I : TRUE
    OBVIOUS
  <2>2. n - i \in Nat /\ n - (n - i) = i
    OBVIOUS
  <2>3. n - i \in T
    BY <2>2
  <2> QED
    BY <2>3
<1>3. PICK t \in T : \A y \in T : t <= y
  <2> HIDE DEF T
  <2> QED
    BY <1>1, <1>2, Least
<1>4. n - t \in I
  OBVIOUS
<1>5. ASSUME NEW y \in I PROVE n - t >= y
  <2>1. n - y \in Nat /\ n - (n - y) = y
    OBVIOUS
  <2>2. n - y \in T
    BY <2>1
  <2>3. t <= n - y
    BY <1>3, <2>2
  <2> QED
    BY <2>1, <2>3
<1> QED
  BY <1>4, <1>5 DEF Max

\* It is a value in range, and the old one where the name is not set.
LEMMA LastSetType ==
  ASSUME NEW request, IsRequest(request), NEW at, at \subseteq DOMAIN request,
         NEW name \in Params, NEW old
  PROVE  \/ LastSet(request, at, name, old) \in Values[name]
         \/ LastSet(request, at, name, old) = old
<1> DEFINE those == {i \in at : request[i].name = name}
<1>1. CASE those = {}
  BY <1>1 DEF LastSet
<1>2. CASE those # {}
  <2>1. those \subseteq 1 .. Len(request) /\ Len(request) \in Nat
    BY DEF IsRequest
  <2>2. Max(those) \in those
    <3> HIDE DEF those
    <3> QED
      BY <1>2, <2>1, MaxIn
  <2>3. request[Max(those)].value \in Values[name]
    BY <2>2 DEF IsRequest
  <2> QED
    BY <1>2, <2>3 DEF LastSet
<1> QED
  BY <1>1, <1>2

LEMMA LastSetNone ==
  ASSUME NEW request, NEW at, NEW name, NEW old, \A i \in at : request[i].name # name
  PROVE  LastSet(request, at, name, old) = old
BY DEF LastSet

-----------------------------------------------------------------------------
(* What a request does *)

LEMMA PlacesOf ==
  ASSUME NEW request, IsRequest(request)
  PROVE  /\ Considered(request) \subseteq DOMAIN request
         /\ Accepted(request) \subseteq DOMAIN request
         /\ \A i \in Considered(request) \cup Accepted(request) : ~Refused(request[i])
<1>1. \A i \in DOMAIN request : i \in 1 .. i
  BY DEF IsRequest
<1> QED
  BY <1>1 DEF Considered, Accepted

\* Whatever is set, the declared values stay full and in range.
LEMMA AssignType ==
  ASSUME IsFull(declared), NEW request, IsRequest(request), NEW at, at \subseteq DOMAIN request
  PROVE  IsFull(Assign(request, at))
<1>1. ASSUME NEW p \in Params PROVE Assign(request, at)[p] \in Values[p]
  BY LastSetType DEF Assign, IsFull
<1> QED
  BY <1>1 DEF Assign, IsFull

\* A name that is not set keeps its value.
LEMMA AssignNone ==
  ASSUME NEW request, NEW at, NEW p \in Params, \A i \in at : request[i].name # p
  PROVE  Assign(request, at)[p] = declared[p]
BY LastSetNone DEF Assign

\* The blackboard: hot parameters in range, the hardware untouched.
LEMMA SetHotType ==
  ASSUME NodeTypeOK, NEW request, IsRequest(request), NEW at, at \subseteq DOMAIN request
  PROVE  /\ DOMAIN SetHot(request, at) = DOMAIN NoBlackboard
         /\ SetHot(request, at).motors = blackboard.motors
         /\ SetHot(request, at).sim_mode = blackboard.sim_mode
         /\ SetHot(request, at).rate \in Values["feedback_rate"] \cup {0}
         /\ SetHot(request, at).timeout \in Values["command_timeout_ms"] \cup {0}
         /\ blackboard # NoBlackboard =>
              /\ SetHot(request, at).rate =
                   LastSet(request, at, "feedback_rate", blackboard.rate)
              /\ SetHot(request, at).timeout =
                   LastSet(request, at, "command_timeout_ms", blackboard.timeout)
<1> DEFINE rate == LastSet(request, at, "feedback_rate", blackboard.rate)
           timeout == LastSet(request, at, "command_timeout_ms", blackboard.timeout)
<1>1. /\ DOMAIN blackboard = {"sim_mode", "motors", "rate", "timeout"}
      /\ DOMAIN NoBlackboard = {"sim_mode", "motors", "rate", "timeout"}
  BY DEF NodeTypeOK, NoBlackboard
<1>2. /\ blackboard.rate \in Values["feedback_rate"] \cup {0}
      /\ blackboard.timeout \in Values["command_timeout_ms"] \cup {0}
  BY DEF NodeTypeOK
<1>3. rate \in Values["feedback_rate"] \cup {0} /\ timeout \in Values["command_timeout_ms"] \cup {0}
  BY <1>2, LastSetType DEF Params, HotParams
<1>4. CASE blackboard = NoBlackboard
  BY <1>1, <1>2, <1>4 DEF SetHot
<1>5. CASE blackboard # NoBlackboard
  <2>1. SetHot(request, at) = [blackboard EXCEPT !.rate = rate, !.timeout = timeout]
    BY <1>5 DEF SetHot
  <2> HIDE DEF rate, timeout
  <2>2. /\ DOMAIN SetHot(request, at) = DOMAIN blackboard
        /\ SetHot(request, at).rate = rate /\ SetHot(request, at).timeout = timeout
        /\ SetHot(request, at).motors = blackboard.motors
        /\ SetHot(request, at).sim_mode = blackboard.sim_mode
    BY <1>1, <2>1
  <2> QED
    BY <1>1, <1>3, <2>2 DEF rate, timeout
<1> QED
  BY <1>4, <1>5

LEMMA NewTimerType ==
  ASSUME NodeTypeOK, NEW request, IsRequest(request), NEW at, at \subseteq DOMAIN request
  PROVE  /\ NewTimer(request, at) \in Values["feedback_rate"] \cup {0}
         /\ drive_timer = 0 => NewTimer(request, at) = 0
         /\ drive_timer # 0 /\ blackboard # NoBlackboard =>
              NewTimer(request, at) = LastSet(request, at, "feedback_rate", drive_timer)
BY LastSetType DEF NodeTypeOK, NewTimer, Params, HotParams

\* A configuration puts motors of byte ids on the blackboard.
LEMMA LoadParamsType ==
  ASSUME NEW s, IsFull(s)
  PROVE  /\ DOMAIN LoadParams(s) = DOMAIN NoBlackboard
         /\ LoadParams(s).sim_mode \in BOOLEAN
         /\ \A i \in DOMAIN LoadParams(s).motors : LoadParams(s).motors[i] \in Motors
         /\ LoadParams(s).rate = s.feedback_rate /\ LoadParams(s).rate \in Values["feedback_rate"]
         /\ LoadParams(s).timeout = s.command_timeout_ms
         /\ LoadParams(s).timeout \in Values["command_timeout_ms"]
         /\ LoadParams(s).motors = MotorList(s)
         /\ LoadParams(s).sim_mode = (s.backend # "hardware")
<1>1. /\ s.motor_ids \in Seq(Int) /\ s.motor_signs \in Seq(Int) /\ s.motor_enabled \in Seq(BOOLEAN)
      /\ s.feedback_rate \in Values["feedback_rate"]
      /\ s.command_timeout_ms \in Values["command_timeout_ms"]
  BY ParamsAssumption DEF IsFull, Params, HardwareParams, HotParams
<1>2. ASSUME NEW i \in DOMAIN s.motor_ids PROVE Motor(s, i) \in Motors
  <2>1. ByteId(s.motor_ids[i]) \in 0 .. 255
    <3>1. s.motor_ids[i] \in Int
      BY <1>1
    <3> QED
      BY <3>1 DEF ByteId
  <2>2. SignOf(s, i) \in {1, -1}
    BY DEF SignOf
  <2>3. (i \in DOMAIN s.motor_enabled => s.motor_enabled[i]) \in BOOLEAN
    OBVIOUS
  <2> QED
    BY <2>1, <2>2, <2>3 DEF Motor, Motors
<1>3. \A i \in DOMAIN MotorList(s) : MotorList(s)[i] \in Motors
  BY <1>2 DEF MotorList
<1> QED
  BY <1>1, <1>3 DEF LoadParams, NoBlackboard

-----------------------------------------------------------------------------
(* Type correctness *)

LEMMA TypeInit == Init => TypeOK
<1> SUFFICES ASSUME Init PROVE TypeOK
  OBVIOUS
<1>1. IsFull(declared)
  BY ParamsAssumption DEF Init, NodeInit
<1>2. boots \in 0 .. MaxBoots
  BY ParamsAssumption DEF Init, NodeInit
<1>3. DOMAIN blackboard.motors = {}
  BY DEF Init, NodeInit, NoBlackboard
<1>4. NodeTypeOK
  BY <1>1, <1>2, <1>3 DEF Init, NodeInit, NodeTypeOK, NoBlackboard
<1>5. IsRequest(<<>>)
  BY DEF IsRequest
<1> QED
  BY <1>1, <1>4, <1>5 DEF Init, TypeOK

\* Both services keep the types of what they write.
LEMMA OnParametersType ==
  ASSUME NodeTypeOK, NEW request, IsRequest(request), NEW at, at \subseteq DOMAIN request,
         OnParameters(request, at), IsFull(declared'),
         lc' = lc, registered' = registered, boots' = boots, torn' \in BOOLEAN
  PROVE  NodeTypeOK'
<1>1. blackboard' = SetHot(request, at) /\ drive_timer' = NewTimer(request, at)
  BY DEF OnParameters
<1>2. /\ DOMAIN blackboard' = DOMAIN NoBlackboard
      /\ blackboard'.motors = blackboard.motors /\ blackboard'.sim_mode = blackboard.sim_mode
      /\ {blackboard'.rate, drive_timer'} \subseteq Values["feedback_rate"] \cup {0}
      /\ blackboard'.timeout \in Values["command_timeout_ms"] \cup {0}
  BY <1>1, SetHotType, NewTimerType
<1> QED
  BY <1>2 DEF NodeTypeOK, IsFull

LEMMA NodeTypeStep ==
  ASSUME NodeTypeOK, NodeNext
  PROVE  NodeTypeOK'
<1>1. ASSUME NEW r \in Requests, SetParametersAtomically(r) PROVE NodeTypeOK'
  <2>1. IsRequest(r)
    BY ParamsAssumption
  <2>2. IsFull(declared')
    BY <1>1, <2>1, AssignType DEF SetParametersAtomically, NodeTypeOK
  <2>3. /\ OnParameters(r, Considered(r)) /\ lc' = lc /\ registered' = registered /\ boots' = boots
        /\ torn' \in BOOLEAN
    BY <1>1 DEF SetParametersAtomically, NodeTypeOK
  <2> QED
    BY <2>1, <2>2, <2>3, PlacesOf, OnParametersType
<1>2. CASE Configure
  <2>1. IsFull(declared) /\ declared' = declared /\ blackboard' = LoadParams(declared)
    BY <1>2 DEF Configure, NodeTypeOK
  <2>2. /\ DOMAIN blackboard' = DOMAIN NoBlackboard /\ blackboard'.sim_mode \in BOOLEAN
        /\ \A i \in DOMAIN blackboard'.motors : blackboard'.motors[i] \in Motors
        /\ blackboard'.rate \in Values["feedback_rate"]
        /\ blackboard'.timeout \in Values["command_timeout_ms"]
    BY <2>1, LoadParamsType
  <2>3. /\ lc' \in {"UNCONFIGURED", "INACTIVE"} /\ registered' \in BOOLEAN /\ torn' \in BOOLEAN
        /\ boots' = boots /\ drive_timer' = drive_timer
    BY <1>2 DEF Configure
  <2> QED
    BY <2>1, <2>2, <2>3 DEF NodeTypeOK, IsFull
<1>3. CASE Activate \/ Deactivate \/ Shutdown
  BY <1>3 DEF Activate, Deactivate, Shutdown, DropTimer, NodeTypeOK, IsFull
<1>4. /\ DOMAIN NoBlackboard.motors = {} /\ NoBlackboard.sim_mode \in BOOLEAN
      /\ NoBlackboard.rate = 0 /\ NoBlackboard.timeout = 0
  BY DEF NoBlackboard
<1>5. CASE Cleanup \/ Ends
  BY <1>4, <1>5 DEF Cleanup, Ends, DropTimer, NodeTypeOK, IsFull
<1>6. CASE Launch
  <2>1. IsFull(declared')
    BY <1>6, ParamsAssumption DEF Launch, IsFull
  <2>2. boots' \in 0 .. MaxBoots
    BY <1>6, ParamsAssumption DEF Launch, NodeTypeOK
  <2> QED
    BY <1>6, <2>1, <2>2 DEF Launch, NodeTypeOK
<1> QED
  BY <1>1, <1>2, <1>3, <1>5, <1>6 DEF NodeNext, Transition

LEMMA TypeStep == TypeOK /\ [Next]_vars => TypeOK'
<1> SUFFICES ASSUME TypeOK, [Next]_vars PROVE TypeOK'
  OBVIOUS
<1>1. ASSUME UNCHANGED nodeVars PROVE NodeTypeOK'
  BY <1>1 DEF TypeOK, NodeTypeOK, nodeVars, IsFull
<1>2. ASSUME UNCHANGED <<table, sent>> PROVE IsFull(table') /\ IsRequest(sent')
  BY <1>2 DEF TypeOK, IsFull, IsRequest
<1>3. CASE UNCHANGED vars
  BY <1>1, <1>2, <1>3 DEF vars, panelVars, TypeOK
<1>4. CASE NodeNext /\ UNCHANGED panelVars
  BY <1>2, <1>4, NodeTypeStep DEF panelVars, TypeOK
<1>5. CASE RefreshNodeState \/ ServeGetState \/ ShowState
  <2>1. lc \in {"DOWN", "UNCONFIGURED", "INACTIVE", "ACTIVE", "FINALIZED"}
    BY DEF TypeOK, NodeTypeOK
  <2>2. UNCHANGED <<nodeVars, table, sent, loaded>>
    BY <1>5 DEF RefreshNodeState, ServeGetState, ShowState
  <2>3. CASE RefreshNodeState
    BY <1>1, <1>2, <2>2, <2>3 DEF RefreshNodeState, TypeOK
  <2>4. CASE ServeGetState
    BY <1>1, <1>2, <2>1, <2>2, <2>4 DEF ServeGetState, TypeOK
  <2>5. CASE ShowState
    BY <1>1, <1>2, <2>2, <2>5 DEF ShowState, TypeOK
  <2> QED
    BY <1>5, <2>3, <2>4, <2>5
<1>6. CASE LoadParameters
  <2>1. IsFull(table') /\ IsRequest(sent')
    BY <1>6 DEF LoadParameters, TypeOK, NodeTypeOK, IsFull, IsRequest
  <2> QED
    BY <1>1, <1>6, <2>1 DEF LoadParameters, TypeOK
<1>7. CASE Edit
  <2>1. PICK e \in Edits : table' = [table EXCEPT ![e.name] = e.value]
    BY <1>7 DEF Edit
  <2>2. e.name \in Params /\ e.value \in Values[e.name]
    BY PanelAssumption
  <2>3. IsFull(table') /\ IsRequest(sent')
    BY <1>7, <2>1, <2>2 DEF Edit, TypeOK, IsFull, IsRequest
  <2> QED
    BY <1>1, <1>7, <2>3 DEF Edit, TypeOK
<1>8. CASE ApplyParameters
  <2>1. Len(Rows) = 7 /\ DOMAIN Rows = 1 .. 7
    BY DEF Rows
  <2>2. \A i \in 1 .. 7 : Rows[i] \in Params
    <3>1. ASSUME NEW i \in 1 .. 7 PROVE i = 1 \/ i = 2 \/ i = 3 \/ i = 4 \/ i = 5 \/ i = 6 \/ i = 7
      OBVIOUS
    <3> QED
      BY <3>1 DEF Rows, Params, HardwareParams, HotParams
  <2>3. \A i \in 1 .. 7 : table[Rows[i]] \in Values[Rows[i]]
    BY <2>2 DEF TypeOK, IsFull
  <2>4. sent' = [i \in 1 .. 7 |-> [name |-> Rows[i], value |-> table[Rows[i]]]]
    BY <1>8, <2>1 DEF ApplyParameters
  <2>5. Len(sent') = 7 /\ DOMAIN sent' = 1 .. 7
    BY <2>4
  <2>6. IsRequest(sent')
    BY <2>2, <2>3, <2>4, <2>5 DEF IsRequest
  <2>7. IsFull(table')
    BY <1>8 DEF ApplyParameters, TypeOK, IsFull
  <2> QED
    BY <1>1, <1>8, <2>6, <2>7 DEF ApplyParameters, TypeOK
<1>9. CASE ServeSetParameters \/ ApplyFails
  <2>1. IsRequest(sent') /\ IsFull(table')
    BY <1>9 DEF ServeSetParameters, ApplyFails, IsRequest, IsFull, TypeOK
  <2>2. CASE ServeSetParameters
    <3>1. IsRequest(sent) /\ NodeTypeOK
      BY DEF TypeOK
    <3>2. declared' = Assign(sent, Accepted(sent)) /\ OnParameters(sent, Accepted(sent))
          /\ UNCHANGED <<lc, registered, boots, torn>>
      BY <2>2 DEF ServeSetParameters, SetParameters
    <3>3. IsFull(declared')
      BY <3>1, <3>2, PlacesOf, AssignType DEF NodeTypeOK
    <3>4. NodeTypeOK'
      BY <3>1, <3>2, <3>3, PlacesOf, OnParametersType DEF NodeTypeOK
    <3> QED
      BY <2>1, <2>2, <3>4 DEF ServeSetParameters, TypeOK
  <2>3. CASE ApplyFails
    BY <1>1, <2>1, <2>3 DEF ApplyFails, TypeOK
  <2> QED
    BY <1>9, <2>2, <2>3
<1> QED
  BY <1>3, <1>4, <1>5, <1>6, <1>7, <1>8, <1>9 DEF Next, Panel

\* Whatever is set or launched, the motors that are driven have byte ids and signs +1 or -1.
THEOREM TypeCorrect == Spec => []TypeOK
<1> QED
  BY TypeInit, TypeStep, PTL DEF Spec

-----------------------------------------------------------------------------
(* What is in force *)

\* Where the node is configured, it has a blackboard with a rate: a timer made from it runs.
HasRate == lc \in {"INACTIVE", "ACTIVE"} => blackboard.rate # 0

\* What the trees were built from is what the declared values are loaded as.
HardwareLoaded ==
  lc \in {"INACTIVE", "ACTIVE"} =>
    /\ blackboard.motors = MotorList(declared)
    /\ blackboard.sim_mode = (declared.backend # "hardware")

ForceInv == HasRate /\ HardwareLoaded /\ HotInForce

LEMMA ForceInit == Init => ForceInv
BY DEF Init, NodeInit, ForceInv, HasRate, HardwareLoaded, HotInForce

\* Parameters of a configured node that are not refused leave the hardware alone, and change the
\* hot parameters on the blackboard and in the node alike.
LEMMA SetInForce ==
  ASSUME NodeTypeOK, ForceInv, lc \in {"INACTIVE", "ACTIVE"},
         NEW request, IsRequest(request), NEW at, at \subseteq DOMAIN request,
         \A i \in at : ~Refused(request[i])
  PROVE  /\ \A p \in HardwareParams : Assign(request, at)[p] = declared[p]
         /\ SetHot(request, at).rate # 0
         /\ NewTimer(request, at) = IF lc = "ACTIVE" THEN SetHot(request, at).rate ELSE 0
         /\ ~torn => /\ SetHot(request, at).rate = Assign(request, at).feedback_rate
                     /\ SetHot(request, at).timeout = Assign(request, at).command_timeout_ms
<1>1. ASSUME NEW p \in HardwareParams PROVE Assign(request, at)[p] = declared[p]
  <2>1. \A i \in at : request[i].name # p
    BY DEF Refused, Locked
  <2> QED
    BY <2>1, AssignNone DEF Params
<1>2. blackboard # NoBlackboard /\ blackboard.rate # 0
  BY DEF ForceInv, HasRate, NoBlackboard
<1>3. /\ SetHot(request, at).rate = LastSet(request, at, "feedback_rate", blackboard.rate)
      /\ SetHot(request, at).timeout =
           LastSet(request, at, "command_timeout_ms", blackboard.timeout)
  BY <1>2, SetHotType
<1>4. SetHot(request, at).rate # 0
  <2>1. 0 \notin Values["feedback_rate"]
    BY ParamsAssumption
  <2> QED
    BY <1>2, <1>3, <2>1, LastSetType DEF Params, HotParams
<1>5. /\ Assign(request, at).feedback_rate =
           LastSet(request, at, "feedback_rate", declared.feedback_rate)
      /\ Assign(request, at).command_timeout_ms =
           LastSet(request, at, "command_timeout_ms", declared.command_timeout_ms)
  BY DEF Assign, Params, HotParams
<1>6. NewTimer(request, at) = IF lc = "ACTIVE" THEN SetHot(request, at).rate ELSE 0
  <2>1. drive_timer = IF lc = "ACTIVE" THEN blackboard.rate ELSE 0
    BY DEF ForceInv, HotInForce
  <2> QED
    BY <1>2, <1>3, <2>1, NewTimerType
<1>7. ~torn => /\ blackboard.rate = declared.feedback_rate
               /\ blackboard.timeout = declared.command_timeout_ms
  BY DEF ForceInv, HotInForce
<1> QED
  BY <1>1, <1>3, <1>4, <1>5, <1>6, <1>7

\* The list of motors is made from the hardware parameters only.
LEMMA SameMotors ==
  ASSUME NEW s, NEW t, \A p \in HardwareParams : s[p] = t[p]
  PROVE  MotorList(s) = MotorList(t) /\ s.backend = t.backend
<1>1. /\ s.motor_count = t.motor_count /\ s.motor_ids = t.motor_ids
      /\ s.motor_signs = t.motor_signs /\ s.motor_enabled = t.motor_enabled
      /\ s.backend = t.backend
  BY DEF HardwareParams
<1>2. \A i : Motor(s, i) = Motor(t, i)
  BY <1>1 DEF Motor, SignOf
<1> QED
  BY <1>1, <1>2 DEF MotorList

\* The drive timer is only ever made anew where there is one.
LEMMA NoTimerStays ==
  ASSUME NodeTypeOK, ForceInv, lc \notin {"INACTIVE", "ACTIVE"},
         NEW request, IsRequest(request), NEW at, at \subseteq DOMAIN request
  PROVE  NewTimer(request, at) = 0
BY NewTimerType DEF ForceInv, HotInForce

LEMMA ForceStep == TypeOK /\ ForceInv /\ [Next]_vars => ForceInv'
<1> SUFFICES ASSUME TypeOK, ForceInv, [Next]_vars PROVE ForceInv'
  OBVIOUS
<1>1. NodeTypeOK /\ IsFull(declared)
  BY DEF TypeOK, NodeTypeOK
<1>2. ASSUME UNCHANGED nodeVars PROVE ForceInv'
  BY <1>2 DEF nodeVars, ForceInv, HasRate, HardwareLoaded, HotInForce, MotorList, Motor, SignOf, ByteId
<1>3. ASSUME NEW request, IsRequest(request), NEW at, at \subseteq DOMAIN request,
             \A i \in at : ~Refused(request[i]), OnParameters(request, at), lc' = lc,
             \/ declared' = Assign(request, at) /\ (~torn' => ~torn)
             \/ declared' = declared /\ (~torn' => ~torn /\ blackboard' = blackboard)
      PROVE  ForceInv'
  <2>1. blackboard' = SetHot(request, at) /\ drive_timer' = NewTimer(request, at)
    BY <1>3 DEF OnParameters
  <2>2. CASE lc \notin {"INACTIVE", "ACTIVE"}
    BY <1>1, <1>3, <2>1, <2>2, NoTimerStays DEF ForceInv, HasRate, HardwareLoaded, HotInForce
  <2>3. CASE lc \in {"INACTIVE", "ACTIVE"}
    <3>1. /\ \A p \in HardwareParams : declared'[p] = declared[p]
          /\ blackboard'.rate # 0
          /\ drive_timer' = IF lc = "ACTIVE" THEN blackboard'.rate ELSE 0
      BY <1>1, <1>3, <2>1, <2>3, SetInForce
    <3>2. MotorList(declared') = MotorList(declared) /\ declared'.backend = declared.backend
      BY <3>1, SameMotors
    <3>3. blackboard'.motors = blackboard.motors /\ blackboard'.sim_mode = blackboard.sim_mode
      BY <1>1, <1>3, <2>1, SetHotType
    <3>4. HardwareLoaded'
      BY <2>3, <3>2, <3>3, <1>3 DEF ForceInv, HardwareLoaded, MotorList, Motor, SignOf, ByteId
    <3>5. ~torn' => /\ blackboard'.rate = declared'.feedback_rate
                    /\ blackboard'.timeout = declared'.command_timeout_ms
      BY <1>1, <1>3, <2>1, <2>3, SetInForce DEF ForceInv, HotInForce
    <3> QED
      BY <1>3, <3>1, <3>4, <3>5 DEF ForceInv, HasRate, HotInForce
  <2> QED
    BY <2>2, <2>3
<1>4. ASSUME NEW r \in Requests, SetParametersAtomically(r) PROVE ForceInv'
  <2>1. IsRequest(r)
    BY ParamsAssumption
  <2>2. /\ OnParameters(r, Considered(r)) /\ lc' = lc
        /\ \/ declared' = Assign(r, Considered(r)) /\ (~torn' => ~torn)
           \/ declared' = declared /\ (~torn' => ~torn /\ blackboard' = blackboard)
    BY <1>4 DEF SetParametersAtomically
  <2> QED
    BY <1>3, <2>1, <2>2, PlacesOf
<1>5. CASE ServeSetParameters
  <2>1. IsRequest(sent)
    BY DEF TypeOK
  <2>2. OnParameters(sent, Accepted(sent)) /\ declared' = Assign(sent, Accepted(sent))
        /\ lc' = lc /\ torn' = torn
    BY <1>5 DEF ServeSetParameters, SetParameters
  <2> QED
    BY <1>3, <2>1, <2>2, PlacesOf
<1>6. CASE Configure
  <2>1. declared' = declared /\ blackboard' = LoadParams(declared) /\ drive_timer' = drive_timer
        /\ lc = "UNCONFIGURED" /\ lc' \in {"UNCONFIGURED", "INACTIVE"}
    BY <1>6 DEF Configure
  <2>2. /\ blackboard'.rate = declared.feedback_rate /\ blackboard'.rate # 0
        /\ blackboard'.timeout = declared.command_timeout_ms
        /\ blackboard'.motors = MotorList(declared)
        /\ blackboard'.sim_mode = (declared.backend # "hardware")
    BY <1>1, <2>1, LoadParamsType, ParamsAssumption
  <2>3. drive_timer' = 0
    BY <2>1 DEF ForceInv, HotInForce
  <2> QED
    BY <2>1, <2>2, <2>3 DEF ForceInv, HasRate, HardwareLoaded, HotInForce, MotorList, Motor, SignOf, ByteId
<1>7. CASE Activate \/ Deactivate
  <2>1. /\ UNCHANGED <<declared, blackboard, torn>> /\ lc \in {"INACTIVE", "ACTIVE"}
        /\ lc' \in {"INACTIVE", "ACTIVE"}
        /\ drive_timer' = IF lc' = "ACTIVE" THEN blackboard.rate ELSE 0
    BY <1>7 DEF Activate, Deactivate, DropTimer
  <2> QED
    BY <2>1 DEF ForceInv, HasRate, HardwareLoaded, HotInForce, MotorList, Motor, SignOf, ByteId
<1>8. CASE Cleanup \/ Shutdown \/ Ends \/ Launch
  <2>1. lc' \notin {"INACTIVE", "ACTIVE"} /\ drive_timer' = 0
    BY <1>8 DEF Cleanup, Shutdown, Ends, Launch, DropTimer, ForceInv, HotInForce
  <2> QED
    BY <2>1 DEF ForceInv, HasRate, HardwareLoaded, HotInForce
<1>9. CASE UNCHANGED vars
  BY <1>2, <1>9 DEF vars
<1>10. ASSUME Panel, ~ServeSetParameters PROVE UNCHANGED nodeVars
  BY <1>10 DEF Panel, RefreshNodeState, ServeGetState, ShowState, LoadParameters, Edit,
    ApplyParameters, ApplyFails
<1> QED
  BY <1>2, <1>4, <1>5, <1>6, <1>7, <1>8, <1>9, <1>10 DEF Next, NodeNext, Transition

LEMMA ForceAlways == Spec => []ForceInv
<1> QED
  BY TypeInit, TypeStep, ForceInit, ForceStep, PTL DEF Spec

LEMMA SmallId == \A x \in 0 .. 255 : ByteId(x) = x
BY DEF ByteId

LEMMA LoadedAsReported == NodeTypeOK /\ HardwareLoaded => HardwareInForce
<1> SUFFICES ASSUME NodeTypeOK, HardwareLoaded, lc \in {"INACTIVE", "ACTIVE"}
             PROVE  HardwareInForce
  BY DEF HardwareInForce
<1>1. blackboard.motors = MotorList(declared) /\ blackboard.sim_mode = (declared.backend # "hardware")
  BY DEF HardwareLoaded
<1>2. DOMAIN blackboard.motors = {i \in DOMAIN declared.motor_ids : i <= declared.motor_count}
  BY <1>1 DEF MotorList
<1>3. ASSUME NEW i \in DOMAIN blackboard.motors
      PROVE  /\ declared.motor_ids[i] \in 0 .. 255 => blackboard.motors[i].id = declared.motor_ids[i]
             /\ i \in DOMAIN declared.motor_signs /\ declared.motor_signs[i] \in {1, -1} =>
                  blackboard.motors[i].sign = declared.motor_signs[i]
             /\ i \in DOMAIN declared.motor_enabled =>
                  blackboard.motors[i].enabled = declared.motor_enabled[i]
  <2>1. blackboard.motors[i] = Motor(declared, i)
    BY <1>1, <1>2 DEF MotorList
  <2>2. /\ blackboard.motors[i].id = ByteId(declared.motor_ids[i])
        /\ blackboard.motors[i].sign = SignOf(declared, i)
        /\ blackboard.motors[i].enabled =
             (i \in DOMAIN declared.motor_enabled => declared.motor_enabled[i])
    BY <2>1 DEF Motor
  <2>3. i \in DOMAIN declared.motor_signs /\ declared.motor_signs[i] \in {1, -1} =>
          SignOf(declared, i) = declared.motor_signs[i]
    BY DEF SignOf
  <2>4. i \in DOMAIN declared.motor_enabled => declared.motor_enabled[i] \in BOOLEAN
    <3>1. declared.motor_enabled \in Seq(BOOLEAN)
      BY ParamsAssumption DEF NodeTypeOK, IsFull, Params, HardwareParams
    <3> QED
      BY <3>1
  <2> QED
    BY <2>2, <2>3, <2>4, SmallId
<1> QED
  BY <1>1, <1>2, <1>3 DEF HardwareInForce

\* While a node is configured its motors are the reported ones, for any values and requests,
\* but for ids beyond a byte and signs other than +-1.
THEOREM HardwareStays == Spec => []HardwareInForce
<1>1. TypeOK /\ ForceInv => HardwareInForce
  BY LoadedAsReported DEF ForceInv, TypeOK
<1> QED
  BY <1>1, TypeInit, TypeStep, ForceAlways, PTL DEF Spec

\* What the node reports of its hot parameters is what it uses, and the drive timer follows.
THEOREM HotFollows == Spec => []HotInForce
<1>1. ForceInv => HotInForce
  BY DEF ForceInv
<1> QED
  BY <1>1, ForceAlways, PTL
=============================================================================
