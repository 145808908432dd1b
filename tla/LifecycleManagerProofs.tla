----------------------- MODULE LifecycleManagerProofs -----------------------
(***************************************************************************)
(* Safety of the bring-up, for any number of managed nodes in any states,  *)
(* any number of attempts, and whatever goes wrong.                        *)
(***************************************************************************)
EXTENDS LifecycleManager, SequenceTheorems, TLAPS

LEMMA OrderFacts ==
  /\ Len(Order) \in Nat \ {0}
  /\ \A i \in 1 .. Len(Order) : Order[i] \in Nodes
  /\ \A i, j \in 1 .. Len(Order) : Order[i] = Order[j] => i = j
BY ManagerAssumption DEF Nodes, IsInjective

LEMMA TransitionFacts ==
  \A transition \in Transitions : To[transition] \in States /\ From[transition] \subseteq States
BY DEF Transitions, To, From, States

-----------------------------------------------------------------------------
(* Type correctness *)

LEMMA TypeInit == Init => TypeOK
<1> SUFFICES ASSUME Init PROVE TypeOK
  OBVIOUS
<1>1. alive \in [Nodes -> BOOLEAN]
  BY DEF Init
<1>2. state \in [Nodes -> States]
  BY DEF Init, States
<1>3. inbox \in [Nodes -> Seq(Requests)]
  BY DEF Init
<1>4. count \in 0 .. MaxFaults /\ at \in 1 .. Len(Order) + 1 /\ attempt \in 0 .. Attempts - 1
  BY ManagerAssumption, OrderFacts DEF Init
<1> QED
  BY <1>1, <1>2, <1>3, <1>4 DEF Init, TypeOK, Steps

LEMMA AnswerType ==
  ASSUME TypeOK, NEW n \in Nodes, Serves(n),
         NEW answer \in {"success", "refused"} \cup States, Answer(n, answer)
  PROVE  /\ inbox' \in [Nodes -> Seq(Requests)]
         /\ call' \in {"none", "waiting", "failed", "success", "refused"} \cup States
<1>1. inbox[n] \in Seq(Requests) /\ inbox[n] # <<>>
  BY DEF TypeOK, Serves
<1>2. Tail(inbox[n]) \in Seq(Requests)
  BY <1>1, HeadTailProperties
<1> QED
  BY <1>2 DEF Answer, TypeOK

LEMMA NodesType ==
  ASSUME TypeOK, NEW n \in Nodes, Environment(n)
  PROVE  TypeOK'
<1> USE DEF nodeVars, treeVars
<1>1. CASE ServeGetState(n)
  <2>1. state[n] \in States
    BY DEF TypeOK
  <2> QED
    BY <1>1, <2>1, AnswerType DEF ServeGetState, TypeOK
<1>2. CASE ServeChangeState(n)
  <2>1. Head(inbox[n]) \in Requests
    BY <1>2, HeadTailProperties DEF ServeChangeState, Serves, TypeOK
  <2>2. Head(inbox[n]).op \in Transitions
    BY <1>2, <2>1 DEF ServeChangeState, Requests
  <2>3. state' \in [Nodes -> States]
    BY <1>2, <2>2, TransitionFacts DEF ServeChangeState, TypeOK
  <2>4. /\ inbox' \in [Nodes -> Seq(Requests)]
        /\ call' \in {"none", "waiting", "failed", "success", "refused"} \cup States
    BY <1>2, AnswerType DEF ServeChangeState
  <2> QED
    BY <1>2, <2>3, <2>4 DEF ServeChangeState, TypeOK
<1>3. CASE Operator(n)
  <2>1. count' \in 0 .. MaxFaults
    BY <1>3, ManagerAssumption DEF Operator, TypeOK
  <2>2. state' \in [Nodes -> States]
    BY <1>3, TransitionFacts DEF Operator, TypeOK
  <2> QED
    BY <1>3, <2>1, <2>2 DEF Operator, TypeOK
<1>4. CASE Crash(n)
  <2>1. count' \in 0 .. MaxFaults
    BY <1>4, ManagerAssumption DEF Crash, TypeOK
  <2>2. state' \in [Nodes -> States] /\ alive' \in [Nodes -> BOOLEAN]
    BY <1>4 DEF Crash, TypeOK, States
  <2>3. inbox' \in [Nodes -> Seq(Requests)]
    <3>1. <<>> \in Seq(Requests)
      BY EmptySeq
    <3> QED
      BY <1>4, <3>1 DEF Crash, TypeOK
  <2> QED
    BY <1>4, <2>1, <2>2, <2>3 DEF Crash, TypeOK
<1>5. CASE Start(n)
  BY <1>5 DEF Start, TypeOK
<1> QED
  BY <1>1, <1>2, <1>3, <1>4, <1>5 DEF Environment

LEMMA ManagerType ==
  ASSUME TypeOK, Manager \/ ShutdownSignal
  PROVE  TypeOK'
<1> USE DEF nodeVars, treeVars
<1>1. CASE Send
  <2>1. Node \in Nodes
    BY <1>1, OrderFacts DEF Send, Ticks, Node, TypeOK
  <2>2. Request \in Requests
    <3>1. (IF step \in Checks THEN "get_state" ELSE step) \in Transitions \cup {"get_state"}
      BY DEF TypeOK, Steps, Checks, Transitions
    <3> QED
      BY <3>1 DEF Request, Requests
  <2>3. inbox' \in [Nodes -> Seq(Requests)]
    <3>1. inbox[Node] \in Seq(Requests)
      BY <2>1 DEF TypeOK
    <3>2. Append(inbox[Node], Request) \in Seq(Requests)
      BY <2>2, <3>1, AppendProperties
    <3> QED
      BY <1>1, <3>2 DEF Send, TypeOK
  <2> QED
    BY <1>1, <2>3 DEF Send, TypeOK
<1>2. CASE TimesOut
  <2>1. Node \in Nodes
    BY <1>2, OrderFacts DEF TimesOut, Ticks, Node, TypeOK
  <2> DEFINE box == inbox[Node]
             given == [i \in DOMAIN box |-> GivenUp(box[i])]
  <2>2. box \in Seq(Requests)
    BY <2>1 DEF TypeOK
  <2>3. \A request \in Requests : GivenUp(request) \in Requests
    BY DEF GivenUp, Requests
  <2>4. given \in Seq(Requests)
    <3>1. DOMAIN box = 1 .. Len(box) /\ Len(box) \in Nat /\ \A i \in 1 .. Len(box) : box[i] \in Requests
      BY <2>2
    <3>2. given \in [1 .. Len(box) -> Requests]
      BY <2>3, <3>1
    <3> QED
      BY <3>1, <3>2, IsASeq
  <2>5. inbox' = [inbox EXCEPT ![Node] = given]
    BY <1>2 DEF TimesOut
  <2>6. inbox' \in [Nodes -> Seq(Requests)]
    BY <2>4, <2>5 DEF TypeOK
  <2> QED
    BY <1>2, <2>6 DEF TimesOut, TypeOK
<1>3. CASE CheckDone
  <2>1. at' \in 1 .. Len(Order) + 1 /\ attempt' \in 0 .. Attempts - 1
    BY <1>3, OrderFacts, ManagerAssumption DEF CheckDone, Answered, Ticks, Proceed, TypeOK
  <2>2. step' \in Steps /\ status' \in {"running", "success", "failure", "ended"}
    BY <1>3 DEF CheckDone, Proceed, TypeOK, Steps
  <2> QED
    BY <1>3, <2>1, <2>2 DEF CheckDone, TypeOK
<1>4. CASE ChangeDone
  <2>1. at' \in 1 .. Len(Order) + 1 /\ attempt' \in 0 .. Attempts - 1
    BY <1>4, OrderFacts, ManagerAssumption
    DEF ChangeDone, Answered, Ticks, Proceed, Retry, NextAttempt, TypeOK
  <2>2. step' \in Steps /\ status' \in {"running", "success", "failure", "ended"}
    BY <1>4 DEF ChangeDone, Proceed, TypeOK, Steps
  <2> QED
    BY <1>4, <2>1, <2>2 DEF ChangeDone, TypeOK
<1>5. CASE Announce \/ ShutdownSignal
  BY <1>5 DEF Announce, ShutdownSignal, TypeOK
<1> QED
  BY <1>1, <1>2, <1>3, <1>4, <1>5 DEF Manager

LEMMA TypeStep == TypeOK /\ [Next]_vars => TypeOK'
<1>1. ASSUME TypeOK, UNCHANGED vars PROVE TypeOK'
  BY <1>1 DEF vars, nodeVars, treeVars, TypeOK
<1> QED
  BY <1>1, NodesType, ManagerType DEF Next

\* Every variable has its type for all constants: the tree stays within its nodes and attempts,
\* and nothing but requests gets into a node's inbox.
THEOREM TypeCorrect == Spec => []TypeOK
BY TypeInit, TypeStep, PTL DEF Spec

-----------------------------------------------------------------------------
(* A reliable bring-up: the tree and the nodes agree *)

\* Every process runs.
Usable == \A n \in Nodes : alive[n]

\* What a node is left in when the tree goes on to the next.
Done == {"active", "finalized"}

\* There is a request only at the node the tree is at, and it is the one of the leaf the tree is
\* at; unless the manager was shut down meanwhile, it waits for the answer.
OneRequest ==
  /\ \A n \in Nodes : inbox[n] # <<>> =>
       /\ at <= Len(Order) /\ n = Node /\ inbox[n] = <<Request>>
       /\ status = "ended" \/ (status = "running" /\ call = "waiting")
  /\ status = "running" => at <= Len(Order)
  /\ status = "running" /\ call = "waiting" => inbox[Node] = <<Request>>

\* What was answered is still so, and what the leaf is about to ask for can be done.
LeafAgrees ==
  status = "running" =>
    /\ step \in Checks => call \in {"none", "waiting", state[Node]}
    /\ step = "is_inactive" => state[Node] \in {"inactive"} \cup Done
    /\ step \notin Checks =>
         /\ call \in {"none", "waiting", "refused", "success"}
         /\ state[Node] \in IF call = "success" THEN {To[step]} ELSE From[step]

EarlierActive == \A i \in 1 .. at - 1 : state[Order[i]] \in Done

FailedHere == status = "failure" => at <= Len(Order) /\ state[Node] \in From[step]

BringupInv == Usable /\ OneRequest /\ LeafAgrees /\ EarlierActive /\ FailedHere

LEMMA BringupInit == Init /\ Reliable => BringupInv
<1> SUFFICES ASSUME Init, Reliable PROVE BringupInv
  OBVIOUS
<1>1. alive = [n \in Nodes |-> TRUE]
  BY DEF Init, Reliable
<1>2. state \in [Nodes -> States]
  BY DEF Init
<1>3. Order[1] \in Nodes /\ 1 <= Len(Order)
  BY OrderFacts
<1> QED
  BY <1>1, <1>2, <1>3
  DEF Init, BringupInv, Usable, OneRequest, LeafAgrees, EarlierActive, FailedHere, Node, Checks

\* Nodes other than the one the tree is at stay what they were.
LEMMA OthersStay ==
  ASSUME TypeOK, at \in 1 .. Len(Order), EarlierActive, UNCHANGED at,
         NEW s, state' = [state EXCEPT ![Node] = s]
  PROVE  EarlierActive'
<1>1. \A i \in 1 .. at - 1 : Order[i] # Node /\ Order[i] \in Nodes
  BY OrderFacts DEF Node, TypeOK
<1> QED
  BY <1>1 DEF EarlierActive, TypeOK

LEMMA NodesBringup ==
  ASSUME TypeOK, Reliable, BringupInv, NEW n \in Nodes, Environment(n)
  PROVE  BringupInv'
<1> USE DEF BringupInv, nodeVars, treeVars
<1>1. ~Operator(n) /\ ~Crash(n) /\ ~Start(n)
  BY DEF Operator, Crash, Start, Reliable, Usable
<1>2. /\ Serves(n) /\ UNCHANGED <<at, step, attempt, status, alive>>
      /\ ServeGetState(n) \/ ServeChangeState(n)
  BY <1>1 DEF Environment, ServeGetState, ServeChangeState
<1>3. /\ at \in 1 .. Len(Order) /\ n = Node /\ inbox[n] = <<Request>>
      /\ status = "ended" \/ (status = "running" /\ call = "waiting")
  BY <1>2, OrderFacts DEF Serves, OneRequest, TypeOK
<1>4. Head(inbox[n]) = Request /\ Tail(inbox[n]) = <<>>
  BY <1>3
<1>5. ASSUME NEW answer, Answer(n, answer)
      PROVE  inbox' = [inbox EXCEPT ![n] = <<>>] /\ call' = answer
  <2>1. Head(inbox[n]).live
    BY <1>4 DEF Request
  <2> QED
    BY <1>4, <1>5, <2>1 DEF Answer
<1>6. ASSUME NEW answer, Answer(n, answer), answer # "waiting" PROVE OneRequest'
  <2>1. \A m \in Nodes : inbox'[m] = <<>>
    BY <1>3, <1>5, <1>6 DEF OneRequest, TypeOK
  <2>2. call' # "waiting"
    BY <1>5, <1>6
  <2> QED
    BY <1>2, <2>1, <2>2 DEF OneRequest
<1>7. CASE ServeGetState(n)
  <2>1. Answer(n, state[n]) /\ UNCHANGED state /\ state[n] \in States
    BY <1>7 DEF ServeGetState, TypeOK
  <2>2. step \in Checks
    BY <1>4, <1>7 DEF ServeGetState, Request, TypeOK, Steps, Checks
  <2>3. call' = state'[Node']
    BY <1>2, <1>3, <1>5, <2>1 DEF Node
  <2>4. OneRequest'
    BY <1>6, <2>1 DEF States
  <2>5. LeafAgrees'
    BY <1>2, <2>1, <2>2, <2>3 DEF LeafAgrees, Node
  <2> QED
    BY <1>2, <1>3, <2>1, <2>4, <2>5 DEF Usable, EarlierActive, FailedHere, Node
<1>8. CASE ServeChangeState(n)
  <2>1. step \notin Checks /\ Head(inbox[n]).op = step
    BY <1>4, <1>8 DEF ServeChangeState, Request
  <2>2. step \in {"configure", "activate"}
    BY <2>1 DEF TypeOK, Steps, Checks
  <2>3. To[step] \in {"inactive", "active"}
    BY <2>2 DEF To
  <2>4. CASE state' = [state EXCEPT ![n] = To[step]] /\ Answer(n, "success")
    <3>1. call' = "success" /\ state'[Node'] = To[step]
      BY <1>2, <1>3, <1>5, <2>4 DEF Node, TypeOK
    <3>2. Usable'
      BY <1>2, <2>3, <2>4 DEF Usable, TypeOK
    <3>3. OneRequest'
      BY <1>6, <2>4
    <3>4. LeafAgrees'
      <4>1. step' = step /\ step' \notin Checks /\ step' # "is_inactive"
        BY <1>2, <2>1 DEF Checks
      <4>2. state'[Node'] \in IF call' = "success" THEN {To[step']} ELSE From[step']
        BY <3>1, <4>1
      <4> QED
        BY <3>1, <4>1, <4>2 DEF LeafAgrees
    <3>5. EarlierActive'
      BY <1>2, <1>3, <2>4, OthersStay
    <3> QED
      BY <1>2, <1>3, <3>2, <3>3, <3>4, <3>5 DEF FailedHere
  <2>5. CASE Answer(n, "refused") /\ UNCHANGED state
    <3>1. call' = "refused" /\ UNCHANGED Node
      BY <1>2, <1>5, <2>5 DEF Node
    <3>2. OneRequest'
      BY <1>6, <2>5
    <3>3. LeafAgrees'
      BY <1>2, <1>3, <2>1, <2>5, <3>1 DEF LeafAgrees
    <3> QED
      BY <1>2, <1>3, <2>5, <3>1, <3>2, <3>3 DEF Usable, EarlierActive, FailedHere
  <2> QED
    BY <1>8, <2>1, <2>4, <2>5 DEF ServeChangeState
<1> QED
  BY <1>2, <1>7, <1>8

LEMMA SendBringup ==
  ASSUME TypeOK, Reliable, BringupInv, Send
  PROVE  BringupInv'
<1> USE DEF BringupInv
<1>1. at \in 1 .. Len(Order) /\ Node \in Nodes /\ status = "running" /\ call = "none"
  BY OrderFacts DEF Send, Ticks, Node, TypeOK
<1>2. /\ inbox' = [inbox EXCEPT ![Node] = Append(inbox[Node], Request)]
      /\ call' = "waiting" /\ UNCHANGED <<at, step, status, state, alive>>
  BY <1>1 DEF Send, Usable
<1>3. \A n \in Nodes : inbox[n] = <<>>
  BY <1>1 DEF OneRequest
<1>4. Append(inbox[Node], Request) = <<Request>>
  <2>1. \A request : Append(<<>>, request) = <<request>>
    OBVIOUS
  <2> QED
    BY <1>1, <1>3, <2>1
<1>5. inbox'[Node] = <<Request>> /\ \A n \in Nodes : n # Node => inbox'[n] = <<>>
  BY <1>1, <1>2, <1>3, <1>4 DEF TypeOK
<1>6. Node' = Node /\ Request' = Request
  BY <1>2 DEF Node, Request
<1>7. OneRequest'
  <2>1. at' <= Len(Order) /\ status' = "running" /\ call' = "waiting"
    BY <1>1, <1>2
  <2> QED
    BY <1>1, <1>5, <1>6, <2>1, Zenon DEF OneRequest
<1>8. LeafAgrees'
  <2>1. step' = step /\ state' = state /\ call = "none" /\ call' = "waiting"
    BY <1>1, <1>2
  <2> QED
    BY <1>1, <1>6, <2>1 DEF LeafAgrees
<1> QED
  BY <1>1, <1>2, <1>6, <1>7, <1>8 DEF Usable, EarlierActive, FailedHere

\* The leaf was answered: no request is left, and the tree goes on from a node whose state is
\* as known.
LEMMA ProceedBringup ==
  ASSUME TypeOK, Usable, EarlierActive, at \in 1 .. Len(Order), status = "running",
         \A n \in Nodes : inbox[n] = <<>>, UNCHANGED <<state, alive, inbox>>,
         call' = "none", Proceed,
         step \in {"is_unconfigured", "configure"} => state[Node] \in {"inactive"} \cup Done,
         step \in {"is_inactive", "activate"} => state[Node] \in Done
  PROVE  BringupInv'
<1> USE DEF BringupInv
<1>1. Usable'
  BY DEF Usable
<1>2. CASE step \in {"is_unconfigured", "configure"}
  <2>1. step' = "is_inactive" /\ UNCHANGED <<at, status>> /\ UNCHANGED Node
    BY <1>2 DEF Proceed, Node
  <2>2. OneRequest'
    BY <2>1 DEF OneRequest
  <2>3. LeafAgrees'
    BY <1>2, <2>1 DEF LeafAgrees, Checks
  <2> QED
    BY <1>1, <2>1, <2>2, <2>3 DEF EarlierActive, FailedHere
<1>3. CASE step \in {"is_inactive", "activate"}
  <2>1. /\ step' = "is_unconfigured" /\ at' = at + 1
        /\ status' = IF at = Len(Order) THEN "success" ELSE status
    BY <1>3 DEF Proceed
  <2>2. status' = "running" => at' <= Len(Order)
    BY <2>1, OrderFacts
  <2>3. OneRequest'
    BY <2>2 DEF OneRequest
  <2>4. LeafAgrees'
    BY <2>1 DEF LeafAgrees, Checks
  <2>5. EarlierActive'
    BY <1>3, <2>1 DEF EarlierActive, Node
  <2> QED
    BY <1>1, <2>1, <2>3, <2>4, <2>5 DEF FailedHere
<1> QED
  BY <1>2, <1>3 DEF Proceed

LEMMA CheckBringup ==
  ASSUME TypeOK, Reliable, BringupInv, CheckDone
  PROVE  BringupInv'
<1> USE DEF BringupInv
<1>1. /\ at \in 1 .. Len(Order) /\ Node \in Nodes /\ status = "running"
      /\ step \in Checks /\ call = state[Node] /\ state[Node] \in States
  BY OrderFacts DEF CheckDone, Answered, Ticks, Node, LeafAgrees, Usable, TypeOK
<1>2. /\ UNCHANGED <<state, alive, inbox>> /\ call' = "none"
      /\ \A n \in Nodes : inbox[n] = <<>>
  BY <1>1 DEF OneRequest, CheckDone, Answered, nodeVars
<1>3. CASE ChangeDue
  <2>1. /\ UNCHANGED <<at, status>> /\ Node' = Node
        /\ step' = IF step = "is_unconfigured" THEN "configure" ELSE "activate"
    BY <1>3 DEF CheckDone, Node
  <2>2. OneRequest'
    BY <1>2, <2>1 DEF OneRequest
  <2>3. state[Node] = Asked[step]
    BY <1>1, <1>3 DEF ChangeDue, InState
  <2>4. state[Node] \in From[step']
    <3>1. CASE step = "is_unconfigured"
      BY <2>1, <2>3, <3>1 DEF Asked, From
    <3>2. CASE step = "is_inactive"
      BY <2>1, <2>3, <3>2 DEF Asked, From
    <3> QED
      BY <1>1, <3>1, <3>2 DEF Checks
  <2>5. LeafAgrees'
    <3>1. step' \notin Checks /\ step' # "is_inactive" /\ call' = "none"
      BY <1>2, <2>1 DEF Checks
    <3>2. state'[Node'] \in IF call' = "success" THEN {To[step']} ELSE From[step']
      BY <1>2, <2>1, <2>4
    <3> QED
      BY <3>1, <3>2 DEF LeafAgrees
  <2> QED
    BY <1>1, <1>2, <2>1, <2>2, <2>5 DEF Usable, EarlierActive, FailedHere
<1>4. CASE ~ChangeDue
  <2>1. Proceed
    BY <1>4 DEF CheckDone
  <2>2. state[Node] # Asked[step]
    BY <1>1, <1>4 DEF ChangeDue, InState
  <2>3. step = "is_unconfigured" => state[Node] \in {"inactive"} \cup Done
    BY <1>1, <2>2 DEF Asked, States, Done
  <2>4. step = "is_inactive" => state[Node] \in Done
    BY <1>1, <2>2 DEF Asked, States, LeafAgrees
  <2> QED
    BY <1>1, <1>2, <2>1, <2>3, <2>4, ProceedBringup DEF Checks
<1> QED
  BY <1>3, <1>4

LEMMA ChangeBringup ==
  ASSUME TypeOK, Reliable, BringupInv, ChangeDone
  PROVE  BringupInv'
<1> USE DEF BringupInv
<1>1. /\ at \in 1 .. Len(Order) /\ Node \in Nodes /\ status = "running"
      /\ step \in {"configure", "activate"} /\ call \in {"refused", "success"}
      /\ state[Node] \in IF call = "success" THEN {To[step]} ELSE From[step]
  BY OrderFacts DEF ChangeDone, Answered, Ticks, Node, LeafAgrees, TypeOK, Steps, Checks
<1>2. /\ UNCHANGED <<state, alive, inbox>> /\ call' = "none"
      /\ \A n \in Nodes : inbox[n] = <<>>
  BY <1>1 DEF OneRequest, ChangeDone, Answered, nodeVars
<1>3. CASE call = "success"
  <2>1. Proceed /\ state[Node] = To[step]
    BY <1>1, <1>3 DEF ChangeDone, ChangeSucceeded
  <2>2. step = "configure" => state[Node] = "inactive"
    BY <2>1 DEF To
  <2>3. step = "activate" => state[Node] \in Done
    BY <2>1 DEF To, Done
  <2> QED
    BY <1>1, <1>2, <2>1, <2>2, <2>3, ProceedBringup
<1>4. CASE call = "refused"
  <2>1. /\ UNCHANGED <<at, step>> /\ Node' = Node /\ status' \in {"running", "failure"}
        /\ state[Node] \in From[step]
    BY <1>1, <1>4 DEF ChangeDone, ChangeSucceeded, Node
  <2>2. OneRequest'
    BY <1>1, <1>2, <2>1 DEF OneRequest
  <2>3. LeafAgrees'
    BY <1>1, <1>2, <2>1 DEF LeafAgrees, Checks
  <2> QED
    BY <1>1, <1>2, <2>1, <2>2, <2>3 DEF Usable, EarlierActive, FailedHere
<1> QED
  BY <1>1, <1>3, <1>4

LEMMA BringupStep == TypeOK /\ Reliable /\ BringupInv /\ [Next]_vars => BringupInv'
<1> SUFFICES ASSUME TypeOK, Reliable, BringupInv, [Next]_vars PROVE BringupInv'
  OBVIOUS
<1> USE DEF BringupInv, nodeVars, treeVars
<1>1. CASE Send
  BY <1>1, SendBringup
<1>2. CASE TimesOut
  BY <1>2 DEF TimesOut, Ticks, Reliable, OneRequest
<1>3. CASE CheckDone
  BY <1>3, CheckBringup
<1>4. CASE ChangeDone
  BY <1>4, ChangeBringup
<1>5. CASE Announce \/ UNCHANGED vars
  <2>1. UNCHANGED <<at, step, call, status, alive, state, inbox>>
    BY <1>5 DEF Announce, vars
  <2> QED
    BY <2>1 DEF Usable, OneRequest, LeafAgrees, EarlierActive, FailedHere, Node, Request
<1>6. CASE ShutdownSignal
  <2>1. UNCHANGED <<at, step, alive, state, inbox>> /\ status' = "ended"
    BY <1>6 DEF ShutdownSignal
  <2> QED
    BY <2>1 DEF Usable, OneRequest, LeafAgrees, EarlierActive, FailedHere, Node, Request
<1>7. CASE \E n \in Nodes : Environment(n)
  BY <1>7, NodesBringup
<1> QED
  BY <1>1, <1>2, <1>3, <1>4, <1>5, <1>6, <1>7 DEF Next, Manager

\* What may go wrong is chosen once.
LEMMA FaultsStay == [Next]_vars => UNCHANGED faults
BY DEF Next, Manager, Environment, Send, TimesOut, CheckDone, ChangeDone, Announce,
  ShutdownSignal, ServeGetState, ServeChangeState, Operator, Crash, Start, vars

\* For any number of nodes, found in any of the four states: when the system is reliable, the tree and the
\* nodes agree at every moment.
THEOREM BringupAgrees == Spec => [](Reliable => BringupInv)
<1>1. [Next]_vars => (Reliable' <=> Reliable)
  BY FaultsStay DEF Reliable
<1> QED
  BY <1>1, BringupInit, BringupStep, TypeCorrect, PTL DEF Spec

\* A node is looked at only when all nodes before it in bringup.xml are active or were found
\* finalized, however many there are and whichever of the four states each was found in.
THEOREM InOrder == Spec => []EarlierNodesActive
<1>1. (Reliable => BringupInv) => EarlierNodesActive
  BY DEF EarlierNodesActive, BringupInv, EarlierActive, Done
<1> QED
  BY <1>1, BringupAgrees, PTL

\* A bring-up fails only at a node that refused a transition that was legal, after any number
\* of attempts.
THEOREM FailsForAReason == Spec => []FailureIsReal
<1>1. (Reliable => BringupInv) => FailureIsReal
  BY DEF FailureIsReal, BringupInv, FailedHere
<1> QED
  BY <1>1, BringupAgrees, PTL
=============================================================================
