-------------------------- MODULE LifecycleManager --------------------------
(***************************************************************************)
(* LifecycleManager: the bring-up tree, and the nodes it talks to.         *)
(*                                                                         *)
(* bringup.xml takes the managed nodes one after the other.  For each it   *)
(* asks for the state, and configures the node if that is "unconfigured";  *)
(* then asks again, and activates it if that is "inactive".  The question  *)
(* sits under an Inverter, so that any other answer, "finalized" too, and  *)
(* no answer at all, means there is nothing to do.  A change is tried      *)
(* three times.                                                            *)
(*                                                                         *)
(* Both are service calls with a timeout.  A node works its requests off   *)
(* in order, also those nobody waits for any more.  behaviortree_ros2's    *)
(* RosServiceNode is external: a call that cannot be sent, or is not       *)
(* answered in time, fails.                                                *)
(***************************************************************************)
EXTENDS Integers, Sequences, SequencesExt

CONSTANTS
  Order,        \* the managed nodes, in the order of bringup.xml
  FaultSets,    \* the sets of things to go wrong that are considered
  Attempts,     \* num_attempts
  MaxFaults     \* bound on crashes and operator commands together

\* "refuse": a transition callback returns FAILURE.  "timeout": a call is not answered in time.
\* "crash": a node's process ends, and may come back.  "operator": somebody else calls
\* transitions.
Faults == {"refuse", "timeout", "crash", "operator"}

ASSUME ManagerAssumption ==
  /\ Order \in Seq(ToSet(Order)) /\ Order # <<>> /\ IsInjective(Order)
  /\ FaultSets \subseteq SUBSET Faults
  /\ Attempts \in Nat \ {0} /\ MaxFaults \in Nat

Nodes == ToSet(Order)

VARIABLES
  faults,     \* what may go wrong in this behaviour
  count,      \* crashes and operator commands so far
  alive,      \* per node, whether its process runs
  state,      \* per node, its lifecycle state
  inbox,      \* per node, requests to serve; live while the manager waits for the answer
  at, step,   \* where the tree is: index into Order, and the leaf
  attempt,    \* attempts of the change that have failed
  call,       \* the leaf's service call: "none", "waiting" or its outcome
  status,     \* of the tree
  announced   \* "All nodes successfully activated." was logged

treeVars == <<at, step, attempt, call, status, announced>>
nodeVars == <<alive, state, inbox>>
vars == <<faults, count, nodeVars, treeVars>>

States == {"unconfigured", "inactive", "active", "finalized"}
Transitions == {"configure", "activate", "deactivate", "cleanup", "shutdown"}
Steps == {"is_unconfigured", "configure", "is_inactive", "activate"}
Checks == {"is_unconfigured", "is_inactive"}

\* The states a leaf IsInState is given in bringup.xml.
Asked == [is_unconfigured |-> "unconfigured", is_inactive |-> "inactive"]

-----------------------------------------------------------------------------
(* The managed nodes: external *)

\* The lifecycle state machine every managed node implements.
From == [configure |-> {"unconfigured"}, activate |-> {"inactive"},
         deactivate |-> {"active"}, cleanup |-> {"inactive"},
         shutdown |-> {"unconfigured", "inactive", "active"}]
To == [configure |-> "inactive", activate |-> "active", deactivate |-> "inactive",
       cleanup |-> "unconfigured", shutdown |-> "finalized"]

\* Only the answer to the call under way is seen.
Answer(n, answer) ==
  /\ inbox' = [inbox EXCEPT ![n] = Tail(inbox[n])]
  /\ call' = IF Head(inbox[n]).live THEN answer ELSE call

Serves(n) == alive[n] /\ inbox[n] # <<>>

ServeGetState(n) ==
  /\ Serves(n) /\ Head(inbox[n]).op = "get_state"
  /\ Answer(n, state[n])
  /\ UNCHANGED <<faults, count, alive, state, at, step, attempt, status, announced>>

\* A transition that is not legal, or whose callback fails, is answered with
\* success = false.
ServeChangeState(n) ==
  /\ Serves(n) /\ Head(inbox[n]).op # "get_state"
  /\ LET transition == Head(inbox[n]).op IN
       \/ /\ state[n] \in From[transition]
          /\ state' = [state EXCEPT ![n] = To[transition]]
          /\ Answer(n, "success")
       \/ /\ state[n] \notin From[transition] \/ "refuse" \in faults
          /\ Answer(n, "refused")
          /\ UNCHANGED state
  /\ UNCHANGED <<faults, count, alive, at, step, attempt, status, announced>>

Operator(n) ==
  /\ "operator" \in faults /\ count < MaxFaults /\ count' = count + 1
  /\ alive[n]
  /\ \E transition \in Transitions :
       /\ state[n] \in From[transition]
       /\ state' = [state EXCEPT ![n] = To[transition]]
  /\ UNCHANGED <<faults, alive, inbox, treeVars>>

Crash(n) ==
  /\ "crash" \in faults /\ count < MaxFaults /\ count' = count + 1
  /\ alive[n]
  /\ alive' = [alive EXCEPT ![n] = FALSE]
  /\ state' = [state EXCEPT ![n] = "unconfigured"]
  /\ inbox' = [inbox EXCEPT ![n] = <<>>]
  /\ UNCHANGED <<faults, treeVars>>

Start(n) ==
  /\ ~alive[n]
  /\ alive' = [alive EXCEPT ![n] = TRUE]
  /\ UNCHANGED <<faults, count, state, inbox, treeVars>>

-----------------------------------------------------------------------------
(* The manager's calls *)

Node == Order[at]
Ticks == status = "running" /\ at <= Len(Order)

Request == [op |-> IF step \in Checks THEN "get_state" ELSE step, live |-> TRUE]

GivenUp(request) == [op |-> request.op, live |-> FALSE]

\* The leaf sends its request, if the service is there.
Send ==
  /\ Ticks /\ call = "none"
  /\ IF alive[Node]
     THEN /\ inbox' = [inbox EXCEPT ![Node] = Append(inbox[Node], Request)]
          /\ call' = "waiting"
     ELSE call' = "failed" /\ UNCHANGED inbox
  /\ UNCHANGED <<faults, count, alive, state, at, step, attempt, status, announced>>

\* server_timeout.  A node that has died never answers.
TimesOut ==
  /\ Ticks /\ call = "waiting"
  /\ "timeout" \in faults \/ inbox[Node] = <<>>
  /\ call' = "failed"
  /\ inbox' = [inbox EXCEPT ![Node] = [i \in DOMAIN inbox[Node] |-> GivenUp(inbox[Node][i])]]
  /\ UNCHANGED <<faults, count, alive, state, at, step, attempt, status, announced>>

-----------------------------------------------------------------------------
(* The manager's tree *)

Answered == Ticks /\ call \notin {"none", "waiting"}

\* IsInState
InState == call = Asked[step]

\* (mutant) the question without its Inverter
NotInverted == ~InState

\* The Fallback of Inverter(IsInState) and the change: whether the change is due.
ChangeDue == InState

\* The next leaf, after a change that succeeded or was not due.
Proceed ==
  \/ /\ step \in {"is_unconfigured", "configure"}
     /\ step' = "is_inactive"
     /\ UNCHANGED <<at, status>>
  \/ /\ step \in {"is_inactive", "activate"}
     /\ step' = "is_unconfigured"
     /\ at' = at + 1
     /\ status' = IF at = Len(Order) THEN "success" ELSE status

CheckDone ==
  /\ Answered /\ step \in Checks
  /\ call' = "none" /\ attempt' = 0
  /\ IF ChangeDue
     THEN /\ step' = IF step = "is_unconfigured" THEN "configure" ELSE "activate"
          /\ UNCHANGED <<at, status>>
     ELSE Proceed
  /\ UNCHANGED <<faults, count, nodeVars, announced>>

\* (mutant) a count that is never reached
AlwaysRetry == TRUE

\* RetryUntilSuccessful
Retry == attempt + 1 < Attempts

\* (mutant) the failed attempt is not counted
SameAttempt == attempt

NextAttempt == attempt + 1

\* (mutant) any response counts as success
AnyResponse == call \in {"success", "refused"}

\* ChangeStateNode
ChangeSucceeded == call = "success"

\* A change that fails for the last time fails the whole tree.
ChangeDone ==
  /\ Answered /\ step \notin Checks
  /\ call' = "none"
  /\ \/ ChangeSucceeded /\ Proceed /\ attempt' = 0
     \/ /\ ~ChangeSucceeded /\ Retry
        /\ attempt' = NextAttempt
        /\ UNCHANGED <<at, step, status>>
     \/ /\ ~ChangeSucceeded /\ ~Retry
        /\ status' = "failure"
        /\ UNCHANGED <<at, step, attempt>>
  /\ UNCHANGED <<faults, count, nodeVars, announced>>

\* The timer's callback logs this whenever the tree has ended.
Announce ==
  /\ status \in {"success", "failure"} /\ ~announced
  /\ announced' = TRUE
  /\ UNCHANGED <<faults, count, nodeVars, at, step, attempt, call, status>>

\* The shutdown signal: the context is down when shutdown_tree_ is ticked, so no
\* IsInState is answered, and "shutdown" is no transition that ChangeStateNode knows.
\* The first pair of leaves fails, which ends the tree and reaches no node.
ShutdownSignal ==
  /\ status # "ended"
  /\ status' = "ended" /\ call' = "none"
  /\ UNCHANGED <<faults, count, nodeVars, at, step, attempt, announced>>

-----------------------------------------------------------------------------
Init ==
  /\ faults \in FaultSets /\ count = 0
  /\ alive \in IF "crash" \in faults THEN [Nodes -> BOOLEAN] ELSE [Nodes -> {TRUE}]
  /\ state \in [Nodes -> States]
  /\ \A n \in Nodes : ~alive[n] => state[n] = "unconfigured"
  /\ inbox = [n \in Nodes |-> <<>>]
  /\ at = 1 /\ step = "is_unconfigured" /\ attempt = 0
  /\ call = "none" /\ status = "running" /\ announced = FALSE

Environment(n) ==
  \/ ServeGetState(n) \/ ServeChangeState(n) \/ Operator(n) \/ Crash(n) \/ Start(n)
Manager == Send \/ TimesOut \/ CheckDone \/ ChangeDone \/ Announce

Next == Manager \/ ShutdownSignal \/ \E n \in Nodes : Environment(n)

Spec == Init /\ [][Next]_vars

\* The timer ticks, and a node that runs serves its requests.
Fairness ==
  /\ WF_vars(Manager)
  /\ \A n \in Nodes : WF_vars(ServeGetState(n) \/ ServeChangeState(n))

FairSpec == Spec /\ Fairness

-----------------------------------------------------------------------------
(* Properties *)

Requests == [op : Transitions \cup {"get_state"}, live : BOOLEAN]

TypeOK ==
  /\ faults \in FaultSets /\ count \in 0 .. MaxFaults
  /\ alive \in [Nodes -> BOOLEAN] /\ state \in [Nodes -> States]
  /\ inbox \in [Nodes -> Seq(Requests)]
  /\ at \in 1 .. Len(Order) + 1 /\ step \in Steps /\ attempt \in 0 .. Attempts - 1
  /\ call \in {"none", "waiting", "failed", "success", "refused"} \cup States
  /\ status \in {"running", "success", "failure", "ended"} /\ announced \in BOOLEAN

\* Every process runs and answers in time, and nobody interferes.
Reliable == faults \subseteq {"refuse"}

\* The nodes are brought up in order: a node is looked at only when all before it are
\* active, and a tree that succeeds has activated them all, but for nodes that were found
\* finalized.  Those the tree skips, as it skips an active one, and goes on to the next; on
\* a reliable system no node becomes finalized meanwhile.
EarlierNodesActive ==
  Reliable => \A i \in 1 .. at - 1 : state[Order[i]] \in {"active", "finalized"}

\* A bring-up that fails does so at a node that could make the transition but refused it,
\* never because it asked for one that had already been made or was never legal, whichever
\* of the four states the nodes were found in.
FailureIsReal ==
  Reliable /\ status = "failure" => state[Node] \in From[step]

\* The bring-up ends, although nodes refuse, die, do not answer, or are moved by others.
BringupEnds == <>(status # "running")
=============================================================================
