----------------------------- MODULE ParamPanel -----------------------------
(***************************************************************************)
(* The parameter table of drivechain.html and the node it configures.      *)
(*                                                                         *)
(* The page shows the node's lifecycle state, which it asks for every 4 s  *)
(* and after each transition it requested, and offers Apply only where     *)
(* that label says unconfigured.  Calls and answers pass through rosbridge *)
(* and take their time; answers may overtake each other.                   *)
(***************************************************************************)
EXTENDS DriveParams, FiniteSets

CONSTANTS
  Edits,    \* what a user types: settings of one parameter each
  MaxLate   \* bound on the different answers that are on their way at once

ASSUME PanelAssumption ==
  /\ \A e \in Edits : e.name \in Params /\ e.value \in Values[e.name]
  /\ MaxLate \in Nat \ {0}

VARIABLES
  label,     \* elNodeState
  asked,     \* a get_state call is on its way
  answers,   \* answers to get_state that are on their way
  loaded,    \* the table has rows
  table,     \* what its rows read
  sent       \* the set_parameters call that is on its way, or <<>>

panelVars == <<label, asked, answers, loaded, table, sent>>
vars == <<nodeVars, panelVars>>

\* The rows, top to bottom: list_parameters sorts the names.
Rows == <<"motor_count", "motor_enabled", "motor_ids", "motor_signs", "backend",
          "command_timeout_ms", "feedback_rate">>

\* (mutant) only what follows a transition of one's own
NeverPolls == FALSE

\* setInterval, or the callback of a transition.
Polls == ~asked /\ Cardinality(answers) < MaxLate

RefreshNodeState ==
  /\ Polls /\ asked' = TRUE
  /\ UNCHANGED <<nodeVars, label, answers, loaded, table, sent>>

\* The node answers with the state it is in; a call to a node that is gone fails.
ServeGetState ==
  /\ asked /\ asked' = FALSE
  /\ answers' = answers \cup {lc}
  /\ UNCHANGED <<nodeVars, label, loaded, table, sent>>

ShowState ==
  /\ \E a \in answers :
       /\ label' = IF a = "DOWN" THEN "unavailable" ELSE a
       /\ answers' = answers \ {a}
  /\ UNCHANGED <<nodeVars, asked, loaded, table, sent>>

\* list_parameters and get_parameters; nothing is shown before both have answered.
LoadParameters ==
  /\ lc # "DOWN"
  /\ loaded' = TRUE /\ table' = declared
  /\ UNCHANGED <<nodeVars, label, asked, answers, sent>>

Edit ==
  /\ loaded
  /\ \E e \in Edits : table' = [table EXCEPT ![e.name] = e.value]
  /\ UNCHANGED <<nodeVars, label, asked, answers, loaded, sent>>

\* Apply sends every row, changed or not.
ApplyParameters ==
  /\ loaded /\ label = "UNCONFIGURED" /\ sent = <<>>
  /\ sent' = [i \in DOMAIN Rows |-> [name |-> Rows[i], value |-> table[Rows[i]]]]
  /\ UNCHANGED <<nodeVars, label, asked, answers, loaded, table>>

\* The node has the call: one row after the other.
ServeSetParameters ==
  /\ sent # <<>> /\ sent' = <<>>
  /\ SetParameters(sent)
  /\ UNCHANGED <<label, asked, answers, loaded, table>>

\* The node went away: the call fails, or is never answered.
ApplyFails ==
  /\ sent # <<>> /\ lc = "DOWN" /\ sent' = <<>>
  /\ UNCHANGED <<nodeVars, label, asked, answers, loaded, table>>

Init ==
  /\ NodeInit
  /\ label = "unavailable" /\ asked = FALSE /\ answers = {}
  /\ loaded = FALSE /\ table = declared
  /\ sent = <<>>

Panel ==
  \/ RefreshNodeState \/ ServeGetState \/ ShowState
  \/ LoadParameters \/ Edit \/ ApplyParameters \/ ServeSetParameters \/ ApplyFails

Next == (NodeNext /\ UNCHANGED panelVars) \/ Panel

Spec == Init /\ [][Next]_vars

\* The page's interval timer goes on, and rosbridge delivers what it was given.
Fairness ==
  /\ WF_vars(RefreshNodeState) /\ WF_vars(ServeGetState)
  /\ \A a \in {"DOWN", "UNCONFIGURED", "INACTIVE", "ACTIVE", "FINALIZED"} :
       WF_vars(ShowState /\ a \in answers /\ a \notin answers')

FairSpec == Spec /\ Fairness

-----------------------------------------------------------------------------
(* Properties *)

TypeOK ==
  /\ NodeTypeOK
  /\ label \in {"unavailable", "UNCONFIGURED", "INACTIVE", "ACTIVE", "FINALIZED"}
  /\ asked \in BOOLEAN /\ loaded \in BOOLEAN
  /\ answers \subseteq {"DOWN", "UNCONFIGURED", "INACTIVE", "ACTIVE", "FINALIZED"}
  /\ IsFull(table) /\ IsRequest(sent)

Shown(state) == IF state = "DOWN" THEN "unavailable" ELSE state

\* The label by which the page decides whether Apply is offered settles: when the node stays in
\* a state, the page comes to show that state and goes on showing it, however late and in
\* whatever order earlier answers arrive.
LabelSettles ==
  <>[][UNCHANGED lc]_vars => <>[](label = Shown(lc))
=============================================================================
