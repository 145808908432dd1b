-------------------------- MODULE SubsystemAction ---------------------------
(***************************************************************************)
(* SubsystemAction: the action-server pattern for further subsystems.      *)
(*                                                                         *)
(* A client sends goals; one goal at a time is worked on by a behaviour    *)
(* tree that a 100 ms timer ticks.  A newer goal replaces the older one.   *)
(*                                                                         *)
(* Two groups of callbacks share active_goal_, active_tree_ and            *)
(* tick_timer_, which no lock protects: the default group (transitions and *)
(* ticks, one at a time) and the reentrant group of the action server.     *)
(* A callback is cut where it passes from one of these to the next.        *)
(* overlap tells whether callbacks of the two groups run at the same time  *)
(* in a behaviour, which MultiThreadedExecutor allows.                     *)
(*                                                                         *)
(* rclcpp_action is external: a goal accepted is executing, a goal ends    *)
(* once (ending it again throws), and a goal whose last handle is dropped  *)
(* is cancelled.                                                           *)
(***************************************************************************)
EXTENDS Naturals, FiniteSets

CONSTANTS
  Goals,      \* the goals clients send
  Unknown,    \* those whose command select_tree does not know
  Overlaps,   \* whether callbacks overlap: the cases considered
  None        \* no goal

ASSUME SubsystemAssumption ==
  Unknown \subseteq Goals /\ Overlaps \subseteq BOOLEAN /\ None \notin Goals

VARIABLES
  overlap,      \* callbacks of the two groups may run at the same time
  broken,       \* undefined behaviour, or an exception that leaves a callback
  state,        \* lifecycle state
  main,         \* where the default group's callback is
  handler,      \* per goal, where the callback that accepts it is
  accepting,    \* accepting_goals_
  callback,     \* goal_callback_ is set
  server,       \* action_server_ exists
  trees,        \* trees_ are built
  active_goal,  \* active_goal_
  active_tree,  \* active_tree_ is set
  timer,        \* tick_timer_ runs
  status,       \* per goal, what the client knows
  owner,        \* history: the goal for which the tree was started, None if at rest
  earned        \* history: goals for which the tree ended with SUCCESS

serverVars == <<accepting, callback, server, trees>>
workVars == <<active_goal, active_tree, timer, status, owner, earned>>
vars == <<overlap, broken, state, main, handler, serverVars, workVars>>

\* What a tick and the callbacks of the action server leave alone.
mainRest == <<overlap, broken, state, handler, serverVars>>
handlerRest == <<overlap, broken, state, main, serverVars>>

States == {"unconfigured", "inactive", "active", "finalized"}
Live == {"executing", "canceling"}
Ended == {"succeeded", "aborted", "canceled", "rejected"}
MainSteps == {"idle", "tick", "running", "success", "failure", "clear", "reset",
              "deactivating", "deactivating_goal", "cleaning", "shutting_down"}
HandlerSteps == {"none", "accepted", "replace", "select", "start"}

\* Callbacks under way; those of them that use the unprotected members.
Busy == {g \in Goals : handler[g] # "none"}
Using == {g \in Busy : handler[g] # "accepted"}
Nobody == main = "idle" /\ Busy = {}

\* A callback of the default group begins, one of the reentrant group begins.
MainEnters == ~broken /\ main = "idle" /\ (overlap \/ Nobody)
HandlerEnters == ~broken /\ (overlap \/ Nobody)
AtMain(step) == ~broken /\ main = step
AtHandler(g, step) == ~broken /\ handler[g] = step

Breaks == broken' = TRUE /\ UNCHANGED <<overlap, state, main, handler, serverVars, workVars>>

\* Two callbacks use the unprotected members at the same time; or a new configuration
\* destroys the SubsystemAction whose callback is still running.
DataRace ==
  /\ ~broken
  /\ \/ Cardinality(Using) + (IF main = "idle" THEN 0 ELSE 1) > 1
     \/ Busy # {} /\ main = "idle" /\ state = "unconfigured"
  /\ Breaks

-----------------------------------------------------------------------------
(* Goal handles: external *)

Ends(g, how) == [status EXCEPT ![g] = how]

\* A goal whose handle is dropped before it has ended.
Dropped(g) == IF g # None /\ status[g] \in Live THEN Ends(g, "canceled") ELSE status

-----------------------------------------------------------------------------
(* Transitions *)

\* A new SubsystemAction, configure and set_goal_callback
StartServer == accepting' = FALSE /\ callback' = TRUE /\ server' = TRUE

\* unconfigure
StopServer == accepting' = FALSE /\ callback' = FALSE /\ server' = FALSE

ToggleEnable(on) == accepting' = on

BuildTrees == trees' = TRUE

\* A tree that cannot be built fails the transition and leaves the server.
Configure ==
  /\ MainEnters /\ state = "unconfigured"
  /\ StartServer
  /\ \/ state' = "inactive" /\ BuildTrees
     \/ UNCHANGED <<state, trees>>
  /\ UNCHANGED <<overlap, broken, main, handler, workVars>>

Activate ==
  /\ MainEnters /\ state = "inactive"
  /\ state' = "active" /\ ToggleEnable(TRUE)
  /\ UNCHANGED <<overlap, broken, main, handler, callback, server, trees, workVars>>

\* (mutant) the timer is left running
RestTreeOnly == active_tree' = FALSE /\ owner' = None /\ UNCHANGED timer

\* set_tick_timer(false), haltTree() and active_tree_ = nullptr
Rest == timer' = FALSE /\ active_tree' = FALSE /\ owner' = None

\* abort_goal(active_goal_, ...); active_goal_.reset()
AbortActive ==
  /\ active_goal' = None
  /\ status' = IF active_goal = None THEN status ELSE Ends(active_goal, "aborted")

\* goal_handle->abort() throws when the goal has ended.
CanAbort == active_goal = None \/ status[active_goal] \in Live

BeginDeactivate ==
  /\ MainEnters /\ state = "active"
  /\ main' = "deactivating" /\ ToggleEnable(FALSE)
  /\ UNCHANGED <<overlap, broken, state, handler, callback, server, trees, workVars>>

DeactivateTree ==
  /\ AtMain("deactivating")
  /\ main' = "deactivating_goal"
  /\ Rest
  /\ UNCHANGED <<mainRest, active_goal, status, earned>>

DeactivateGoal ==
  /\ AtMain("deactivating_goal")
  /\ IF CanAbort
     THEN /\ AbortActive
          /\ main' = "idle" /\ state' = "inactive"
          /\ UNCHANGED <<overlap, broken, handler, serverVars, active_tree, timer, owner, earned>>
     ELSE Breaks

BeginCleanup ==
  /\ MainEnters /\ state = "inactive"
  /\ IF CanAbort
     THEN /\ AbortActive
          /\ main' = "cleaning"
          /\ UNCHANGED <<mainRest, active_tree, timer, owner, earned>>
     ELSE Breaks

EndCleanup ==
  /\ AtMain("cleaning")
  /\ main' = "idle" /\ state' = "unconfigured"
  /\ Rest
  /\ StopServer /\ trees' = FALSE
  /\ UNCHANGED <<overlap, broken, handler, active_goal, status, earned>>

\* Goals are still accepted after this if they were before.
BeginShutdown ==
  /\ MainEnters /\ state # "finalized"
  /\ main' = "shutting_down"
  /\ Rest
  /\ UNCHANGED <<mainRest, active_goal, status, earned>>

EndShutdown ==
  /\ AtMain("shutting_down")
  /\ IF CanAbort
     THEN /\ AbortActive
          /\ main' = "idle" /\ state' = "finalized"
          /\ UNCHANGED <<overlap, broken, handler, serverVars, active_tree, timer, owner, earned>>
     ELSE Breaks

-----------------------------------------------------------------------------
(* tick_tree_once *)

\* (mutant) a tick with nothing to do only returns
JustReturn == UNCHANGED timer

\* set_tick_timer(false) when there is no goal or no tree
StopTimer == timer' = FALSE

Tick ==
  /\ MainEnters /\ timer
  /\ IF active_goal # None /\ active_tree
     THEN main' = "tick" /\ UNCHANGED timer
     ELSE StopTimer /\ UNCHANGED main
  /\ UNCHANGED <<mainRest, active_goal, active_tree, status, owner, earned>>

\* tickOnce goes on with a tree that was started before, whoever started it.
Worker == IF owner = None THEN active_goal ELSE owner

TickOnce(result) ==
  /\ AtMain("tick")
  /\ IF active_tree /\ trees
     THEN /\ main' = result
          /\ owner' = IF result = "running" THEN Worker ELSE None
          /\ earned' = IF result = "success" THEN earned \cup {Worker} ELSE earned
          /\ UNCHANGED <<mainRest, active_goal, active_tree, timer, status>>
     ELSE Breaks

\* (mutant) a tree that failed counts as done
AlwaysDone == "succeeded"

\* (mutant) the tree's status is passed on as it is
RawStatus == main

\* succeed_goal or abort_goal
Answer == IF main = "success" THEN "succeeded" ELSE "aborted"

\* The feedback, for which active_goal_ is used without another test; then the result.
Finish ==
  /\ ~broken /\ main \in {"running", "success", "failure"}
  /\ IF active_goal = None \/ (main # "running" /\ status[active_goal] \notin Live)
     THEN Breaks
     ELSE /\ main' = IF main = "running" THEN "idle" ELSE "clear"
          /\ status' = IF main = "running" THEN status ELSE Ends(active_goal, Answer)
          /\ UNCHANGED <<mainRest, active_goal, active_tree, timer, owner, earned>>

Clear ==
  /\ AtMain("clear")
  /\ IF active_tree
     THEN /\ main' = "reset"
          /\ active_tree' = FALSE /\ owner' = None
          /\ UNCHANGED <<mainRest, active_goal, timer, status, earned>>
     ELSE Breaks

\* (mutant) the goal that has ended stays the active one
KeepGoal == UNCHANGED <<active_goal, status>>

\* active_goal_.reset()
ResetGoal == active_goal' = None /\ status' = Dropped(active_goal)

Reset ==
  /\ AtMain("reset")
  /\ main' = "idle" /\ timer' = FALSE
  /\ ResetGoal
  /\ UNCHANGED <<mainRest, active_tree, owner, earned>>

-----------------------------------------------------------------------------
(* The action server *)

HandleGoal(g) ==
  /\ HandlerEnters /\ server /\ status[g] = "unsent"
  /\ IF accepting
     THEN status' = Ends(g, "executing") /\ handler' = [handler EXCEPT ![g] = "accepted"]
     ELSE status' = Ends(g, "rejected") /\ UNCHANGED handler
  /\ UNCHANGED <<handlerRest, active_goal, active_tree, timer, owner, earned>>

\* Always accepted; nothing in the node looks at it.
HandleCancel(g) ==
  /\ HandlerEnters /\ server /\ status[g] = "executing"
  /\ status' = Ends(g, "canceling")
  /\ UNCHANGED <<overlap, broken, state, main, handler, serverVars,
                 active_goal, active_tree, timer, owner, earned>>

Goes(g, step) == handler' = [handler EXCEPT ![g] = step]

\* The callback is copied under the lock and called after it.
HandleAccepted(g) ==
  /\ AtHandler(g, "accepted")
  /\ IF callback
     THEN Goes(g, "replace") /\ UNCHANGED status
     ELSE Goes(g, "none") /\ status' = Dropped(g)
  /\ UNCHANGED <<handlerRest, active_goal, active_tree, timer, owner, earned>>

ReplaceGoal(g) ==
  /\ AtHandler(g, "replace")
  /\ IF CanAbort
     THEN /\ AbortActive
          /\ Goes(g, "select")
          /\ UNCHANGED <<handlerRest, active_tree, timer, owner, earned>>
     ELSE Breaks

\* (mutant) the old goal's tree goes on
LetRun == UNCHANGED owner

\* active_tree_->haltTree()
Halt == owner' = IF active_tree THEN None ELSE owner

\* select_tree
Selects(g) == g \notin Unknown

\* An unknown command leaves the old tree selected and the timer running.
SelectTree(g) ==
  /\ AtHandler(g, "select")
  /\ Halt
  /\ IF Selects(g)
     THEN /\ Goes(g, "start")
          /\ active_tree' = TRUE
          /\ UNCHANGED status
     ELSE /\ Goes(g, "none")
          /\ status' = Ends(g, "aborted")
          /\ UNCHANGED active_tree
  /\ UNCHANGED <<handlerRest, active_goal, timer, earned>>

\* (mutant) the timer is not started
NoTimer == UNCHANGED timer

\* set_tick_timer(true)
StartTimer == timer' = TRUE

Start(g) ==
  /\ AtHandler(g, "start")
  /\ active_goal' = g /\ status' = Dropped(active_goal)
  /\ StartTimer
  /\ Goes(g, "none")
  /\ UNCHANGED <<handlerRest, active_tree, owner, earned>>

-----------------------------------------------------------------------------
Init ==
  /\ overlap \in Overlaps /\ broken = FALSE
  /\ state = "unconfigured" /\ main = "idle" /\ handler = [g \in Goals |-> "none"]
  /\ accepting = FALSE /\ callback = FALSE /\ server = FALSE /\ trees = FALSE
  /\ active_goal = None /\ active_tree = FALSE /\ timer = FALSE
  /\ status = [g \in Goals |-> "unsent"] /\ owner = None /\ earned = {}

Transition ==
  \/ Configure \/ Activate
  \/ BeginDeactivate \/ DeactivateTree \/ DeactivateGoal
  \/ BeginCleanup \/ EndCleanup
  \/ BeginShutdown \/ EndShutdown

TreeEnds == TickOnce("success") \/ TickOnce("failure")
Ticking == Tick \/ TickOnce("running") \/ TreeEnds \/ Finish \/ Clear \/ Reset

Handling(g) ==
  HandleAccepted(g) \/ ReplaceGoal(g) \/ SelectTree(g) \/ Start(g)

Next ==
  \/ Transition \/ Ticking \/ DataRace
  \/ \E g \in Goals : HandleGoal(g) \/ HandleCancel(g) \/ Handling(g)

Spec == Init /\ [][Next]_vars

\* The executor runs what is ready, and a tree that is ticked again and again ends.
Fairness ==
  /\ WF_vars(Ticking) /\ SF_vars(TreeEnds)
  /\ WF_vars(DeactivateTree \/ DeactivateGoal \/ EndCleanup \/ EndShutdown)
  /\ \A g \in Goals : WF_vars(Handling(g))

FairSpec == Spec /\ Fairness

-----------------------------------------------------------------------------
(* Properties *)

TypeOK ==
  /\ overlap \in BOOLEAN /\ broken \in BOOLEAN
  /\ state \in States /\ main \in MainSteps /\ handler \in [Goals -> HandlerSteps]
  /\ accepting \in BOOLEAN /\ callback \in BOOLEAN /\ server \in BOOLEAN /\ trees \in BOOLEAN
  /\ active_goal \in Goals \cup {None} /\ active_tree \in BOOLEAN /\ timer \in BOOLEAN
  /\ status \in [Goals -> Live \cup Ended \cup {"unsent"}]
  /\ owner \in Goals \cup {None} /\ earned \subseteq Goals \cup {None}

\* While callbacks do not overlap, no sequence of goals, cancels and transitions makes the
\* node use a goal or a tree that is not there, or end a goal a second time.
NeverBroken == ~overlap => ~broken

\* While callbacks do not overlap, a goal that succeeds does so because the tree was
\* started for it and ended with SUCCESS, not on what was left of an earlier goal's run.
SuccessIsEarned ==
  ~overlap => \A g \in Goals : status[g] = "succeeded" => g \in earned

\* While callbacks do not overlap, a node that is neither ACTIVE nor FINALIZED has no goal,
\* no tree selected and no timer.
RestsWhenInactive ==
  ~overlap /\ Nobody /\ state \in {"unconfigured", "inactive"}
    => active_goal = None /\ ~active_tree /\ owner = None /\ ~timer

\* While callbacks do not overlap, every goal that was accepted is told how it ended, whatever
\* replaces or cancels it and whatever state the node goes to: none ends because its handle
\* was forgotten, so one whose cancel was accepted ends succeeded or aborted, too.
EveryGoalEnds ==
  \A g \in Goals :
    (~overlap /\ status[g] \in Live) ~> (status[g] \in {"succeeded", "aborted"})

\* Whether callbacks overlap or not, the timer of a node that has no goal or no tree stops
\* by itself: also the one that an unknown command leaves running, or that a goal accepted
\* during a deactivation starts in an INACTIVE node.
TimerStops == timer ~> (~timer \/ broken)
=============================================================================
