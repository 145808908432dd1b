----------------------- MODULE SubsystemActionProofs ------------------------
(***************************************************************************)
(* Safety of the subsystem template, for any goals and any commands that   *)
(* the node does not know: types always, the rest while callbacks of its   *)
(* two groups do not overlap.                                              *)
(***************************************************************************)
EXTENDS SubsystemAction, FiniteSetTheorems, TLAPS

-----------------------------------------------------------------------------
(* Type correctness *)

LEMMA StatusType ==
  ASSUME TypeOK
  PROVE  /\ \A g \in Goals, how \in Live \cup Ended :
              Ends(g, how) \in [Goals -> Live \cup Ended \cup {"unsent"}]
         /\ \A g \in Goals \cup {None} : Dropped(g) \in [Goals -> Live \cup Ended \cup {"unsent"}]
BY DEF TypeOK, Ends, Dropped, Ended

LEMMA AbortType ==
  ASSUME TypeOK, AbortActive
  PROVE  active_goal' = None /\ status' \in [Goals -> Live \cup Ended \cup {"unsent"}]
BY StatusType DEF TypeOK, AbortActive, Ended

LEMMA TypeInit == Init => TypeOK
BY SubsystemAssumption DEF Init, TypeOK, States, MainSteps, HandlerSteps

LEMMA TypeStep == TypeOK /\ [Next]_vars => TypeOK'
<1> SUFFICES ASSUME TypeOK, [Next]_vars PROVE TypeOK'
  OBVIOUS
<1> USE DEF TypeOK, serverVars, workVars, mainRest, handlerRest
<1>1. CASE UNCHANGED vars
  BY <1>1 DEF vars
<1>2. ASSUME Breaks PROVE TypeOK'
  BY <1>2 DEF Breaks
<1>3. CASE DataRace
  BY <1>2, <1>3 DEF DataRace
<1>4. CASE Transition
  <2>1. CASE Configure \/ Activate
    BY <2>1 DEF Configure, StartServer, BuildTrees, Activate, ToggleEnable, States
  <2>2. CASE BeginDeactivate \/ DeactivateTree
    BY <2>2 DEF BeginDeactivate, DeactivateTree, ToggleEnable, Rest, MainSteps
  <2>3. CASE DeactivateGoal
    BY <1>2, <2>3, AbortType DEF DeactivateGoal, MainSteps, States
  <2>4. CASE BeginCleanup
    BY <1>2, <2>4, AbortType DEF BeginCleanup, MainSteps
  <2>5. CASE EndCleanup
    BY <2>5 DEF EndCleanup, StopServer, Rest, MainSteps, States
  <2>6. CASE BeginShutdown
    BY <2>6 DEF BeginShutdown, Rest, MainSteps
  <2>7. CASE EndShutdown
    BY <1>2, <2>7, AbortType DEF EndShutdown, MainSteps, States
  <2> QED
    BY <1>4, <2>1, <2>2, <2>3, <2>4, <2>5, <2>6, <2>7 DEF Transition
<1>5. CASE Ticking
  <2>1. CASE Tick
    <3>1. CASE active_goal # None /\ active_tree
      BY <2>1, <3>1 DEF Tick, MainSteps
    <3>2. CASE ~(active_goal # None /\ active_tree)
      BY <2>1, <3>2 DEF Tick, StopTimer
    <3> QED
      BY <3>1, <3>2
  <2>2. ASSUME NEW result \in {"running", "success", "failure"}, TickOnce(result) PROVE TypeOK'
    <3>1. Worker \in Goals \cup {None}
      BY DEF Worker
    <3> QED
      BY <1>2, <2>2, <3>1 DEF TickOnce, MainSteps
  <2>3. CASE Finish
    <3>1. Answer \in Live \cup Ended
      BY DEF Answer, Ended
    <3> QED
      BY <1>2, <2>3, <3>1, StatusType DEF Finish, MainSteps
  <2>4. CASE Clear
    BY <1>2, <2>4 DEF Clear, MainSteps
  <2>5. CASE Reset
    BY <2>5, StatusType DEF Reset, ResetGoal, MainSteps
  <2> QED
    BY <1>5, <2>1, <2>2, <2>3, <2>4, <2>5 DEF Ticking, TreeEnds
<1>6. ASSUME NEW g \in Goals, HandleGoal(g) \/ HandleCancel(g) PROVE TypeOK'
  <2>1. status' \in [Goals -> Live \cup Ended \cup {"unsent"}]
    BY <1>6, StatusType DEF HandleGoal, HandleCancel, Live, Ended
  <2>2. handler' \in [Goals -> HandlerSteps]
    BY <1>6 DEF HandleGoal, HandleCancel, HandlerSteps
  <2> QED
    BY <1>6, <2>1, <2>2 DEF HandleGoal, HandleCancel
<1>7. ASSUME NEW g \in Goals, Handling(g) PROVE TypeOK'
  <2>1. \A step \in HandlerSteps : Goes(g, step) => handler' \in [Goals -> HandlerSteps]
    BY DEF Goes
  <2>2. CASE HandleAccepted(g)
    BY <2>1, <2>2, StatusType DEF HandleAccepted, HandlerSteps
  <2>3. CASE ReplaceGoal(g)
    BY <1>2, <2>1, <2>3, AbortType DEF ReplaceGoal, HandlerSteps
  <2>4. CASE SelectTree(g)
    <3>1. Ends(g, "aborted") \in [Goals -> Live \cup Ended \cup {"unsent"}]
      BY StatusType DEF Ended
    <3>2. owner' \in Goals \cup {None}
      BY <2>4 DEF SelectTree, Halt
    <3>3. handler' \in [Goals -> HandlerSteps] /\ active_tree' \in BOOLEAN
      BY <2>1, <2>4 DEF SelectTree, HandlerSteps
    <3> QED
      BY <2>4, <3>1, <3>2, <3>3 DEF SelectTree
  <2>5. CASE Start(g)
    BY <2>1, <2>5, StatusType DEF Start, StartTimer, HandlerSteps
  <2> QED
    BY <1>7, <2>2, <2>3, <2>4, <2>5 DEF Handling
<1> QED
  BY <1>1, <1>3, <1>4, <1>5, <1>6, <1>7 DEF Next

\* Types hold whether callbacks overlap or not.
THEOREM TypeCorrect == Spec => []TypeOK
<1> QED
  BY TypeInit, TypeStep, PTL DEF Spec

-----------------------------------------------------------------------------
(* One callback at a time: goal, tree and timer agree *)

\* One callback at a time, and one of the action server only where goals are accepted.
OneCallback ==
  /\ main # "idle" => Busy = {}
  /\ \A g, h \in Busy : g = h
  /\ Busy # {} => accepting
  /\ accepting => trees /\ callback /\ state \in {"active", "finalized"}

\* A configured node has its trees and its goal callback: no goal finds them missing.
\* The trees are there whenever one is selected, and only a selected tree has been started,
\* for the goal that is active; unless the handler of a goal has just aborted that one.
TreeAgrees ==
  /\ state \in {"inactive", "active"} => trees /\ callback
  /\ active_tree => trees
  /\ owner # None => active_tree
  /\ owner # None => owner = active_goal \/ \E g \in Goals : handler[g] = "select"

\* A goal that is active has not ended, except between its result and reset().
GoalAgrees ==
  /\ active_goal # None =>
       \/ status[active_goal] \in Live
       \/ main \in {"clear", "reset"} /\ status[active_goal] \in {"succeeded", "aborted"}
  /\ \A g \in Busy : status[g] \in Live /\ g # active_goal
  /\ \A g \in Goals : handler[g] \in {"select", "start"} => active_goal = None
  /\ \A g \in Goals : handler[g] = "start" => active_tree /\ owner = None

\* What a callback of the default group has found or done so far.
MainAgrees ==
  /\ main \in {"tick", "running", "success", "failure", "clear", "reset"} => active_goal # None
  /\ main \in {"tick", "running", "success", "failure", "clear"} => active_tree
  /\ main = "success" => active_goal \in earned
  /\ main = "reset" => ~active_tree /\ owner = None
  /\ main \in {"deactivating_goal", "shutting_down"} => ~active_tree /\ owner = None /\ ~timer
  /\ main \in {"deactivating", "deactivating_goal"} => state = "active" /\ ~accepting
  /\ main \in {"cleaning"} => state = "inactive"
  /\ state \in {"unconfigured", "inactive"} =>
       active_goal = None /\ ~active_tree /\ owner = None /\ ~timer

WorkInv ==
  ~overlap => ~broken /\ OneCallback /\ TreeAgrees /\ GoalAgrees /\ MainAgrees

LEMMA WorkInit == Init => WorkInv
BY SubsystemAssumption DEF Init, WorkInv, OneCallback, TreeAgrees, GoalAgrees, MainAgrees, Busy

\* No step changes whether callbacks overlap.
LEMMA OverlapStays == [Next]_vars => overlap' = overlap
BY DEF Next, vars, serverVars, workVars, mainRest, handlerRest, Breaks, DataRace, Transition,
  Configure, Activate, BeginDeactivate, DeactivateTree, DeactivateGoal, BeginCleanup, EndCleanup,
  BeginShutdown, EndShutdown, Ticking, TreeEnds, Tick, TickOnce, Finish, Clear, Reset,
  HandleGoal, HandleCancel, Handling, HandleAccepted, ReplaceGoal, SelectTree, Start

\* One callback at a time is no data race.
LEMMA NoRace ==
  ASSUME TypeOK, ~overlap, OneCallback
  PROVE  ~DataRace
<1>1. CASE Busy = {}
  <2>1. Using = {}
    BY <1>1 DEF Using
  <2>2. Cardinality(Using) = 0
    BY <2>1, FS_EmptySet
  <2> QED
    BY <1>1, <2>2 DEF DataRace
<1>2. CASE Busy # {}
  <2>1. PICK g \in Busy : Busy = {g}
    BY <1>2 DEF OneCallback
  <2>2. Using = {} \/ Using = {g}
    BY <2>1 DEF Using
  <2>3. Cardinality(Using) = 0 \/ Cardinality(Using) = 1
    BY <2>2, FS_EmptySet, FS_Singleton
  <2>4. main = "idle" /\ state # "unconfigured"
    BY <1>2 DEF OneCallback
  <2> QED
    BY <2>3, <2>4 DEF DataRace
<1> QED
  BY <1>1, <1>2

LEMMA TransitionStep ==
  ASSUME TypeOK, ~overlap, WorkInv, Transition
  PROVE  WorkInv'
<1>1. overlap' = overlap
  BY OverlapStays DEF Next
<1>2. Busy' = {h \in Goals : handler'[h] # "none"} /\ Busy = {h \in Goals : handler[h] # "none"}
  BY DEF Busy
<1>3. handler' = handler
  BY DEF Transition, Configure, Activate, BeginDeactivate, DeactivateTree, DeactivateGoal,
    BeginCleanup, EndCleanup, BeginShutdown, EndShutdown, Breaks, mainRest
<1>4. Busy' = Busy /\ Busy = {}
  <2>1. main # "idle" \/ Nobody
    BY DEF Transition, Configure, Activate, BeginDeactivate, DeactivateTree, DeactivateGoal,
      BeginCleanup, EndCleanup, BeginShutdown, EndShutdown, MainEnters, AtMain
  <2>2. main # "idle" => Busy = {}
    BY DEF WorkInv, OneCallback
  <2> QED
    BY <1>2, <1>3, <2>1, <2>2 DEF Nobody
<1>5. \A g \in Goals : handler[g] = "none"
  BY <1>2, <1>4
<1> USE DEF WorkInv, OneCallback, TreeAgrees, GoalAgrees, MainAgrees, TypeOK, serverVars, workVars, mainRest
<1>6. main \notin {"clear", "reset"} => CanAbort
  BY DEF CanAbort
<1>7. CASE Configure
  BY <1>1, <1>3, <1>4, <1>5, <1>7 DEF Configure, MainEnters, Nobody, StartServer, BuildTrees
<1>8. CASE Activate
  <2>1. /\ state = "inactive" /\ main = "idle" /\ ~broken /\ trees /\ callback
        /\ active_goal = None /\ ~active_tree /\ owner = None
    <3>1. state = "inactive" /\ main = "idle" /\ ~broken
      BY <1>8 DEF Activate, MainEnters
    <3>2. trees /\ callback /\ ~active_tree
      BY <3>1
    <3> QED
      BY <3>1, <3>2
  <2>2. /\ state' = "active" /\ ~broken'
        /\ UNCHANGED <<main, callback, trees, active_goal, active_tree, owner, status>>
    BY <1>8, <2>1 DEF Activate
  <2>3. OneCallback' /\ TreeAgrees'
    BY <1>3, <1>4, <1>5, <2>1, <2>2
  <2>4. GoalAgrees' /\ MainAgrees'
    BY <1>3, <1>4, <1>5, <2>1, <2>2
  <2> QED
    BY <1>1, <2>2, <2>3, <2>4
<1>9. CASE BeginDeactivate
  BY <1>1, <1>3, <1>4, <1>5, <1>9 DEF BeginDeactivate, MainEnters, Nobody, ToggleEnable
<1>10. CASE DeactivateTree
  BY <1>1, <1>3, <1>4, <1>5, <1>10 DEF DeactivateTree, AtMain, Rest
<1>11. CASE DeactivateGoal
  <2>1. /\ main = "deactivating_goal" /\ ~broken /\ state = "active" /\ trees /\ callback
        /\ ~accepting /\ ~active_tree /\ owner = None /\ ~timer
    BY <1>11 DEF DeactivateGoal, AtMain
  <2>2. CanAbort
    BY <1>6, <2>1
  <2>3. /\ active_goal' = None /\ main' = "idle" /\ state' = "inactive"
        /\ UNCHANGED <<broken, serverVars, active_tree, timer, owner, earned>>
    BY <1>11, <2>2 DEF DeactivateGoal, AbortActive
  <2>4. OneCallback' /\ TreeAgrees'
    BY <1>3, <1>4, <1>5, <2>1, <2>3
  <2>5. GoalAgrees' /\ MainAgrees'
    BY <1>3, <1>4, <1>5, <2>1, <2>3
  <2> QED
    BY <1>1, <2>1, <2>3, <2>4, <2>5
<1>12. CASE BeginCleanup
  BY <1>1, <1>3, <1>4, <1>5, <1>6, <1>12 DEF BeginCleanup, MainEnters, Nobody, AbortActive
<1>13. CASE EndCleanup
  <2>1. active_goal' = None /\ status' = status /\ main' = "idle" /\ state' = "unconfigured"
    BY <1>13 DEF EndCleanup, AtMain
  <2>2. ~timer' /\ ~active_tree' /\ owner' = None /\ ~accepting' /\ ~broken'
    BY <1>13 DEF EndCleanup, AtMain, Rest, StopServer
  <2> QED
    BY <1>1, <1>3, <1>4, <1>5, <2>1, <2>2
<1>14. CASE BeginShutdown
  BY <1>1, <1>3, <1>4, <1>5, <1>14 DEF BeginShutdown, MainEnters, Nobody, Rest
<1>15. CASE EndShutdown
  BY <1>1, <1>3, <1>4, <1>5, <1>6, <1>15 DEF EndShutdown, AtMain, AbortActive
<1> QED
  BY <1>7, <1>8, <1>9, <1>10, <1>11, <1>12, <1>13, <1>14, <1>15 DEF Transition

LEMMA TickingStep ==
  ASSUME TypeOK, ~overlap, WorkInv, Ticking
  PROVE  WorkInv'
<1>1. overlap' = overlap
  BY OverlapStays DEF Next
<1>2. Busy' = {h \in Goals : handler'[h] # "none"} /\ Busy = {h \in Goals : handler[h] # "none"}
  BY DEF Busy
<1>3. handler' = handler /\ UNCHANGED <<state, serverVars>>
  BY DEF Ticking, TreeEnds, Tick, TickOnce, Finish, Clear, Reset, Breaks, mainRest
<1>4. Busy' = Busy /\ Busy = {}
  <2>1. main # "idle" \/ Nobody
    BY DEF Ticking, TreeEnds, Tick, TickOnce, Finish, Clear, Reset, MainEnters, AtMain
  <2>2. main # "idle" => Busy = {}
    BY DEF WorkInv, OneCallback
  <2> QED
    BY <1>2, <1>3, <2>1, <2>2 DEF Nobody
<1>5. \A g \in Goals : handler[g] = "none"
  BY <1>2, <1>4
<1> USE DEF WorkInv, OneCallback, TreeAgrees, GoalAgrees, MainAgrees, TypeOK, serverVars, workVars, mainRest
<1>6. CASE Tick
  <2>1. state \in {"active", "finalized"} /\ main = "idle" /\ ~broken' /\ UNCHANGED <<active_goal, active_tree, status, owner, earned>>
    BY <1>6 DEF Tick, MainEnters, Nobody, States
  <2>2. CASE active_goal # None /\ active_tree
    BY <1>1, <1>3, <1>4, <1>5, <1>6, <2>1, <2>2 DEF Tick
  <2>3. CASE ~(active_goal # None /\ active_tree)
    <3>1. main' = main /\ ~timer'
      BY <1>6, <2>3 DEF Tick, StopTimer
    <3>2. OneCallback' /\ TreeAgrees'
      BY <1>3, <1>4, <1>5, <2>1, <3>1
    <3>3. GoalAgrees' /\ MainAgrees'
      BY <1>3, <1>4, <1>5, <2>1, <3>1
    <3> QED
      BY <1>1, <2>1, <3>2, <3>3
  <2> QED
    BY <2>2, <2>3
<1>7. ASSUME NEW result \in {"running", "success", "failure"}, TickOnce(result) PROVE WorkInv'
  <2>1. Worker = active_goal
    BY <1>5, <1>7 DEF Worker, TickOnce, AtMain
  <2>2. active_tree /\ trees /\ active_goal # None /\ main = "tick"
    BY <1>7 DEF TickOnce, AtMain
  <2> QED
    BY <1>1, <1>3, <1>4, <1>5, <1>7, <2>1, <2>2 DEF TickOnce, AtMain
<1>8. CASE Finish
  <2>1. active_goal # None /\ status[active_goal] \in Live
    BY <1>8 DEF Finish
  <2>2. Answer \in {"succeeded", "aborted"}
    BY DEF Answer
  <2> QED
    BY <1>1, <1>3, <1>4, <1>5, <1>8, <2>1, <2>2 DEF Finish, Ends
<1>9. CASE Clear
  BY <1>1, <1>3, <1>4, <1>5, <1>9 DEF Clear, AtMain
<1>10. CASE Reset
  <2>1. main = "reset" /\ ~broken
    BY <1>10 DEF Reset, AtMain
  <2>2. /\ active_goal' = None /\ main' = "idle" /\ ~timer' /\ ~broken'
        /\ UNCHANGED <<active_tree, owner, earned>>
    BY <1>10, <2>1 DEF Reset, ResetGoal
  <2>3. state \notin {"unconfigured", "inactive"}
    BY <2>1
  <2>4. owner = None
    BY <2>1
  <2> QED
    BY <1>1, <1>3, <1>4, <1>5, <2>1, <2>2, <2>3, <2>4
<1> QED
  BY <1>6, <1>7, <1>8, <1>9, <1>10 DEF Ticking, TreeEnds

LEMMA HandlerStep ==
  ASSUME TypeOK, ~overlap, WorkInv, NEW g \in Goals, HandleGoal(g) \/ HandleCancel(g) \/ Handling(g)
  PROVE  WorkInv'
<1> USE DEF WorkInv, OneCallback, TreeAgrees, GoalAgrees, MainAgrees, TypeOK, serverVars, workVars, handlerRest
<1>1. overlap' = overlap
  BY OverlapStays DEF Next
<1>2. Busy' = {h \in Goals : handler'[h] # "none"} /\ Busy = {h \in Goals : handler[h] # "none"}
  BY DEF Busy
<1>3. ASSUME HandleGoal(g) \/ HandleCancel(g) PROVE WorkInv'
  <2>1. main = "idle" /\ Busy = {} /\ \A h \in Goals : handler[h] = "none"
    BY <1>2, <1>3 DEF HandleGoal, HandleCancel, HandlerEnters, Nobody
  <2>2. CASE HandleGoal(g)
    <3>1. active_goal # g
      BY <2>1, <2>2, SubsystemAssumption DEF HandleGoal, Live
    <3>2. CASE accepting
      <4>1. handler' = [handler EXCEPT ![g] = "accepted"] /\ status' = Ends(g, "executing")
        BY <2>2, <3>2 DEF HandleGoal
      <4>2. Busy' = {g}
        BY <1>2, <2>1, <4>1
      <4> QED
        BY <1>1, <2>1, <2>2, <3>1, <3>2, <4>1, <4>2 DEF HandleGoal, Ends, Live
    <3>3. CASE ~accepting
      <4>1. handler' = handler /\ status' = Ends(g, "rejected") /\ Busy' = {}
        BY <1>2, <2>1, <2>2, <3>3 DEF HandleGoal
      <4> QED
        BY <1>1, <2>1, <2>2, <3>1, <3>3, <4>1 DEF HandleGoal, Ends, Live
    <3> QED
      BY <3>2, <3>3
  <2>3. CASE HandleCancel(g)
    <3>1. handler' = handler /\ status' = Ends(g, "canceling") /\ Busy' = {}
      BY <1>2, <2>1, <2>3 DEF HandleCancel
    <3> QED
      BY <1>1, <2>1, <2>3, <3>1 DEF HandleCancel, Ends, Live
  <2> QED
    BY <1>3, <2>2, <2>3
<1>4. ASSUME Handling(g) PROVE WorkInv'
  <2>1. g \in Busy /\ main = "idle" /\ accepting /\ \A h \in Goals : h # g => handler[h] = "none"
    BY <1>2, <1>4 DEF Handling, HandleAccepted, ReplaceGoal, SelectTree, Start, AtHandler
  <2>2. CanAbort
    BY <2>1 DEF CanAbort
  <2>3. ASSUME NEW step, Goes(g, step)
        PROVE  /\ handler'[g] = step /\ \A h \in Goals : h # g => handler'[h] = "none"
               /\ Busy' = IF step = "none" THEN {} ELSE {g}
    BY <1>2, <2>1, <2>3 DEF Goes
  <2>4. CASE HandleAccepted(g)
    <3>1. Goes(g, "replace") /\ UNCHANGED status
      BY <2>1, <2>4 DEF HandleAccepted
    <3> QED
      BY <1>1, <2>1, <2>3, <2>4, <3>1 DEF HandleAccepted, AtHandler
  <2>5. CASE ReplaceGoal(g)
    <3>1. AbortActive /\ Goes(g, "select")
      BY <2>2, <2>5 DEF ReplaceGoal
    <3>2. status'[g] = status[g]
      BY <2>1, <3>1 DEF AbortActive, Ends
    <3>3. /\ active_goal' = None /\ handler'[g] = "select" /\ Busy' = {g}
          /\ UNCHANGED <<state, main, broken, serverVars, active_tree, timer, owner, earned>>
      BY <2>2, <2>3, <2>5, <3>1 DEF ReplaceGoal, AbortActive
    <3>4. status[g] \in Live /\ state \in {"active", "finalized"} /\ ~broken /\ trees
      BY <2>1
    <3>5. OneCallback' /\ TreeAgrees'
      BY <2>1, <2>3, <3>1, <3>3, <3>4
    <3>6. GoalAgrees' /\ MainAgrees'
      BY <2>1, <2>3, <3>1, <3>2, <3>3, <3>4, SubsystemAssumption
    <3> QED
      BY <3>3, <3>4, <3>5, <3>6
  <2>6. CASE SelectTree(g)
    <3>1. owner' = None /\ active_goal = None
      BY <2>1, <2>6 DEF SelectTree, Halt, AtHandler
    <3>2. CASE Selects(g)
      BY <1>1, <2>1, <2>3, <2>6, <3>1, <3>2 DEF SelectTree, AtHandler
    <3>3. CASE ~Selects(g)
      BY <1>1, <2>1, <2>3, <2>6, <3>1, <3>3 DEF SelectTree, AtHandler, Ends
    <3> QED
      BY <3>2, <3>3
  <2>7. CASE Start(g)
    <3>1. status' = status /\ active_goal' = g /\ active_tree /\ owner = None /\ g # None
      BY <2>1, <2>7, SubsystemAssumption DEF Start, AtHandler, Dropped
    <3> QED
      BY <1>1, <2>1, <2>3, <2>7, <3>1 DEF Start, AtHandler, StartTimer
  <2> QED
    BY <1>4, <2>4, <2>5, <2>6, <2>7 DEF Handling
<1> QED
  BY <1>3, <1>4

LEMMA WorkStep == TypeOK /\ WorkInv /\ [Next]_vars => WorkInv'
<1> SUFFICES ASSUME TypeOK, WorkInv, [Next]_vars PROVE WorkInv'
  OBVIOUS
<1>1. CASE overlap
  BY <1>1, OverlapStays DEF WorkInv
<1>2. CASE ~overlap
  <2>1. CASE UNCHANGED vars
    BY <2>1 DEF vars, serverVars, workVars, WorkInv, OneCallback, TreeAgrees, GoalAgrees, MainAgrees, Busy
  <2>2. ~DataRace
    BY <1>2, NoRace DEF WorkInv
  <2> QED
    BY <1>2, <2>1, <2>2, TransitionStep, TickingStep, HandlerStep DEF Next
<1> QED
  BY <1>1, <1>2

\* The inductive strengthening: without overlap, goal, tree, timer and history agree with where
\* the one callback under way is.
THEOREM WorkConsistent == Spec => []WorkInv
<1> QED
  BY TypeInit, TypeStep, WorkInit, WorkStep, PTL DEF Spec

\* Without overlap nothing is used that is not there, and no goal is ended twice.
THEOREM NothingBreaks == Spec => []NeverBroken
<1>1. WorkInv => NeverBroken
  BY DEF WorkInv, NeverBroken
<1> QED
  BY <1>1, WorkConsistent, PTL

\* Without overlap a node that is neither ACTIVE nor FINALIZED has no goal, tree or timer.
THEOREM InactiveRests == Spec => []RestsWhenInactive
<1>1. WorkInv => RestsWhenInactive
  BY DEF WorkInv, MainAgrees, RestsWhenInactive
<1> QED
  BY <1>1, WorkConsistent, PTL

LEMMA EarnedInit == Init => SuccessIsEarned
BY DEF Init, SuccessIsEarned

LEMMA EarnedStep == TypeOK /\ WorkInv /\ SuccessIsEarned /\ [Next]_vars => SuccessIsEarned'
<1> SUFFICES ASSUME TypeOK, WorkInv, SuccessIsEarned, [Next]_vars, ~overlap,
                    NEW h \in Goals, status'[h] = "succeeded"
             PROVE  h \in earned'
  BY OverlapStays DEF SuccessIsEarned
<1>1. earned \subseteq earned'
  BY DEF Next, vars, serverVars, workVars, mainRest, handlerRest, Breaks, DataRace, Transition,
    Configure, Activate, BeginDeactivate, DeactivateTree, DeactivateGoal, BeginCleanup, EndCleanup,
    BeginShutdown, EndShutdown, Ticking, TreeEnds, Tick, TickOnce, Finish, Clear, Reset,
    HandleGoal, HandleCancel, Handling, HandleAccepted, ReplaceGoal, SelectTree, Start
<1>2. CASE status[h] = "succeeded"
  BY <1>1, <1>2 DEF SuccessIsEarned
<1>3. CASE status[h] # "succeeded"
  <2>1. \A g, how : status' = Ends(g, how) => how = "succeeded" /\ h = g
    BY <1>3 DEF Ends, TypeOK
  <2>2. \A g : status' # Dropped(g)
    BY <1>3, <2>1 DEF Dropped
  <2>3. status' # status
    BY <1>3
  <2>4. ~AbortActive
    BY <2>1, <2>3 DEF AbortActive
  <2>5. Finish
    <3>1. ~(UNCHANGED vars) /\ ~Breaks
      BY <2>3 DEF vars, workVars, Breaks
    <3>2. ~Transition
      BY <2>3, <2>4, <3>1 DEF Transition, Configure, Activate, BeginDeactivate, DeactivateTree,
        DeactivateGoal, BeginCleanup, EndCleanup, BeginShutdown, EndShutdown, workVars
    <3>3. Ticking => Finish
      BY <2>2, <2>3, <3>1 DEF Ticking, TreeEnds, Tick, TickOnce, Clear, Reset, ResetGoal
    <3>4. ASSUME NEW g \in Goals PROVE ~HandleGoal(g) /\ ~HandleCancel(g)
      BY <2>1, <2>3 DEF HandleGoal, HandleCancel
    <3>5. ASSUME NEW g \in Goals PROVE ~HandleAccepted(g) /\ ~ReplaceGoal(g)
      BY <2>2, <2>3, <2>4, <3>1 DEF HandleAccepted, ReplaceGoal
    <3>6. ASSUME NEW g \in Goals PROVE ~SelectTree(g) /\ ~Start(g)
      BY <2>1, <2>2, <2>3 DEF SelectTree, Start
    <3> QED
      BY <3>1, <3>2, <3>3, <3>4, <3>5, <3>6 DEF Next, DataRace, Handling
  <2>6. status' = Ends(active_goal, Answer) /\ earned' = earned
    BY <2>3, <2>5 DEF Finish, Breaks, workVars
  <2>7. h = active_goal /\ main = "success"
    BY <2>1, <2>6 DEF Answer
  <2> QED
    BY <2>6, <2>7 DEF WorkInv, MainAgrees
<1> QED
  BY <1>2, <1>3

\* Without overlap a goal succeeds only on a run of the tree that was started for it.
THEOREM SuccessEarned == Spec => []SuccessIsEarned
<1> QED
  BY TypeInit, TypeStep, WorkInit, WorkStep, EarnedInit, EarnedStep, PTL DEF Spec
=============================================================================
