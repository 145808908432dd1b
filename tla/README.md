# mServe: specifications, model checking and proofs

TLA+ models of the drive path of the mServe robot: from `/cmd_vel` through the
arbiter `mserve_base`, the service node `mserve_drivechain` and the UART to the
ESP32 firmware that talks to the wheel motors, and of the behaviour-tree manager
that brings lifecycle nodes up. Everything is translated from the C++ and firmware
sources at this commit; `PROJECT.json` says for each definition which lines it
stands for. Paths below are relative to `src/ws/src/` unless they start with `src/`.

## 1. The system

### Components, their state and operations

**mserve_drivechain** (`mserve_drivechain/src/`). A lifecycle node spun by a
`MultiThreadedExecutor`.
*State*: lifecycle state, `drive_active_`, `drive_timer_`, the behaviour trees,
`DriveCommandStore` (last request and its time), `DriveUart` (`fd_`, sim cache),
blackboard entry `uart_connected`, `uart_mutex_`.
*Operations*: the five transitions; `~/connect` (open, ping and set the mode of every
motor), `~/stop` (zero all, close), `~/drive` (store a command), `~/set_motor_id`
(broadcast an id change, ping the new id); the drive tick (send the stored command, or
zeros if it is stale, to every motor and publish feedback); parameter updates.
*Correct when*: nothing moves a motor outside ACTIVE; two callbacks never talk on the
bus at once; whoever stops or closes leaves the motors at rest; answers are true; a
silent client means stopped motors; whoever takes the mutex gives it back.

**DriveUart and the firmware** (`mserve_drivechain/src/drivechain_uart.cpp`,
`drive_firmware/ddsm_active/`). A line protocol over a serial port. The host sends
`T:10010` speed commands and scans up to five lines for the echo of that motor; the
ESP32's `loop()` runs a motor-stop watchdog, an alive message, the RS485 replies, the
serial commands and a web server. Before that, `setup()` prints ten lines and more on the
same serial port, whenever the board starts.
*Correct when*: an echo is attributed to the right command; the reads suffice; a report
has the form of what was asked; a watchdog stop comes when it should and lasts.

**Radio and configuration file of the board** (`drive_firmware/ddsm_active/wifi_ctrl.h`).
Access point and station modes, set up from `/wifiConfig.json` at boot and by commands,
some of which wait up to 15 s for a network inside the command handler.
*Correct when*: the current mode tells whether a network is joined, and modes with an access
point have one; a network once saved is neither lost to a power failure nor replaced by a
save of what is in use; the motor-stop watchdog still comes.

**Parameters** (`mserve_drivechain/src/drivechain_params.cpp`) and the table of
`src/web/drivechain.js` that sets them. Hardware parameters are locked once the
node is configured, two hot ones are not.
*Correct when*: what the node reports is what it uses; nothing locked comes into force
under a configured node; the page decides by the node's real state.

**mserve_base** (`mserve_base/src/`). A single-threaded lifecycle node: it clamps the
last twist, drops it after `cmd_vel_timeout_ms`, computes wheel speeds and sends an
asynchronous `/mserve_drivechain/drive` request on every tick, without waiting for
the answer; on deactivation and shutdown it sends one zero request.
*Correct when*: it asks for zero unless ACTIVE; silence on `/cmd_vel`, a dead base or a
refused or lost request end in stopped wheels; a stale twist never moves a wheel.

**lifecycle_manager** (`lifecycle_manager/src/`). Ticks `bringup.xml` until it is no
longer RUNNING: for each managed node, ask for the state, configure, ask, activate,
with service calls that time out and three attempts per change.
*Correct when*: nodes come up in order (finalized ones are passed over), it ends whatever
the nodes do, it fails only for a reason, and what it announces is so.

**template** (`template/src/`). Action-server pattern for further subsystems
(`COLCON_IGNORE`): one goal at a time is worked on by a tree that a timer ticks, a newer
goal replaces it, transitions abort it. Two callback groups share goal, tree and timer
without a lock.
*Correct when*: every accepted goal gets one explicit answer, a success was earned by
that goal's own run, and nothing runs on outside ACTIVE.

**utils, interfaces, launch, mserve_description, web, learning, scripts,
mserve_base_archive**: lookups, generated code, launch files, robot description,
browser clients, tutorials. *Not modelled*: no state of their own, or the environment
of a module (a browser is a client that may call anything at any time). The submodule
`BehaviorTree.ROS2` is empty in the repository and modelled by how it is used.

### How they interact, and what is hard

    /cmd_vel --> mserve_base --~/drive--> mserve_drivechain --UART--> ESP32 --RS485--> motors
                                  ^ ~/connect ~/stop ~/set_motor_id      ^ web page /js
                                  ^ set_parameters, get_state (drivechain.html)
    lifecycle_manager --get_state, change_state--> managed nodes
    action clients --goal, cancel--> subsystem nodes (template)

- *Interleaving*: in the drivechain the transitions and the timer (default callback
  group) run in parallel with the handlers (`service_cbg_`). Flags are tested before the
  mutex is waited for; `on_cleanup` takes no lock at all.
- *Two dead men and a queue in between*: a twist expires at the base, a command at the
  drivechain, and requests wait or are refused on the way.
- *Anonymous echoes*: nothing in an echo says which command it answers.
- *Best-effort stops*: a lost stop frame is not repeated and the port is then closed.
- *Late service answers*: a change that timed out may still be carried out.
- *Process ends*: Ctrl+C ends `spin`, no callback stops the motors.
- *One flag, many replies*: `get_info_flag` shapes whichever reply is read next.
- *A blocked loop*: while the board waits for a network, nothing else of `loop()` runs.
- *Requests that half succeed*: a parameter request refused at its last setting.

`PROJECT.json` lists every such hazard at its line with the properties aimed at it.

## 2. The modules

| Module | Models | Actions correspond to |
|---|---|---|
| `DriveMath` | the arithmetic of one command: sign, narrowing to int16, clamp to the +-200 rpm of the speed loop, sign of the feedback | operators only |
| `Drivechain` | `DrivechainNode`, both callback groups, UART session, simulation backend, process end and restart | `Configure` ... `Shutdown` the transitions, cut at the mutex (`DeactivateLock`, `ShutdownLock`) and at each frame (`MainZero`, `MainClose`); `Tick`, `TickLock`, `TickSet`, `TickEnd` the drive tree; `Connect`/`Stop`/`Drive`/`SetId` the heads of the handlers, then `SrvLock` and one action per frame |
| `DriveBoard` | one `DriveUart::set_speed` at a time against the firmware's `loop()` | `HostSend`, `HostRead`, `HostTimesOut`, `HostReopen`; one action per function of `loop()`; `Reboot`, and `Setup` for what `setup()` prints |
| `MserveBase` | `BaseNode`, its requests, and the drivechain reduced to what a client of `~/drive` sees | one action per callback (one thread); `Serve`, `SetWheels`, `PortChanges`, `ServiceDown`, `ServiceUp`; `Elapse` |
| `LifecycleManager` | the bring-up tree leaf by leaf, and the managed nodes | `Send`, `TimesOut`, `CheckDone`, `ChangeDone`, `Announce`, `ShutdownSignal`; per node serving, crash, start, operator |
| `DriveService` | abstract specification of `~/drive`: last request, its age, what is applied, how the motors turn | `Accept`, `Elapse`, `Take`, `Apply`, `Brake`; implemented by `Drivechain` |
| `BoardWifi` | `wifi_ctrl.h`, the file it keeps, and the watchdog it holds up | one action per command, `InitWifi`, the two ends of a wait, `SaveConfig`, `PowerCut` |
| `SubsystemAction` | the template's action server and lifecycle node, both callback groups | a callback is cut where it passes between goal, tree and timer: `Tick`, `TickOnce`, `Finish`, `Clear`, `Reset`; `HandleGoal`, `HandleCancel`, `HandleAccepted`, `ReplaceGoal`, `SelectTree`, `Start`; the transitions |
| `DriveParams` | `declare_params`, `load_params`, `on_parameters`, the timer it makes anew, process start | both parameter services, the transitions, `Ends`, `Launch` |
| `ParamPanel` | the parameter table of the page; composes with `DriveParams` | polling, showing the state, loading, editing and applying the table |
| `DrivechainProofs` (with those about `DriveMath`), `DriveServiceProofs`, `DriveBoardProofs`, `MserveBaseProofs`, `LifecycleManagerProofs`, `SubsystemActionProofs`, `BoardWifiProofs`, `ParamPanelProofs` (with those about `DriveParams`) | theorems | |
| `MCDrivechain`, `MCMserveBase`, `MCLifecycleManager`, `MCParamPanel` | constants for TLC | |

What a reader of the code should know about the translation:

- **`Drivechain`**. `main` and `srv` are where the two groups are; `mutex` is the owner
  of `uart_mutex_`. `DEACTIVATING` and `SHUTTINGDOWN` are the two transitions that wait
  for it. An action between two lock or frame boundaries is one step because nothing
  the other group reads changes inside it. `DriveCommandStore` has its own mutex;
  reading the age and the command in two calls is one step, as a request in between
  only makes a fresh command fresher. `objs` and `trees` are separate because a failed
  configuration leaves the former without the latter. `Configure` can succeed only once
  per process: `registerNodeType` throws on the second call, hence `ConfigureFails`.
  A frame's fate is an *outcome*: `ok`, `mute` (obeyed, no echo in time), `lost`,
  `stale` (lost, but an older echo of that id is accepted). Repeated pings are one
  outcome. `Dangling` is undefined behaviour: a handler whose trees were destroyed
  under it faults, or runs to an end with any result. Parameter `age` counts `Elapse`
  steps and stops at the timeout, after which nothing distinguishes ages.
- **`DriveBoard`**. A motor reply becomes two lines for the host (JSON and hex), or one
  (crc error), or none; RS485 frames are delivered here because their loss is an
  outcome in `Drivechain`. `rx` holds replies that arrived or will; `SerialCtrl` drops a
  prefix of it (`clear_ddsm_buffer`). The functions of `loop()` run in a fixed order,
  but which has something to do when depends on arrivals, so any order is allowed.
  The time in both watches is kept up to `Limit + 1`, beyond which they are equal.
  The motors are DDSM115s; what differs for the 210 is that its type makes the reader of
  replies unable to tell them (`Lose`). A mode change is answered by no motor, so
  `HostSetMode` takes any line, or none, for its answer. Two history variables say
  what the code cannot know: `astray`, some line may be on its way that no call waits
  for, and `tangled`, some reply was out of step with `get_info_flag`. The id change
  is in `Drivechain` (run `set_id`). A restart clears the globals and what is on its way to
  the board; until `Setup` has printed its `BootLines` nothing of `loop()` runs. These lines
  are not counted as astray: that they can use up the five reads is left visible, and is why
  `ReadsSuffice` speaks of a board that was not restarted.
- **`MserveBase`**. Linear and angular speed are in the wheel rpm they cause, which
  folds `ComputeKinematics`' geometry into the unit; the clamps stay. `origin` is a
  history variable: the age of the twist a request was made from. `MaxDelay` bounds the
  time a request waits: it is an assumption about the middleware and the executor.
  Of the drivechain it keeps that it may be deactivated, stopped or lose its port
  (`PortChanges`), be cleaned up or die with or without a stop (`ServiceDown`), and that any
  frame to a wheel, a stop frame too, may be lost (`Reaches`); `ticking` says that its drive
  tick runs behind an open port. Where it does not tick, nothing the base does stops the
  wheels: hence the hypothesis `ticking` of `DeadMan` and `LeavingActiveRests`. `limits.*` have
  descriptor ranges, so rclcpp refuses negative limits before `on_parameters` sees them.
  Twists are integers: NaN is not modelled (it passes `std::clamp`; what reaches the
  drivechain is then some int16, for which the range result below still holds).
- **`LifecycleManager`**. `faults` says which kinds of trouble a behaviour contains, so
  that one run checks both the reliable system and everything at once. A request
  the manager has given up on stays in the node's `inbox` with `live = FALSE`. Nodes are
  found in any of the four states. To refuse a transition means that the node's callback
  answers FAILURE; a callback that ends in an error is not modelled.

- **`BoardWifi`**. A name is what it reads as and where it points: names that came with
  a command lie in `jsonCmdReceive`, and the next command is parsed over them. A power
  cut in the middle of a save leaves the file as it was, or blank where there was none.
  Passwords go with their names; access points that disappear after joining and a full
  flash are left out. Only `initFS` and `deleteFile` of `files_ctrl.h` have callers.
- **`SubsystemAction`**. `overlap` says whether callbacks of the two groups run at the
  same time in a behaviour. If they do, the code has data races, whose outcome is
  `broken`; all properties but `TypeOK` and `TimerStops` are stated for behaviours in which
  callbacks do not overlap. `rclcpp_action` is external: a goal whose last handle is
  dropped counts as cancelled, and ending one twice throws.
- **`DriveParams`, `ParamPanel`**. Values out of a descriptor's range are refused by rclcpp
  before `on_parameters` runs and are not offered. Parameter services and transitions
  share one callback group, so each is one step. The page sends its whole table with the
  service that sets parameters one by one.

## 3. The runs

`CHECK_DEADLOCK FALSE` in every run: processes may end, a board may be switched off, and a
system in which nobody calls anything is allowed to stand still.

| Run | Asks | Bounds, and why they are enough |
|---|---|---|
| `drivechain` | TypeOK, OneUartUser, MotionOnlyWhileActive, RepliesMatchPort, and ImplementsService (the refinement of `DriveService`), under lost, mute and stale frames, failing opens, an ended and restarted process, hardware and simulation | two motors of opposite mounting, ids equal to their place; forward and beyond the clamp both ways. One handler and one main callback at a time is what the two groups allow, so two threads are exact. Two process starts, so that a restart meets moving motors |
| `drivechain_reliable` | ClosedMeansStopped, RestUnlessActive, and the liveness of DeadMan | no frame lost, the device opens, no id changes, one process: on a bus that loses frames the stops are best effort and these do not hold. DeadMan needs that the tick that waits for the mutex gets it (`GrantedSpec`, see Fairness) |
| `set_id` | SetIdReplyTrue, and the liveness of MutexReleased | one motor, three ids, as the documentation demands one motor on the bus; lost and mute frames, but no stale echoes; a device that may not open. All four handlers, ticks and transitions compete for the mutex, which is what MutexReleased is about |
| `board` | TypeOK, StopHolds, AnswersCurrent, ReadsSuffice, FormTrue, DdsmStops | two motors of which one is covered by the watchdog (the firmware stops ids 1..4); two frames from the host or the web, and those of watchdog stops besides; watchdog, info, mode and type commands over the web, until the frames are used up; one alive message waiting; one restart, after which the board prints four lines: with the one line that an earlier call can leave they use up the five reads. `Limit = 0`: time is fresh or late, all the watchdog distinguishes. No drive commands over the web: with them StopHolds and DdsmStops fail (`f_watchdog`) |
| `base` | TypeOK, OnlyZeroUnlessActive, NoStaleMotion, DeadMan, LeavingActiveRests | both timeouts 2 and a delay of 1, so that fresh, nearly stale and stale differ at both ends; two requests under way, so that a zero request can wait behind a motion; any number of deactivations, deaths and returns of the drivechain, with any frames lost; one twist whose wheel speeds lie beyond or within the wheels' range according to the limits in force |
| `manager` | TypeOK, EarlierNodesActive, FailureIsReal, BringupEnds | the three nodes of `bringup.xml`, each found in any of its four states, three attempts, two faults of crash or operator kind, any number of refusals and timeouts |
| `subsystem` | TypeOK, NeverBroken, SuccessIsEarned, RestsWhenInactive, EveryGoalEnds, TimerStops | three goals, so that one can be replaced while another was ended, one of them of an unknown command; behaviours with and without overlapping callbacks; any sequence of transitions and cancels |
| `wifi` | TypeOK, ModeTellsNetwork, NamesRemembered, SavedNetworkSurvives, WatchdogStops | one network name of each kind besides the board's own, so that a name can be missing, right, or garbled; boot modes 2 and 7 (one with a case, one without) besides those commands set; a wait of one step and no limit, so that a wait outlasts the watchdog; every command by serial and over the web, drive commands too; any number of power cuts |
| `params` | TypeOK, HardwareInForce, HotInForce, LabelSettles | two values of each kind, an id that does not fit a byte, a sign that only launch files may hold; one atomic request that is refused half way; one edit of the table; two starts of the node, so that its values revert; two answers that arrive late, so that they can overtake each other |

Three runs end in a counterexample, each the disagreement of a text with the code:

| Run | The text | What happens |
|---|---|---|
| `f_store` | `DriveCommandStore::update()` is thread-safe (`mserve_drivechain/README.md:17`) | `on_cleanup` destroys the store under a handler |
| `f_closed_port` | not connected "stops motors via watchdog" (`drive_tree.xml:6`) | a re-open that fails cuts off moving motors; nothing stops them, as the host never switches the firmware's watchdog on |
| `f_watchdog` | motors stop without a new command for 2000 ms (`ddsm_active.ino:30`) | a web command after a watchdog stop does not lift `stop_flag`, and the watchdog never fires again |

Met on the way, without a run of their own:

- *drivechain*. Handlers do not all refuse outside ACTIVE (`mserve_drivechain/README.md:401`):
  the flag is tested before the lock, and `on_shutdown` never clears it. A second connect
  overwrites an open descriptor and leaks it (`src/docs/architecture.md:98` says that
  unconfigured holds none). Commands are not ignored until `~/connect` in simulation. A
  parameter locked to UNCONFIGURED cannot be used after a cleanup, because a second
  configuration always fails. The comment at `drivechain_bt_nodes.cpp:321` does not
  consider the lowest int16. A broadcast id change reaches every motor that is wired.
- *parameters*. A hot parameter of a refused request stays applied, in `mserve_base` too.
  Apply may reach a configured node, as the page's label can be out of date, and writes
  the whole table, over what was changed meanwhile. Ids are narrowed to a byte (258 drives
  motor 2). Launch values skip the sign check of `on_parameters`; `load_params` folds them.
- *DriveUart and the board*. After one late echo the host reads each motor one answer
  behind until the port is flushed (why `AnswersCurrent` speaks of calls that all found
  their echo). The host reads current and temperature from keys that no line of a
  DDSM115 has, and accepts a type 20030 where the board's `FB_INFO` is 20011. When the board
  restarts, what `setup()` prints may use up the reads of a call whose echo is behind it.
- *wifi*. `updateOledWifiInfo` reports "AP: OFF" in the modes 0 and 2 (`wifi_ctrl.h:52,60`; the
  comment at line 15 says OFF of mode 0), but `wifiStop` and a join in mode 2 leave an access
  point up that was there: hence `ModeTellsNetwork` asks nothing of it in these modes. Names
  that came with a command are saved by status as whatever the next command left in their
  place, also over a network that was saved. A first file torn by a power cut is read as mode 0 without names,
  and the board boots with its radio off. A boot mode above 3 is saved and has no case.
  Saving by input saves after a failed attempt, too. A wait delays the watchdog by up to 15 s.
- *subsystem*. `on_shutdown` does not stop goals from being accepted; a cancel is accepted
  and never ends a goal as cancelled; with overlapping callbacks a goal may be left
  active without a timer. Hence what the properties of `subsystem` leave out.
- *lifecycle_manager*. "All nodes successfully activated." (`lifecycle_manager.cpp:174`) is
  logged also when the tree failed; `bringup.xml` names nodes of another project; the
  shutdown tree asks for a transition the lookup does not know, when the context is
  already down; a node that is finalized is passed over, and the bring-up may still succeed.

Every property of a passing run has a mutant in `PROJECT.json`: a plausible mistake in the
code under which TLC finds the property violated. They are the definitions marked
`(mutant)` in the modules.

### Fairness

- `Drivechain`: weak fairness for callbacks under way and the drive timer (the executor's
  threads run, the timer exists while ACTIVE), and for a free mutex to be taken by one of
  those that wait for it. None for requests and transitions. This is `FairSpec`, and
  `MutexReleased` is checked under it. Which waiter gets the mutex is left open, as
  `std::mutex` leaves it: a waiting transition could be overtaken for ever. For `DeadMan` this
  is excluded by an assumption of its own, `LockGranted` (strong fairness for taking the mutex;
  `GrantedSpec`), which is about the platform and not a fact of the code. `f_closed_port` uses
  it too, so that its counterexample is none of a starving tick. `DeadMan` starts from an age
  that has already reached the timeout, so time need not be fair.
- `DriveBoard`: weak fairness for the watchdog's check, which `loop()` reaches every round.
  No command is ever promised, and time need not be fair, as `DdsmStops` starts when it is late.
- `MserveBase`: weak fairness for the base's timer, for serving requests and for time; and an
  assumption about the bus: as long as the drivechain ticks, one of its ticks gets through to
  both wheels in the end. Nobody has to publish, call a transition, or start, connect or keep
  up the drivechain.
- `LifecycleManager`: weak fairness for the manager's timer and for a live node
  serving its requests.
- `SubsystemAction`: weak fairness for the timer while it exists and for callbacks and
  transitions that have begun; strong fairness for a tree to end, as it is ticked again and
  again but not while a callback holds the group: that trees end is an assumption about
  the trees of a subsystem, which are still to be written. No goal, cancel or transition
  is promised.
- `BoardWifi`: weak fairness for time, for giving up a wait and for a save to be written;
  strong fairness for the watchdog's check, which `loop()` reaches between any two waits.
- `ParamPanel`: weak fairness for the page's `setInterval`, for the node's answer, and for each
  answer to arrive. No edit, request or transition is promised.

## 4. What is proved

TLAPS checks, for all values of the constants that satisfy the assumption of the module,
every type invariant, every other safety invariant and every action property that a passing
run checks, and the refinement. A hypothesis that a theorem adds is named with it; it is what
the run of that property assumes in its constants, or less.

*`DrivechainProofs`*, first about every int16 and both mountings: `SendRpmInRange` (the
frame is within +-200), `FeedbackRoundTrip` (published feedback is the limited command, for
all but the lowest int16), `LowestTurnsForward` (that one keeps the wrong sign: full
reverse on a reversed motor is sent as -200, where +200 was meant).

Then, for any motors, ids, wiring, commands, outcomes and number of
restarts: `TypeCorrect`, `UartExclusive` (OneUartUser), `ControlConsistent` (ControlInv),
`MotionNeedsActive` (MotionOnlyWhileActive), `RepliesTrue` (RepliesMatchPort), and, on a
reliable bus, `RestConsistent` (RestInv), `RestOnReliableBus` (ClosedMeansStopped) and
`RestOutsideActive` (RestUnlessActive).

The argument. `OneUartUser` is inductive together with the types. The action
properties are not: that a motor starts only in ACTIVE needs that a tick past its
test keeps the node ACTIVE, that the timer exists only there, and that a transition
cannot begin while a tick runs (one callback of the default group at a time); that the answer
to a connect is true needs that no cleanup closed the port of a connect that is pinging.
`ControlInv` collects exactly these facts: timer, flag, trees, port and the positions of
the two groups against the lifecycle state. `TypeOK /\ OneUartUser /\ ControlInv` is
inductive, one proof step per action, and each action property follows from it in one
step. At rest on a reliable bus needs one fact more, `RestInv`: a stop tree under way has
already zeroed every motor it no longer has to do, and nothing restarts one
meanwhile, because whoever could would need the mutex the tree holds. `Reliable` says what a
reliable bus is: every frame is delivered and echoed, the device opens,
`~/set_motor_id` is not used, there is one process, and every wired motor is in `motor_list`.

`SetIdTrue` (SetIdReplyTrue) holds on hardware without stale echoes (`NoStaleEcho`), for any
number of wired motors. The difficulty is a handler whose trees were freed and which may
answer anything: `SetIdInv` shows that one which has changed an id still has them. It found
the port open; a deactivation closes the port and lets no new handler begin, so the
node is not INACTIVE, and cannot become so, or be cleaned up, while the handler holds the mutex.

*`DriveServiceProofs`*: `ServiceImplemented`, `Drivechain` implements the abstract
`DriveService`. The mapping takes the command store for the request, `cmdMap` for what is
applied, and what the feedback of each motor would report for how it turns, so the promise
is stated in the terms of a client, whose signs are undone twice: reports agree with
requests whatever the mounting. `Clients` is its assumption: no id change, which would
take a motor out of the promise, and no lowest int16, whose sign is lost. `ServiceInv`
is what the mapping needs besides `TypeOK`, `OneUartUser` and `ControlInv`: a request is
held only while a tick carries it out. Every step of the node is then a step of the
service or a stutter, action by action.

*`DriveBoardProofs`*, for any motors, frames, lines, restarts and commands over the web:

- `TypeCorrect`; `StopLasts` (StopHolds), assuming no drive command over the web.
- `EchoesInOrder` (EchoesUsedOnce, a part of AnswersCurrent) from `OrderInv`: the echoes on
  the line come before the replies still on the bus, both ascend in the number of their
  frame, and all are later than what the host accepted of that motor. What the code
  does to these queues is to drop a prefix and to append, which keeps the order.
- `EchoesAreCurrent` (AnswersCurrent) from `CurrentInv`: with nothing astray at most one of the
  command, the reply and the echo of a call is under way, and none between calls.
- `FiveReadsSuffice` (ReadsSuffice), for a board that is not restarted (`OnceInv`), from
  `QuietInv`, which bounds the lines that can use up
  a read: those on the line that are no echo, plus one for each command and each reply on
  its way. They are at most one when a call begins, because an echo has a single line behind
  it and nothing else is then under way, and so at most two in a call. Three reads would do.
- `FormsMatch` (FormTrue) from `FormInv`: out of tangles, the flag is up exactly while the
  info reply is the next one to be read.

*`MserveBaseProofs`*: `TypeCorrect`; `ZeroUnlessActive` (OnlyZeroUnlessActive) from
`TimerInv`, as the timer, unlike `drive_active_`, exists only while ACTIVE; `MotionIsFresh`
(NoStaleMotion) from `QueueInv` and `CommandInv`, which add up the age of a twist on its
way: below the base's timeout when it is sent, plus the time in the queue, plus the age
of the command at the drivechain.

*`LifecycleManagerProofs`*, for any order of nodes, number of attempts and faults:
`TypeCorrect`; `InOrder` (EarlierNodesActive) and `FailsForAReason` (FailureIsReal), which
speak of reliable behaviours, from `BringupInv`: every node is usable, a request is under way
only from the leaf the tree is at to its node, what was answered is still so, and
the nodes before it are active or were found finalized.

*`SubsystemActionProofs`*, for any goals and any commands the node does not know:
`TypeCorrect` always, and, as long as callbacks of the two groups do not overlap,
`NothingBreaks` (NeverBroken), `InactiveRests` (RestsWhenInactive) and `SuccessEarned`
(SuccessIsEarned). All rest on `WorkInv` (`WorkConsistent`), what goal, tree, timer and
the client's view of each goal are at every point where a callback is cut: the goal that is
active has not ended, except between its result and `reset()`; only the tree that was started
for it has an owner; a handler works on a goal the node has not taken yet. It had to say, too,
what a transition has already undone when it pauses (no timer, no tree, no new goals), and that
a configured node has its trees and its goal callback.

*`BoardWifiProofs`*, for any names, passwords standing with them, boot modes and lengths of a
wait: `TypeCorrect`, `ModeOfNetwork` (ModeTellsNetwork), `SavedSurvives` (SavedNetworkSurvives) and
`NamesSaved` (NamesRemembered) from `WifiInv` (`WifiConsistent`): the mode tells whether a
network is joined, and while one is waited for whether it will be; names that are the board's
own are those on the air; a network that is in the file is also in memory, so that no later
save writes the file without it; and `SavedAgrees`: under a name of the board's own it is the
same network, so that the save does not change it. The last two are why a save in any phase,
and a cut in it, is harmless. A borrowed name is outside: it may be saved as anything.

*`ParamPanelProofs`*, for any values, launch files, atomic requests and anything users type:
`TypeCorrect`, `HardwareStays` (HardwareInForce) and `HotFollows` (HotInForce) from `ForceInv`.
Its core is that the blackboard of a configured node is what `load_params` would make of the
declared values now; that this is what the node reports, but for ids beyond a byte and folded
signs, is a fact about `load_params` (`LoadedAsReported`). Besides, a configured node has a rate,
without which the timer made from it would be none. A request can set one parameter several times: that the last
setting is one of the request needs the least-number principle, which is derived from the order of
the naturals being well founded.

Model-checked only: liveness (the leads-to properties and `LabelSettles`), as the prover has
neither fairness nor ENABLED. The three runs that end in a counterexample have nothing to
prove.

## 5. Not modelled

Real time (only ages against timeouts; how long a connect may hold the mutex, or a wait
for a network the board's loop, is not asked); contents of feedback, status and topics that
only inform; NaN in twists; the time-out table of rclcpp's clients; `MotorHealthy` and
`SetMotorMode`, which no tree uses; publishers' activation; names, device and acceleration
among the parameters, which behave as `backend` does. In the firmware: the HTML of
`web_page.h`, the line editing of `files_ctrl.h`, which nothing calls, the bytes of a
frame in `ddsm_ctrl` (its loss is an outcome), the id check nothing calls, the command
log. Utilities, interfaces, launch files, robot description, the other web pages, scripts
and the learning stages keep no state of their own or are no part of the robot; the
archived base is superseded by `mserve_base`.

## 6. Plan

1. *Done*: `DriveMath`, `Drivechain`, `DriveBoard`, `MserveBase`, `LifecycleManager`, each with
   its proofs; `DriveService` and its refinement by `Drivechain`; `SubsystemAction`,
   `BoardWifi`, `DriveParams` with `ParamPanel`, each with its run.
2. `MserveBase`'s view of the drivechain replaced by an instance of `DriveService`, so that
   what is checked of the base rests on the promise that is proved of the node.
3. *Done*: a theorem for every safety invariant and action property the runs check.
4. The wait of `BoardWifi` inside the loop of `DriveBoard`: how many replies and commands
   may pile up behind it.
