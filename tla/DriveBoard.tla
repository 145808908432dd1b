----------------------------- MODULE DriveBoard -----------------------------
(***************************************************************************)
(* One DriveUart talking to the ESP32 firmware over the serial line.       *)
(*                                                                         *)
(* The host writes one JSON command and then reads lines until one of them *)
(* is an echo of the motor it asked for.  Nothing in an echo says which    *)
(* command it answers.  The board runs loop(): motor-stop watchdog, alive  *)
(* message, one motor reply, the serial commands, the web server; every    *)
(* reply of a motor becomes two lines for the host, in the form the last   *)
(* info command or the lack of one selects.  Before loop() comes setup(),  *)
(* which prints its progress on the same line.  The motors are DDSM115s.   *)
(*                                                                         *)
(* Drivechain takes the outcome of a frame ("ok", "mute", "lost",          *)
(* "stale") from the environment; this module is where these come from.    *)
(***************************************************************************)
EXTENDS Integers, Sequences, SequencesExt

CONSTANTS
  Motors,       \* ids of the motors on the bus
  Stopped,      \* ids that the watchdog stops
  Limit,        \* heartbeat_time_ms once it is set, in units of Elapse
  WebCommands,  \* what /js is used for: some of CommandKinds
  MaxFrames,    \* bound on frames written to the motor bus, and so on the use of the web
  MaxReboots,   \* bound on restarts of the board
  BootLines,    \* how many lines setup() prints; ten and more on the board
  MaxLines      \* bound on unread lines, for the alive messages only

CommandKinds == {"watchdog", "drive", "info", "mode", "type"}

ASSUME BoardAssumption ==
  /\ Motors \subseteq Nat \ {0} /\ IsFiniteSet(Motors) /\ Stopped \subseteq Nat
  /\ Limit \in Nat
  /\ WebCommands \subseteq CommandKinds
  /\ MaxFrames \in Nat /\ MaxReboots \in Nat /\ BootLines \in Nat /\ MaxLines \in Nat

VARIABLES
  host,        \* the call under way: motor id, or 0 for a set_mode; frames sent before it;
               \* reads left
  answered,    \* per motor, the frame whose echo the host accepted last
  astray,      \* some line may be on its way that no call waits for
  sent,        \* frames written to the bus so far, which numbers them
  toBoard,     \* commands on the serial line
  toHost,      \* lines on the serial line, oldest first
  heartbeat_on, stop_flag,  \* heartbeat_time_ms # -1; stop_flag
  sinceSerial, \* time since prev_time, up to Limit + 1
  sinceAny,    \* time since a serial or a web drive command, up to Limit + 1
  get_info_flag, ddsm_type,
  tangled,     \* some reply is or was out of step with get_info_flag
  rx,          \* replies of the motors, arrived on Serial1 or about to
  motor,       \* whether each motor turns
  reboots, booting \* restarts so far; setup() is still to run

hostVars  == <<host, answered, astray>>
lineVars  == <<toBoard, toHost>>
watchVars == <<heartbeat_on, stop_flag, sinceSerial, sinceAny>>
infoVars  == <<get_info_flag, ddsm_type, tangled>>
busVars   == <<sent, rx, motor>>
bootVars  == <<reboots, booting>>
vars == <<hostVars, lineVars, watchVars, infoVars, busVars, bootVars>>

NoCall == [id |-> 0, after |-> 0, left |-> 0]

Echo(id, n) == [kind |-> "echo", id |-> id, n |-> n]
\* A line that is no echo: a frame in hex, "Heartbeat Stop", a crc error, a motor type, the
\* progress of setup().
Other == [kind |-> "other", id |-> 0, n |-> 0]
Beat  == [kind |-> "beat", id |-> 0, n |-> 0]

\* The reply of motor id to frame n, which asked it to drive or for info.
Reply(what, id, n) == [what |-> what, id |-> id, n |-> n]

-----------------------------------------------------------------------------
(* The host: DriveUart::set_speed and set_mode *)

\* (mutant) one read instead of five
OneRead == 1

\* How many lines set_speed looks at.
MaxReads == 5

HostSend ==
  /\ host = NoCall /\ sent + Len(toBoard) < MaxFrames
  /\ \E id \in Motors, turns \in BOOLEAN :
       /\ toBoard' = Append(toBoard, [do |-> "drive", id |-> id, turns |-> turns])
       /\ host' = [id |-> id, after |-> sent, left |-> MaxReads]
  /\ UNCHANGED <<answered, astray, toHost, watchVars, infoVars, busVars, bootVars>>

\* set_mode, which takes any line for its answer.
HostSetMode ==
  /\ host = NoCall /\ sent + Len(toBoard) < MaxFrames
  /\ \E id \in Motors : toBoard' = Append(toBoard, [do |-> "mode", id |-> id, turns |-> FALSE])
  /\ host' = [id |-> 0, after |-> sent, left |-> 1]
  /\ UNCHANGED <<answered, astray, toHost, watchVars, infoVars, busVars, bootVars>>

\* (mutant) one read more than the count says
OffByOne == host.left > 0

\* The loop over the reads goes on.
ReadsRemain == host.left > 1

IsAnswer(line) == line.kind = "echo" /\ line.id = host.id

\* read_line and parse_json_feedback, one line.  An alive message does not count as
\* a read.
HostRead ==
  /\ host # NoCall /\ toHost # <<>>
  /\ toHost' = Tail(toHost)
  /\ LET line == Head(toHost) IN
       \/ line.kind = "beat" /\ UNCHANGED hostVars
       \/ /\ IsAnswer(line)
          /\ host' = NoCall /\ answered' = [answered EXCEPT ![host.id] = line.n]
          /\ UNCHANGED astray
       \/ /\ line.kind # "beat" /\ ~IsAnswer(line) /\ ReadsRemain
          /\ host' = [host EXCEPT !.left = @ - 1]
          /\ UNCHANGED <<answered, astray>>
       \/ /\ line.kind # "beat" /\ ~IsAnswer(line) /\ ~ReadsRemain
          /\ host' = NoCall /\ astray' = (astray \/ host.id # 0) /\ UNCHANGED answered
  /\ UNCHANGED <<toBoard, watchVars, infoVars, busVars, bootVars>>

\* No complete line in time: the call fails (set_mode does not mind), and its answer may
\* still come.
HostTimesOut ==
  /\ host # NoCall /\ toHost = <<>>
  /\ host' = NoCall /\ astray' = TRUE
  /\ UNCHANGED <<answered, lineVars, watchVars, infoVars, busVars, bootVars>>

\* close and open between two calls: what is unread or unsent is flushed.
HostReopen ==
  /\ host = NoCall /\ toHost # <<>>
  /\ toHost' = <<>>
  /\ toBoard' \in {toBoard, <<>>}
  /\ UNCHANGED <<hostVars, watchVars, infoVars, busVars, bootVars>>

-----------------------------------------------------------------------------
(* Time, and the board's loop() *)

Elapse ==
  /\ sinceSerial <= Limit \/ sinceAny <= Limit
  /\ sinceSerial' = IF sinceSerial <= Limit THEN sinceSerial + 1 ELSE sinceSerial
  /\ sinceAny' = IF sinceAny <= Limit THEN sinceAny + 1 ELSE sinceAny
  /\ UNCHANGED <<hostVars, lineVars, heartbeat_on, stop_flag, infoVars, busVars, bootVars>>

\* ddsm_stop on each id in turn; those that are wired obey and reply.
StopAll ==
  LET stops == SetToSeq(Motors \cap Stopped) IN
  /\ motor' = [m \in Motors |-> motor[m] /\ m \notin Stopped]
  /\ rx' = rx \o [i \in DOMAIN stops |-> Reply("drive", stops[i], sent + i)]
  /\ sent' = sent + Len(stops)

\* (mutant) the time is compared with a limit the clock never reaches
NeverLate == heartbeat_on /\ sinceSerial > Limit + 1 /\ ~stop_flag

\* heartbeat_ctrl's condition: late, and not stopped already.
MustStop == heartbeat_on /\ sinceSerial > Limit /\ ~stop_flag

HeartbeatCtrl ==
  /\ ~booting
  /\ MustStop
  /\ StopAll
  /\ stop_flag' = TRUE /\ astray' = TRUE
  /\ toHost' = Append(toHost, Other)
  /\ UNCHANGED <<host, answered, toBoard, heartbeat_on, sinceSerial, sinceAny, infoVars, bootVars>>

\* Due once a second.
UartHeartbeat ==
  /\ ~booting
  /\ Len(toHost) < MaxLines
  /\ toHost' = Append(toHost, Beat)
  /\ UNCHANGED <<hostVars, toBoard, watchVars, infoVars, busVars, bootVars>>

\* (mutant) the reply stays in the buffer
PeekReply == UNCHANGED rx

\* readBytes
TakeReply == rx' = Tail(rx)

\* (mutant) the flag stays set
FlagStays == UNCHANGED get_info_flag

\* In ddsm115_fb, once the form of the line has been chosen by the flag.
ClearFlag == get_info_flag' = FALSE

\* ddsm115_fb: one reply, in JSON and in hex.  The JSON has a position, or temperature
\* and u8 if the flag is set; either way the host takes it for an echo.
Report ==
  /\ ddsm_type = 115
  /\ toHost' = toHost \o <<Echo(Head(rx).id, Head(rx).n), Other>>
  /\ ClearFlag /\ UNCHANGED tangled

\* A crc error is all that is reported; or the reply was lost on the way, or it was read
\* by ddsm210_fb, which finds its type, a mode, unknown.
Lose ==
  /\ toHost' \in {Append(toHost, Other), toHost}
  /\ tangled' = (tangled \/ get_info_flag)
  /\ UNCHANGED get_info_flag

DdsmFb ==
  /\ ~booting
  /\ rx # <<>> /\ TakeReply
  /\ Report \/ Lose
  /\ UNCHANGED <<hostVars, toBoard, watchVars, ddsm_type, sent, motor, bootVars>>

\* ddsm_ctrl: the frame goes out and a motor with that id obeys and replies.
DdsmCtrl(id, turns, before) ==
  /\ motor' = [motor EXCEPT ![id] = turns]
  /\ sent' = sent + 1 /\ rx' = Append(before, Reply("drive", id, sent + 1))

\* ddsm_change_mode: the frame is repeated to the host in hex.
DdsmChangeMode ==
  /\ sent' = sent + 1
  /\ toHost' = Append(toHost, Other)
  /\ UNCHANGED motor

\* ddsm_get_info: the next reply that is read will be reported as the answer.
DdsmGetInfo(id) ==
  /\ get_info_flag' = (get_info_flag \/ ddsm_type = 115)
  /\ tangled' = (tangled \/ ddsm_type # 115 \/ get_info_flag \/ rx # <<>>)
  /\ sent' = sent + 1 /\ rx' = Append(rx, Reply("info", id, sent + 1))
  /\ UNCHANGED <<motor, toHost>>

SetDdsmType(type) ==
  /\ ddsm_type' = type
  /\ toHost' = Append(toHost, Other)

\* (mutant) a serial command does not lift the stop
KeepStop == UNCHANGED stop_flag

LiftStop == stop_flag' = FALSE

\* serialCtrl, one line: the watchdog is fed, and the replies that have arrived and
\* are not yet read are thrown away.
SerialCtrl ==
  /\ ~booting
  /\ toBoard # <<>> /\ toBoard' = Tail(toBoard)
  /\ \E unread \in Suffixes(rx), c \in {Head(toBoard)} :
       /\ \/ c.do = "drive" /\ DdsmCtrl(c.id, c.turns, unread) /\ UNCHANGED toHost
          \/ c.do = "mode" /\ DdsmChangeMode /\ rx' = unread
       /\ tangled' = (tangled \/ (get_info_flag /\ unread # rx))
  /\ LiftStop /\ sinceSerial' = 0 /\ sinceAny' = 0
  /\ UNCHANGED <<hostVars, heartbeat_on, get_info_flag, ddsm_type, bootVars>>

\* What the /js handler is asked to do.  It runs the same commands as serialCtrl, and
\* nothing else of it.
WebWatchdog ==
  /\ "watchdog" \in WebCommands /\ sent + Len(toBoard) < MaxFrames
  /\ heartbeat_on' = ~heartbeat_on
  /\ UNCHANGED <<toHost, astray, sinceAny, infoVars, busVars>>

WebDrive ==
  /\ "drive" \in WebCommands /\ sent + Len(toBoard) < MaxFrames
  /\ \E id \in Motors, turns \in BOOLEAN : DdsmCtrl(id, turns, rx)
  /\ astray' = TRUE /\ sinceAny' = 0
  /\ UNCHANGED <<toHost, heartbeat_on, infoVars>>

WebInfo ==
  /\ "info" \in WebCommands /\ sent + Len(toBoard) < MaxFrames
  /\ \E id \in Motors : DdsmGetInfo(id)
  /\ astray' = TRUE
  /\ UNCHANGED <<heartbeat_on, sinceAny, ddsm_type>>

WebMode ==
  /\ "mode" \in WebCommands /\ sent + Len(toBoard) < MaxFrames
  /\ DdsmChangeMode /\ UNCHANGED rx
  /\ astray' = TRUE
  /\ UNCHANGED <<heartbeat_on, sinceAny, infoVars>>

WebType ==
  /\ "type" \in WebCommands /\ Len(toHost) < MaxLines /\ sent + Len(toBoard) < MaxFrames
  /\ \E type \in {115, 210} : SetDdsmType(type)
  /\ astray' = TRUE
  /\ UNCHANGED <<heartbeat_on, sinceAny, get_info_flag, tangled, busVars>>

HandleClient ==
  /\ ~booting
  /\ WebWatchdog \/ WebDrive \/ WebInfo \/ WebMode \/ WebType
  /\ UNCHANGED <<host, answered, toBoard, stop_flag, sinceSerial, bootVars>>

\* CMD_REBOOT or a power cycle: globals start again, the watchdog is off, and the
\* motors, powered on their own, keep doing what they were told.
Reboot ==
  /\ reboots < MaxReboots /\ reboots' = reboots + 1
  /\ heartbeat_on' = FALSE /\ stop_flag' = FALSE /\ sinceSerial' = 0 /\ sinceAny' = 0
  /\ get_info_flag' = FALSE /\ ddsm_type' = 115 /\ tangled' = FALSE
  /\ rx' = <<>> /\ toBoard' = <<>>
  /\ booting' = TRUE
  /\ UNCHANGED <<hostVars, toHost, sent, motor>>

\* setup() prints what becomes of the file system, the radio and the web server, and loop()
\* runs from then on.
Setup ==
  /\ booting /\ booting' = FALSE
  /\ toHost' = toHost \o [i \in 1 .. BootLines |-> Other]
  /\ UNCHANGED <<hostVars, toBoard, watchVars, infoVars, busVars, reboots>>

-----------------------------------------------------------------------------
Init ==
  /\ host = NoCall /\ answered = [m \in Motors |-> 0] /\ astray = FALSE
  /\ sent = 0 /\ toBoard = <<>> /\ toHost = <<>>
  /\ heartbeat_on = FALSE /\ stop_flag = FALSE
  /\ sinceSerial = 0 /\ sinceAny = 0
  /\ get_info_flag = FALSE /\ ddsm_type = 115 /\ tangled = FALSE
  /\ rx = <<>>
  /\ motor = [m \in Motors |-> FALSE]
  /\ reboots = 0 /\ booting = FALSE

\* loop() calls these in turn, for ever; which of them finds something to do first
\* depends on when lines, replies and requests come, so any order is possible.
Loop == HeartbeatCtrl \/ UartHeartbeat \/ DdsmFb \/ SerialCtrl \/ HandleClient

Host == HostSend \/ HostSetMode \/ HostRead \/ HostTimesOut \/ HostReopen

Next == Host \/ Elapse \/ Loop \/ Reboot \/ Setup

Spec == Init /\ [][Next]_vars

\* loop() comes to its watchdog again and again.  Nobody has to send a command.
Fairness == WF_vars(HeartbeatCtrl)

FairSpec == Spec /\ Fairness

-----------------------------------------------------------------------------
(* Properties *)

Commands == [do : {"drive", "mode"}, id : Motors, turns : BOOLEAN]
Lines == [kind : {"echo"}, id : Motors, n : Nat] \cup {Other, Beat}
Replies == [what : {"drive", "info"}, id : Motors, n : Nat]

TypeOK ==
  /\ host \in {NoCall} \cup [id : Motors \cup {0}, after : Nat, left : 1 .. MaxReads]
  /\ answered \in [Motors -> Nat] /\ astray \in BOOLEAN
  /\ sent \in Nat
  /\ toBoard \in Seq(Commands) /\ toHost \in Seq(Lines)
  /\ heartbeat_on \in BOOLEAN /\ stop_flag \in BOOLEAN
  /\ sinceSerial \in 0 .. Limit + 1 /\ sinceAny \in 0 .. Limit + 1
  /\ get_info_flag \in BOOLEAN /\ ddsm_type \in {115, 210} /\ tangled \in BOOLEAN
  /\ rx \in Seq(Replies)
  /\ motor \in [Motors -> BOOLEAN]
  /\ reboots \in 0 .. MaxReboots /\ booting \in BOOLEAN

Accepts == host # NoCall /\ host' = NoCall /\ toHost # <<>> /\ IsAnswer(Head(toHost))

\* Late replies, lost replies, restarts and web commands put the host behind, but never
\* make it go back: for each motor the echoes set_speed accepts are of later and later
\* frames, and none is used twice.
EchoesUsedOnce == [][Accepts => Head(toHost).n > answered[host.id]]_vars

\* No echo is used twice, and as long as every call found its echo, one that is accepted
\* answers the frame that was just sent: the feedback is not that of an earlier command.
AnswersCurrent ==
  EchoesUsedOnce /\ [][Accepts /\ ~astray => Head(toHost).n > host.after]_vars

\* Five reads are enough: unless a line went astray before or the board was restarted, a call
\* fails only when no line comes, never because other lines used up its reads.  After a
\* restart the lines of setup() may do that.
ReadsSuffice ==
  [][host.id # 0 /\ host' = NoCall /\ toHost # <<>> =>
       astray \/ reboots > 0 \/ IsAnswer(Head(toHost))]_vars

\* One flag selects the form of a report, whichever reply it is about.  An info command
\* that found no reply pending, and none before it unanswered, is answered in its own form
\* unless its reply is lost; and so are the drive commands around it.
FormTrue ==
  [][~booting /\ Len(toHost') = Len(toHost) + 2 /\ ~tangled =>
       get_info_flag = (Head(rx).what = "info")]_vars

\* (no web drive commands) A watchdog stop lasts: the motors it covers stay at rest until
\* a serial command lifts it.
StopHolds == stop_flag => \A m \in Motors \cap Stopped : ~motor[m]

\* -1: off; otherwise the motors stop when no new command is received for that time.
DdsmStops ==
  (heartbeat_on /\ sinceAny > Limit) ~>
    (\A m \in Motors \cap Stopped : ~motor[m]) \/ sinceAny <= Limit \/ ~heartbeat_on
=============================================================================
