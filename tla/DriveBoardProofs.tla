-------------------------- MODULE DriveBoardProofs --------------------------
(***************************************************************************)
(* Safety of one DriveUart with one board, for any motors, any number of   *)
(* frames, lines, restarts and web commands.                               *)
(***************************************************************************)
EXTENDS DriveBoard, SequenceTheorems, FiniteSetTheorems, TLAPS

-----------------------------------------------------------------------------
(* Sequences of replies and lines *)

LEMMA SuffixFacts ==
  ASSUME NEW S, NEW s \in Seq(S), NEW t \in Suffixes(s)
  PROVE  /\ t \in Seq(S)
         /\ \E k \in 0 .. Len(s) :
              Len(t) = Len(s) - k /\ \A i \in 1 .. Len(t) : t[i] = s[i + k]
<1>1. CASE t = <<>>
  BY <1>1
<1>2. ASSUME NEW l \in 1 .. Len(s), t = SubSeq(s, l, Len(s))
      PROVE  /\ t \in Seq(S) /\ l - 1 \in 0 .. Len(s)
             /\ Len(t) = Len(s) - (l - 1) /\ \A i \in 1 .. Len(t) : t[i] = s[i + (l - 1)]
  <2>1. t \in Seq(S) /\ Len(t) = Len(s) - l + 1
    BY <1>2, SubSeqProperties
  <2>2. \A i \in 1 .. Len(t) : t[i] = s[l + i - 1]
    BY <1>2, <2>1, SubSeqProperties
  <2> QED
    BY <2>1, <2>2
<1> QED
  BY <1>1, <1>2 DEF Suffixes

\* What ddsm_stop sends to the motors that are there.
Stops == SetToSeq(Motors \cap Stopped)

LEMMA StopsType == Stops \in Seq(Motors)
<1> DEFINE S == Motors \cap Stopped
<1>1. IsFiniteSet(S)
  BY BoardAssumption, FS_Intersection
<1>2. Cardinality(S) \in Nat /\ ExistsBijection(1 .. Cardinality(S), S)
  BY <1>1, FS_CardinalityType
<1>3. PICK f \in [1 .. Cardinality(S) -> S] : IsInjective(f)
  BY <1>2 DEF ExistsBijection, Bijection, Injection
<1>4. Stops \in [1 .. Cardinality(S) -> S]
  BY <1>3 DEF Stops, SetToSeq
<1>5. \A n \in Nat : \A g \in [1 .. n -> S] : g \in Seq(Motors)
  OBVIOUS
<1> QED
  BY <1>2, <1>4, <1>5

LEMMA LineTypes ==
  /\ Other \in Lines /\ Beat \in Lines
  /\ \A id \in Motors, n \in Nat : Echo(id, n) \in Lines
  /\ \A id \in Motors, n \in Nat : Reply("drive", id, n) \in Replies
  /\ \A id \in Motors, n \in Nat : Reply("info", id, n) \in Replies
BY DEF Other, Beat, Echo, Reply, Lines, Replies

LEMMA LineFacts ==
  \A line \in Lines : /\ line.n \in Nat /\ line.id \in Motors \cup {0}
                      /\ line.kind = "echo" => line.id \in Motors
BY DEF Lines, Other, Beat

\* What setup() prints.
Booted == [i \in 1 .. BootLines |-> Other]

LEMMA BootType == Booted \in Seq(Lines) /\ Len(Booted) \in Nat
<1>1. \A n \in Nat : [i \in 1 .. n |-> Other] \in Seq(Lines)
  BY LineTypes
<1>2. Booted \in Seq(Lines)
  BY <1>1, BoardAssumption DEF Booted
<1> QED
  BY <1>2, LenProperties

-----------------------------------------------------------------------------
(* Type correctness *)

LEMMA NoCallType == NoCall.id = 0 /\ NoCall.after \in Nat
BY DEF NoCall

LEMMA IdTypes == \A id \in Motors \cup {0} : id \in Nat
BY BoardAssumption

LEMMA TypeInit == Init => TypeOK
<1> SUFFICES ASSUME Init PROVE TypeOK
  OBVIOUS
<1>1. toBoard \in Seq(Commands) /\ toHost \in Seq(Lines) /\ rx \in Seq(Replies)
  BY DEF Init
<1>2. sinceSerial \in 0 .. Limit + 1 /\ sinceAny \in 0 .. Limit + 1 /\ reboots \in 0 .. MaxReboots
  BY BoardAssumption DEF Init
<1> QED
  BY <1>1, <1>2 DEF Init, TypeOK

LEMMA HostType ==
  ASSUME TypeOK, Host
  PROVE  TypeOK'
<1>a. \A f \in [Motors -> Nat], id, n \in Nat : [f EXCEPT ![id] = n] \in [Motors -> Nat]
  OBVIOUS
<1>b. <<>> \in Seq(Lines) /\ <<>> \in Seq(Commands)
  OBVIOUS
<1> USE DEF TypeOK, watchVars, infoVars, busVars, lineVars, hostVars, bootVars
<1>1. CASE HostSend
  <2>1. PICK id \in Motors, turns \in BOOLEAN :
          /\ toBoard' = Append(toBoard, [do |-> "drive", id |-> id, turns |-> turns])
          /\ host' = [id |-> id, after |-> sent, left |-> MaxReads]
    BY <1>1 DEF HostSend
  <2>2. toBoard' \in Seq(Commands)
    BY <2>1, AppendProperties DEF Commands
  <2>3. host' \in [id : Motors \cup {0}, after : Nat, left : 1 .. MaxReads]
    BY <2>1 DEF MaxReads
  <2> QED
    BY <1>1, <2>2, <2>3 DEF HostSend
<1>2. CASE HostSetMode
  <2>1. PICK id \in Motors :
          toBoard' = Append(toBoard, [do |-> "mode", id |-> id, turns |-> FALSE])
    BY <1>2 DEF HostSetMode
  <2>2. toBoard' \in Seq(Commands)
    BY <2>1, AppendProperties DEF Commands
  <2>3. host' \in [id : Motors \cup {0}, after : Nat, left : 1 .. MaxReads]
    BY <1>2 DEF HostSetMode, MaxReads
  <2> QED
    BY <1>2, <2>2, <2>3 DEF HostSetMode
<1>3. CASE HostRead
  <2>1. host # NoCall /\ host.id \in Motors \cup {0} /\ host.after \in Nat /\ host.left \in 1 .. 5
    BY <1>3 DEF HostRead, MaxReads
  <2>2. toHost' \in Seq(Lines) /\ Head(toHost) \in Lines
    BY <1>3, HeadTailProperties DEF HostRead
  <2>3. host' \in {NoCall} \cup [id : Motors \cup {0}, after : Nat, left : 1 .. MaxReads]
    <3>1. CASE ReadsRemain /\ host' = [host EXCEPT !.left = host.left - 1]
      <4>1. host \in [id : Motors \cup {0}, after : Nat, left : 1 .. MaxReads]
        BY <2>1
      <4>2. host.left - 1 \in 1 .. MaxReads
        BY <2>1, <3>1 DEF ReadsRemain, MaxReads
      <4> QED
        BY <3>1, <4>1, <4>2
    <3>2. CASE host' \in {host, NoCall}
      BY <3>2
    <3> QED
      BY <1>3, <3>1, <3>2 DEF HostRead
  <2>4. answered' \in [Motors -> Nat]
    <3>1. Head(toHost).n \in Nat
      BY <2>2, LineFacts
    <3>2. answered' = answered \/ answered' = [answered EXCEPT ![host.id] = Head(toHost).n]
      BY <1>3, Zenon DEF HostRead, hostVars
    <3>b. answered \in [Motors -> Nat]
      OBVIOUS
    <3> HIDE DEF TypeOK
    <3>c. host.id \in Nat
      BY <2>1, IdTypes, Zenon
    <3>3. answered \in [Motors -> Nat] /\ host.id \in Nat
      BY <3>b, <3>c
    <3>4. [answered EXCEPT ![host.id] = Head(toHost).n] \in [Motors -> Nat]
      BY <1>a, <3>1, <3>3
    <3> QED
      BY <3>2, <3>3, <3>4
  <2>5. astray' \in BOOLEAN
    BY <1>3 DEF HostRead
  <2> QED
    BY <1>3, <2>2, <2>3, <2>4, <2>5 DEF HostRead
<1>4. CASE HostTimesOut
  BY <1>4 DEF HostTimesOut
<1>5. CASE HostReopen
  <2>1. toHost' = <<>> /\ (toBoard' = toBoard \/ toBoard' = <<>>)
    BY <1>5 DEF HostReopen
  <2>2. toHost' \in Seq(Lines) /\ toBoard' \in Seq(Commands)
    BY <1>b, <2>1, Zenon
  <2> QED
    BY <1>5, <2>2 DEF HostReopen
<1> QED
  BY <1>1, <1>2, <1>3, <1>4, <1>5 DEF Host

\* The board's own actions: time, its watchdog, its messages and its restarts.
LEMMA WatchType ==
  ASSUME TypeOK, Elapse \/ HeartbeatCtrl \/ UartHeartbeat \/ Reboot \/ Setup
  PROVE  TypeOK'
<1> USE DEF TypeOK, watchVars, infoVars, busVars, lineVars, hostVars, bootVars
<1>1. CASE Elapse
  BY <1>1, BoardAssumption DEF Elapse
<1>2. CASE HeartbeatCtrl
  <2>1. toHost' \in Seq(Lines)
    BY <1>2, LineTypes, AppendProperties DEF HeartbeatCtrl
  <2>2. /\ motor' = [m \in Motors |-> motor[m] /\ m \notin Stopped]
        /\ rx' = rx \o [i \in DOMAIN Stops |-> Reply("drive", Stops[i], sent + i)]
        /\ sent' = sent + Len(Stops)
    BY <1>2 DEF HeartbeatCtrl, StopAll, Stops
  <2>3. Len(Stops) \in Nat /\ DOMAIN Stops = 1 .. Len(Stops) /\ \A i \in 1 .. Len(Stops) : Stops[i] \in Motors
    BY StopsType
  <2>4. \A i \in 1 .. Len(Stops) : Reply("drive", Stops[i], sent + i) \in Replies
    BY <2>3, LineTypes
  <2>5. [i \in 1 .. Len(Stops) |-> Reply("drive", Stops[i], sent + i)] \in Seq(Replies)
    BY <2>3, <2>4
  <2>6. rx' \in Seq(Replies)
    BY <2>2, <2>3, <2>5, ConcatProperties
  <2>7. motor' \in [Motors -> BOOLEAN]
    BY <2>2, Zenon
  <2> QED
    BY <1>2, <2>1, <2>2, <2>3, <2>6, <2>7 DEF HeartbeatCtrl
<1>3. CASE UartHeartbeat
  <2>1. toHost' \in Seq(Lines)
    BY <1>3, LineTypes, AppendProperties DEF UartHeartbeat
  <2> QED
    BY <1>3, <2>1 DEF UartHeartbeat
<1>4. CASE Reboot
  <2>1. rx' \in Seq(Replies) /\ toBoard' \in Seq(Commands)
    BY <1>4 DEF Reboot
  <2>2. sinceSerial' \in 0 .. Limit + 1 /\ sinceAny' \in 0 .. Limit + 1 /\ reboots' \in 0 .. MaxReboots
    BY <1>4, BoardAssumption DEF Reboot
  <2> QED
    BY <1>4, <2>1, <2>2 DEF Reboot
<1>5. CASE Setup
  <2>1. toHost' \in Seq(Lines)
    <3>1. toHost' = toHost \o Booted
      BY <1>5 DEF Setup, Booted
    <3>2. \A s, t \in Seq(Lines) : s \o t \in Seq(Lines)
      OBVIOUS
    <3>3. toHost \in Seq(Lines)
      OBVIOUS
    <3> HIDE DEF TypeOK
    <3> QED
      BY <3>1, <3>2, <3>3, BootType, Zenon
  <2>2. booting' \in BOOLEAN /\ UNCHANGED <<hostVars, toBoard, watchVars, infoVars, busVars, reboots>>
    BY <1>5 DEF Setup
  <2> HIDE DEF Setup
  <2> QED
    BY <2>1, <2>2
<1> QED
  BY <1>1, <1>2, <1>3, <1>4, <1>5

LEMMA FbType ==
  ASSUME TypeOK, DdsmFb
  PROVE  TypeOK'
<1> USE DEF TypeOK
<1>1. Head(rx) \in Replies /\ rx' \in Seq(Replies)
  BY HeadTailProperties DEF DdsmFb, TakeReply
<1>2. toHost' \in Seq(Lines) /\ get_info_flag' \in BOOLEAN /\ tangled' \in BOOLEAN
  <2>1. CASE Report
    <3>1. Head(rx).id \in Motors /\ Head(rx).n \in Nat
      BY <1>1 DEF Replies
    <3>a. \A x, y \in Lines : <<x, y>> \in Seq(Lines)
      OBVIOUS
    <3>2. <<Echo(Head(rx).id, Head(rx).n), Other>> \in Seq(Lines)
      BY <3>1, <3>a, LineTypes
    <3>3. toHost' \in Seq(Lines)
      <4>1. toHost' = toHost \o <<Echo(Head(rx).id, Head(rx).n), Other>>
        BY <2>1 DEF Report
      <4>2. \A s, t \in Seq(Lines) : s \o t \in Seq(Lines)
        OBVIOUS
      <4> QED
        BY <3>2, <4>1, <4>2, Zenon
    <3> QED
      BY <2>1, <3>3, Zenon DEF Report, ClearFlag
  <2>2. CASE Lose
    <3>1. toHost' \in {Append(toHost, Other), toHost}
      BY <2>2 DEF Lose
    <3>2. Append(toHost, Other) \in Seq(Lines) /\ toHost \in Seq(Lines)
      BY LineTypes, AppendProperties
    <3>3. toHost' \in Seq(Lines)
      BY <3>1, <3>2, Zenon
    <3> QED
      BY <2>2, <3>3, Zenon DEF Lose
  <2> QED
    BY <2>1, <2>2 DEF DdsmFb
<1> QED
  BY <1>1, <1>2 DEF DdsmFb, hostVars, watchVars, bootVars

LEMMA SerialType ==
  ASSUME TypeOK, SerialCtrl
  PROVE  TypeOK'
<1> USE DEF TypeOK
<1>1. PICK unread \in Suffixes(rx), c \in {Head(toBoard)} :
        /\ \/ c.do = "drive" /\ DdsmCtrl(c.id, c.turns, unread) /\ UNCHANGED toHost
           \/ c.do = "mode" /\ DdsmChangeMode /\ rx' = unread
        /\ tangled' = (tangled \/ (get_info_flag /\ unread # rx))
  BY Zenon DEF SerialCtrl
<1>2. c \in Commands /\ toBoard' \in Seq(Commands)
  BY HeadTailProperties DEF SerialCtrl
<1>3. unread \in Seq(Replies)
  BY SuffixFacts
<1>4. toHost' \in Seq(Lines) /\ rx' \in Seq(Replies) /\ sent' \in Nat /\ motor' \in [Motors -> BOOLEAN]
  <2>1. c.id \in Motors /\ c.turns \in BOOLEAN
    BY <1>2 DEF Commands
  <2>2. CASE DdsmCtrl(c.id, c.turns, unread) /\ UNCHANGED toHost
    <3>1. Reply("drive", c.id, sent + 1) \in Replies
      BY <2>1, LineTypes
    <3>2. rx' \in Seq(Replies)
      BY <1>3, <2>2, <3>1, AppendProperties DEF DdsmCtrl
    <3> QED
      BY <2>1, <2>2, <3>2 DEF DdsmCtrl
  <2>3. CASE DdsmChangeMode /\ rx' = unread
    BY <1>3, <2>3, LineTypes, AppendProperties DEF DdsmChangeMode
  <2> QED
    BY <1>1, <2>2, <2>3
<1>5. tangled' \in BOOLEAN
  BY <1>1, Zenon
<1>6. 0 \in 0 .. Limit + 1
  BY BoardAssumption
<1> QED
  BY <1>2, <1>4, <1>5, <1>6 DEF SerialCtrl, LiftStop, hostVars, bootVars

LEMMA ClientType ==
  ASSUME TypeOK, HandleClient
  PROVE  TypeOK'
<1> USE DEF TypeOK, infoVars, busVars, bootVars
<1>1. UNCHANGED <<host, answered, toBoard, stop_flag, sinceSerial, bootVars>>
  BY DEF HandleClient
<1>2. CASE WebWatchdog
  BY <1>1, <1>2 DEF WebWatchdog
<1>3. CASE WebDrive
  <2>1. PICK id \in Motors, turns \in BOOLEAN : DdsmCtrl(id, turns, rx)
    BY <1>3 DEF WebDrive
  <2>2. Reply("drive", id, sent + 1) \in Replies
    BY LineTypes
  <2>3. rx' \in Seq(Replies) /\ sent' \in Nat
    BY <2>1, <2>2, AppendProperties DEF DdsmCtrl
  <2>4. motor' \in [Motors -> BOOLEAN]
    BY <2>1 DEF DdsmCtrl
  <2>5. sinceAny' \in 0 .. Limit + 1
    BY <1>3, BoardAssumption DEF WebDrive
  <2> QED
    BY <1>1, <1>3, <2>3, <2>4, <2>5 DEF WebDrive
<1>4. CASE WebInfo
  <2>1. PICK id \in Motors : DdsmGetInfo(id)
    BY <1>4 DEF WebInfo
  <2>2. Reply("info", id, sent + 1) \in Replies
    BY LineTypes
  <2>3. rx' \in Seq(Replies) /\ sent' \in Nat
    BY <2>1, <2>2, AppendProperties DEF DdsmGetInfo
  <2>4. get_info_flag' \in BOOLEAN /\ tangled' \in BOOLEAN
    BY <2>1, Zenon DEF DdsmGetInfo
  <2> QED
    BY <1>1, <1>4, <2>1, <2>3, <2>4 DEF WebInfo, DdsmGetInfo
<1>5. CASE WebMode
  <2>1. toHost' \in Seq(Lines)
    BY <1>5, LineTypes, AppendProperties DEF WebMode, DdsmChangeMode
  <2> QED
    BY <1>1, <1>5, <2>1 DEF WebMode, DdsmChangeMode
<1>6. CASE WebType
  <2>1. PICK type \in {115, 210} : SetDdsmType(type)
    BY <1>6 DEF WebType
  <2>2. toHost' \in Seq(Lines)
    BY <2>1, LineTypes, AppendProperties DEF SetDdsmType
  <2> QED
    BY <1>1, <1>6, <2>1, <2>2 DEF WebType, SetDdsmType
<1> QED
  BY <1>2, <1>3, <1>4, <1>5, <1>6 DEF HandleClient

LEMMA TypeStep == TypeOK /\ [Next]_vars => TypeOK'
<1> SUFFICES ASSUME TypeOK, [Next]_vars PROVE TypeOK'
  OBVIOUS
<1>1. CASE UNCHANGED vars
  BY <1>1 DEF TypeOK, vars, hostVars, lineVars, watchVars, infoVars, busVars, bootVars
<1>2. CASE Next
  BY <1>2, HostType, WatchType, FbType, SerialType, ClientType, Zenon DEF Next, Loop
<1> QED
  BY <1>1, <1>2

\* Type correctness: what is on the line and on the bus stays well formed however the
\* host, the board and the web pages interleave.
THEOREM TypeCorrect == Spec => []TypeOK
  BY TypeInit, TypeStep, PTL DEF Spec

-----------------------------------------------------------------------------
(* The watchdog's stop *)

LEMMA StopInit == Init => StopHolds
  BY DEF Init, StopHolds

LEMMA StopStep ==
  ASSUME TypeOK, StopHolds, [Next]_vars, "drive" \notin WebCommands
  PROVE  StopHolds'
<1> USE DEF StopHolds
<1>1. CASE UNCHANGED <<stop_flag, motor>>
  BY <1>1
<1>2. CASE HeartbeatCtrl
  BY <1>2 DEF HeartbeatCtrl, StopAll
<1>3. CASE SerialCtrl
  BY <1>3 DEF SerialCtrl, LiftStop
<1>4. CASE Reboot
  BY <1>4 DEF Reboot
<1>5. CASE HandleClient
  <2>1. ~WebDrive
    BY DEF WebDrive
  <2> QED
    BY <1>5, <2>1, <1>1 DEF HandleClient, WebWatchdog, WebInfo, WebMode, WebType, busVars,
       DdsmGetInfo, DdsmChangeMode
<1>6. CASE Host
  BY <1>1, <1>6 DEF Host, HostSend, HostSetMode, HostRead, HostTimesOut, HostReopen, watchVars, busVars
<1>7. CASE Elapse \/ UartHeartbeat \/ DdsmFb \/ Setup
  BY <1>1, <1>7 DEF Elapse, UartHeartbeat, DdsmFb, Setup, watchVars, busVars
<1>8. CASE UNCHANGED vars
  BY <1>1, <1>8 DEF vars, watchVars, busVars
<1> QED
  BY <1>2, <1>3, <1>4, <1>5, <1>6, <1>7, <1>8, Zenon DEF Next, Loop

\* The watchdog's stop lasts: as long as the web pages do not drive, no lost or late reply
\* and no order of the loop's calls sets a stopped motor going before the next serial line.
THEOREM StopLasts ==
  ASSUME "drive" \notin WebCommands
  PROVE  Spec => []StopHolds
<1>1. TypeOK /\ StopHolds /\ [Next]_vars => StopHolds'
  BY StopStep
<1> QED
  BY <1>1, StopInit, TypeCorrect, PTL DEF Spec

-----------------------------------------------------------------------------
(* The order of the echoes *)

\* Frames on their way back are in the order they were sent: the echoes on the line, then
\* the replies on the bus, all after what the host has accepted.
RxOrder ==
  /\ \A i, j \in 1 .. Len(rx) : i < j => rx[i].n < rx[j].n
  /\ \A i \in 1 .. Len(rx) : rx[i].n <= sent
LineOrder ==
  \A i, j \in 1 .. Len(toHost) :
    i < j /\ toHost[i].kind = "echo" /\ toHost[j].kind = "echo" => toHost[i].n < toHost[j].n
LineBeforeRx ==
  \A i \in 1 .. Len(toHost) : toHost[i].kind = "echo" =>
    toHost[i].n <= sent /\ \A j \in 1 .. Len(rx) : toHost[i].n < rx[j].n
AnsweredFirst ==
  \A m \in Motors :
    /\ answered[m] <= sent
    /\ \A i \in 1 .. Len(toHost) : toHost[i].kind = "echo" => answered[m] < toHost[i].n
    /\ \A j \in 1 .. Len(rx) : answered[m] < rx[j].n

OrderInv == RxOrder /\ LineOrder /\ LineBeforeRx /\ AnsweredFirst

\* rx loses its first k replies and gains those of the frames sent since.
RxMoves(k) ==
  /\ sent' \in Nat /\ sent <= sent'
  /\ Len(rx) - k <= Len(rx') /\ Len(rx') <= Len(rx) - k + (sent' - sent)
  /\ \A i \in 1 .. Len(rx) - k : rx'[i].n = rx[i + k].n
  /\ \A i \in Len(rx) - k + 1 .. Len(rx') : rx'[i].n = sent + (i - (Len(rx) - k))

\* toHost loses its first k lines and gains no echo.
LineMoves(k) ==
  /\ Len(toHost) - k <= Len(toHost')
  /\ \A i \in 1 .. Len(toHost) - k : toHost'[i] = toHost[i + k]
  /\ \A i \in Len(toHost) - k + 1 .. Len(toHost') : toHost'[i].kind # "echo"

LEMMA OrderInit == Init => OrderInv
BY DEF Init, OrderInv, RxOrder, LineOrder, LineBeforeRx, AnsweredFirst

LEMMA OrderKept ==
  ASSUME TypeOK, TypeOK', OrderInv, UNCHANGED answered,
         NEW k \in 0 .. Len(rx), NEW l \in 0 .. Len(toHost), RxMoves(k), LineMoves(l)
  PROVE  OrderInv'
<1> DEFINE kept == Len(rx) - k
           left == Len(toHost) - l
<1>a. \A x, y \in Nat, d \in Nat \ {0} : x <= y => x < y + d
  OBVIOUS
<1>1. /\ Len(rx) \in Nat /\ Len(toHost) \in Nat /\ Len(rx') \in Nat /\ Len(toHost') \in Nat
      /\ kept \in Nat /\ left \in Nat /\ k \in Nat /\ l \in Nat /\ sent \in Nat
  BY DEF TypeOK
<1>2. /\ \A i \in 1 .. Len(rx) : rx[i].n \in Nat
      /\ \A i \in 1 .. Len(toHost) : toHost[i].n \in Nat
      /\ \A m \in Motors : answered[m] \in Nat
  <2>1. \A i \in 1 .. Len(rx) : rx[i] \in Replies
    BY DEF TypeOK
  <2>2. \A i \in 1 .. Len(toHost) : toHost[i] \in Lines
    BY DEF TypeOK
  <2>3. \A m \in Motors : answered[m] \in Nat
    BY DEF TypeOK
  <2> QED
    BY <2>1, <2>2, <2>3, LineFacts DEF Replies
<1>3. ASSUME NEW i \in 1 .. Len(rx')
      PROVE  \/ i <= kept /\ i + k \in 1 .. Len(rx) /\ rx'[i].n = rx[i + k].n
             \/ i > kept /\ rx'[i].n = sent + (i - kept) /\ rx'[i].n <= sent'
  <2>1. CASE i <= kept
    <3>1. i \in 1 .. kept /\ i + k \in 1 .. Len(rx)
      BY <1>1, <2>1
    <3> QED
      BY <2>1, <3>1 DEF RxMoves
  <2>2. CASE i > kept
    <3>1. i \in kept + 1 .. Len(rx')
      BY <1>1, <2>2
    <3>2. rx'[i].n = sent + (i - kept)
      BY <3>1 DEF RxMoves
    <3>3. Len(rx') <= kept + (sent' - sent) /\ sent' \in Nat
      BY DEF RxMoves
    <3> QED
      BY <1>1, <2>2, <3>2, <3>3
  <2> QED
    BY <1>1, <2>1, <2>2
<1>4. ASSUME NEW i \in 1 .. Len(toHost'), toHost'[i].kind = "echo"
      PROVE  i + l \in 1 .. Len(toHost) /\ toHost'[i] = toHost[i + l]
  <2>1. ~(i \in left + 1 .. Len(toHost'))
    BY <1>4 DEF LineMoves
  <2>2. i \in 1 .. left
    BY <1>1, <2>1
  <2>3. toHost'[i] = toHost[i + l]
    BY <2>2 DEF LineMoves
  <2> QED
    BY <1>1, <2>2, <2>3
<1>5. sent' \in Nat /\ sent <= sent'
  BY DEF RxMoves
<1>6. RxOrder'
  <2>1. ASSUME NEW i \in 1 .. Len(rx')
        PROVE  rx'[i].n <= sent'
    <3>1. CASE i <= kept
      <4>1. i + k \in 1 .. Len(rx) /\ rx'[i].n = rx[i + k].n
        BY <1>1, <1>3, <3>1
      <4>2. rx'[i].n \in Nat /\ rx'[i].n <= sent
        BY <1>2, <4>1 DEF OrderInv, RxOrder
      <4> QED
        BY <1>1, <1>5, <4>2
    <3> QED
      BY <1>1, <1>3, <3>1
  <2>2. ASSUME NEW i \in 1 .. Len(rx'), NEW j \in 1 .. Len(rx'), i < j
        PROVE  rx'[i].n < rx'[j].n
    <3>1. CASE j <= kept
      <4>1. i + k \in 1 .. Len(rx) /\ j + k \in 1 .. Len(rx) /\ i + k < j + k
        BY <1>1, <2>2, <3>1
      <4>2. rx'[i].n = rx[i + k].n /\ rx'[j].n = rx[j + k].n
        BY <1>1, <1>3, <2>2, <3>1
      <4> QED
        BY <4>1, <4>2 DEF OrderInv, RxOrder
    <3>2. CASE j > kept
      <4>1. rx'[j].n = sent + (j - kept)
        BY <1>1, <1>3, <3>2
      <4>2. CASE i <= kept
        <5>1. i + k \in 1 .. Len(rx) /\ rx'[i].n = rx[i + k].n
          BY <1>1, <1>3, <4>2
        <5>2. rx'[i].n \in Nat /\ rx'[i].n <= sent
          BY <1>2, <5>1 DEF OrderInv, RxOrder
        <5> QED
          BY <1>1, <3>2, <4>1, <5>2
      <4>3. CASE i > kept
        <5>1. rx'[i].n = sent + (i - kept)
          BY <1>1, <1>3, <4>3
        <5> QED
          BY <1>1, <2>2, <4>1, <5>1
      <4> QED
        BY <1>1, <4>2, <4>3
    <3> QED
      BY <1>1, <3>1, <3>2
  <2> QED
    BY <2>1, <2>2 DEF RxOrder
<1>7. LineOrder'
  <2>1. ASSUME NEW i \in 1 .. Len(toHost'), NEW j \in 1 .. Len(toHost'), i < j,
               toHost'[i].kind = "echo", toHost'[j].kind = "echo"
        PROVE  toHost'[i].n < toHost'[j].n
    <3>1. i + l < j + l
      BY <1>1, <2>1
    <3> QED
      BY <1>4, <2>1, <3>1 DEF OrderInv, LineOrder
  <2> QED
    BY <2>1 DEF LineOrder
<1>8. LineBeforeRx'
  <2>1. ASSUME NEW i \in 1 .. Len(toHost'), toHost'[i].kind = "echo"
        PROVE  toHost'[i].n <= sent' /\ \A j \in 1 .. Len(rx') : toHost'[i].n < rx'[j].n
    <3>1. i + l \in 1 .. Len(toHost) /\ toHost'[i] = toHost[i + l]
      BY <1>4, <2>1
    <3>2. toHost[i + l].n \in Nat /\ toHost[i + l].n <= sent
      BY <1>2, <2>1, <3>1 DEF OrderInv, LineBeforeRx
    <3>a. \A j \in 1 .. Len(rx) : toHost[i + l].n < rx[j].n
      BY <2>1, <3>1 DEF OrderInv, LineBeforeRx
    <3>3. ASSUME NEW j \in 1 .. Len(rx') PROVE toHost[i + l].n < rx'[j].n
      <4>1. CASE j <= kept
        <5>1. j + k \in 1 .. Len(rx) /\ rx'[j].n = rx[j + k].n
          BY <1>1, <1>3, <4>1
        <5>2. toHost[i + l].n < rx[j + k].n
          BY <3>a, <5>1
        <5> QED
          BY <5>1, <5>2
      <4>2. CASE j > kept
        <5>1. rx'[j].n = sent + (j - kept)
          BY <1>3, <4>2
        <5>2. j - kept \in Nat \ {0}
          BY <1>1, <4>2
        <5>3. toHost[i + l].n < sent + (j - kept)
          BY <1>1, <1>a, <3>2, <5>2, Zenon
        <5> QED
          BY <5>1, <5>3, Zenon
      <4> QED
        BY <1>1, <4>1, <4>2
    <3> QED
      BY <1>1, <1>5, <3>1, <3>2, <3>3
  <2> QED
    BY <2>1 DEF LineBeforeRx
<1>9. AnsweredFirst'
  <2>1. ASSUME NEW m \in Motors
        PROVE  /\ answered'[m] <= sent'
               /\ \A i \in 1 .. Len(toHost') : toHost'[i].kind = "echo" => answered'[m] < toHost'[i].n
               /\ \A j \in 1 .. Len(rx') : answered'[m] < rx'[j].n
    <3>1. /\ answered[m] \in Nat /\ answered[m] <= sent
          /\ \A i \in 1 .. Len(toHost) : toHost[i].kind = "echo" => answered[m] < toHost[i].n
          /\ \A j \in 1 .. Len(rx) : answered[m] < rx[j].n
      BY <1>2 DEF OrderInv, AnsweredFirst
    <3>2. ASSUME NEW j \in 1 .. Len(rx') PROVE answered[m] < rx'[j].n
      <4>1. CASE j <= kept
        <5>1. j + k \in 1 .. Len(rx) /\ rx'[j].n = rx[j + k].n
          BY <1>1, <1>3, <4>1
        <5> QED
          BY <3>1, <5>1
      <4>2. CASE j > kept
        <5>1. rx'[j].n = sent + (j - kept)
          BY <1>3, <4>2
        <5>2. j - kept \in Nat \ {0}
          BY <1>1, <4>2
        <5>3. answered[m] < sent + (j - kept)
          BY <1>1, <1>a, <3>1, <5>2, Zenon
        <5> QED
          BY <5>1, <5>3, Zenon
      <4> QED
        BY <1>1, <4>1, <4>2
    <3>3. ASSUME NEW i \in 1 .. Len(toHost'), toHost'[i].kind = "echo"
          PROVE  answered[m] < toHost'[i].n
      BY <1>4, <3>1, <3>3
    <3>4. answered[m] <= sent'
      BY <1>1, <1>5, <3>1
    <3> QED
      BY <3>2, <3>3, <3>4
  <2> QED
    BY <2>1 DEF AnsweredFirst
<1> QED
  BY <1>6, <1>7, <1>8, <1>9 DEF OrderInv

LEMMA UnmovedRx == TypeOK /\ UNCHANGED <<rx, sent>> => 0 \in 0 .. Len(rx) /\ RxMoves(0)
BY DEF TypeOK, RxMoves

LEMMA UnmovedLine == TypeOK /\ UNCHANGED toHost => 0 \in 0 .. Len(toHost) /\ LineMoves(0)
BY DEF TypeOK, LineMoves

LEMMA OneMoreReply ==
  ASSUME TypeOK, NEW unread \in Suffixes(rx), NEW reply \in Replies, reply.n = sent + 1,
         rx' = Append(unread, reply), sent' = sent + 1
  PROVE  \E k \in 0 .. Len(rx) : RxMoves(k)
<1>1. PICK k \in 0 .. Len(rx) :
        Len(unread) = Len(rx) - k /\ \A i \in 1 .. Len(unread) : unread[i] = rx[i + k]
  BY SuffixFacts DEF TypeOK
<1>2. unread \in Seq(Replies)
  BY SuffixFacts DEF TypeOK
<1>3. /\ Len(rx') = Len(unread) + 1
      /\ \A i \in 1 .. Len(unread) : rx'[i] = unread[i]
      /\ rx'[Len(unread) + 1] = reply
  BY <1>2
<1>4. sent \in Nat /\ Len(unread) \in Nat
  BY <1>2 DEF TypeOK
<1>5. \A i \in 1 .. Len(rx) - k : rx'[i].n = rx[i + k].n
  BY <1>1, <1>3, <1>4
<1>6. ASSUME NEW i \in Len(rx) - k + 1 .. Len(rx')
      PROVE  rx'[i].n = sent + (i - (Len(rx) - k))
  <2>1. i = Len(unread) + 1 /\ i - (Len(rx) - k) = 1
    BY <1>1, <1>3, <1>4
  <2>2. rx'[i] = reply
    BY <1>3, <2>1
  <2> QED
    BY <2>1, <2>2
<1>7. Len(rx) \in Nat
  BY DEF TypeOK
<1>8. /\ sent' \in Nat /\ sent <= sent'
      /\ Len(rx) - k <= Len(rx') /\ Len(rx') <= Len(rx) - k + (sent' - sent)
  BY <1>1, <1>3, <1>4, <1>7
<1> QED
  BY <1>5, <1>6, <1>8, Zenon DEF RxMoves

LEMMA OneMoreLine ==
  ASSUME TypeOK, NEW line \in Lines, line.kind # "echo", toHost' = Append(toHost, line)
  PROVE  0 \in 0 .. Len(toHost) /\ LineMoves(0)
<1>1. toHost \in Seq(Lines)
  BY DEF TypeOK
<1> QED
  BY <1>1 DEF LineMoves

LEMMA MoreLines ==
  ASSUME TypeOK, Setup
  PROVE  0 \in 0 .. Len(toHost) /\ LineMoves(0)
<1>1. toHost \in Seq(Lines) /\ Booted \in Seq(Lines) /\ toHost' = toHost \o Booted
  <2>1. toHost \in Seq(Lines)
    BY DEF TypeOK
  <2>2. toHost' = toHost \o Booted
    BY DEF Setup, Booted
  <2> QED
    BY <2>1, <2>2, BootType
<1>2. Len(Booted) = BootLines
  BY BoardAssumption DEF Booted
<1>3. \A i \in 1 .. Len(Booted) : Booted[i].kind # "echo"
  BY <1>2 DEF Booted, Other
<1>4. /\ Len(toHost) \in Nat /\ Len(Booted) \in Nat /\ Len(toHost') = Len(toHost) + Len(Booted)
      /\ \A i \in 1 .. Len(toHost) + Len(Booted) :
           toHost'[i] = IF i <= Len(toHost) THEN toHost[i] ELSE Booted[i - Len(toHost)]
  BY <1>1, BootType, ConcatProperties
<1>5. \A i \in 1 .. Len(toHost) : toHost'[i] = toHost[i]
  BY <1>4
<1>6. ASSUME NEW i \in Len(toHost) + 1 .. Len(toHost') PROVE toHost'[i].kind # "echo"
  <2>1. i - Len(toHost) \in 1 .. Len(Booted) /\ toHost'[i] = Booted[i - Len(toHost)]
    BY <1>4
  <2> QED
    BY <1>3, <2>1
<1> QED
  BY <1>4, <1>5, <1>6 DEF LineMoves

LEMMA OneLineRead ==
  ASSUME TypeOK, toHost # <<>>, toHost' = Tail(toHost)
  PROVE  1 \in 0 .. Len(toHost) /\ LineMoves(1)
<1>1. toHost \in Seq(Lines)
  BY DEF TypeOK
<1>2. Len(toHost) \in Nat \ {0} /\ Len(toHost') = Len(toHost) - 1
      /\ \A i \in 1 .. Len(toHost') : toHost'[i] = toHost[i + 1]
  BY <1>1
<1> QED
  BY <1>2 DEF LineMoves

LEMMA StopsAppended ==
  ASSUME TypeOK, StopAll
  PROVE  0 \in 0 .. Len(rx) /\ RxMoves(0)
<1> DEFINE more == [i \in 1 .. Len(Stops) |-> Reply("drive", Stops[i], sent + i)]
<1>1. /\ Len(Stops) \in Nat /\ DOMAIN Stops = 1 .. Len(Stops)
      /\ \A i \in 1 .. Len(Stops) : Stops[i] \in Motors
  BY StopsType
<1>2. sent \in Nat /\ rx \in Seq(Replies) /\ Len(rx) \in Nat
  BY DEF TypeOK
<1>3. \A i \in 1 .. Len(Stops) : Reply("drive", Stops[i], sent + i) \in Replies
  BY <1>1, <1>2, LineTypes
<1>4. more \in Seq(Replies) /\ Len(more) = Len(Stops)
  BY <1>1, <1>3
<1>5. rx' = rx \o more /\ sent' = sent + Len(Stops)
  BY <1>1 DEF StopAll, Stops
<1> HIDE DEF more
<1>6. /\ Len(rx') = Len(rx) + Len(Stops)
      /\ \A i \in 1 .. Len(rx) + Len(Stops) :
           rx'[i] = IF i <= Len(rx) THEN rx[i] ELSE more[i - Len(rx)]
  <2>1. \A s, t \in Seq(Replies) :
          /\ Len(s \o t) = Len(s) + Len(t)
          /\ \A i \in 1 .. Len(s) + Len(t) : (s \o t)[i] = IF i <= Len(s) THEN s[i] ELSE t[i - Len(s)]
    OBVIOUS
  <2> QED
    BY <1>2, <1>4, <1>5, <2>1
<1>7. \A i \in 1 .. Len(Stops) : more[i].n = sent + i
  BY DEF more, Reply
<1>8. ASSUME NEW i \in 1 .. Len(rx) PROVE rx'[i].n = rx[i].n
  BY <1>1, <1>2, <1>6
<1>9. ASSUME NEW i \in Len(rx) + 1 .. Len(rx') PROVE rx'[i].n = sent + (i - Len(rx))
  <2>1. i \in 1 .. Len(rx) + Len(Stops) /\ ~(i <= Len(rx)) /\ i - Len(rx) \in 1 .. Len(Stops)
    BY <1>1, <1>2, <1>6
  <2> QED
    BY <1>6, <1>7, <2>1
<1>10. sent' \in Nat /\ sent <= sent' /\ Len(rx) <= Len(rx') /\ Len(rx') <= Len(rx) + (sent' - sent)
  BY <1>1, <1>2, <1>5, <1>6
<1>11. Len(rx) - 0 = Len(rx) /\ 0 \in 0 .. Len(rx)
  BY <1>2
<1>12. ASSUME NEW i \in 1 .. Len(rx) - 0 PROVE rx'[i].n = rx[i + 0].n
  BY <1>2, <1>8
<1> QED
  BY <1>9, <1>10, <1>11, <1>12, Zenon DEF RxMoves

\* A reply turns into an echo: it is the last on the line and the first from the bus.
LEMMA OrderReported ==
  ASSUME TypeOK, OrderInv, rx # <<>>, TakeReply, Report, UNCHANGED <<sent, answered>>
  PROVE  OrderInv'
<1> DEFINE reply == Head(rx)
           size == Len(toHost)
<1>1. /\ rx \in Seq(Replies) /\ toHost \in Seq(Lines) /\ Len(rx) \in Nat \ {0} /\ size \in Nat
      /\ sent \in Nat
  BY DEF TypeOK
<1>2. reply = rx[1] /\ reply.id \in Motors /\ reply.n \in Nat
  <2>1. reply = rx[1] /\ reply \in Replies
    BY <1>1
  <2> QED
    BY <2>1 DEF Replies
<1>3. /\ Len(rx') = Len(rx) - 1
      /\ \A i \in 1 .. Len(rx') : i + 1 \in 1 .. Len(rx) /\ 1 < i + 1 /\ rx'[i] = rx[i + 1]
  BY <1>1, HeadTailProperties DEF TakeReply
<1>4. /\ Len(toHost') = size + 2
      /\ toHost'[size + 1] = Echo(reply.id, reply.n) /\ toHost'[size + 2] = Other
      /\ \A i \in 1 .. size : toHost'[i] = toHost[i]
  <2>a. <<Echo(reply.id, reply.n), Other>> \in Seq(Lines)
    BY <1>2, LineTypes
  <2> QED
    BY <1>1, <2>a DEF Report
<1>5. ASSUME NEW i \in 1 .. Len(toHost'), toHost'[i].kind = "echo"
      PROVE  \/ i \in 1 .. size /\ toHost'[i] = toHost[i]
             \/ i = size + 1 /\ toHost'[i].n = reply.n
  <2>1. toHost'[size + 2].kind = "other" /\ toHost'[size + 1].n = reply.n
    BY <1>4 DEF Other, Echo
  <2>2. i \in 1 .. size \/ i = size + 1 \/ i = size + 2
    BY <1>1, <1>4
  <2> QED
    BY <1>4, <1>5, <2>1, <2>2
<1> HIDE DEF reply, size
<1>6. RxOrder'
  <2>1. ASSUME NEW i \in 1 .. Len(rx'), NEW j \in 1 .. Len(rx'), i < j
        PROVE  rx'[i].n < rx'[j].n
    <3>1. i + 1 < j + 1
      BY <2>1, <1>1, <1>3
    <3> QED
      BY <1>3, <3>1 DEF OrderInv, RxOrder
  <2>2. ASSUME NEW i \in 1 .. Len(rx') PROVE rx'[i].n <= sent
    BY <1>3 DEF OrderInv, RxOrder
  <2> QED
    BY <2>1, <2>2 DEF RxOrder
<1>7. \A i \in 1 .. Len(rx') : reply.n < rx'[i].n
  <2>1. 1 \in 1 .. Len(rx)
    BY <1>1
  <2> QED
    BY <1>2, <1>3, <2>1 DEF OrderInv, RxOrder
<1>8. \A i \in 1 .. size : toHost[i].kind = "echo" => toHost[i].n < reply.n
  <2>1. 1 \in 1 .. Len(rx)
    BY <1>1
  <2> QED
    BY <1>2, <2>1 DEF OrderInv, LineBeforeRx, size
<1>9. reply.n <= sent /\ \A m \in Motors : answered[m] < reply.n
  <2>1. 1 \in 1 .. Len(rx)
    BY <1>1
  <2> QED
    BY <1>2, <2>1 DEF OrderInv, RxOrder, AnsweredFirst
<1>10. LineOrder'
  <2>1. ASSUME NEW i \in 1 .. Len(toHost'), NEW j \in 1 .. Len(toHost'), i < j,
               toHost'[i].kind = "echo", toHost'[j].kind = "echo"
        PROVE  toHost'[i].n < toHost'[j].n
    <3>1. i \in 1 .. size /\ toHost'[i] = toHost[i]
      BY <1>1, <1>5, <2>1
    <3>2. CASE j \in 1 .. size /\ toHost'[j] = toHost[j]
      BY <2>1, <3>1, <3>2 DEF OrderInv, LineOrder, size
    <3>3. CASE j = size + 1 /\ toHost'[j].n = reply.n
      BY <1>8, <2>1, <3>1, <3>3
    <3> QED
      BY <1>5, <2>1, <3>2, <3>3
  <2> QED
    BY <2>1 DEF LineOrder
<1>11. LineBeforeRx'
  <2>1. ASSUME NEW i \in 1 .. Len(toHost'), toHost'[i].kind = "echo"
        PROVE  toHost'[i].n <= sent' /\ \A j \in 1 .. Len(rx') : toHost'[i].n < rx'[j].n
    <3>1. CASE i \in 1 .. size /\ toHost'[i] = toHost[i]
      BY <1>3, <2>1, <3>1 DEF OrderInv, LineBeforeRx, size
    <3>2. CASE toHost'[i].n = reply.n
      BY <1>7, <1>9, <3>2
    <3> QED
      BY <1>5, <2>1, <3>1, <3>2
  <2> QED
    BY <2>1 DEF LineBeforeRx
<1>12. AnsweredFirst'
  <2>1. ASSUME NEW m \in Motors
        PROVE  /\ answered[m] <= sent
               /\ \A i \in 1 .. Len(toHost') : toHost'[i].kind = "echo" => answered[m] < toHost'[i].n
               /\ \A j \in 1 .. Len(rx') : answered[m] < rx'[j].n
    <3>1. answered[m] <= sent /\ \A j \in 1 .. Len(rx') : answered[m] < rx'[j].n
      BY <1>3 DEF OrderInv, AnsweredFirst
    <3>2. ASSUME NEW i \in 1 .. Len(toHost'), toHost'[i].kind = "echo"
          PROVE  answered[m] < toHost'[i].n
      BY <1>5, <1>9, <3>2 DEF OrderInv, AnsweredFirst, size
    <3> QED
      BY <3>1, <3>2
  <2> QED
    BY <2>1 DEF AnsweredFirst
<1> QED
  BY <1>6, <1>10, <1>11, <1>12 DEF OrderInv

\* The host accepts the first line: all others are after it.
LEMMA OrderAccepted ==
  ASSUME TypeOK, OrderInv, toHost # <<>>, Head(toHost).kind = "echo", toHost' = Tail(toHost),
         NEW id \in Motors, answered' = [answered EXCEPT ![id] = Head(toHost).n],
         UNCHANGED <<rx, sent>>
  PROVE  OrderInv' /\ answered[id] < Head(toHost).n
<1>1. toHost \in Seq(Lines) /\ 1 \in 1 .. Len(toHost) /\ Head(toHost) = toHost[1] /\ Len(toHost) \in Nat
  BY DEF TypeOK
<1>2. \A i \in 1 .. Len(toHost') : i + 1 \in 1 .. Len(toHost) /\ 1 < i + 1 /\ toHost'[i] = toHost[i + 1]
  BY <1>1, HeadTailProperties
<1>3. \A i, j \in 1 .. Len(toHost') : i < j => i + 1 < j + 1
  BY <1>1
<1>4. LineOrder'
  BY <1>2, <1>3 DEF OrderInv, LineOrder
<1>5. LineBeforeRx'
  BY <1>2 DEF OrderInv, LineBeforeRx
<1>6. \A m \in Motors : answered'[m] = IF m = id THEN toHost[1].n ELSE answered[m]
  BY <1>1 DEF TypeOK
<1>7. AnsweredFirst'
  <2>1. ASSUME NEW m \in Motors
        PROVE  /\ answered'[m] <= sent
               /\ \A i \in 1 .. Len(toHost') : toHost'[i].kind = "echo" => answered'[m] < toHost'[i].n
               /\ \A j \in 1 .. Len(rx) : answered'[m] < rx[j].n
    <3>1. CASE m = id
      BY <1>1, <1>2, <1>6, <3>1 DEF OrderInv, LineOrder, LineBeforeRx
    <3>2. CASE m # id
      BY <1>2, <1>6, <3>2 DEF OrderInv, AnsweredFirst
    <3> QED
      BY <3>1, <3>2
  <2> QED
    BY <2>1 DEF AnsweredFirst
<1>8. answered[id] < toHost[1].n
  BY <1>1 DEF OrderInv, AnsweredFirst
<1> QED
  BY <1>1, <1>4, <1>5, <1>7, <1>8 DEF OrderInv, RxOrder

\* Nothing happens to the order of frames.
LEMMA OrderUntouched ==
  ASSUME TypeOK, TypeOK', OrderInv, UNCHANGED <<answered, toHost, rx, sent>>
  PROVE  OrderInv'
BY UnmovedRx, UnmovedLine, OrderKept

LEMMA OrderHost ==
  ASSUME TypeOK, TypeOK', OrderInv, Host
  PROVE  OrderInv'
<1>1. CASE HostSend \/ HostSetMode \/ HostTimesOut
  <2>1. UNCHANGED <<answered, toHost, rx, sent>>
    BY <1>1 DEF HostSend, HostSetMode, HostTimesOut, busVars, lineVars
  <2> QED
    BY <2>1, OrderUntouched
<1>2. CASE HostRead
  <2>1. UNCHANGED <<rx, sent>> /\ toHost # <<>> /\ toHost' = Tail(toHost)
    BY <1>2 DEF HostRead, busVars
  <2>2. CASE UNCHANGED answered
    BY <2>1, <2>2, UnmovedRx, OneLineRead, OrderKept
  <2>3. CASE IsAnswer(Head(toHost)) /\ answered' = [answered EXCEPT ![host.id] = Head(toHost).n]
    <3>1. Head(toHost).id \in Motors \cup {0} /\ host.id = Head(toHost).id /\ Head(toHost).kind = "echo"
      <4>1. Head(toHost) \in Lines
        BY <2>1 DEF TypeOK
      <4> QED
        BY <2>3, <4>1, LineFacts DEF IsAnswer
    <3>2. CASE host.id \in Motors
      BY <2>1, <2>3, <3>1, <3>2, OrderAccepted
    <3>3. CASE host.id \notin Motors
      <4>1. answered' = answered
        BY <2>3, <3>3 DEF TypeOK
      <4> QED
        BY <2>2, <4>1
    <3> QED
      BY <3>2, <3>3
  <2> QED
    BY <1>2, <2>2, <2>3 DEF HostRead, hostVars
<1>3. CASE HostReopen
  <2>1. toHost' = <<>> /\ UNCHANGED <<answered, rx, sent>>
    BY <1>3 DEF HostReopen, hostVars, busVars
  <2>2. Len(toHost) \in 0 .. Len(toHost) /\ LineMoves(Len(toHost))
    BY <2>1 DEF LineMoves, TypeOK
  <2> QED
    BY <2>1, <2>2, UnmovedRx, OrderKept
<1> QED
  BY <1>1, <1>2, <1>3 DEF Host

LEMMA OrderLoop ==
  ASSUME TypeOK, TypeOK', OrderInv, Loop
  PROVE  OrderInv'
<1>s. sent \in Nat /\ rx \in Seq(Replies) /\ Len(rx) \in Nat
  BY DEF TypeOK
<1>o. Other \in Lines /\ Other.kind # "echo" /\ Beat \in Lines /\ Beat.kind # "echo"
  BY LineTypes DEF Other, Beat
<1>1. CASE HeartbeatCtrl
  <2>1. StopAll /\ toHost' = Append(toHost, Other) /\ UNCHANGED answered
    BY <1>1 DEF HeartbeatCtrl
  <2> QED
    BY <1>o, <2>1, StopsAppended, OneMoreLine, OrderKept
<1>2. CASE UartHeartbeat
  <2>1. toHost' = Append(toHost, Beat) /\ UNCHANGED <<answered, rx, sent>>
    BY <1>2 DEF UartHeartbeat, hostVars, busVars
  <2> QED
    BY <1>o, <2>1, UnmovedRx, OneMoreLine, OrderKept
<1>3. CASE DdsmFb
  <2>1. rx # <<>> /\ TakeReply /\ UNCHANGED <<sent, answered>>
    BY <1>3 DEF DdsmFb, hostVars
  <2>2. CASE Report
    BY <2>1, <2>2, OrderReported
  <2>3. CASE Lose
    <3>1. 1 \in 0 .. Len(rx) /\ RxMoves(1)
      <4>1. rx \in Seq(Replies) /\ Len(rx) \in Nat \ {0} /\ sent \in Nat
        BY <2>1 DEF TypeOK
      <4>2. Len(rx') = Len(rx) - 1 /\ \A i \in 1 .. Len(rx') : rx'[i] = rx[i + 1]
        BY <2>1, <4>1, HeadTailProperties DEF TakeReply
      <4> QED
        BY <2>1, <4>1, <4>2 DEF RxMoves
    <3>2. \E l \in 0 .. Len(toHost) : LineMoves(l)
      BY <1>o, <2>3, OneMoreLine, UnmovedLine DEF Lose
    <3> QED
      BY <2>1, <3>1, <3>2, OrderKept
  <2> QED
    BY <1>3, <2>2, <2>3 DEF DdsmFb
<1>4. CASE SerialCtrl
  <2>1. PICK unread \in Suffixes(rx), c \in {Head(toBoard)} :
          \/ DdsmCtrl(c.id, c.turns, unread) /\ UNCHANGED toHost
          \/ DdsmChangeMode /\ rx' = unread
    BY <1>4, Zenon DEF SerialCtrl
  <2>2. UNCHANGED answered
    BY <1>4 DEF SerialCtrl, hostVars
  <2>3. CASE DdsmCtrl(c.id, c.turns, unread) /\ UNCHANGED toHost
    <3>1. c.id \in Motors
      <4>1. c \in Commands
        BY <1>4, HeadTailProperties DEF SerialCtrl, TypeOK
      <4> QED
        BY <4>1 DEF Commands
    <3>2. Reply("drive", c.id, sent + 1) \in Replies /\ Reply("drive", c.id, sent + 1).n = sent + 1
      BY <1>s, <3>1, LineTypes DEF Reply
    <3>3. \E k \in 0 .. Len(rx) : RxMoves(k)
      BY <2>3, <3>2, OneMoreReply DEF DdsmCtrl
    <3> QED
      BY <2>2, <2>3, <3>3, UnmovedLine, OrderKept
  <2>4. CASE DdsmChangeMode /\ rx' = unread
    <3>1. PICK k \in 0 .. Len(rx) :
            Len(unread) = Len(rx) - k /\ \A i \in 1 .. Len(unread) : unread[i] = rx[i + k]
      BY <1>s, SuffixFacts
    <3>2. sent' = sent + 1 /\ sent \in Nat /\ Len(rx) \in Nat
      BY <2>4 DEF DdsmChangeMode, TypeOK
    <3>3. RxMoves(k)
      BY <2>4, <3>1, <3>2 DEF RxMoves
    <3> QED
      BY <1>o, <2>2, <2>4, <3>3, OneMoreLine, OrderKept DEF DdsmChangeMode
  <2> QED
    BY <2>1, <2>3, <2>4
<1>5. CASE HandleClient
  <2>0. UNCHANGED answered
    BY <1>5 DEF HandleClient
  <2>r. rx \in Suffixes(rx)
    BY DEF TypeOK, Suffixes
  <2>s. sent \in Nat
    BY DEF TypeOK
  <2>1. CASE WebWatchdog
    BY <2>0, <2>1, OrderUntouched DEF WebWatchdog, busVars
  <2>2. CASE WebDrive
    <3>1. PICK id \in Motors, turns \in BOOLEAN : DdsmCtrl(id, turns, rx)
      BY <2>2 DEF WebDrive
    <3>2. Reply("drive", id, sent + 1) \in Replies /\ Reply("drive", id, sent + 1).n = sent + 1
      BY <2>s, LineTypes DEF Reply
    <3>3. \E k \in 0 .. Len(rx) : RxMoves(k)
      BY <2>r, <3>1, <3>2, OneMoreReply DEF DdsmCtrl
    <3>4. UNCHANGED toHost
      BY <2>2 DEF WebDrive
    <3> QED
      BY <2>0, <3>3, <3>4, UnmovedLine, OrderKept
  <2>3. CASE WebInfo
    <3>1. PICK id \in Motors : DdsmGetInfo(id)
      BY <2>3 DEF WebInfo
    <3>2. Reply("info", id, sent + 1) \in Replies /\ Reply("info", id, sent + 1).n = sent + 1
      BY <2>s, LineTypes DEF Reply
    <3>3. \E k \in 0 .. Len(rx) : RxMoves(k)
      BY <2>r, <3>1, <3>2, OneMoreReply DEF DdsmGetInfo
    <3>4. UNCHANGED toHost
      BY <3>1 DEF DdsmGetInfo
    <3> QED
      BY <2>0, <3>3, <3>4, UnmovedLine, OrderKept
  <2>4. CASE WebMode
    <3>1. sent' = sent + 1 /\ UNCHANGED rx /\ Len(rx) \in Nat
      BY <2>4 DEF WebMode, DdsmChangeMode, TypeOK
    <3>2. 0 \in 0 .. Len(rx) /\ RxMoves(0)
      BY <2>s, <3>1 DEF RxMoves
    <3> QED
      BY <1>o, <2>0, <2>4, <3>2, OneMoreLine, OrderKept DEF WebMode, DdsmChangeMode
  <2>5. CASE WebType
    <3>1. toHost' = Append(toHost, Other) /\ UNCHANGED <<rx, sent>>
      BY <2>5 DEF WebType, SetDdsmType, busVars
    <3> QED
      BY <1>o, <2>0, <3>1, UnmovedRx, OneMoreLine, OrderKept
  <2> QED
    BY <1>5, <2>1, <2>2, <2>3, <2>4, <2>5 DEF HandleClient
<1> QED
  BY <1>1, <1>2, <1>3, <1>4, <1>5 DEF Loop

LEMMA OrderStep == TypeOK /\ OrderInv /\ [Next]_vars => OrderInv'
<1> SUFFICES ASSUME TypeOK, OrderInv, [Next]_vars PROVE OrderInv'
  OBVIOUS
<1>1. TypeOK'
  BY TypeStep
<1>2. CASE Elapse \/ UNCHANGED vars
  <2>1. UNCHANGED <<answered, toHost, rx, sent>>
    BY <1>2 DEF Elapse, vars, hostVars, lineVars, busVars
  <2> QED
    BY <1>1, <2>1, OrderUntouched
<1>3. CASE Reboot
  <2>1. rx' = <<>> /\ UNCHANGED <<answered, toHost, sent>>
    BY <1>3 DEF Reboot, hostVars
  <2>2. Len(rx) \in 0 .. Len(rx) /\ RxMoves(Len(rx))
    BY <2>1 DEF RxMoves, TypeOK
  <2> QED
    BY <1>1, <2>1, <2>2, UnmovedLine, OrderKept
<1>4. CASE Setup
  <2>1. UNCHANGED <<answered, rx, sent>>
    BY <1>4 DEF Setup, hostVars, busVars
  <2> QED
    BY <1>1, <1>4, <2>1, UnmovedRx, MoreLines, OrderKept
<1> QED
  BY <1>1, <1>2, <1>3, <1>4, OrderHost, OrderLoop DEF Next

\* set_speed never takes the same echo twice and never goes back to an earlier frame of
\* that motor, however replies are delayed, dropped or caused by others.
THEOREM EchoesInOrder == Spec => EchoesUsedOnce
<1>1. TypeOK /\ OrderInv /\ [Next]_vars => [Accepts => Head(toHost).n > answered[host.id]]_vars
  <2> SUFFICES ASSUME TypeOK, OrderInv, Accepts
               PROVE  Head(toHost).n > answered[host.id]
    OBVIOUS
  <2>1. toHost \in Seq(Lines) /\ toHost # <<>> /\ Head(toHost).kind = "echo" /\ host.id = Head(toHost).id
    BY DEF TypeOK, Accepts, IsAnswer
  <2>2. 1 \in 1 .. Len(toHost) /\ Head(toHost) = toHost[1] /\ toHost[1] \in Lines
    BY <2>1
  <2>3. host.id \in Motors /\ answered[host.id] \in Nat /\ toHost[1].n \in Nat
    BY <2>1, <2>2, LineFacts DEF TypeOK
  <2>4. answered[host.id] < toHost[1].n
    BY <2>1, <2>2, <2>3 DEF OrderInv, AnsweredFirst
  <2> QED
    BY <2>2, <2>3, <2>4
<1> QED
  BY <1>1, OrderInit, OrderStep, TypeInit, TypeStep, PTL DEF Spec, EchoesUsedOnce

-----------------------------------------------------------------------------
(* The form of a report *)

\* Out of tangles, the flag is up exactly while the info reply is the next to be read.
FormInv ==
  ~tangled =>
    /\ get_info_flag => rx # <<>>
    /\ \A i \in 1 .. Len(rx) : rx[i].what = "info" <=> (i = 1 /\ get_info_flag)

LEMMA FormInit == Init => FormInv
BY DEF Init, FormInv

LEMMA FormUntouched ==
  ASSUME FormInv, UNCHANGED <<tangled, get_info_flag, rx>>
  PROVE  FormInv'
BY DEF FormInv

\* A reply to a drive command comes last.
LEMMA FormDriven ==
  ASSUME TypeOK, FormInv, NEW unread \in Suffixes(rx), NEW id, NEW n,
         rx' = Append(unread, Reply("drive", id, n)), UNCHANGED get_info_flag,
         ~tangled' => ~tangled /\ (get_info_flag => unread = rx)
  PROVE  FormInv'
<1> SUFFICES ASSUME ~tangled' PROVE (get_info_flag' => rx' # <<>>) /\
      \A i \in 1 .. Len(rx') : rx'[i].what = "info" <=> (i = 1 /\ get_info_flag')
  BY DEF FormInv
<1>1. PICK k \in 0 .. Len(rx) :
        Len(unread) = Len(rx) - k /\ \A i \in 1 .. Len(unread) : unread[i] = rx[i + k]
  BY SuffixFacts DEF TypeOK
<1>2. unread \in Seq(Replies) /\ Len(rx) \in Nat
  BY SuffixFacts DEF TypeOK
<1>3. /\ Len(rx') = Len(unread) + 1 /\ rx' # <<>>
      /\ \A i \in 1 .. Len(unread) : rx'[i] = unread[i]
      /\ rx'[Len(unread) + 1].what = "drive"
  BY <1>2 DEF Reply
<1>4. CASE get_info_flag
  <2>1. unread = rx /\ rx # <<>>
    BY <1>4 DEF FormInv
  <2>2. Len(rx) >= 1
    BY <1>2, <2>1
  <2> QED
    BY <1>2, <1>3, <1>4, <2>1, <2>2 DEF FormInv
<1>5. CASE ~get_info_flag
  <2>1. \A i \in 1 .. Len(unread) : i + k \in 1 .. Len(rx)
    BY <1>1, <1>2
  <2> QED
    BY <1>1, <1>2, <1>3, <1>5, <2>1 DEF FormInv
<1> QED
  BY <1>4, <1>5

LEMMA FormStep == TypeOK /\ FormInv /\ [Next]_vars => FormInv'
<1> SUFFICES ASSUME TypeOK, FormInv, [Next]_vars PROVE FormInv'
  OBVIOUS
<1>1. rx \in Seq(Replies) /\ Len(rx) \in Nat /\ rx \in Suffixes(rx)
  BY DEF TypeOK, Suffixes
<1>2. CASE Host \/ Elapse \/ UartHeartbeat \/ Setup \/ UNCHANGED vars
  <2>1. UNCHANGED <<tangled, get_info_flag, rx>>
    BY <1>2 DEF Host, HostSend, HostSetMode, HostRead, HostTimesOut, HostReopen, Elapse, UartHeartbeat,
       Setup, vars, infoVars, busVars
  <2> QED
    BY <2>1, FormUntouched
<1>3. CASE HeartbeatCtrl
  <2> DEFINE more == [i \in 1 .. Len(Stops) |-> Reply("drive", Stops[i], sent + i)]
  <2>1. UNCHANGED <<tangled, get_info_flag>> /\ rx' = rx \o more
    <3>1. DOMAIN Stops = 1 .. Len(Stops)
      BY StopsType
    <3> QED
      BY <1>3, <3>1 DEF HeartbeatCtrl, infoVars, StopAll, Stops
  <2>2. more \in Seq(Replies) /\ Len(more) = Len(Stops) /\ Len(Stops) \in Nat
    <3>1. Len(Stops) \in Nat /\ \A i \in 1 .. Len(Stops) : Stops[i] \in Motors
      BY StopsType
    <3>2. \A i \in 1 .. Len(Stops) : Reply("drive", Stops[i], sent + i) \in Replies
      BY <3>1, LineTypes DEF TypeOK
    <3> QED
      BY <3>1, <3>2
  <2>3. \A i \in 1 .. Len(more) : more[i].what = "drive"
    BY <2>2 DEF Reply
  <2> HIDE DEF more
  <2>4. \A s, t \in Seq(Replies) :
          /\ Len(s \o t) = Len(s) + Len(t)
          /\ \A i \in 1 .. Len(s) + Len(t) : (s \o t)[i] = IF i <= Len(s) THEN s[i] ELSE t[i - Len(s)]
    OBVIOUS
  <2>5. /\ Len(rx') = Len(rx) + Len(more)
        /\ \A i \in 1 .. Len(rx') : rx'[i] = IF i <= Len(rx) THEN rx[i] ELSE more[i - Len(rx)]
    BY <1>1, <2>1, <2>2, <2>4
  <2>6. ASSUME ~tangled
        PROVE  /\ get_info_flag' => rx' # <<>>
               /\ \A i \in 1 .. Len(rx') : rx'[i].what = "info" <=> (i = 1 /\ get_info_flag')
    <3>1. get_info_flag => Len(rx) >= 1
      BY <1>1, <2>6 DEF FormInv
    <3>2. get_info_flag' => rx' # <<>>
      BY <1>1, <2>1, <2>2, <2>5, <3>1
    <3>3. ASSUME NEW i \in 1 .. Len(rx')
          PROVE  rx'[i].what = "info" <=> (i = 1 /\ get_info_flag')
      <4>1. CASE i <= Len(rx)
        BY <1>1, <2>1, <2>5, <2>6, <4>1 DEF FormInv
      <4>2. CASE ~(i <= Len(rx))
        <5>1. i - Len(rx) \in 1 .. Len(more)
          BY <1>1, <2>2, <2>5, <4>2
        <5> QED
          BY <1>1, <2>1, <2>3, <2>5, <3>1, <4>2, <5>1
      <4> QED
        BY <4>1, <4>2
    <3> QED
      BY <3>2, <3>3
  <2> QED
    BY <2>1, <2>6 DEF FormInv
<1>4. CASE DdsmFb
  <2>1. rx # <<>> /\ rx' = Tail(rx) /\ ((get_info_flag' = FALSE /\ UNCHANGED tangled) \/ Lose)
    BY <1>4 DEF DdsmFb, TakeReply, Report, ClearFlag
  <2>2. /\ Len(rx') = Len(rx) - 1
        /\ \A i \in 1 .. Len(rx') : i + 1 \in 1 .. Len(rx) /\ i + 1 # 1 /\ rx'[i] = rx[i + 1]
    BY <1>1, <2>1, HeadTailProperties
  <2>3. ~tangled' => ~tangled /\ ~get_info_flag'
    BY <2>1 DEF Lose
  <2> QED
    BY <2>2, <2>3 DEF FormInv
<1>5. CASE SerialCtrl
  <2>1. PICK unread \in Suffixes(rx), c \in {Head(toBoard)} :
          /\ DdsmCtrl(c.id, c.turns, unread) \/ rx' = unread
          /\ tangled' = (tangled \/ (get_info_flag /\ unread # rx))
    BY <1>5, Zenon DEF SerialCtrl
  <2>2. UNCHANGED get_info_flag
    BY <1>5 DEF SerialCtrl
  <2>3. ~tangled' => ~tangled /\ (get_info_flag => unread = rx)
    BY <2>1, Zenon
  <2>4. CASE DdsmCtrl(c.id, c.turns, unread)
    BY <2>2, <2>3, <2>4, FormDriven DEF DdsmCtrl
  <2>5. CASE rx' = unread
    <3>1. PICK k \in 0 .. Len(rx) :
            Len(unread) = Len(rx) - k /\ \A i \in 1 .. Len(unread) : unread[i] = rx[i + k]
      BY <1>1, SuffixFacts
    <3>2. \A i \in 1 .. Len(unread) : i + k \in 1 .. Len(rx)
      BY <1>1, <3>1
    <3> QED
      BY <2>2, <2>3, <2>5, <3>1, <3>2 DEF FormInv
  <2> QED
    BY <2>1, <2>4, <2>5
<1>6. CASE HandleClient
  <2>1. CASE WebWatchdog \/ WebMode \/ WebType
    <3>1. UNCHANGED <<tangled, get_info_flag, rx>>
      BY <2>1 DEF WebWatchdog, WebMode, WebType, infoVars, busVars
    <3> QED
      BY <3>1, FormUntouched
  <2>2. CASE WebDrive
    <3>1. PICK id \in Motors, turns \in BOOLEAN : DdsmCtrl(id, turns, rx)
      BY <2>2 DEF WebDrive
    <3>2. UNCHANGED <<tangled, get_info_flag>>
      BY <2>2 DEF WebDrive, infoVars
    <3> QED
      BY <1>1, <3>1, <3>2, FormDriven DEF DdsmCtrl
  <2>3. CASE WebInfo
    <3>1. PICK id \in Motors : DdsmGetInfo(id)
      BY <2>3 DEF WebInfo
    <3>2. ASSUME ~tangled' PROVE ~tangled /\ get_info_flag' = TRUE /\ rx = <<>>
      BY <3>1, <3>2, Zenon DEF DdsmGetInfo
    <3>3. rx' = Append(rx, Reply("info", id, sent + 1))
      BY <3>1 DEF DdsmGetInfo
    <3>4. ASSUME ~tangled' PROVE Len(rx') = 1 /\ rx' # <<>> /\ rx'[1].what = "info"
      BY <3>2, <3>3, <3>4 DEF Reply
    <3> QED
      BY <3>2, <3>4 DEF FormInv
  <2> QED
    BY <1>6, <2>1, <2>2, <2>3 DEF HandleClient
<1>7. CASE Reboot
  BY <1>7 DEF Reboot, FormInv
<1> QED
  BY <1>2, <1>3, <1>4, <1>5, <1>6, <1>7 DEF Next, Loop

\* An info command that found no reply pending is answered in its own form, and no drive
\* command is answered in it, unless replies were lost.
THEOREM FormsMatch == Spec => FormTrue
<1>1. TypeOK /\ FormInv /\ [Next]_vars =>
        [~booting /\ Len(toHost') = Len(toHost) + 2 /\ ~tangled =>
           get_info_flag = (Head(rx).what = "info")]_vars
  <2> SUFFICES ASSUME TypeOK, FormInv, Next, ~booting, ~tangled, Len(toHost') = Len(toHost) + 2
               PROVE  get_info_flag = (Head(rx).what = "info")
    BY DEF vars, lineVars
  <2>1. toHost \in Seq(Lines) /\ Other \in Lines /\ Beat \in Lines
    BY LineTypes DEF TypeOK
  <2>2. rx # <<>>
    <3>1. ~(\E line \in Lines : toHost' = Append(toHost, line)) /\ toHost' # toHost
      BY <2>1
    <3>2. toHost' # Tail(toHost) \/ toHost = <<>>
      BY <2>1
    <3>3. toHost' # <<>>
      BY <2>1
    <3> QED
      BY <2>1, <3>1, <3>2, <3>3 DEF Next, Loop, Host, HostSend, HostSetMode, HostRead, HostTimesOut,
         HostReopen, Elapse, HeartbeatCtrl, UartHeartbeat, DdsmFb, SerialCtrl, DdsmChangeMode,
         HandleClient, WebWatchdog, WebDrive, WebInfo, DdsmGetInfo, WebMode, WebType, SetDdsmType,
         Reboot, Setup, lineVars
  <2>3. 1 \in 1 .. Len(rx) /\ Head(rx) = rx[1]
    BY <2>2 DEF TypeOK
  <2>4. get_info_flag <=> Head(rx).what = "info"
    BY <2>3 DEF FormInv
  <2>5. get_info_flag \in BOOLEAN
    BY DEF TypeOK
  <2> QED
    BY <2>4, <2>5, Zenon
<1> QED
  BY <1>1, FormInit, FormStep, TypeInit, TypeStep, PTL DEF Spec, FormTrue

-----------------------------------------------------------------------------
(* Which command an echo answers *)

NoDrive == \A i \in 1 .. Len(toBoard) : toBoard[i].do # "drive"
NoEcho == \A i \in 1 .. Len(toHost) : toHost[i].kind # "echo"
OneDrive ==
  \A i, j \in 1 .. Len(toBoard) : toBoard[i].do = "drive" /\ toBoard[j].do = "drive" => i = j
OneEcho ==
  \A i, j \in 1 .. Len(toHost) : toHost[i].kind = "echo" /\ toHost[j].kind = "echo" => i = j

\* With nothing astray, the call under way is the only cause of what is on its way: its
\* command, or else the reply to it, or else the echo of that.  Between calls there is none.
CurrentInv ==
  ~astray =>
    /\ host.id = 0 => NoDrive /\ rx = <<>> /\ NoEcho
    /\ NoDrive \/ (rx = <<>> /\ NoEcho)
    /\ rx = <<>> \/ NoEcho
    /\ Len(rx) <= 1 /\ OneDrive /\ OneEcho
    /\ host.after <= sent
    /\ \A i \in 1 .. Len(rx) : host.after < rx[i].n
    /\ \A i \in 1 .. Len(toHost) : toHost[i].kind = "echo" => host.after < toHost[i].n

LEMMA CurrentInit == Init => CurrentInv
BY DEF Init, CurrentInv, NoCall, NoDrive, NoEcho, OneDrive, OneEcho

LEMMA HostFacts ==
  TypeOK => host.id \in Motors \cup {0} /\ host.after \in Nat
BY NoCallType DEF TypeOK

\* What TypeOK says of the channels and their lengths.
LEMMA ChannelTypes ==
  ASSUME TypeOK
  PROVE  /\ sent \in Nat /\ rx \in Seq(Replies) /\ Len(rx) \in Nat
         /\ toHost \in Seq(Lines) /\ Len(toHost) \in Nat /\ host.after \in Nat
<1>1. sent \in Nat /\ rx \in Seq(Replies) /\ toHost \in Seq(Lines)
  BY DEF TypeOK
<1>2. Len(rx) \in Nat /\ Len(toHost) \in Nat
  BY <1>1, LenProperties
<1> QED
  BY <1>1, <1>2, HostFacts, Zenon

\* Lines leave and no echo comes: those that are left are among those that were there.
LEMMA FewerEchoes ==
  ASSUME TypeOK, TypeOK', NEW l \in 0 .. Len(toHost), LineMoves(l)
  PROVE  /\ NoEcho => NoEcho'
         /\ OneEcho => OneEcho'
         /\ \A i \in 1 .. Len(toHost') : toHost'[i].kind = "echo" =>
              i + l \in 1 .. Len(toHost) /\ toHost'[i] = toHost[i + l]
<1>1. Len(toHost) \in Nat /\ Len(toHost') \in Nat /\ l \in Nat
  BY DEF TypeOK
<1>2. ASSUME NEW i \in 1 .. Len(toHost'), toHost'[i].kind = "echo"
      PROVE  i + l \in 1 .. Len(toHost) /\ toHost'[i] = toHost[i + l]
  <2>1. ~(i \in Len(toHost) - l + 1 .. Len(toHost'))
    BY <1>2 DEF LineMoves
  <2>2. i \in 1 .. Len(toHost) - l
    BY <1>1, <2>1
  <2>3. toHost'[i] = toHost[i + l]
    BY <2>2 DEF LineMoves
  <2> QED
    BY <1>1, <2>2, <2>3
<1>3. NoEcho => NoEcho'
  BY <1>2 DEF NoEcho
<1>4. ASSUME OneEcho PROVE OneEcho'
  <2>1. ASSUME NEW i \in 1 .. Len(toHost'), NEW j \in 1 .. Len(toHost'),
               toHost'[i].kind = "echo", toHost'[j].kind = "echo"
        PROVE  i = j
    <3>1. /\ i + l \in 1 .. Len(toHost) /\ toHost[i + l].kind = "echo"
          /\ j + l \in 1 .. Len(toHost) /\ toHost[j + l].kind = "echo"
      BY <1>2, <2>1
    <3>2. i + l = j + l
      BY <1>4, <3>1 DEF OneEcho
    <3> QED
      BY <1>1, <3>2
  <2> QED
    BY <2>1 DEF OneEcho
<1> QED
  BY <1>2, <1>3, <1>4

\* The board takes the first command.
LEMMA FewerDrives ==
  ASSUME TypeOK, toBoard # <<>>, toBoard' = Tail(toBoard)
  PROVE  /\ NoDrive => NoDrive'
         /\ OneDrive => OneDrive'
         /\ OneDrive /\ Head(toBoard).do = "drive" => NoDrive'
         /\ NoDrive => Head(toBoard).do # "drive"
<1>1. toBoard \in Seq(Commands) /\ Len(toBoard) \in Nat \ {0} /\ 1 \in 1 .. Len(toBoard)
      /\ Head(toBoard) = toBoard[1]
  BY DEF TypeOK
<1>2. \A i \in 1 .. Len(toBoard') :
        i + 1 \in 1 .. Len(toBoard) /\ i + 1 # 1 /\ toBoard'[i] = toBoard[i + 1]
  BY <1>1, HeadTailProperties
<1>3. \A i, j \in 1 .. Len(toBoard') : i + 1 = j + 1 => i = j
  BY <1>1
<1> QED
  BY <1>1, <1>2, <1>3 DEF NoDrive, OneDrive

\* Nothing happens but that the host drops a line, or the board sends one that is no echo.
LEMMA CurrentUntouched ==
  ASSUME TypeOK, TypeOK', CurrentInv, NEW l \in 0 .. Len(toHost), LineMoves(l),
         UNCHANGED <<astray, rx, sent, toBoard>>, host'.id = host.id, host'.after = host.after
  PROVE  CurrentInv'
BY FewerEchoes DEF CurrentInv, NoDrive, OneDrive

LEMMA CurrentHost ==
  ASSUME TypeOK, TypeOK', CurrentInv, Host
  PROVE  CurrentInv'
<1>1. CASE HostSend \/ HostSetMode
  <2>1. /\ host.id = 0 /\ host'.after = sent /\ sent \in Nat
        /\ UNCHANGED <<astray, toHost, rx, sent>>
    <3>1. sent \in Nat /\ NoCall.id = 0
      BY NoCallType DEF TypeOK
    <3>2. host = NoCall /\ UNCHANGED <<astray, toHost, rx, sent>>
      BY <1>1 DEF HostSend, HostSetMode, busVars
    <3>3. host'.after = sent
      <4>1. CASE HostSend
        BY <4>1 DEF HostSend
      <4>2. CASE HostSetMode
        BY <4>2 DEF HostSetMode
      <4> QED
        BY <1>1, <4>1, <4>2
    <3> QED
      BY <3>1, <3>2, <3>3
  <2>2. PICK c \in Commands :
          toBoard' = Append(toBoard, c) /\ (host'.id = 0 => c.do # "drive")
    <3>1. CASE HostSend
      <4>1. PICK id \in Motors, turns \in BOOLEAN :
              /\ toBoard' = Append(toBoard, [do |-> "drive", id |-> id, turns |-> turns])
              /\ host' = [id |-> id, after |-> sent, left |-> MaxReads]
        BY <3>1 DEF HostSend
      <4>2. host'.id # 0
        BY <4>1, BoardAssumption
      <4> QED
        BY <4>1, <4>2 DEF Commands
    <3>2. CASE HostSetMode
      <4>1. PICK id \in Motors :
              toBoard' = Append(toBoard, [do |-> "mode", id |-> id, turns |-> FALSE])
        BY <3>2 DEF HostSetMode
      <4> DEFINE c == [do |-> "mode", id |-> id, turns |-> FALSE]
      <4>2. c \in Commands /\ c.do # "drive"
        BY DEF Commands
      <4> QED
        BY <4>1, <4>2, Zenon
    <3> QED
      BY <1>1, <3>1, <3>2
  <2>3. /\ Len(toBoard) \in Nat /\ Len(toBoard') = Len(toBoard) + 1
        /\ toBoard'[Len(toBoard) + 1] = c
        /\ \A i \in 1 .. Len(toBoard) : toBoard'[i] = toBoard[i]
    BY <2>2 DEF TypeOK
  <2>4. ASSUME ~astray
        PROVE  NoDrive /\ rx = <<>> /\ NoEcho
    BY <2>1, <2>4 DEF CurrentInv
  <2>5. \A i \in 1 .. Len(toBoard') : i \in 1 .. Len(toBoard) \/ i = Len(toBoard) + 1
    BY <2>3
  <2>6. ASSUME ~astray
        PROVE  OneDrive' /\ (host'.id = 0 => NoDrive')
    BY <2>2, <2>3, <2>4, <2>5, <2>6 DEF NoDrive, OneDrive
  <2>7. ASSUME ~astray
        PROVE  NoEcho' /\ OneEcho' /\ rx' = <<>> /\ Len(rx') = 0 /\ host'.after <= sent'
    BY <2>1, <2>4, <2>7 DEF NoEcho, OneEcho
  <2>8. astray' = astray
    BY <2>1
  <2> QED
    BY <2>6, <2>7, <2>8 DEF CurrentInv, NoEcho
<1>2. CASE HostRead
  <2>1. /\ toHost # <<>> /\ toHost' = Tail(toHost)
        /\ UNCHANGED <<toBoard, rx, sent>>
    BY <1>2 DEF HostRead, busVars
  <2>2. 1 \in 0 .. Len(toHost) /\ LineMoves(1)
    BY <2>1, OneLineRead
  <2>3. CASE UNCHANGED hostVars
    BY <2>1, <2>2, <2>3, CurrentUntouched DEF hostVars
  <2>4. CASE ~IsAnswer(Head(toHost)) /\ host' = [host EXCEPT !.left = host.left - 1] /\ UNCHANGED astray
    <3>1. host'.id = host.id /\ host'.after = host.after
      <4>1. host \in [id : Motors \cup {0}, after : Nat, left : 1 .. MaxReads]
        BY <1>2 DEF HostRead, TypeOK
      <4> QED
        BY <2>4, <4>1
    <3> QED
      BY <2>1, <2>2, <2>4, <3>1, CurrentUntouched
  <2>5. CASE host' = NoCall /\ astray' = (astray \/ host.id # 0) /\ ~IsAnswer(Head(toHost))
    <3>1. ASSUME ~astray' PROVE ~astray /\ host.id = 0
      BY <2>5, <3>1
    <3>2. ASSUME ~astray' PROVE NoDrive' /\ rx' = <<>> /\ NoEcho'
      BY <2>1, <2>2, <3>1, <3>2, FewerEchoes DEF CurrentInv, NoDrive
    <3>3. host'.after = 0 /\ sent' \in Nat
      BY <2>5 DEF NoCall, TypeOK
    <3> QED
      BY <3>2, <3>3 DEF CurrentInv, NoDrive, NoEcho, OneDrive, OneEcho
  <2>6. CASE IsAnswer(Head(toHost)) /\ host' = NoCall /\ UNCHANGED astray
    <3>1. 1 \in 1 .. Len(toHost) /\ toHost[1].kind = "echo" /\ Len(toHost) \in Nat
      BY <2>1, <2>6 DEF IsAnswer, TypeOK
    <3>2. \A i \in 1 .. Len(toHost') : i + 1 \in 1 .. Len(toHost) /\ i + 1 # 1 /\ toHost'[i] = toHost[i + 1]
      BY <2>1, <3>1, HeadTailProperties DEF TypeOK
    <3>3. ASSUME ~astray PROVE NoDrive /\ rx = <<>> /\ NoEcho'
      BY <3>1, <3>2, <3>3 DEF CurrentInv, NoEcho, OneEcho
    <3>4. host'.after = 0 /\ sent' \in Nat
      BY <2>6 DEF NoCall, TypeOK
    <3> QED
      BY <2>1, <2>6, <3>3, <3>4 DEF CurrentInv, NoDrive, NoEcho, OneDrive, OneEcho
  <2> QED
    BY <1>2, <2>3, <2>4, <2>5, <2>6 DEF HostRead
<1>3. CASE HostTimesOut
  BY <1>3 DEF HostTimesOut, CurrentInv
<1>4. CASE HostReopen
  <2>1. /\ host.id = 0 /\ toHost' = <<>> /\ toBoard' \in {toBoard, <<>>}
        /\ UNCHANGED <<host, astray, rx, sent>>
    BY <1>4 DEF HostReopen, NoCall, hostVars, busVars
  <2>2. NoEcho' /\ OneEcho'
    BY <2>1 DEF NoEcho, OneEcho
  <2>3. (NoDrive => NoDrive') /\ (OneDrive => OneDrive')
    BY <2>1 DEF NoDrive, OneDrive
  <2> QED
    BY <2>1, <2>2, <2>3 DEF CurrentInv, NoEcho
<1> QED
  BY <1>1, <1>2, <1>3, <1>4 DEF Host

LEMMA CurrentLoop ==
  ASSUME TypeOK, TypeOK', CurrentInv, Loop
  PROVE  CurrentInv'
<1>o. Other \in Lines /\ Other.kind # "echo" /\ Beat \in Lines /\ Beat.kind # "echo"
  BY LineTypes DEF Other, Beat
<1>t. /\ sent \in Nat /\ rx \in Seq(Replies) /\ Len(rx) \in Nat
      /\ toHost \in Seq(Lines) /\ Len(toHost) \in Nat /\ host.after \in Nat
  BY ChannelTypes, Zenon
<1>1. CASE HeartbeatCtrl
  BY <1>1 DEF HeartbeatCtrl, CurrentInv
<1>2. CASE UartHeartbeat
  <2>1. toHost' = Append(toHost, Beat) /\ UNCHANGED <<host, astray, rx, sent, toBoard>>
    BY <1>2 DEF UartHeartbeat, hostVars, busVars
  <2> QED
    BY <1>o, <2>1, OneMoreLine, CurrentUntouched
<1>3. CASE DdsmFb
  <2>1. rx # <<>> /\ rx' = Tail(rx) /\ UNCHANGED <<host, astray, sent, toBoard>>
    BY <1>3 DEF DdsmFb, TakeReply, hostVars
  <2>2. ASSUME ~astray
        PROVE  /\ host.id # 0 /\ NoDrive' /\ OneDrive' /\ NoEcho /\ OneEcho /\ rx' = <<>>
               /\ host.after < Head(rx).n
    <3>1. Len(rx) = 1 /\ NoDrive /\ NoEcho /\ OneEcho /\ OneDrive /\ host.id # 0
      <4>1. Len(rx) <= 1 /\ NoDrive /\ NoEcho /\ OneEcho /\ OneDrive /\ host.id # 0
        BY <2>1, <2>2 DEF CurrentInv
      <4>2. Len(rx) # 0
        BY <1>t, <2>1
      <4>a. Len(rx) <= 1 /\ Len(rx) \in Nat
        BY <1>t, <4>1, Zenon
      <4>b. \A n \in Nat : n <= 1 /\ n # 0 => n = 1
        OBVIOUS
      <4>3. Len(rx) = 1
        BY <4>2, <4>a, <4>b, Zenon
      <4> QED
        BY <4>1, <4>3
    <3>2. Head(rx) = rx[1] /\ rx' = <<>>
      BY <1>t, <2>1, <3>1
    <3> QED
      BY <2>1, <2>2, <3>1, <3>2 DEF CurrentInv, NoDrive, OneDrive
  <2>3. CASE Report
    <3>1. Echo(Head(rx).id, Head(rx).n) \in Lines
      <4>1. Head(rx) \in Replies
        BY <1>t, <2>1
      <4>2. Head(rx).id \in Motors /\ Head(rx).n \in Nat
        BY <4>1 DEF Replies
      <4> QED
        BY <4>2, LineTypes
    <3>2. /\ Len(toHost') = Len(toHost) + 2
          /\ toHost'[Len(toHost) + 1] = Echo(Head(rx).id, Head(rx).n) /\ toHost'[Len(toHost) + 2] = Other
          /\ \A i \in 1 .. Len(toHost) : toHost'[i] = toHost[i]
      BY <1>o, <1>t, <2>3, <3>1 DEF Report
    <3>3. \A i \in 1 .. Len(toHost') :
            i \in 1 .. Len(toHost) \/ i = Len(toHost) + 1 \/ i = Len(toHost) + 2
      BY <1>t, <3>2
    <3>4. ASSUME ~astray, NEW i \in 1 .. Len(toHost'), toHost'[i].kind = "echo"
          PROVE  i = Len(toHost) + 1 /\ toHost'[i].n = Head(rx).n
      <4>1. i \in 1 .. Len(toHost) => toHost'[i].kind # "echo"
        BY <2>2, <3>2, <3>4 DEF NoEcho
      <4>2. toHost'[Len(toHost) + 1].n = Head(rx).n /\ toHost'[Len(toHost) + 2].kind # "echo"
        BY <1>o, <3>2 DEF Echo
      <4> QED
        BY <3>3, <3>4, <4>1, <4>2
    <3>5. ASSUME ~astray PROVE OneEcho'
      BY <3>4, <3>5 DEF OneEcho
    <3>6. ASSUME ~astray PROVE host'.after <= sent' /\ Len(rx') <= 1 /\ host'.id # 0 /\ rx' = <<>>
      BY <2>1, <2>2, <3>6 DEF CurrentInv
    <3>7. astray' = astray /\ host' = host
      BY <2>1
    <3> QED
      BY <2>2, <3>4, <3>5, <3>6, <3>7 DEF CurrentInv
  <2>4. CASE Lose
    <3>1. PICK l \in 0 .. Len(toHost) : LineMoves(l)
      BY <1>o, <2>4, OneMoreLine, UnmovedLine DEF Lose
    <3>2. ASSUME ~astray PROVE NoEcho' /\ OneEcho'
      BY <2>2, <3>1, <3>2, FewerEchoes
    <3>3. ASSUME ~astray PROVE host'.after <= sent' /\ Len(rx') <= 1 /\ host'.id # 0 /\ rx' = <<>>
      BY <2>1, <2>2, <3>3 DEF CurrentInv
    <3>4. astray' = astray
      BY <2>1
    <3> QED
      BY <2>2, <3>2, <3>3, <3>4 DEF CurrentInv, NoEcho
  <2> QED
    BY <1>3, <2>3, <2>4 DEF DdsmFb
<1>4. CASE SerialCtrl
  <2>1. PICK unread \in Suffixes(rx), c \in {Head(toBoard)} :
          \/ c.do = "drive" /\ DdsmCtrl(c.id, c.turns, unread) /\ UNCHANGED toHost
          \/ c.do = "mode" /\ DdsmChangeMode /\ rx' = unread
    BY <1>4, Zenon DEF SerialCtrl
  <2>2. toBoard # <<>> /\ toBoard' = Tail(toBoard) /\ UNCHANGED <<host, astray>>
    BY <1>4 DEF SerialCtrl, hostVars
  <2>u. /\ unread \in Seq(Replies)
        /\ \E k \in 0 .. Len(rx) :
             Len(unread) = Len(rx) - k /\ \A i \in 1 .. Len(unread) : unread[i] = rx[i + k]
    BY <1>t, SuffixFacts
  <2>3. CASE c.do = "drive" /\ DdsmCtrl(c.id, c.turns, unread) /\ UNCHANGED toHost
    <3>1. ASSUME ~astray PROVE NoDrive' /\ OneDrive' /\ rx = <<>> /\ NoEcho' /\ OneEcho' /\ host'.id # 0
      <4>1. ~NoDrive /\ (OneDrive => NoDrive' /\ OneDrive')
        BY <2>2, <2>3, FewerDrives
      <4>2. OneDrive /\ rx = <<>> /\ NoEcho /\ OneEcho /\ host.id # 0
        BY <3>1, <4>1 DEF CurrentInv
      <4> QED
        BY <2>2, <2>3, <4>1, <4>2 DEF NoEcho, OneEcho
    <3>2. ASSUME ~astray PROVE Len(rx') = 1 /\ rx'[1].n = sent + 1
      <4>1. unread = <<>>
        <5>1. rx = <<>> /\ Len(rx) = 0
          BY <3>1, <3>2
        <5>2. Len(unread) = 0
          BY <2>u, <5>1
        <5> QED
          BY <2>u, <5>2
      <4>2. rx' = <<Reply("drive", c.id, sent + 1)>>
        BY <2>3, <4>1 DEF DdsmCtrl
      <4> QED
        BY <4>2 DEF Reply
    <3>3. ASSUME ~astray PROVE sent' = sent + 1 /\ host'.after <= sent' /\ host'.after < sent + 1
      <4>1. host.after <= sent /\ sent' = sent + 1 /\ host' = host
        BY <2>2, <2>3, <3>3 DEF CurrentInv, DdsmCtrl
      <4>2. \A a, b \in Nat : a <= b => a <= b + 1 /\ a < b + 1
        OBVIOUS
      <4>3. host.after <= sent + 1 /\ host.after < sent + 1
        BY <1>t, <4>1, <4>2, Zenon
      <4> QED
        BY <4>1, <4>3, Zenon
    <3>4. ASSUME ~astray, NEW i \in 1 .. Len(rx') PROVE host'.after < rx'[i].n
      <4>a. Len(rx') = 1
        BY <3>2, <3>4, Zenon
      <4>1. i = 1
        BY <4>a
      <4> QED
        BY <3>2, <3>3, <3>4, <4>1, Zenon
    <3>5. astray' = astray
      BY <2>2
    <3>6. ASSUME ~astray PROVE Len(rx') <= 1
      <4>1. Len(rx') = 1
        BY <3>2, <3>6, Zenon
      <4> QED
        BY <4>1
    <3> QED
      BY <3>1, <3>3, <3>4, <3>5, <3>6 DEF CurrentInv, NoEcho
  <2>4. CASE c.do = "mode" /\ DdsmChangeMode /\ rx' = unread
    <3>1. 0 \in 0 .. Len(toHost) /\ LineMoves(0) /\ sent' = sent + 1
      BY <1>o, <2>4, OneMoreLine DEF DdsmChangeMode
    <3>2. (NoDrive => NoDrive') /\ (OneDrive => OneDrive')
      BY <2>2, FewerDrives
    <3>3. /\ NoEcho => NoEcho'
          /\ OneEcho => OneEcho'
          /\ \A i \in 1 .. Len(toHost') : toHost'[i].kind = "echo" =>
               i + 0 \in 1 .. Len(toHost) /\ toHost'[i] = toHost[i + 0]
      BY <3>1, FewerEchoes
    <3>4. PICK k \in 0 .. Len(rx) :
            Len(unread) = Len(rx) - k /\ \A i \in 1 .. Len(unread) : unread[i] = rx[i + k]
      BY <2>u
    <3>5. /\ Len(rx') <= Len(rx) /\ (rx = <<>> => rx' = <<>>)
          /\ \A i \in 1 .. Len(rx') : i + k \in 1 .. Len(rx) /\ rx'[i] = rx[i + k]
      BY <1>t, <2>u, <2>4, <3>4
    <3>6. ASSUME ~astray PROVE host'.after <= sent' /\ Len(rx') <= 1
      <4>1. host.after <= sent /\ host' = host /\ Len(rx) <= 1 /\ Len(rx') \in Nat
        BY <2>2, <3>6 DEF CurrentInv, TypeOK
      <4>2. Len(rx') <= Len(rx)
        BY <3>5
      <4> QED
        BY <1>t, <3>1, <4>1, <4>2
    <3>7. ASSUME ~astray, NEW i \in 1 .. Len(rx') PROVE host'.after < rx'[i].n
      BY <2>2, <3>5, <3>7 DEF CurrentInv
    <3>8. ASSUME ~astray, NEW i \in 1 .. Len(toHost'), toHost'[i].kind = "echo"
          PROVE  host'.after < toHost'[i].n
      BY <2>2, <3>3, <3>8 DEF CurrentInv
    <3>9. ASSUME ~astray
          PROVE  /\ host'.id = 0 => NoDrive' /\ rx' = <<>> /\ NoEcho'
                 /\ NoDrive' \/ (rx' = <<>> /\ NoEcho')
                 /\ rx' = <<>> \/ NoEcho'
                 /\ OneDrive' /\ OneEcho'
      BY <2>2, <3>2, <3>3, <3>5, <3>9 DEF CurrentInv
    <3>10. astray' = astray
      BY <2>2
    <3> QED
      BY <3>6, <3>7, <3>8, <3>9, <3>10 DEF CurrentInv
  <2> QED
    BY <2>1, <2>3, <2>4
<1>5. CASE HandleClient
  <2>1. CASE WebWatchdog
    <3>1. UNCHANGED <<host, astray, toHost, rx, sent, toBoard>>
      BY <1>5, <2>1 DEF HandleClient, WebWatchdog, busVars
    <3> QED
      BY <3>1, UnmovedLine, CurrentUntouched
  <2>2. CASE astray' = TRUE
    BY <2>2 DEF CurrentInv
  <2> QED
    BY <1>5, <2>1, <2>2 DEF HandleClient, WebDrive, WebInfo, WebMode, WebType
<1> QED
  BY <1>1, <1>2, <1>3, <1>4, <1>5 DEF Loop

LEMMA CurrentStep == TypeOK /\ CurrentInv /\ [Next]_vars => CurrentInv'
<1> SUFFICES ASSUME TypeOK, CurrentInv, [Next]_vars PROVE CurrentInv'
  OBVIOUS
<1>1. TypeOK'
  BY TypeStep
<1>2. CASE Elapse \/ UNCHANGED vars
  <2>1. UNCHANGED <<host, astray, toHost, rx, sent, toBoard>>
    BY <1>2 DEF Elapse, vars, hostVars, lineVars, busVars
  <2> QED
    BY <1>1, <2>1, UnmovedLine, CurrentUntouched
<1>3. CASE Reboot
  <2>1. rx' = <<>> /\ toBoard' = <<>> /\ UNCHANGED <<host, astray, toHost, sent>>
    BY <1>3 DEF Reboot, hostVars
  <2>2. NoDrive' /\ OneDrive' /\ Len(rx') = 0 /\ NoEcho' = NoEcho /\ OneEcho' = OneEcho
    BY <2>1 DEF NoDrive, OneDrive, NoEcho, OneEcho
  <2> QED
    BY <2>1, <2>2 DEF CurrentInv
<1>4. CASE Setup
  <2>1. UNCHANGED <<host, astray, rx, sent, toBoard>>
    BY <1>4 DEF Setup, hostVars, busVars
  <2> QED
    BY <1>1, <1>4, <2>1, MoreLines, CurrentUntouched
<1> QED
  BY <1>1, <1>2, <1>3, <1>4, CurrentHost, CurrentLoop DEF Next

\* As long as no line went astray, an echo that set_speed accepts is of the frame it has
\* just sent: the feedback that is published is never that of an earlier command.
THEOREM EchoesAreCurrent == Spec => AnswersCurrent
<1>1. TypeOK /\ CurrentInv /\ [Next]_vars => [Accepts /\ ~astray => Head(toHost).n > host.after]_vars
  <2> SUFFICES ASSUME TypeOK, CurrentInv, Accepts, ~astray
               PROVE  Head(toHost).n > host.after
    OBVIOUS
  <2>1. toHost \in Seq(Lines) /\ toHost # <<>> /\ Head(toHost).kind = "echo"
    BY DEF TypeOK, Accepts, IsAnswer
  <2>2. 1 \in 1 .. Len(toHost) /\ Head(toHost) = toHost[1] /\ toHost[1] \in Lines
    BY <2>1
  <2>3. host.after \in Nat /\ toHost[1].n \in Nat /\ host.after < toHost[1].n
    BY <2>1, <2>2, LineFacts, HostFacts DEF CurrentInv
  <2> QED
    BY <2>2, <2>3
<1> QED
  BY <1>1, EchoesInOrder, CurrentInit, CurrentStep, TypeInit, TypeStep, PTL DEF Spec, AnswersCurrent
-----------------------------------------------------------------------------
(* Whether five reads are enough *)

\* The lines that use up a read without being an answer.
Others(lines) == {i \in 1 .. Len(lines) : lines[i].kind = "other"}

LEMMA OthersCounted ==
  ASSUME NEW s \in Seq(Lines)
  PROVE  IsFiniteSet(Others(s)) /\ Cardinality(Others(s)) \in Nat
<1>1. IsFiniteSet(1 .. Len(s))
  BY FS_Interval
<1>2. IsFiniteSet(Others(s))
  BY <1>1, FS_Subset DEF Others
<1> QED
  BY <1>2, FS_CardinalityType

LEMMA OthersAppended ==
  ASSUME NEW s \in Seq(Lines), NEW x \in Lines
  PROVE  /\ x.kind = "other" => Cardinality(Others(Append(s, x))) = Cardinality(Others(s)) + 1
         /\ x.kind # "other" => Cardinality(Others(Append(s, x))) = Cardinality(Others(s))
<1> DEFINE t == Append(s, x)
<1>1. /\ Len(s) \in Nat /\ Len(t) = Len(s) + 1 /\ t[Len(s) + 1] = x
      /\ \A i \in 1 .. Len(s) : t[i] = s[i]
  BY AppendProperties
<1>2. \A i \in 1 .. Len(t) : i \in 1 .. Len(s) \/ i = Len(s) + 1
  BY <1>1
<1>3. 1 .. Len(s) \subseteq 1 .. Len(t) /\ Len(s) + 1 \in 1 .. Len(t) /\ ~(Len(s) + 1 \in 1 .. Len(s))
  BY <1>1
<1> HIDE DEF t
<1>4. x.kind = "other" => Others(t) = Others(s) \cup {Len(s) + 1}
  BY <1>1, <1>2, <1>3 DEF Others
<1>5. x.kind # "other" => Others(t) = Others(s)
  BY <1>1, <1>2, <1>3 DEF Others
<1>6. ~(Len(s) + 1 \in Others(s))
  BY <1>3 DEF Others
<1>7. Cardinality(Others(s) \cup {Len(s) + 1}) = Cardinality(Others(s)) + 1
  BY <1>6, OthersCounted, FS_AddElement
<1> QED
  BY <1>4, <1>5, <1>7 DEF t

LEMMA OthersRead ==
  ASSUME NEW s \in Seq(Lines), s # <<>>
  PROVE  /\ Cardinality(Others(Tail(s))) <= Cardinality(Others(s))
         /\ Head(s).kind = "other" => Cardinality(Others(Tail(s))) <= Cardinality(Others(s)) - 1
<1> DEFINE t == Tail(s)
           Later == Others(s) \ {1}
           f == [i \in Others(t) |-> i + 1]
<1>1. /\ Len(s) \in Nat \ {0} /\ t \in Seq(Lines) /\ Len(t) = Len(s) - 1
      /\ \A i \in 1 .. Len(t) : t[i] = s[i + 1]
  BY HeadTailProperties
<1>2. IsFiniteSet(Others(s)) /\ Cardinality(Others(s)) \in Nat /\ Cardinality(Others(t)) \in Nat
  BY <1>1, OthersCounted
<1>b. /\ IsFiniteSet(Later)
      /\ Cardinality(Later) =
           IF 1 \in Others(s) THEN Cardinality(Others(s)) - 1 ELSE Cardinality(Others(s))
  BY <1>2, FS_RemoveElement
<1>3. /\ IsFiniteSet(Later) /\ Cardinality(Later) <= Cardinality(Others(s))
      /\ 1 \in Others(s) => Cardinality(Later) = Cardinality(Others(s)) - 1
  BY <1>2, <1>b
<1>a. Cardinality(Later) \in Nat
  BY <1>3, FS_CardinalityType
<1>4. \A i \in 1 .. Len(t) : i \in Nat /\ i + 1 \in 1 .. Len(s) /\ i + 1 # 1
  BY <1>1
<1>5. f \in Injection(Others(t), Later)
  <2>1. f \in [Others(t) -> Later]
    BY <1>1, <1>4 DEF Others
  <2>2. \A i, j \in Others(t) : f[i] = f[j] => i = j
    BY <1>4 DEF Others
  <2> QED
    BY <2>1, <2>2 DEF Injection, IsInjective
<1>6. Cardinality(Others(t)) <= Cardinality(Later)
  BY <1>3, <1>5, FS_Injection, Zenon
<1>7. Head(s).kind = "other" => 1 \in Others(s)
  BY <1>1 DEF Others
<1> HIDE DEF t, Later
<1> QED
  BY <1>2, <1>3, <1>a, <1>6, <1>7 DEF t

LEMMA FewOthers ==
  ASSUME NEW s \in Seq(Lines), \A i, j \in Others(s) : i = j
  PROVE  Cardinality(Others(s)) <= 1
<1>1. CASE Others(s) = {}
  BY <1>1, FS_EmptySet
<1>2. ASSUME NEW x \in Others(s) PROVE Cardinality(Others(s)) <= 1
  <2>1. Others(s) = {x}
    BY <1>2
  <2>2. Cardinality({x}) = 1
    BY FS_Singleton
  <2> QED
    BY <2>1, <2>2
<1> QED
  BY <1>1, <1>2

\* What can still become such a line: one for each command, one for each reply.
Pending == Cardinality(Others(toHost)) + Len(toBoard) + Len(rx)

EchoEnds ==
  \A i \in 1 .. Len(toHost) : toHost[i].kind = "echo" =>
    /\ toHost[i].id = host.id /\ toBoard = <<>>
    /\ \A j, k \in 1 .. Len(toHost) :
         i < j /\ i < k /\ toHost[j].kind = "other" /\ toHost[k].kind = "other" => j = k

ReplyEnds == \A i \in 1 .. Len(rx) : rx[i].id = host.id /\ toBoard = <<>>

DriveEnds ==
  \A i \in 1 .. Len(toBoard) : toBoard[i].do = "drive" =>
    toBoard[i].id = host.id /\ i = Len(toBoard)

\* With nothing astray, at most one line of an earlier call is left when a call begins; its
\* own command is the last on the way to the board, and its echo has one line behind it.
QuietInv ==
  ~astray =>
    /\ Pending <= 2 /\ (host = NoCall => Pending <= 1)
    /\ host.id # 0 => Pending + MaxReads - host.left <= 2
    /\ EchoEnds /\ ReplyEnds /\ DriveEnds

LEMMA QuietTypes ==
  ASSUME TypeOK
  PROVE  /\ Cardinality(Others(toHost)) \in Nat /\ Len(toBoard) \in Nat /\ Len(rx) \in Nat
         /\ toHost \in Seq(Lines) /\ toBoard \in Seq(Commands) /\ rx \in Seq(Replies)
         /\ host # NoCall => host.left \in 1 .. 5
         /\ host.id # 0 => host.left \in 1 .. 5
BY OthersCounted, NoCallType DEF TypeOK, MaxReads

LEMMA QuietInit == Init => QuietInv
<1> SUFFICES ASSUME Init PROVE QuietInv
  OBVIOUS
<1>1. toHost = <<>> /\ toBoard = <<>> /\ rx = <<>> /\ host.id = 0
  BY DEF Init, NoCall
<1>2. Others(toHost) = {} /\ Len(toBoard) = 0 /\ Len(rx) = 0 /\ Len(toHost) = 0
  BY <1>1 DEF Others
<1>3. Pending = 0
  BY <1>2, FS_EmptySet DEF Pending
<1> QED
  BY <1>1, <1>2, <1>3 DEF QuietInv, EchoEnds, ReplyEnds, DriveEnds

\* Between calls nothing but the three sums matters.
LEMMA QuietBetween ==
  ASSUME CurrentInv', ~astray', host'.id = 0, Pending' <= 2, host' = NoCall => Pending' <= 1
  PROVE  QuietInv'
BY DEF CurrentInv, QuietInv, NoDrive, NoEcho, EchoEnds, ReplyEnds, DriveEnds

\* A call begins: its command is the last on its way.
LEMMA QuietCalls ==
  ASSUME TypeOK, TypeOK', CurrentInv, QuietInv, HostSend \/ HostSetMode, ~astray'
  PROVE  QuietInv'
<1>1. host = NoCall /\ host.id = 0 /\ UNCHANGED <<astray, toHost, rx>>
  BY NoCallType DEF HostSend, HostSetMode, busVars
<1>2. NoDrive /\ rx = <<>> /\ NoEcho /\ Pending <= 1
  BY <1>1 DEF CurrentInv, QuietInv
<1>3. PICK c \in Commands :
        /\ toBoard' = Append(toBoard, c)
        /\ c.do = "drive" => c.id = host'.id
        /\ host' # NoCall /\ (host'.id # 0 => host'.left = 5)
  <2>1. CASE HostSend
    <3>1. PICK id \in Motors, turns \in BOOLEAN :
            /\ toBoard' = Append(toBoard, [do |-> "drive", id |-> id, turns |-> turns])
            /\ host' = [id |-> id, after |-> sent, left |-> MaxReads]
      BY <2>1 DEF HostSend
    <3>2. id # 0 /\ host'.id = id /\ host'.left = 5 /\ host' # NoCall
      BY <3>1, BoardAssumption, NoCallType DEF MaxReads
    <3> QED
      BY <3>1, <3>2 DEF Commands
  <2>2. CASE HostSetMode
    <3>1. PICK id \in Motors :
            toBoard' = Append(toBoard, [do |-> "mode", id |-> id, turns |-> FALSE])
      BY <2>2 DEF HostSetMode
    <3>2. host' = [id |-> 0, after |-> sent, left |-> 1]
      BY <2>2 DEF HostSetMode
    <3>3. host'.id = 0 /\ host'.left = 1 /\ NoCall.left = 0
      BY <3>2 DEF NoCall
    <3> DEFINE c == [do |-> "mode", id |-> id, turns |-> FALSE]
    <3>4. c \in Commands /\ c.do # "drive"
      BY DEF Commands
    <3>5. host' # NoCall
      BY <3>3
    <3> QED
      BY <3>1, <3>3, <3>4, <3>5, Zenon
  <2> QED
    BY <2>1, <2>2
<1>4. /\ Len(toBoard) \in Nat /\ Len(toBoard') = Len(toBoard) + 1
      /\ toBoard'[Len(toBoard) + 1] = c
      /\ \A i \in 1 .. Len(toBoard) : toBoard'[i] = toBoard[i]
  BY <1>3, AppendProperties DEF TypeOK
<1>5. \A i \in 1 .. Len(toBoard') : i \in 1 .. Len(toBoard) \/ i = Len(toBoard')
  BY <1>4
<1>6. DriveEnds'
  <2>1. \A i \in 1 .. Len(toBoard) : toBoard'[i].do # "drive"
    BY <1>2, <1>4 DEF NoDrive
  <2>2. toBoard'[Len(toBoard')] = c
    BY <1>4
  <2> QED
    BY <1>3, <1>5, <2>1, <2>2 DEF DriveEnds
<1>7. EchoEnds' /\ ReplyEnds'
  BY <1>1, <1>2 DEF NoEcho, EchoEnds, ReplyEnds
<1>8. Pending' = Pending + 1 /\ Pending' <= 2
  <2>1. Cardinality(Others(toHost)) \in Nat /\ Len(rx) \in Nat
    BY QuietTypes
  <2>2. Cardinality(Others(toHost))' = Cardinality(Others(toHost)) /\ Len(rx)' = Len(rx)
    BY <1>1 DEF Others
  <2> QED
    BY <1>2, <1>4, <2>1, <2>2 DEF Pending
<1>9. Pending' \in Int
  BY QuietTypes, <1>8, <1>4 DEF Pending
<1>10. host'.id # 0 => Pending' + MaxReads - host'.left <= 2
  BY <1>3, <1>8, <1>9 DEF MaxReads
<1> QED
  BY <1>3, <1>6, <1>7, <1>8, <1>10 DEF QuietInv

\* The sum once a line has been read.
LEMMA PendingRead ==
  ASSUME TypeOK, toHost # <<>>, toHost' = Tail(toHost), UNCHANGED <<toBoard, rx>>
  PROVE  /\ Pending \in Nat /\ Pending' \in Nat /\ Pending' <= Pending
         /\ Head(toHost).kind = "other" => Pending' <= Pending - 1
<1>1. /\ Cardinality(Others(toHost)) \in Nat /\ Len(toBoard) \in Nat /\ Len(rx) \in Nat
      /\ toHost \in Seq(Lines)
  BY QuietTypes
<1>2. /\ Cardinality(Others(Tail(toHost))) <= Cardinality(Others(toHost))
      /\ Head(toHost).kind = "other" =>
           Cardinality(Others(Tail(toHost))) <= Cardinality(Others(toHost)) - 1
  BY <1>1, OthersRead
<1>3. Tail(toHost) \in Seq(Lines)
  BY <1>1
<1>4. Cardinality(Others(Tail(toHost))) \in Nat
  BY <1>3, OthersCounted
<1>5. Pending' = Cardinality(Others(Tail(toHost))) + Len(toBoard) + Len(rx)
  BY DEF Pending, Others
<1> QED
  BY <1>1, <1>2, <1>4, <1>5 DEF Pending

\* What is left in order once a line has been read that was no answer.
LEMMA QuietRest ==
  ASSUME TypeOK, toHost # <<>>, toHost' = Tail(toHost), UNCHANGED <<toBoard, rx>>,
         host'.id = host.id, EchoEnds, ReplyEnds, DriveEnds
  PROVE  EchoEnds' /\ ReplyEnds' /\ DriveEnds'
<1>1. /\ Len(toHost) \in Nat \ {0} /\ Len(toHost') = Len(toHost) - 1
      /\ \A i \in 1 .. Len(toHost') : toHost'[i] = toHost[i + 1]
  BY HeadTailProperties DEF TypeOK
<1>2. \A i \in 1 .. Len(toHost') : i + 1 \in 1 .. Len(toHost)
  BY <1>1
<1>3. \A i, j \in 1 .. Len(toHost') : (i < j => i + 1 < j + 1) /\ (i + 1 = j + 1 => i = j)
  BY <1>1
<1>4. EchoEnds'
  <2> SUFFICES ASSUME NEW i \in 1 .. Len(toHost'), toHost'[i].kind = "echo"
               PROVE  /\ toHost'[i].id = host'.id /\ toBoard' = <<>>
                      /\ \A j, k \in 1 .. Len(toHost') :
                           i < j /\ i < k /\ toHost'[j].kind = "other" /\ toHost'[k].kind = "other"
                             => j = k
    BY DEF EchoEnds
  <2>1. i + 1 \in 1 .. Len(toHost) /\ toHost[i + 1].kind = "echo" /\ toHost'[i] = toHost[i + 1]
    BY <1>1, <1>2
  <2>2. toHost'[i].id = host'.id /\ toBoard' = <<>>
    BY <2>1 DEF EchoEnds
  <2>3. ASSUME NEW j \in 1 .. Len(toHost'), NEW k \in 1 .. Len(toHost'), i < j, i < k,
               toHost'[j].kind = "other", toHost'[k].kind = "other"
        PROVE  j = k
    <3>1. /\ j + 1 \in 1 .. Len(toHost) /\ toHost[j + 1].kind = "other" /\ i + 1 < j + 1
          /\ k + 1 \in 1 .. Len(toHost) /\ toHost[k + 1].kind = "other" /\ i + 1 < k + 1
      BY <1>1, <1>2, <1>3, <2>3
    <3>2. j + 1 = k + 1
      BY <2>1, <3>1 DEF EchoEnds
    <3> QED
      BY <1>3, <3>2
  <2> QED
    BY <2>2, <2>3
<1> QED
  BY <1>4 DEF ReplyEnds, DriveEnds

LEMMA QuietReads ==
  ASSUME TypeOK, TypeOK', CurrentInv, CurrentInv', QuietInv, HostRead, ~astray'
  PROVE  QuietInv'
<1>1. /\ host # NoCall /\ toHost # <<>> /\ toHost' = Tail(toHost)
      /\ UNCHANGED <<toBoard, rx>>
  BY DEF HostRead, busVars
<1>2. /\ Pending \in Nat /\ Pending' \in Nat /\ Pending' <= Pending
      /\ Head(toHost).kind = "other" => Pending' <= Pending - 1
  BY <1>1, PendingRead
<1>3. ~astray
  <2>1. astray \in BOOLEAN
    BY DEF TypeOK
  <2> QED
    BY <2>1, Zenon DEF HostRead, hostVars
<1>4. /\ Pending <= 2 /\ (host.id # 0 => Pending + 5 - host.left <= 2)
      /\ EchoEnds /\ ReplyEnds /\ DriveEnds
  BY <1>3 DEF QuietInv, MaxReads
<1>5. /\ toHost \in Seq(Lines) /\ Head(toHost) = toHost[1] /\ toHost[1] \in Lines
      /\ 1 \in 1 .. Len(toHost) /\ Len(toHost) \in Nat
  BY <1>1 DEF TypeOK
<1>6. Head(toHost).kind \in {"echo", "other", "beat"}
  BY <1>5 DEF Lines, Other, Beat
<1>7. ASSUME Head(toHost).kind # "beat", ~IsAnswer(Head(toHost))
      PROVE  Pending' <= Pending - 1
  <2>1. Head(toHost).kind # "echo"
    BY <1>4, <1>5, <1>7 DEF EchoEnds, IsAnswer
  <2> QED
    BY <1>2, <1>6, <1>7, <2>1
<1>8. CASE UNCHANGED hostVars
  <2>1. host' = host
    BY <1>8 DEF hostVars
  <2>2. EchoEnds' /\ ReplyEnds' /\ DriveEnds'
    BY <1>1, <1>4, <2>1, QuietRest
  <2>3. Pending' <= 2 /\ (host'.id # 0 => Pending' + MaxReads - host'.left <= 2)
    BY <1>2, <1>4, <2>1, QuietTypes DEF MaxReads
  <2> QED
    BY <1>1, <2>1, <2>2, <2>3 DEF QuietInv
<1>9. CASE IsAnswer(Head(toHost)) /\ host' = NoCall
  <2>1. toHost[1].kind = "echo"
    BY <1>5, <1>9 DEF IsAnswer
  <2>2. rx = <<>> /\ toBoard = <<>>
    BY <1>3, <1>4, <1>5, <2>1 DEF CurrentInv, NoEcho, EchoEnds
  <2>3. /\ Len(toHost') = Len(toHost) - 1 /\ toHost' \in Seq(Lines)
        /\ \A i \in 1 .. Len(toHost') : toHost'[i] = toHost[i + 1]
    BY <1>1, <1>5, HeadTailProperties
  <2>4. \A i \in 1 .. Len(toHost') : i + 1 \in 1 .. Len(toHost) /\ 1 < i + 1
    BY <1>5, <2>3
  <2>5. \A i, j \in Others(toHost') : i + 1 = j + 1
    BY <1>4, <1>5, <2>1, <2>3, <2>4 DEF Others, EchoEnds
  <2>6. \A i, j \in Others(toHost') : i = j
    BY <2>5 DEF Others
  <2>7. Cardinality(Others(toHost')) <= 1 /\ Cardinality(Others(toHost')) \in Nat
    BY <2>3, <2>6, FewOthers, OthersCounted
  <2>8. Len(toBoard') = 0 /\ Len(rx') = 0
    BY <1>1, <2>2
  <2>9. Pending' <= 1
    BY <2>7, <2>8 DEF Pending
  <2> QED
    BY <1>2, <1>9, <2>9, NoCallType, QuietBetween
<1>10. CASE ~IsAnswer(Head(toHost)) /\ Head(toHost).kind # "beat" /\ ReadsRemain
              /\ host' = [host EXCEPT !.left = host.left - 1]
  <2>1. host \in [id : Motors \cup {0}, after : Nat, left : 1 .. 5]
    BY <1>1 DEF TypeOK, MaxReads
  <2>2. host'.id = host.id /\ host'.left = host.left - 1 /\ host.left \in 1 .. 5
    BY <1>10, <2>1
  <2>3. Pending' <= Pending - 1
    BY <1>7, <1>10
  <2>4. EchoEnds' /\ ReplyEnds' /\ DriveEnds'
    BY <1>1, <1>4, <2>2, QuietRest
  <2>5. Pending' <= 1
    BY <1>2, <1>4, <2>3
  <2>6. host'.id # 0 => Pending' + MaxReads - host'.left <= 2
    BY <1>2, <1>4, <2>2, <2>3 DEF MaxReads
  <2> QED
    BY <1>2, <2>4, <2>5, <2>6 DEF QuietInv
<1>11. CASE ~IsAnswer(Head(toHost)) /\ Head(toHost).kind # "beat" /\ host' = NoCall
  <2>1. Pending' <= 1
    BY <1>2, <1>4, <1>7, <1>11
  <2> QED
    BY <1>2, <1>11, <2>1, NoCallType, QuietBetween
<1> QED
  BY <1>8, <1>9, <1>10, <1>11 DEF HostRead

LEMMA QuietHost ==
  ASSUME TypeOK, TypeOK', CurrentInv, CurrentInv', QuietInv, Host
  PROVE  QuietInv'
<1>1. CASE astray'
  BY <1>1 DEF QuietInv
<1> SUFFICES ASSUME ~astray'
             PROVE  QuietInv'
  BY <1>1
<1>2. CASE HostReopen
  <2>1. /\ host = NoCall /\ host.id = 0 /\ UNCHANGED <<host, astray, rx>>
        /\ toHost' = <<>> /\ toBoard' \in {toBoard, <<>>}
    BY <1>2, NoCallType DEF HostReopen, hostVars, busVars
  <2>2. Cardinality(Others(toHost')) = 0
    <3>1. Others(toHost') = {}
      BY <2>1 DEF Others
    <3> QED
      BY <3>1, FS_EmptySet
  <2>3. /\ Cardinality(Others(toHost)) \in Nat /\ Len(toBoard) \in Nat /\ Len(rx) \in Nat
        /\ Len(toBoard') \in Nat /\ Len(toBoard') <= Len(toBoard) /\ Len(rx') = Len(rx)
    BY <2>1, QuietTypes
  <2>4. Pending <= 1
    BY <2>1 DEF QuietInv
  <2>5. Pending' <= 1 /\ Pending' <= 2
    BY <2>2, <2>3, <2>4 DEF Pending
  <2> QED
    BY <2>1, <2>5, QuietBetween
<1> QED
  BY <1>2, QuietCalls, QuietReads DEF Host, HostTimesOut

\* One more line for one command or reply fewer is no more under way than before.
LEMMA Exchanged ==
  ASSUME Cardinality(Others(toHost)) \in Nat, Len(toBoard) \in Nat, Len(rx) \in Nat,
         Len(toBoard') \in Nat, Len(rx') \in Nat,
         Len(toBoard') + Len(rx') <= Len(toBoard) + Len(rx) - 1,
         Cardinality(Others(toHost')) = Cardinality(Others(toHost)) + 1
  PROVE  Pending \in Nat /\ Pending' \in Nat /\ Pending' <= Pending
BY DEF Pending

\* A line is added that is no echo, and no command comes; a reply or a command may have gone
\* for it.
LEMMA QuietSends ==
  ASSUME TypeOK, QuietInv, ~astray, NEW line \in Lines, line.kind # "echo",
         toHost' = Append(toHost, line), host' = host, astray' = astray,
         line.kind = "other" => NoEcho,
         Len(toBoard') \in Nat, Len(rx') \in Nat,
         Len(toBoard') + Len(rx') <= Len(toBoard) + Len(rx),
         line.kind = "other" => Len(toBoard') + Len(rx') <= Len(toBoard) + Len(rx) - 1,
         toBoard = <<>> => toBoard' = <<>>, ReplyEnds', DriveEnds'
  PROVE  QuietInv'
<1>1. /\ Pending <= 2 /\ (host = NoCall => Pending <= 1)
      /\ (host.id # 0 => Pending + 5 - host.left <= 2)
      /\ EchoEnds /\ ReplyEnds /\ DriveEnds
  BY DEF QuietInv, MaxReads
<1>2. /\ Cardinality(Others(toHost)) \in Nat /\ Len(toBoard) \in Nat /\ Len(rx) \in Nat
      /\ toHost \in Seq(Lines) /\ Len(toHost) \in Nat
  BY QuietTypes
<1>3. /\ line.kind = "other" => Cardinality(Others(toHost')) = Cardinality(Others(toHost)) + 1
      /\ line.kind # "other" => Cardinality(Others(toHost')) = Cardinality(Others(toHost))
  BY <1>2, OthersAppended
<1>4. Cardinality(Others(toHost')) \in Nat
  BY <1>2, <1>3
<1>a. /\ Pending = Cardinality(Others(toHost)) + Len(toBoard) + Len(rx)
      /\ Pending' = Cardinality(Others(toHost')) + Len(toBoard') + Len(rx')
  BY DEF Pending
<1>5. Pending \in Nat /\ Pending' \in Nat /\ Pending' <= Pending
  <2>1. CASE line.kind = "other"
    <3>1. Len(toBoard') + Len(rx') <= Len(toBoard) + Len(rx) - 1
      BY <2>1
    <3>2. Cardinality(Others(toHost')) = Cardinality(Others(toHost)) + 1
      BY <1>3, <2>1
    <3> QED
      BY <1>2, <3>1, <3>2, Exchanged, Zenon
  <2>2. CASE line.kind # "other"
    <3>1. Cardinality(Others(toHost')) = Cardinality(Others(toHost))
      BY <1>3, <2>2
    <3> QED
      BY <1>2, <1>4, <1>a, <3>1
  <2> QED
    BY <2>1, <2>2
<1>6. /\ Len(toHost') = Len(toHost) + 1 /\ toHost'[Len(toHost) + 1] = line
      /\ \A n \in 1 .. Len(toHost) : toHost'[n] = toHost[n]
  BY <1>2, AppendProperties
<1>7. \A n \in 1 .. Len(toHost') : n \in 1 .. Len(toHost) \/ n = Len(toHost) + 1
  BY <1>2, <1>6
<1>8. EchoEnds'
  <2>1. CASE line.kind = "other"
    <3>1. NoEcho'
      BY <1>6, <1>7, <2>1 DEF NoEcho
    <3> QED
      BY <3>1 DEF NoEcho, EchoEnds
  <2>2. CASE line.kind # "other"
    <3>1. \A n \in 1 .. Len(toHost') :
            toHost'[n].kind \in {"echo", "other"} => n \in 1 .. Len(toHost)
      BY <1>6, <1>7, <2>2
    <3> SUFFICES ASSUME NEW i \in 1 .. Len(toHost'), toHost'[i].kind = "echo"
                 PROVE  /\ toHost'[i].id = host'.id /\ toBoard' = <<>>
                        /\ \A j, k \in 1 .. Len(toHost') :
                             i < j /\ i < k /\ toHost'[j].kind = "other"
                               /\ toHost'[k].kind = "other" => j = k
      BY DEF EchoEnds
    <3>2. i \in 1 .. Len(toHost) /\ toHost[i].kind = "echo" /\ toHost'[i] = toHost[i]
      BY <1>6, <3>1
    <3>3. toHost'[i].id = host'.id /\ toBoard' = <<>>
      BY <1>1, <3>2 DEF EchoEnds
    <3>4. ASSUME NEW j \in 1 .. Len(toHost'), NEW k \in 1 .. Len(toHost'), i < j, i < k,
                 toHost'[j].kind = "other", toHost'[k].kind = "other"
          PROVE  j = k
      <4>1. /\ j \in 1 .. Len(toHost) /\ toHost[j].kind = "other"
            /\ k \in 1 .. Len(toHost) /\ toHost[k].kind = "other"
        BY <1>6, <3>1, <3>4
      <4> QED
        BY <1>1, <3>2, <3>4, <4>1 DEF EchoEnds
    <3> QED
      BY <3>3, <3>4
  <2> QED
    BY <2>1, <2>2
<1>9. Pending' <= 2 /\ (host' = NoCall => Pending' <= 1)
  BY <1>1, <1>5
<1>10. host'.id # 0 => Pending' + MaxReads - host'.left <= 2
  <2>1. host.id # 0 => host.left \in 1 .. 5
    BY QuietTypes
  <2> QED
    BY <1>1, <1>5, <2>1 DEF MaxReads
<1> QED
  BY <1>8, <1>9, <1>10 DEF QuietInv

\* No line comes, and commands and replies do not become more.
LEMMA QuietSilent ==
  ASSUME TypeOK, QuietInv, UNCHANGED <<host, astray, toHost>>,
         Len(toBoard') \in Nat, Len(rx') \in Nat,
         Len(toBoard') + Len(rx') <= Len(toBoard) + Len(rx),
         toBoard = <<>> => toBoard' = <<>>, ReplyEnds', DriveEnds'
  PROVE  QuietInv'
<1> SUFFICES ASSUME ~astray
             PROVE  QuietInv'
  BY DEF QuietInv
<1>1. /\ Pending <= 2 /\ (host = NoCall => Pending <= 1)
      /\ (host.id # 0 => Pending + 5 - host.left <= 2) /\ EchoEnds
  BY DEF QuietInv, MaxReads
<1>2. /\ Cardinality(Others(toHost)) \in Nat /\ Len(toBoard) \in Nat /\ Len(rx) \in Nat
      /\ (host.id # 0 => host.left \in 1 .. 5)
  BY QuietTypes
<1>3. Pending' = Cardinality(Others(toHost)) + Len(toBoard') + Len(rx')
  BY DEF Pending, Others
<1>4. Pending \in Nat /\ Pending' \in Nat /\ Pending' <= Pending
  BY <1>2, <1>3 DEF Pending
<1>5. Pending' <= 2 /\ (host' = NoCall => Pending' <= 1)
  BY <1>1, <1>4
<1>6. host'.id # 0 => Pending' + MaxReads - host'.left <= 2
  BY <1>1, <1>2, <1>4 DEF MaxReads
<1>7. EchoEnds'
  BY <1>1 DEF EchoEnds
<1> QED
  BY <1>5, <1>6, <1>7 DEF QuietInv

\* A reply becomes an echo and the line behind it.
LEMMA QuietReports ==
  ASSUME TypeOK, CurrentInv, QuietInv, ~astray, DdsmFb
  PROVE  QuietInv'
<1>1. rx # <<>> /\ rx' = Tail(rx) /\ UNCHANGED <<host, astray, toBoard>>
  BY DEF DdsmFb, TakeReply, hostVars
<1>2. /\ Cardinality(Others(toHost)) \in Nat /\ Len(toBoard) \in Nat /\ Len(rx) \in Nat
      /\ toHost \in Seq(Lines) /\ rx \in Seq(Replies) /\ Len(toHost) \in Nat
      /\ (host.id # 0 => host.left \in 1 .. 5)
  BY QuietTypes
<1>3. Len(rx) = 1 /\ rx' = <<>> /\ Len(rx') = 0 /\ Head(rx) = rx[1] /\ rx[1] \in Replies
  <2>1. Len(rx) <= 1
    BY DEF CurrentInv
  <2>a. Len(rx) # 0
    BY <1>1, <1>2
  <2>b. \A n \in Nat : n <= 1 /\ n # 0 => n = 1
    OBVIOUS
  <2>2. Len(rx) = 1
    BY <1>2, <2>1, <2>a, <2>b, Zenon
  <2> QED
    BY <1>1, <1>2, <2>2
<1>4. NoEcho /\ toBoard = <<>> /\ toBoard' = <<>> /\ Head(rx).id = host.id
  BY <1>1, <1>2, <1>3 DEF CurrentInv, QuietInv, ReplyEnds
<1>5. Len(toBoard) = 0 /\ Len(toBoard') = 0
  BY <1>4
<1>6. ReplyEnds' /\ DriveEnds'
  BY <1>3, <1>5 DEF ReplyEnds, DriveEnds
<1>7. /\ Pending <= 2 /\ (host = NoCall => Pending <= 1)
      /\ (host.id # 0 => Pending + 5 - host.left <= 2)
  BY DEF QuietInv, MaxReads
<1>o. Other \in Lines /\ Other.kind = "other"
  BY LineTypes DEF Other
<1>8. CASE Report
  <2> DEFINE e == Echo(Head(rx).id, Head(rx).n)
             once == Append(toHost, e)
  <2>1. e \in Lines /\ e.kind = "echo" /\ e.id = host.id
    <3>1. Head(rx).id \in Motors /\ Head(rx).n \in Nat
      BY <1>3 DEF Replies
    <3> QED
      BY <1>4, <3>1, LineTypes DEF Echo
  <2> HIDE DEF e
  <2>2. once \in Seq(Lines) /\ toHost' = Append(once, Other)
    BY <1>2, <1>8, <1>o, <2>1 DEF Report, e
  <2>3. /\ Cardinality(Others(once)) = Cardinality(Others(toHost))
        /\ Cardinality(Others(toHost')) = Cardinality(Others(once)) + 1
    <3>1. Cardinality(Others(once)) = Cardinality(Others(toHost))
      BY <1>2, <2>1, OthersAppended
    <3> HIDE DEF once
    <3>2. Cardinality(Others(Append(once, Other))) = Cardinality(Others(once)) + 1
      BY <1>o, <2>2, OthersAppended
    <3> QED
      BY <2>2, <3>1, <3>2
  <2>4. /\ Len(toHost') = Len(toHost) + 2
        /\ toHost'[Len(toHost) + 1] = e /\ toHost'[Len(toHost) + 2] = Other
        /\ \A n \in 1 .. Len(toHost) : toHost'[n] = toHost[n]
    BY <1>2, <1>o, <2>1, <2>2
  <2>5. \A n \in 1 .. Len(toHost') :
          n \in 1 .. Len(toHost) \/ n = Len(toHost) + 1 \/ n = Len(toHost) + 2
    BY <1>2, <2>4
  <2>6. \A n \in 1 .. Len(toHost') : toHost'[n].kind = "echo" => n = Len(toHost) + 1
    BY <1>4, <1>o, <2>4, <2>5 DEF NoEcho
  <2>7. \A n \in 1 .. Len(toHost') : Len(toHost) + 1 < n => n = Len(toHost) + 2
    BY <1>2, <2>4
  <2>8. EchoEnds'
    BY <1>1, <1>4, <2>1, <2>4, <2>6, <2>7 DEF EchoEnds
  <2>9. Pending \in Nat /\ Pending' = Pending
    BY <1>2, <1>3, <1>5, <2>3 DEF Pending
  <2>10. Pending' <= 2 /\ (host' = NoCall => Pending' <= 1)
    BY <1>1, <1>7, <2>9
  <2>11. host'.id # 0 => Pending' + MaxReads - host'.left <= 2
    BY <1>1, <1>2, <1>7, <2>9 DEF MaxReads
  <2> QED
    BY <1>6, <2>8, <2>10, <2>11 DEF QuietInv
<1>9. CASE toHost' = Append(toHost, Other)
  BY <1>1, <1>3, <1>4, <1>5, <1>6, <1>9, <1>o, QuietSends
<1>10. CASE toHost' = toHost
  BY <1>1, <1>3, <1>4, <1>5, <1>6, <1>10, QuietSilent
<1> QED
  BY <1>8, <1>9, <1>10 DEF DdsmFb, Lose

\* The board takes a command: a drive command is the last, a mode command never is behind a
\* reply or an echo.
LEMMA QuietTakes ==
  ASSUME TypeOK, TypeOK', CurrentInv, QuietInv, ~astray, SerialCtrl
  PROVE  QuietInv'
<1>1. toBoard # <<>> /\ toBoard' = Tail(toBoard) /\ UNCHANGED <<host, astray>>
  BY DEF SerialCtrl, hostVars
<1>2. PICK unread \in Suffixes(rx), c \in {Head(toBoard)} :
        \/ c.do = "drive" /\ DdsmCtrl(c.id, c.turns, unread) /\ UNCHANGED toHost
        \/ c.do = "mode" /\ DdsmChangeMode /\ rx' = unread
  BY Zenon DEF SerialCtrl
<1>3. /\ Len(toBoard) \in Nat \ {0} /\ Len(rx) \in Nat /\ toBoard \in Seq(Commands)
      /\ rx \in Seq(Replies)
  BY <1>1, QuietTypes
<1>4. /\ c = toBoard[1] /\ 1 \in 1 .. Len(toBoard) /\ Len(toBoard') = Len(toBoard) - 1
      /\ \A n \in 1 .. Len(toBoard') : n + 1 \in 1 .. Len(toBoard) /\ toBoard'[n] = toBoard[n + 1]
  BY <1>1, <1>3, HeadTailProperties
<1>5. EchoEnds /\ ReplyEnds /\ DriveEnds
  BY DEF QuietInv
<1>6. rx = <<>> /\ Len(rx) = 0
  <2>1. Len(rx) >= 1 => FALSE
    BY <1>1, <1>3, <1>5 DEF ReplyEnds
  <2> QED
    BY <1>3, <2>1
<1>7. unread = <<>>
  <2>1. unread \in Seq(Replies) /\ \E k \in 0 .. Len(rx) : Len(unread) = Len(rx) - k
    BY <1>3, SuffixFacts
  <2>2. Len(unread) = 0
    BY <1>6, <2>1
  <2> QED
    BY <2>1, <2>2
<1>8. NoEcho
  BY <1>1, <1>5 DEF EchoEnds, NoEcho
<1>9. DriveEnds'
  <2>1. \A n \in 1 .. Len(toBoard') : n + 1 = Len(toBoard) => n = Len(toBoard')
    BY <1>3, <1>4
  <2> QED
    BY <1>1, <1>4, <1>5, <2>1 DEF DriveEnds
<1>10. CASE c.do = "drive" /\ DdsmCtrl(c.id, c.turns, unread) /\ UNCHANGED toHost
  <2>1. c.id = host.id /\ Len(toBoard) = 1
    BY <1>4, <1>5, <1>10 DEF DriveEnds
  <2>2. toBoard' = <<>> /\ Len(toBoard') = 0
    BY <1>1, <1>3, <1>4, <2>1
  <2>3. rx' = <<Reply("drive", c.id, sent + 1)>>
    BY <1>7, <1>10 DEF DdsmCtrl
  <2>4. Len(rx') = 1 /\ rx'[1].id = c.id
    BY <2>3 DEF Reply
  <2>5. ReplyEnds'
    BY <1>1, <2>1, <2>2, <2>4 DEF ReplyEnds
  <2>a. Len(toBoard) = 1 /\ Len(rx) = 0 /\ Len(toBoard') = 0 /\ Len(rx') = 1
    BY <1>6, <2>1, <2>2, <2>4, Zenon
  <2>6. /\ Len(toBoard') \in Nat /\ Len(rx') \in Nat
        /\ Len(toBoard') + Len(rx') <= Len(toBoard) + Len(rx)
    BY <2>a
  <2>7. UNCHANGED <<host, astray, toHost>>
    BY <1>1, <1>10
  <2> QED
    BY <1>1, <1>9, <2>5, <2>6, <2>7, QuietSilent
<1>11. CASE c.do = "mode" /\ DdsmChangeMode /\ rx' = unread
  <2>1. rx' = <<>> /\ Len(rx') = 0 /\ toHost' = Append(toHost, Other)
    BY <1>7, <1>11 DEF DdsmChangeMode
  <2>2. ReplyEnds'
    BY <2>1 DEF ReplyEnds
  <2>3. Other \in Lines /\ Other.kind = "other"
    BY LineTypes DEF Other
  <2>4. /\ Len(toBoard') \in Nat /\ Len(toBoard') + Len(rx') <= Len(toBoard) + Len(rx)
        /\ Len(toBoard') + Len(rx') <= Len(toBoard) + Len(rx) - 1
    BY <1>3, <1>4, <1>6, <2>1
  <2> QED
    BY <1>1, <1>8, <1>9, <2>1, <2>2, <2>3, <2>4, QuietSends
<1> QED
  BY <1>2, <1>10, <1>11

\* Until the board is restarted the line is quiet and setup() does not run.
OnceInv == reboots = 0 => ~booting /\ QuietInv

LEMMA QuietStep ==
  ASSUME TypeOK, CurrentInv, QuietInv, [Next]_vars, ~Reboot, ~Setup
  PROVE  QuietInv'
<1>1. TypeOK' /\ CurrentInv'
  BY TypeStep, CurrentStep
<1>2. CASE Host
  BY <1>1, <1>2, QuietHost
<1>3. CASE astray'
  BY <1>3 DEF QuietInv
<1>4. CASE UNCHANGED <<host, astray, toHost, toBoard, rx>>
  <2>1. Pending' = Pending /\ (EchoEnds' <=> EchoEnds) /\ (ReplyEnds' <=> ReplyEnds)
        /\ (DriveEnds' <=> DriveEnds)
    BY <1>4 DEF Pending, Others, EchoEnds, ReplyEnds, DriveEnds
  <2> QED
    BY <1>4, <2>1 DEF QuietInv
<1>5. CASE UartHeartbeat /\ ~astray
  <2>1. toHost' = Append(toHost, Beat) /\ UNCHANGED <<host, astray, toBoard, rx>>
    BY <1>5 DEF UartHeartbeat, hostVars, busVars
  <2>2. Beat \in Lines /\ Beat.kind = "beat"
    BY LineTypes DEF Beat
  <2>3. Len(toBoard) \in Nat /\ Len(rx) \in Nat /\ ReplyEnds /\ DriveEnds
    BY <1>5, QuietTypes DEF QuietInv
  <2>4. ReplyEnds' /\ DriveEnds'
    BY <2>1, <2>3 DEF ReplyEnds, DriveEnds
  <2>5. Len(toBoard') + Len(rx') <= Len(toBoard) + Len(rx)
    BY <2>1, <2>3
  <2> QED
    BY <1>5, <2>1, <2>2, <2>3, <2>4, <2>5, QuietSends
<1>6. CASE DdsmFb /\ ~astray
  BY <1>6, QuietReports
<1>7. CASE SerialCtrl /\ ~astray
  BY <1>1, <1>7, QuietTakes
<1>8. ASSUME HandleClient
      PROVE  astray' \/ UNCHANGED <<host, astray, toHost, toBoard, rx>>
  BY <1>8 DEF HandleClient, WebWatchdog, WebDrive, WebInfo, WebMode, WebType, busVars
<1>9. ASSUME Elapse \/ UNCHANGED vars
      PROVE  UNCHANGED <<host, astray, toHost, toBoard, rx>>
  BY <1>9 DEF Elapse, vars, hostVars, lineVars, busVars
<1>10. ASSUME Loop, ~HandleClient, ~astray'
       PROVE  (UartHeartbeat \/ DdsmFb \/ SerialCtrl) /\ ~astray
  BY <1>10 DEF Loop, HeartbeatCtrl, UartHeartbeat, DdsmFb, SerialCtrl, hostVars
<1> QED
  BY <1>2, <1>3, <1>4, <1>5, <1>6, <1>7, <1>8, <1>9, <1>10 DEF Next

LEMMA OnceInit == Init => OnceInv
BY QuietInit DEF Init, OnceInv

LEMMA OnceStep == TypeOK /\ CurrentInv /\ OnceInv /\ [Next]_vars => OnceInv'
<1> SUFFICES ASSUME TypeOK, CurrentInv, OnceInv, [Next]_vars, reboots' = 0
             PROVE  ~booting' /\ QuietInv'
  BY DEF OnceInv
<1>1. ~Reboot
  <2>1. reboots \in Nat
    BY BoardAssumption DEF TypeOK
  <2> QED
    BY <2>1 DEF Reboot
<1>2. CASE Setup
  <2>1. reboots = 0 /\ booting
    BY <1>2 DEF Setup
  <2> QED
    BY <2>1 DEF OnceInv
<1>3. CASE ~Setup
  <2>1. UNCHANGED bootVars
    BY <1>1, <1>3 DEF Next, Host, HostSend, HostSetMode, HostRead, HostTimesOut, HostReopen,
       Elapse, Loop, HeartbeatCtrl, UartHeartbeat, DdsmFb, SerialCtrl, HandleClient, vars
  <2>2. ~booting /\ ~booting' /\ QuietInv
    BY <2>1 DEF OnceInv, bootVars
  <2> QED
    BY <1>1, <1>3, <2>2, QuietStep
<1> QED
  BY <1>2, <1>3

\* Until the board is restarted and as long as no line went astray, a call that finds lines to
\* read finds its echo within the five reads: what an earlier call or a set_mode left over and
\* the alive messages never use them up.
THEOREM FiveReadsSuffice == Spec => ReadsSuffice
<1>1. ASSUME TypeOK, OnceInv, [Next]_vars, host.id # 0, host' = NoCall, toHost # <<>>
      PROVE  astray \/ reboots > 0 \/ IsAnswer(Head(toHost))
  <2> SUFFICES ASSUME ~astray, ~(reboots > 0), ~IsAnswer(Head(toHost))
               PROVE  FALSE
    OBVIOUS
  <2>a. QuietInv
    <3>1. reboots \in Nat
      BY <1>1, BoardAssumption DEF TypeOK
    <3>2. reboots = 0
      BY <3>1
    <3> QED
      BY <1>1, <3>2 DEF OnceInv
  <2>1. host' # host
    BY <1>1, NoCallType
  <2>2. HostRead
    BY <1>1, <2>1, NoCallType
    DEF Next, Host, HostSend, HostSetMode, HostTimesOut, HostReopen, Elapse, Loop, HeartbeatCtrl,
        UartHeartbeat, DdsmFb, SerialCtrl, HandleClient, Reboot, Setup, vars, hostVars
  <2>3. /\ host \in [id : Motors \cup {0}, after : Nat, left : 1 .. 5]
        /\ host.left \in 1 .. 5
    BY <1>1, <2>1 DEF TypeOK, MaxReads
  <2>4. host.left > 1 => FALSE
    <3>1. CASE host' = [host EXCEPT !.left = host.left - 1]
      <4>1. host'.id = host.id
        BY <2>3, <3>1
      <4> QED
        BY <1>1, <4>1, NoCallType
    <3> QED
      BY <2>1, <2>2, <3>1 DEF HostRead, ReadsRemain, hostVars
  <2>5. Pending + 5 - host.left <= 2 /\ Pending \in Nat
    BY <1>1, <2>a, QuietTypes DEF QuietInv, MaxReads, Pending
  <2> QED
    BY <2>3, <2>4, <2>5
<1>2. TypeOK /\ OnceInv /\ [Next]_vars =>
        [host.id # 0 /\ host' = NoCall /\ toHost # <<>> =>
           astray \/ reboots > 0 \/ IsAnswer(Head(toHost))]_vars
  BY <1>1
<1> QED
  BY <1>2, OnceInit, OnceStep, CurrentInit, CurrentStep, TypeInit, TypeStep, PTL
  DEF Spec, ReadsSuffice
=============================================================================
