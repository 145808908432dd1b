--------------------------- MODULE BoardWifiProofs --------------------------
(***************************************************************************)
(* Safety of the board's radio and of the file it is configured from, for  *)
(* any names, modes and times.                                             *)
(***************************************************************************)
EXTENDS BoardWifi, TLAPS

-----------------------------------------------------------------------------
(* Names and where they point *)

Pointers == [name : Names, at : Places \cup {"own"}]

Texts == [Places -> Names \ {Null, None}]

\* A text of a command is never the null name, nor the mark for nothing on the air.
LEMMA RealNames ==
  /\ Null \notin ApNames \cup StaNames
  /\ None \notin Names
  /\ ApNames \subseteq Names /\ StaNames \subseteq Names /\ Null \in Names /\ Garbled \in Names
  /\ DefaultAp \in Names /\ DefaultSta \in Names
BY WifiAssumption DEF Names, None, Null, Garbled, DefaultAp, DefaultSta

LEMMA NoTextType == NoText \in Texts
BY RealNames DEF NoText, Texts, Null, Garbled

LEMMA TextType ==
  ASSUME NEW n \in ApNames \cup StaNames, NEW p \in Places, NEW text \in Texts
  PROVE  [text EXCEPT ![p] = n] \in Texts
BY RealNames DEF Texts

\* Parsing a command changes what a borrowed name reads, never to null, and no other name.
LEMMA RereadName ==
  ASSUME NEW n \in Pointers, NEW text \in Texts
  PROVE  /\ Reread(n, text) \in Pointers
         /\ Reread(n, text).at = n.at
         /\ n.at = "own" => Reread(n, text) = n
         /\ n.name # Null => Reread(n, text).name # Null
         /\ n.name = Null /\ n.at = "own" => Reread(n, text).name = Null
<1>1. CASE n.at \in Places
  <2>1. Reread(n, text) = [n EXCEPT !.name = text[n.at]]
    BY <1>1 DEF Reread
  <2>2. text[n.at] \in Names /\ text[n.at] # Null
    BY <1>1 DEF Texts
  <2>3. n.at # "own"
    BY <1>1 DEF Places
  <2> QED
    BY <2>1, <2>2, <2>3 DEF Pointers
<1>2. CASE n.at \notin Places
  BY <1>2 DEF Reread
<1> QED
  BY <1>1, <1>2

LEMMA LentType ==
  ASSUME NEW n \in Names, NEW p \in Places
  PROVE  /\ Lent(n, p) \in Pointers /\ Lent(n, p).name = n /\ Lent(n, p).at = p /\ p # "own"
         /\ Own(n) \in Pointers /\ Own(n).name = n /\ Own(n).at = "own"
BY DEF Lent, Own, Pointers, Places

\* What the file says, or what the globals say without one.
LEMMA LoadedType ==
  ASSUME TypeOK
  PROVE  Loaded \in [mode : BootModes \cup 0 .. 3, ap : Names, sta : Names]
BY RealNames DEF TypeOK, Loaded

\* The commands, by what they do next: join a network, write the file, or neither.
Joins(serial) == SetSta(serial) \/ SetApSta(serial) \/ CreateByInput(serial)
Opens(serial) == CreateByStatus(serial) \/ ConfigModeOnBoot(serial)
Settles(serial) ==
  SetAp(serial) \/ WifiStop(serial) \/ ResetSettings(serial) \/ HeartbeatTime(serial)
    \/ DdsmCtrl(serial)

\* What each of them does to the names and the radio.
LEMMA JoinsEffect ==
  ASSUME TypeOK, NEW serial \in BOOLEAN, Joins(serial)
  PROVE  /\ phase = "loop" /\ phase' = "connecting" /\ waited' = 0
         /\ \E mode \in {2, 3}, s \in StaNames, p \in Places, save \in BOOLEAN :
              job' = [mode |-> mode, sta |-> Lent(s, p), save |-> save]
         /\ \/ job'.mode = 2 /\ air' = [air EXCEPT !.sta = None]
               /\ \E text \in Texts : ap' = Reread(ap, text)
            \/ \E a \in ApNames, p \in Places :
                 ap' = Lent(a, p) /\ air' = [ap |-> a, sta |-> None]
         /\ \E text \in Texts : sta' = Reread(sta, text)
         /\ wifi_mode_on_boot' \in BootModes \cup {wifi_mode_on_boot}
         /\ UNCHANGED <<wifi_current_mode, wifiConfigFound, file, turning, heartbeat_on>>
<1>1. CASE SetSta(serial)
  <2>1. PICK s \in StaNames :
          /\ Join(2, Lent(s, "ssid"), FALSE)
          /\ ap' = Reread(ap, [NoText EXCEPT !["ssid"] = s])
          /\ StaReread([NoText EXCEPT !["ssid"] = s])
    BY <1>1 DEF SetSta
  <2>2. "ssid" \in Places /\ [NoText EXCEPT !["ssid"] = s] \in Texts
    BY NoTextType, TextType DEF Places
  <2>3. phase = "loop" /\ air' = [air EXCEPT !.sta = None]
        /\ UNCHANGED <<modeVars, file, turning, heartbeat_on>>
    BY <1>1 DEF SetSta, Received
  <2>4. phase' = "connecting" /\ waited' = 0
        /\ job' = [mode |-> 2, sta |-> Lent(s, "ssid"), save |-> FALSE]
    BY <2>1 DEF Join
  <2>5. job'.mode = 2
    BY <2>4
  <2> QED
    BY <2>1, <2>2, <2>3, <2>4, <2>5 DEF StaReread, modeVars
<1>2. ASSUME NEW a \in ApNames, NEW s \in StaNames, NEW p \in Places, NEW q \in Places,
             NEW save \in BOOLEAN, StartApSta(a, s, p, q, save), phase = "loop",
             wifi_mode_on_boot' \in BootModes \cup {wifi_mode_on_boot},
             UNCHANGED <<wifi_current_mode, wifiConfigFound, file, turning, heartbeat_on>>
      PROVE  /\ phase' = "connecting" /\ waited' = 0
             /\ job' = [mode |-> 3, sta |-> Lent(s, q), save |-> save]
             /\ ap' = Lent(a, p) /\ air' = [ap |-> a, sta |-> None]
             /\ \E text \in Texts : sta' = Reread(sta, text)
  <2>1. a # Null /\ [NoText EXCEPT ![p] = a, ![q] = s] \in Texts
    BY RealNames, NoTextType, TextType
  <2> QED
    BY <1>2, <2>1 DEF StartApSta, Join, SoftAp, StaReread
<1>3. CASE SetApSta(serial)
  <2>1. PICK a \in ApNames, s \in StaNames : StartApSta(a, s, "apsta_ap", "apsta_sta", FALSE)
    BY <1>3 DEF SetApSta
  <2>2. "apsta_ap" \in Places /\ "apsta_sta" \in Places /\ phase = "loop"
        /\ UNCHANGED <<modeVars, file, turning, heartbeat_on>>
    BY <1>3 DEF SetApSta, Received, Places
  <2>3. /\ phase' = "connecting" /\ waited' = 0
        /\ job' = [mode |-> 3, sta |-> Lent(s, "apsta_sta"), save |-> FALSE]
        /\ ap' = Lent(a, "apsta_ap") /\ air' = [ap |-> a, sta |-> None]
        /\ \E text \in Texts : sta' = Reread(sta, text)
    BY <1>2, <2>1, <2>2 DEF modeVars
  <2> QED
    BY <2>2, <2>3 DEF modeVars
<1>4. CASE CreateByInput(serial)
  <2>1. PICK a \in ApNames, s \in StaNames : StartApSta(a, s, "input_ap", "input_sta", TRUE)
    BY <1>4 DEF CreateByInput
  <2>2. "input_ap" \in Places /\ "input_sta" \in Places /\ phase = "loop"
        /\ wifi_mode_on_boot' \in BootModes
        /\ UNCHANGED <<wifi_current_mode, wifiConfigFound, file, turning, heartbeat_on>>
    BY <1>4 DEF CreateByInput, Received, Places
  <2>3. /\ phase' = "connecting" /\ waited' = 0
        /\ job' = [mode |-> 3, sta |-> Lent(s, "input_sta"), save |-> TRUE]
        /\ ap' = Lent(a, "input_ap") /\ air' = [ap |-> a, sta |-> None]
        /\ \E text \in Texts : sta' = Reread(sta, text)
    BY <1>2, <2>1, <2>2
  <2> QED
    BY <2>2, <2>3
<1> QED
  BY <1>1, <1>3, <1>4 DEF Joins

LEMMA SetApEffect ==
  ASSUME TypeOK, NEW serial \in BOOLEAN, SetAp(serial)
  PROVE  /\ phase = "loop" /\ wifi_current_mode' = 1
         /\ \E a \in ApNames : ap' = Lent(a, "ssid") /\ air' = [ap |-> a, sta |-> None]
         /\ \E text \in Texts : sta' = Reread(sta, text)
         /\ UNCHANGED <<phase, job, waited, wifi_mode_on_boot, wifiConfigFound, file, turning,
                        heartbeat_on>>
<1>1. PICK a \in ApNames :
        WifiModeAP(Lent(a, "ssid")) /\ StaReread([NoText EXCEPT !["ssid"] = a])
  BY DEF SetAp
<1>2. Lent(a, "ssid").name = a /\ a # Null /\ [NoText EXCEPT !["ssid"] = a] \in Texts
  BY RealNames, LentType, NoTextType, TextType DEF Places
<1>3. ap' = Lent(a, "ssid") /\ air' = [ap |-> a, sta |-> None] /\ wifi_current_mode' = 1
  BY <1>1, <1>2 DEF WifiModeAP, SoftAp
<1>4. \E text \in Texts : sta' = Reread(sta, text)
  BY <1>1, <1>2 DEF StaReread
<1> QED
  BY <1>3, <1>4 DEF SetAp, Received, jobVars

\* Starting: the file decides the mode; an access point is up where it names one.
LEMMA InitWifiEffect ==
  ASSUME TypeOK, InitWifi
  PROVE  /\ phase = "off" /\ wifi_mode_on_boot' = Loaded.mode
         /\ wifiConfigFound' = (file # NoFile)
         /\ ap' = Own(Loaded.ap) /\ sta' = Own(Loaded.sta)
         /\ \/ /\ phase' = "loop" /\ UNCHANGED jobVars
               /\ \/ wifi_current_mode' = 1 /\ air' = [ap |-> SoftAp(Loaded.ap), sta |-> None]
                  \/ wifi_current_mode' \in {0, Unset} /\ UNCHANGED air
            \/ /\ phase' = "connecting" /\ waited' = 0 /\ UNCHANGED wifi_current_mode
               /\ \/ /\ job' = [mode |-> 2, sta |-> Own(Loaded.sta), save |-> FALSE]
                     /\ UNCHANGED air
                  \/ /\ job' = [mode |-> 3, sta |-> Own(Loaded.sta), save |-> FALSE]
                     /\ air' = [ap |-> SoftAp(Loaded.ap), sta |-> None]
         /\ UNCHANGED <<file, turning, watchVars>>
<1> DEFINE c == Loaded
<1>1. WifiModeOnBoot(c)
  BY DEF InitWifi
<1>2. \/ /\ phase' = "loop" /\ UNCHANGED jobVars
         /\ \/ wifi_current_mode' = 1 /\ air' = [ap |-> SoftAp(c.ap), sta |-> None]
            \/ wifi_current_mode' \in {0, Unset} /\ UNCHANGED air
      \/ /\ phase' = "connecting" /\ waited' = 0 /\ UNCHANGED wifi_current_mode
         /\ \/ /\ job' = [mode |-> 2, sta |-> Own(c.sta), save |-> FALSE]
               /\ UNCHANGED air
            \/ /\ job' = [mode |-> 3, sta |-> Own(c.sta), save |-> FALSE]
               /\ air' = [ap |-> SoftAp(c.ap), sta |-> None]
  <2> HIDE DEF c
  <2> QED
    BY <1>1 DEF WifiModeOnBoot, Join
<1> QED
  BY <1>2 DEF InitWifi

-----------------------------------------------------------------------------
(* Type correctness *)

LEMMA TypeInit == Init => TypeOK
<1> SUFFICES ASSUME Init PROVE TypeOK
  OBVIOUS
<1>1. Own(Null) \in Pointers /\ Own(DefaultAp) \in Pointers /\ Own(DefaultSta) \in Pointers
  BY RealNames, LentType DEF Places
<1>2. waited \in 0 .. Timeout /\ silence \in 0 .. Limit + 1
  BY WifiAssumption DEF Init
<1>3. NoJob \in [mode : {0, 2, 3}, sta : Pointers, save : BOOLEAN]
  BY <1>1 DEF NoJob
<1>4. air \in [ap : Names \cup {None}, sta : StaNames \cup {None}]
  BY DEF Init
<1>5. job = NoJob /\ ap = Own(DefaultAp) /\ sta = Own(DefaultSta) /\ file = NoFile
      /\ phase = "off" /\ wifi_mode_on_boot = 1 /\ wifi_current_mode = Unset
  BY DEF Init
<1>6. ~wifiConfigFound /\ ~turning /\ ~heartbeat_on /\ ~stop_flag
      /\ {wifiConfigFound, turning, heartbeat_on, stop_flag} \subseteq BOOLEAN
  BY DEF Init
<1> QED
  BY <1>1, <1>2, <1>3, <1>4, <1>5, <1>6 DEF TypeOK, Pointers

LEMMA TypeStep == TypeOK /\ [Next]_vars => TypeOK'
<1> SUFFICES ASSUME TypeOK, [Next]_vars PROVE TypeOK'
  OBVIOUS
<1> DEFINE Radios == [ap : Names \cup {None}, sta : StaNames \cup {None}]
<1> DEFINE Jobs == [mode : {0, 2, 3}, sta : Pointers, save : BOOLEAN]
<1> DEFINE Files == [mode : BootModes \cup 0 .. 3, ap : Names, sta : Names] \cup {NoFile}
<1>1. /\ ap \in Pointers /\ sta \in Pointers /\ job \in Jobs /\ air \in Radios /\ file \in Files
      /\ waited \in 0 .. Timeout /\ silence \in 0 .. Limit + 1
      /\ wifi_mode_on_boot \in BootModes \cup 0 .. 3
      /\ wifi_current_mode \in 0 .. 3 \cup {Unset} /\ wifiConfigFound \in BOOLEAN
      /\ turning \in BOOLEAN /\ heartbeat_on \in BOOLEAN /\ stop_flag \in BOOLEAN
      /\ phase \in {"off", "loop", "connecting", "saving"}
  BY DEF TypeOK, Pointers
<1> DEFINE Typed ==
      /\ phase' \in {"off", "loop", "connecting", "saving"}
      /\ job' \in Jobs /\ waited' \in 0 .. Timeout
      /\ wifi_mode_on_boot' \in BootModes \cup 0 .. 3
      /\ wifi_current_mode' \in 0 .. 3 \cup {Unset} /\ wifiConfigFound' \in BOOLEAN
      /\ ap' \in Pointers /\ sta' \in Pointers /\ file' \in Files /\ air' \in Radios
      /\ turning' \in BOOLEAN /\ heartbeat_on' \in BOOLEAN /\ stop_flag' \in BOOLEAN
      /\ silence' \in 0 .. Limit + 1
<1>2. SUFFICES Typed
  BY DEF TypeOK, Pointers
<1>3. /\ NoJob \in Jobs /\ Own(DefaultAp) \in Pointers /\ Own(DefaultSta) \in Pointers
      /\ 0 \in 0 .. Timeout /\ 0 \in 0 .. Limit + 1 /\ Blank \in Files /\ NoFile \in Files
      /\ [ap |-> None, sta |-> None] \in Radios
  BY RealNames, LentType, WifiAssumption DEF NoJob, Blank, Places
<1>4. SoftAp(Null) \in Names \cup {None} /\ \A n \in Names : SoftAp(n) \in Names \cup {None}
  BY <1>1, RealNames DEF SoftAp
<1>5. \A serial \in BOOLEAN : Received(serial) =>
        phase = "loop" /\ stop_flag' \in BOOLEAN /\ silence' \in 0 .. Limit + 1
  BY <1>1, <1>3 DEF Received
<1>6. OpenFile => phase' = "saving" /\ file' \in Files
  BY <1>1, <1>3 DEF OpenFile
<1>7. CASE UNCHANGED vars
  BY <1>1, <1>7 DEF vars, jobVars, modeVars, nameVars, watchVars
<1>8. CASE InitWifi
  <2>1. Loaded.mode \in BootModes \cup 0 .. 3 /\ Loaded.ap \in Names /\ Loaded.sta \in Names
    BY LoadedType
  <2>2. Own(Loaded.ap) \in Pointers /\ Own(Loaded.sta) \in Pointers
    BY <2>1, LentType DEF Places
  <2>3. [ap |-> SoftAp(Loaded.ap), sta |-> None] \in Radios
    BY <1>4, <2>1
  <2>4. job' \in Jobs
    <3>1. \A mode \in {2, 3} : [mode |-> mode, sta |-> Own(Loaded.sta), save |-> FALSE] \in Jobs
      BY <2>2
    <3>2. \/ job' = job
          \/ \E mode \in {2, 3} : job' = [mode |-> mode, sta |-> Own(Loaded.sta), save |-> FALSE]
      BY <1>8, InitWifiEffect DEF jobVars
    <3> HIDE DEF Jobs
    <3> QED
      BY <1>1, <3>1, <3>2
  <2>5. /\ phase' \in {"loop", "connecting"} /\ waited' \in 0 .. Timeout
        /\ air' \in Radios /\ wifi_current_mode' \in 0 .. 3 \cup {Unset}
    BY <1>1, <1>3, <1>8, <2>3, InitWifiEffect DEF jobVars
  <2> QED
    BY <1>1, <1>8, <2>1, <2>2, <2>4, <2>5, InitWifiEffect DEF watchVars
<1>9. CASE ConnectSucceeds
  <2>1. job.sta.name \in StaNames /\ job.sta \in Pointers /\ job.mode \in {0, 2, 3}
    BY <1>1, <1>9 DEF ConnectSucceeds
  <2>2. air' \in Radios
    BY <1>1, <1>9, <2>1 DEF ConnectSucceeds
  <2>3. file' \in Files /\ phase' \in {"loop", "saving"} /\ job' \in Jobs
    BY <1>1, <1>3, <1>6, <1>9 DEF ConnectSucceeds
  <2> QED
    BY <1>1, <1>9, <2>1, <2>2, <2>3 DEF ConnectSucceeds, watchVars
<1>10. CASE ConnectTimesOut
  <2>1. ap' \in Pointers /\ air' \in Radios /\ wifi_current_mode' = 1
    <3>1. ap.name \in Names
      BY <1>1 DEF Pointers
    <3> QED
      BY <1>1, <1>4, <1>10, <3>1 DEF ConnectTimesOut, FallBack, WifiModeAP
  <2>2. file' \in Files /\ phase' \in {"loop", "saving"} /\ job' \in Jobs
    BY <1>1, <1>3, <1>6, <1>10 DEF ConnectTimesOut
  <2> QED
    BY <1>1, <1>10, <2>1, <2>2 DEF ConnectTimesOut, watchVars
<1>11. CASE SaveConfig
  <2>1. [mode |-> wifi_mode_on_boot, ap |-> ap.name, sta |-> sta.name] \in Files
    BY <1>1 DEF Pointers
  <2> QED
    BY <1>1, <1>3, <1>11, <2>1 DEF SaveConfig, modeVars, nameVars, watchVars
<1>12. ASSUME NEW serial \in BOOLEAN, Joins(serial) PROVE Typed
  <2>1. \A s \in StaNames, p \in Places : Lent(s, p) \in Pointers
    BY RealNames, LentType
  <2>2. \A a \in ApNames, p \in Places :
          Lent(a, p) \in Pointers /\ [ap |-> a, sta |-> None] \in Radios
    BY RealNames, LentType
  <2>3. job' \in Jobs /\ phase' = "connecting" /\ waited' = 0
    BY <1>12, <2>1, JoinsEffect
  <2>4. ap' \in Pointers /\ air' \in Radios
    BY <1>1, <1>12, <2>2, JoinsEffect, RereadName
  <2>5. sta' \in Pointers
    BY <1>1, <1>12, JoinsEffect, RereadName
  <2>6. stop_flag' \in BOOLEAN /\ silence' \in 0 .. Limit + 1
    BY <1>5, <1>12 DEF Joins, SetSta, SetApSta, CreateByInput
  <2> QED
    BY <1>1, <1>3, <1>12, <2>3, <2>4, <2>5, <2>6, JoinsEffect
<1>13. ASSUME NEW serial \in BOOLEAN, Opens(serial) PROVE Typed
  BY <1>1, <1>5, <1>6, <1>13 DEF Opens, CreateByStatus, ConfigModeOnBoot, jobVars,
    modeVars, nameVars
<1>14. ASSUME NEW serial \in BOOLEAN, Settles(serial) PROVE Typed
  <2>1. CASE SetAp(serial)
    <3>1. ap' \in Pointers /\ air' \in Radios /\ sta' \in Pointers
      BY <1>1, <2>1, SetApEffect, RealNames, LentType, RereadName DEF Places
    <3>2. stop_flag' \in BOOLEAN /\ silence' \in 0 .. Limit + 1
      BY <1>5, <2>1 DEF SetAp
    <3> QED
      BY <1>1, <2>1, <3>1, <3>2, SetApEffect
  <2>2. CASE WifiStop(serial)
    BY <1>1, <1>5, <2>2 DEF WifiStop, jobVars, nameVars
  <2>3. CASE ResetSettings(serial) \/ HeartbeatTime(serial)
    BY <1>1, <1>3, <1>5, <2>3 DEF ResetSettings, HeartbeatTime, jobVars, modeVars, nameVars
  <2>4. CASE DdsmCtrl(serial)
    <3>1. ap' \in Pointers /\ sta' \in Pointers
      BY <1>1, <2>4, NoTextType, RereadName DEF DdsmCtrl, StaReread
    <3> QED
      BY <1>1, <1>5, <2>4, <3>1 DEF DdsmCtrl, jobVars, modeVars
  <2> QED
    BY <1>14, <2>1, <2>2, <2>3, <2>4 DEF Settles
<1>16. CASE HeartbeatCtrl
  BY <1>1, <1>16 DEF HeartbeatCtrl, jobVars, modeVars, nameVars
<1>17. CASE Elapse
  <2>1. waited' \in 0 .. Timeout /\ silence' \in 0 .. Limit + 1
    BY <1>1, <1>17, WifiAssumption DEF Elapse
  <2> QED
    BY <1>1, <1>17, <2>1 DEF Elapse, modeVars, nameVars
<1>18. CASE PowerCut
  <2>1. job' \in Jobs /\ air' \in Radios /\ ap' \in Pointers /\ sta' \in Pointers /\ file' \in Files
    <3> HIDE DEF Jobs, Radios, Files
    <3> QED
      BY <1>1, <1>3, <1>18 DEF PowerCut
  <2>2. /\ turning' \in BOOLEAN /\ heartbeat_on' \in BOOLEAN /\ stop_flag' \in BOOLEAN
        /\ wifiConfigFound' \in BOOLEAN
    BY <1>1, <1>18 DEF PowerCut
  <2>3. /\ phase' = "off" /\ waited' = 0 /\ silence' = 0
        /\ wifi_mode_on_boot' = 1 /\ wifi_current_mode' = Unset
    BY <1>18 DEF PowerCut
  <2> HIDE DEF Jobs, Radios, Files
  <2> QED
    BY <1>3, <2>1, <2>2, <2>3
<1> QED
  BY <1>7, <1>8, <1>9, <1>10, <1>11, <1>12, <1>13, <1>14, <1>16, <1>17, <1>18
    DEF Next, Command, Joins, Opens, Settles

\* Every name that is read, also a borrowed one, is a name.
THEOREM TypeCorrect == Spec => []TypeOK
<1> QED
  BY TypeInit, TypeStep, PTL DEF Spec

-----------------------------------------------------------------------------
(* The mode, the names, the file and what is on the air *)

\* No connection is under way in loop() or without power.
JobAgrees == phase \in {"loop", "off"} => job = NoJob

\* The mode tells of the network that is joined, and of an access point where there must be
\* one; while a network is waited for, of the one there will be.  A missing
\* name was read from the file and is not borrowed.
ModeTells ==
  /\ wifi_current_mode \in {1, 3} => air.ap # None \/ ap.name = Null
  /\ (wifi_current_mode \in {2, 3}) <=> (air.sta # None)

AirAgrees ==
  /\ phase = "off" => air = [ap |-> None, sta |-> None]
  /\ phase = "connecting" =>
       /\ job.mode \in {2, 3} /\ air.sta = None
       /\ job.mode = 3 => air.ap # None \/ ap.name = Null
  /\ phase \in {"loop", "saving"} => ModeTells
  /\ ap.name = Null => ap.at = "own"

\* Names of the board's own are those on the air; what is being saved after a first connection
\* is that one; and a network that is in the file is not forgotten.
NamesAgree ==
  /\ phase = "saving" /\ job # NoJob /\ ~wifiConfigFound /\ air.sta # None =>
       wifi_mode_on_boot = 3 /\ sta.name = air.sta
  /\ ap.at = "own" /\ air.ap # None => ap.name = air.ap
  /\ sta.at = "own" /\ air.sta # None => sta.name = air.sta
  /\ file.sta # Null => sta.name # Null

WifiInv == JobAgrees /\ AirAgrees /\ NamesAgree

LEMMA WifiInit == Init => WifiInv
BY LentType, RealNames DEF Init, WifiInv, JobAgrees, AirAgrees, NamesAgree, NoFile, DefaultAp,
  DefaultSta, Null, Own

LEMMA WifiStep == TypeOK /\ WifiInv /\ [Next]_vars => WifiInv'
<1> SUFFICES ASSUME TypeOK, WifiInv, [Next]_vars PROVE WifiInv'
  OBVIOUS
<1>1. /\ ap \in Pointers /\ sta \in Pointers /\ job.sta \in Pointers
      /\ air = [ap |-> air.ap, sta |-> air.sta]
  BY DEF TypeOK, Pointers
<1>2. /\ Null # None /\ None \notin Names
      /\ \A n \in ApNames \cup StaNames : n # Null /\ n # None /\ n \in Names
  BY RealNames
<1>3. \A n \in Names : SoftAp(n) = (IF n = Null THEN air.ap ELSE n)
  BY DEF SoftAp
<1>4. OpenFile => phase' = "saving" /\ (file'.sta # Null => file.sta # Null)
  BY DEF OpenFile, Blank
<1> USE DEF WifiInv, JobAgrees, ModeTells, AirAgrees, NamesAgree
<1>5. CASE UNCHANGED vars
  BY <1>5 DEF vars, jobVars, modeVars, nameVars
<1>6. CASE InitWifi
  <2> DEFINE c == Loaded
  <2>1. c.ap \in Names /\ c.sta \in Names /\ (file.sta # Null => c.sta = file.sta)
    BY LoadedType DEF Loaded, NoFile
  <2>2. ap' = Own(c.ap) /\ sta' = Own(c.sta) /\ phase = "off" /\ job = NoJob /\ file' = file
        /\ air = [ap |-> None, sta |-> None]
    BY <1>6, InitWifiEffect
  <2>3. ap'.name = c.ap /\ ap'.at = "own" /\ sta'.name = c.sta /\ sta'.at = "own"
    BY <2>1, <2>2, LentType DEF Places
  <2>4. air'.sta = None /\ (air'.ap = None \/ air'.ap = c.ap) /\ phase' \in {"loop", "connecting"}
    BY <1>3, <1>6, <2>1, <2>2, InitWifiEffect
  <2>5. NamesAgree'
    BY <2>1, <2>2, <2>3, <2>4
  <2>6. CASE phase' = "loop"
    <3>1. job' = job
      BY <1>6, <2>6, InitWifiEffect DEF jobVars
    <3>2. \/ wifi_current_mode' = 1 /\ air'.ap = SoftAp(c.ap)
          \/ wifi_current_mode' \in {0, Unset}
      BY <1>6, <2>6, InitWifiEffect
    <3>3. ModeTells'
      BY <1>2, <1>3, <2>1, <2>3, <2>4, <3>2 DEF Unset
    <3> QED
      BY <2>2, <2>3, <2>5, <2>6, <3>1, <3>3
  <2>7. CASE phase' = "connecting"
    <3>1. \/ job'.mode = 2
          \/ job'.mode = 3 /\ air'.ap = SoftAp(c.ap)
      BY <1>6, <2>7, InitWifiEffect
    <3> QED
      BY <1>2, <1>3, <2>1, <2>3, <2>4, <2>5, <2>7, <3>1
  <2> QED
    BY <2>4, <2>6, <2>7
<1>7. CASE ConnectSucceeds
  <2>1. /\ phase = "connecting" /\ job.sta.name \in StaNames /\ job.mode \in {2, 3}
        /\ wifi_current_mode' = job.mode /\ sta' = job.sta /\ ap' = ap
        /\ air' = [air EXCEPT !.sta = job.sta.name]
    BY <1>7 DEF ConnectSucceeds
  <2>2. air'.ap = air.ap /\ air'.sta = sta'.name /\ sta'.name # None /\ sta'.name # Null
    BY <1>1, <1>2, <2>1
  <2>3. /\ wifiConfigFound' = wifiConfigFound /\ (~wifiConfigFound => wifi_mode_on_boot' = 3)
        /\ phase' \in {"loop", "saving"} /\ (phase' = "loop" => job' = NoJob)
    BY <1>4, <1>7 DEF ConnectSucceeds
  <2>4. JobAgrees' /\ NamesAgree'
    BY <2>1, <2>2, <2>3
  <2> QED
    BY <2>1, <2>2, <2>3, <2>4
<1>8. CASE ConnectTimesOut
  <2>1. /\ phase = "connecting" /\ wifi_current_mode' = 1 /\ ap' = ap /\ sta' = sta
        /\ air' = [ap |-> SoftAp(ap.name), sta |-> None]
        /\ phase' \in {"loop", "saving"} /\ (phase' = "loop" => job' = NoJob)
    BY <1>4, <1>8 DEF ConnectTimesOut, FallBack, WifiModeAP
  <2>2. air'.sta = None /\ air'.ap = (IF ap.name = Null THEN air.ap ELSE ap.name)
    BY <1>1, <1>3, <2>1 DEF Pointers
  <2>3. file'.sta # Null => file.sta # Null
    BY <1>4, <1>8 DEF ConnectTimesOut
  <2>4. ap.name \in Names
    BY <1>1 DEF Pointers
  <2> QED
    BY <1>2, <2>1, <2>2, <2>3, <2>4
<1>9. CASE SaveConfig
  <2>1. /\ phase = "saving" /\ phase' = "loop" /\ job' = NoJob /\ file'.sta = sta.name
        /\ UNCHANGED <<wifi_mode_on_boot, wifi_current_mode, wifiConfigFound, ap, sta, air>>
    BY <1>9 DEF SaveConfig, modeVars, nameVars
  <2> QED
    BY <2>1
<1>10. ASSUME NEW serial \in BOOLEAN, Joins(serial) PROVE WifiInv'
  <2>1. /\ phase' = "connecting" /\ job'.mode \in {2, 3} /\ air'.sta = None
        /\ wifiConfigFound' = wifiConfigFound /\ file' = file
    BY <1>1, <1>10, JoinsEffect
  <2>2. PICK text \in Texts : sta' = Reread(sta, text)
    BY <1>10, JoinsEffect
  <2>3. (sta.name # Null => sta'.name # Null) /\ sta'.at = sta.at
    BY <1>1, <2>2, RereadName
  <2>4. CASE job'.mode = 2 /\ air' = [air EXCEPT !.sta = None] /\ \E t \in Texts : ap' = Reread(ap, t)
    <3>1. /\ air'.ap = air.ap /\ (ap.at = "own" => ap' = ap) /\ ap'.at = ap.at
          /\ (ap.name # Null => ap'.name # Null)
      BY <1>1, <2>4, RereadName
    <3> QED
      BY <2>1, <2>3, <2>4, <3>1
  <2>5. ASSUME NEW a \in ApNames, NEW p \in Places, ap' = Lent(a, p), air' = [ap |-> a, sta |-> None]
        PROVE  WifiInv'
    <3>1. ap'.name # Null /\ ap'.at # "own" /\ air'.ap # None
      BY <1>2, <2>5, LentType
    <3> QED
      BY <2>1, <2>3, <3>1
  <2> QED
    BY <1>10, <2>4, <2>5, JoinsEffect
<1>11. ASSUME NEW serial \in BOOLEAN, Opens(serial) PROVE WifiInv'
  <2>1. /\ phase = "loop" /\ OpenFile
        /\ UNCHANGED <<job, wifi_current_mode, wifiConfigFound, ap, sta, air>>
    BY <1>11 DEF Opens, CreateByStatus, ConfigModeOnBoot, Received, jobVars, modeVars, nameVars
  <2> QED
    BY <1>4, <2>1
<1>12. ASSUME NEW serial \in BOOLEAN, Settles(serial) PROVE WifiInv'
  <2>1. CASE SetAp(serial)
    <3>1. PICK a \in ApNames : ap' = Lent(a, "ssid") /\ air' = [ap |-> a, sta |-> None]
      BY <2>1, SetApEffect
    <3>2. ap'.name # Null /\ ap'.at # "own" /\ air'.ap # None /\ air'.sta = None
      BY <1>2, <3>1, LentType DEF Places
    <3>3. (sta.name # Null => sta'.name # Null)
      BY <1>1, <2>1, SetApEffect, RereadName
    <3>4. /\ phase = "loop" /\ wifi_current_mode' = 1
          /\ UNCHANGED <<phase, job, wifi_mode_on_boot, wifiConfigFound, file>>
      BY <2>1, SetApEffect
    <3> QED
      BY <3>2, <3>3, <3>4
  <2>2. CASE WifiStop(serial)
    <3>1. /\ phase = "loop" /\ wifi_current_mode' = 0 /\ air'.ap = air.ap /\ air'.sta = None
          /\ UNCHANGED <<phase, job, wifi_mode_on_boot, wifiConfigFound, ap, sta, file>>
      BY <1>1, <2>2 DEF WifiStop, Received, jobVars, nameVars
    <3> QED
      BY <3>1
  <2>3. CASE ResetSettings(serial) \/ HeartbeatTime(serial)
    <3>1. /\ phase = "loop" /\ (file'.sta # Null => file.sta # Null)
          /\ UNCHANGED <<phase, job, wifi_mode_on_boot, wifi_current_mode, wifiConfigFound, ap, sta, air>>
      BY <2>3 DEF ResetSettings, HeartbeatTime, Received, NoFile, jobVars, modeVars, nameVars
    <3> QED
      BY <3>1
  <2>4. CASE DdsmCtrl(serial)
    <3>1. /\ ap' = Reread(ap, NoText) /\ sta' = Reread(sta, NoText) /\ phase = "loop"
          /\ UNCHANGED <<phase, job, wifi_mode_on_boot, wifi_current_mode, wifiConfigFound, air, file>>
      BY <2>4 DEF DdsmCtrl, StaReread, Received, jobVars, modeVars
    <3>2. /\ (ap.at = "own" => ap' = ap) /\ ap'.at = ap.at /\ (ap.name # Null => ap'.name # Null)
          /\ (sta.at = "own" => sta' = sta) /\ sta'.at = sta.at /\ (sta.name # Null => sta'.name # Null)
      BY <1>1, <3>1, NoTextType, RereadName
    <3> QED
      BY <3>1, <3>2
  <2> QED
    BY <1>12, <2>1, <2>2, <2>3, <2>4 DEF Settles
<1>14. CASE HeartbeatCtrl \/ Elapse
  BY <1>14 DEF HeartbeatCtrl, Elapse, jobVars, modeVars, nameVars
<1>15. CASE PowerCut
  <2>1. /\ phase' = "off" /\ job' = NoJob /\ air' = [ap |-> None, sta |-> None]
        /\ ap' = Own(DefaultAp) /\ sta' = Own(DefaultSta) /\ file' = file
    BY <1>15 DEF PowerCut
  <2>2. ap'.name # Null /\ sta'.name # Null
    BY <2>1 DEF Own, DefaultAp, DefaultSta, Null
  <2> QED
    BY <2>1, <2>2
<1> QED
  BY <1>5, <1>6, <1>7, <1>8, <1>9, <1>10, <1>11, <1>12, <1>14, <1>15
    DEF Next, Command, Joins, Opens, Settles

\* The inductive strengthening: mode, names, file and radio agree in every phase.
THEOREM WifiConsistent == Spec => []WifiInv
<1> QED
  BY TypeInit, TypeStep, WifiInit, WifiStep, PTL DEF Spec

\* Between commands WIFI_CURRENT_MODE is a station mode exactly when a network is joined, and
\* in the modes 1 and 3 an access point is up, for any names, modes and files.
THEOREM ModeOfNetwork == Spec => []ModeTellsNetwork
<1>1. WifiInv => ModeTellsNetwork
  BY DEF WifiInv, AirAgrees, ModeTells, ModeTellsNetwork
<1> QED
  BY <1>1, WifiConsistent, PTL

-----------------------------------------------------------------------------
(* The saved network *)

\* A name of the board's own is the one in the file, also that of the join setup() is at.
SavedAgrees ==
  /\ phase # "off" /\ sta.at = "own" /\ file.sta # Null => file.sta = sta.name
  /\ job.mode # 0 /\ job.sta.at = "own" => job.sta = sta

\* Opening the file again loses nothing that is in it.
LEMMA OpenKeeps == OpenFile => file' = file \/ (file.sta = Null /\ file'.sta = Null)
BY DEF OpenFile, NoFile, Blank

\* Commands but the reset leave the file alone, or open it.
LEMMA CommandKeeps ==
  ASSUME TypeOK, NEW serial \in BOOLEAN, Command(serial), ~ResetSettings(serial)
  PROVE  file' = file \/ (file.sta = Null /\ file'.sta = Null)
<1>1. CASE Joins(serial) \/ SetAp(serial)
  BY <1>1, JoinsEffect, SetApEffect
<1>2. CASE Opens(serial)
  BY <1>2, OpenKeeps DEF Opens, CreateByStatus, ConfigModeOnBoot
<1>3. CASE WifiStop(serial) \/ HeartbeatTime(serial) \/ DdsmCtrl(serial)
  BY <1>3 DEF WifiStop, HeartbeatTime, DdsmCtrl
<1> QED
  BY <1>1, <1>2, <1>3 DEF Command, Joins, Opens

\* A command parsed into jsonCmdReceive changes no name of the board's own, and gives it none.
LEMMA CommandNames ==
  ASSUME TypeOK, NEW serial \in BOOLEAN, Command(serial)
  PROVE  /\ sta'.at = sta.at /\ (sta.at = "own" => sta' = sta)
         /\ job' = job \/ job'.sta.at # "own"
         /\ phase = "loop"
<1>1. sta \in Pointers
  BY DEF TypeOK, Pointers
<1>2. CASE Joins(serial)
  <2>1. PICK text \in Texts : sta' = Reread(sta, text)
    BY <1>2, JoinsEffect
  <2>2. PICK s \in StaNames, p \in Places : job'.sta = Lent(s, p)
    BY <1>2, JoinsEffect
  <2>3. job'.sta.at # "own"
    BY <2>2, RealNames, LentType
  <2> QED
    BY <1>1, <1>2, <2>1, <2>3, RereadName, JoinsEffect
<1>3. CASE SetAp(serial)
  BY <1>1, <1>3, SetApEffect, RereadName
<1>4. CASE DdsmCtrl(serial)
  <2>1. sta' = Reread(sta, NoText) /\ job' = job /\ phase = "loop"
    BY <1>4 DEF DdsmCtrl, StaReread, Received, jobVars
  <2> QED
    BY <1>1, <2>1, NoTextType, RereadName
<1>5. CASE Opens(serial) \/ WifiStop(serial) \/ ResetSettings(serial) \/ HeartbeatTime(serial)
  <2>1. sta' = sta /\ job' = job /\ phase = "loop"
    BY <1>5 DEF Opens, CreateByStatus, ConfigModeOnBoot, WifiStop, ResetSettings, HeartbeatTime,
      Received, jobVars, nameVars
  <2> QED
    BY <2>1
<1> QED
  BY <1>2, <1>3, <1>4, <1>5 DEF Command, Joins, Opens

LEMMA SavedInit == Init => SavedAgrees
BY DEF Init, SavedAgrees, NoJob

LEMMA SavedStep == TypeOK /\ WifiInv /\ SavedAgrees /\ [Next]_vars => SavedAgrees'
<1> SUFFICES ASSUME TypeOK, WifiInv, SavedAgrees, [Next]_vars PROVE SavedAgrees'
  OBVIOUS
<1> USE DEF SavedAgrees
<1>1. ASSUME NEW serial \in BOOLEAN, Command(serial) PROVE SavedAgrees'
  <2>1. CASE ResetSettings(serial)
    <3>1. file'.sta = Null /\ UNCHANGED <<job, sta>>
      BY <2>1 DEF ResetSettings, NoFile, jobVars, nameVars
    <3> QED
      BY <3>1
  <2>2. CASE ~ResetSettings(serial)
    <3>1. file' = file \/ (file.sta = Null /\ file'.sta = Null)
      BY <1>1, <2>2, CommandKeeps
    <3>2. /\ sta'.at = sta.at /\ (sta.at = "own" => sta' = sta)
          /\ job' = job \/ job'.sta.at # "own"
          /\ phase = "loop" /\ job = NoJob
      BY <1>1, CommandNames DEF WifiInv, JobAgrees
    <3>3. NoJob.mode = 0
      BY DEF NoJob
    <3> QED
      BY <3>1, <3>2, <3>3
  <2> QED
    BY <2>1, <2>2
<1>2. CASE InitWifi
  <2>1. Loaded.sta \in Names /\ (file.sta # Null => Loaded.sta = file.sta)
    BY LoadedType DEF Loaded, NoFile
  <2>2. /\ sta' = Own(Loaded.sta) /\ file' = file /\ job = NoJob
        /\ job' = job \/ job'.sta = Own(Loaded.sta)
    BY <1>2, InitWifiEffect DEF jobVars, WifiInv, JobAgrees
  <2>3. sta'.name = Loaded.sta /\ NoJob.mode = 0
    BY <2>1, <2>2, LentType DEF NoJob, Places
  <2> QED
    BY <2>1, <2>2, <2>3
<1>3. CASE ConnectSucceeds
  <2>1. /\ sta' = job.sta /\ phase = "connecting" /\ (job' = job \/ job' = NoJob)
        /\ file' = file \/ (file.sta = Null /\ file'.sta = Null)
    BY <1>3, OpenKeeps DEF ConnectSucceeds
  <2>2. job.mode # 0
    BY <2>1 DEF WifiInv, AirAgrees
  <2>3. NoJob.mode = 0
    BY DEF NoJob
  <2> QED
    BY <2>1, <2>2, <2>3
<1>4. CASE ConnectTimesOut
  <2>1. /\ sta' = sta /\ phase = "connecting" /\ (job' = job \/ job' = NoJob)
        /\ file' = file \/ (file.sta = Null /\ file'.sta = Null)
    BY <1>4, OpenKeeps DEF ConnectTimesOut
  <2>2. NoJob.mode = 0
    BY DEF NoJob
  <2> QED
    BY <2>1, <2>2
<1>5. CASE SaveConfig
  <2>1. file'.sta = sta.name /\ sta' = sta /\ job' = NoJob /\ NoJob.mode = 0
    BY <1>5 DEF SaveConfig, nameVars, NoJob
  <2> QED
    BY <2>1
<1>6. CASE PowerCut
  <2>1. phase' = "off" /\ job' = NoJob /\ NoJob.mode = 0
    BY <1>6 DEF PowerCut, NoJob
  <2> QED
    BY <2>1
<1>7. CASE HeartbeatCtrl \/ Elapse \/ UNCHANGED vars
  BY <1>7 DEF HeartbeatCtrl, Elapse, vars, jobVars, nameVars
<1> QED
  BY <1>1, <1>2, <1>3, <1>4, <1>5, <1>6, <1>7 DEF Next

\* A network that was saved stays in the file, even if the power fails while the file is being
\* written again, and it stays the same one as long as the name in use is the board's own;
\* only resetting the settings removes it.
THEOREM SavedSurvives == Spec => SavedNetworkSurvives
<1> DEFINE Kept ==
      file.sta # Null /\ ~(\E serial \in BOOLEAN : ResetSettings(serial)) =>
        /\ file'.sta # Null
        /\ sta.at = "own" => file'.sta = file.sta
<1>1. TypeOK /\ WifiInv /\ SavedAgrees /\ [Next]_vars => [Kept]_vars
  <2> SUFFICES ASSUME TypeOK, WifiInv, SavedAgrees, Next, file.sta # Null,
                      \A serial \in BOOLEAN : ~ResetSettings(serial)
               PROVE  file'.sta # Null /\ (sta.at = "own" => file'.sta = file.sta)
    OBVIOUS
  <2>1. CASE SaveConfig
    <3>1. file'.sta = sta.name /\ phase = "saving" /\ sta.name # Null
      BY <2>1 DEF SaveConfig, WifiInv, NamesAgree
    <3> QED
      BY <3>1 DEF SavedAgrees
  <2>2. CASE InitWifi \/ ConnectSucceeds \/ ConnectTimesOut
    BY <2>2, OpenKeeps DEF InitWifi, ConnectSucceeds, ConnectTimesOut
  <2>3. CASE \E serial \in BOOLEAN : Command(serial)
    BY <2>3, CommandKeeps
  <2>4. CASE HeartbeatCtrl \/ Elapse \/ PowerCut
    BY <2>4 DEF HeartbeatCtrl, Elapse, PowerCut
  <2> QED
    BY <2>1, <2>2, <2>3, <2>4 DEF Next
<1> QED
  BY <1>1, TypeInit, TypeStep, WifiInit, WifiStep, SavedInit, SavedStep, PTL
  DEF Spec, SavedNetworkSurvives

\* What is saved by status are the board's own names on the air, and after a first connection
\* the network that was joined, to be joined again after the next start.
THEOREM NamesSaved == Spec => NamesRemembered
<1> DEFINE Remembers ==
      phase = "saving" /\ phase' = "loop" =>
       /\ job # NoJob /\ ~wifiConfigFound /\ air.sta # None
            => file'.mode = 3 /\ file'.sta = air.sta
       /\ job = NoJob /\ ap.at = "own" /\ air.ap # None => file'.ap = air.ap
       /\ job = NoJob /\ sta.at = "own" /\ air.sta # None => file'.sta = air.sta
<1>1. TypeOK /\ WifiInv /\ [Next]_vars => [Remembers]_vars
  <2> SUFFICES ASSUME WifiInv, Next, phase = "saving", phase' = "loop" PROVE Remembers
    OBVIOUS
  <2>1. SaveConfig
    <3>1. \A serial \in BOOLEAN : ~Received(serial)
      BY DEF Received
    <3>2. \A serial \in BOOLEAN : ~Command(serial)
      BY <3>1 DEF Command, SetAp, SetSta, SetApSta, CreateByInput, CreateByStatus, ConfigModeOnBoot,
        WifiStop, ResetSettings, HeartbeatTime, DdsmCtrl
    <3> QED
      BY <3>2 DEF Next, InitWifi, ConnectSucceeds, ConnectTimesOut, HeartbeatCtrl, Elapse, PowerCut
  <2>2. file' = [mode |-> wifi_mode_on_boot, ap |-> ap.name, sta |-> sta.name]
    BY <2>1 DEF SaveConfig
  <2> QED
    BY <2>2 DEF WifiInv, NamesAgree
<1> QED
  BY <1>1, TypeInit, TypeStep, WifiInit, WifiStep, PTL DEF Spec, NamesRemembered
=============================================================================
