----------------------------- MODULE BoardWifi -----------------------------
(***************************************************************************)
(* The radio of the ESP32 board and the file it is configured from.        *)
(*                                                                         *)
(* The board is set up from /wifiConfig.json and then runs loop().  A      *)
(* command that joins a network does not return to loop() before the       *)
(* network was joined or 15 s have passed: meanwhile no command is read    *)
(* and the motor-stop watchdog does not run.                               *)
(*                                                                         *)
(* The names in use are pointers.  A name that came with a command points  *)
(* into the document the command was parsed into, and reads differently    *)
(* once a later command was parsed there.                                  *)
(*                                                                         *)
(* Access points that come and go once joined, and a full or broken flash, *)
(* are left out; a password goes with its name.                            *)
(***************************************************************************)
EXTENDS Integers

CONSTANTS
  ApNames,   \* names given to the board's own access point
  StaNames,  \* networks that may be in reach
  BootModes, \* modes that commands configure, any bytes
  Limit,     \* heartbeat_time_ms once it is set, in units of Elapse
  Timeout    \* connectionTimeout, in units of Elapse

\* A name that is missing, and nothing or nobody on the air.
Null == "null"
None == "nobody"

ASSUME WifiAssumption ==
  /\ {Null, None} \cap (ApNames \cup StaNames) = {}
  /\ BootModes \subseteq 0 .. 254
  /\ Limit \in Nat /\ Timeout \in Nat \ {0}

VARIABLES
  phase,    \* "off", in loop(), waiting for a network, or writing the file
  job,      \* the connection under way or just ended
  waited,   \* how long it has been tried
  wifi_mode_on_boot, wifi_current_mode, wifiConfigFound,
  ap, sta,  \* ap_ssid and sta_ssid: what they read, and where they point
  file,     \* external: what /wifiConfig.json reads as
  air,      \* external: the access point that is up, the network that was joined
  turning,  \* external: a motor turns
  heartbeat_on, stop_flag, silence  \* the watchdog of DriveBoard

jobVars   == <<job, waited>>
modeVars  == <<wifi_mode_on_boot, wifi_current_mode, wifiConfigFound>>
nameVars  == <<ap, sta>>
watchVars == <<heartbeat_on, stop_flag, silence>>
vars == <<phase, jobVars, modeVars, nameVars, file, air, turning, watchVars>>

Garbled == "garbled"
DefaultAp == "ESP32-AP"
DefaultSta == "none"

Names == ApNames \cup StaNames \cup {Null, Garbled, DefaultAp, DefaultSta}

\* WIFI_CURRENT_MODE is a byte that starts at -1.
Unset == 255

\* What an empty file, as creating one leaves it, is read as.
Blank == [mode |-> 0, ap |-> Null, sta |-> Null]
NoFile == [mode |-> Unset, ap |-> Null, sta |-> Null]

\* Where in jsonCmdReceive the names of each kind of command lie.
Places == {"ssid", "apsta_ap", "apsta_sta", "input_ap", "input_sta"}

Own(name) == [name |-> name, at |-> "own"]
Lent(name, place) == [name |-> name, at |-> place]

NoJob == [mode |-> 0, sta |-> Own(Null), save |-> FALSE]

-----------------------------------------------------------------------------
(* What the functions of wifi_ctrl.h do *)

\* (mutant) a missing file is read all the same
LoadAnyway == file

\* loadWifiConfig: without a file the globals keep their initial values.
Loaded == IF file = NoFile THEN [mode |-> 1, ap |-> DefaultAp, sta |-> DefaultSta] ELSE file

\* WiFi.softAP refuses a null name and changes nothing.
SoftAp(name) == IF name = Null THEN air.ap ELSE name

WifiModeAP(name) ==
  /\ wifi_current_mode' = 1
  /\ ap' = name
  /\ air' = [ap |-> SoftAp(name.name), sta |-> None]

\* The head of wifiModeSTA and wifiModeAPSTA, up to the wait for the network.
Join(mode, name, save) ==
  /\ phase' = "connecting" /\ waited' = 0
  /\ job' = [mode |-> mode, sta |-> name, save |-> save]

\* (mutant) the file is removed before it is written
OpenAnew == phase' = "saving" /\ file' = Blank

\* createWifiConfigFileByStatus opens the file.  Opening creates it; of a file that is
\* there the content stays until it is closed.
OpenFile == phase' = "saving" /\ file' = IF file = NoFile THEN Blank ELSE file

\* (mutant) the file is written before the name is taken over
SaveEarly ==
  /\ phase = "saving"
  /\ file' = [mode |-> wifi_mode_on_boot, ap |-> ap.name,
              sta |-> IF job = NoJob THEN sta.name ELSE DefaultSta]
  /\ phase' = "loop" /\ job' = NoJob
  /\ UNCHANGED <<waited, modeVars, nameVars, air, turning, watchVars>>

SaveConfig ==
  /\ phase = "saving"
  /\ file' = [mode |-> wifi_mode_on_boot, ap |-> ap.name, sta |-> sta.name]
  /\ phase' = "loop" /\ job' = NoJob
  /\ UNCHANGED <<waited, modeVars, nameVars, air, turning, watchVars>>

-----------------------------------------------------------------------------
(* setup(): initWifi *)

WifiModeOnBoot(c) ==
  \/ /\ c.mode = 1
     /\ phase' = "loop" /\ wifi_current_mode' = 1
     /\ air' = [ap |-> SoftAp(c.ap), sta |-> None]
     /\ UNCHANGED jobVars
  \/ /\ c.mode = 2
     /\ Join(2, Own(c.sta), FALSE) /\ UNCHANGED <<wifi_current_mode, air>>
  \/ /\ c.mode = 3
     /\ Join(3, Own(c.sta), FALSE)
     /\ air' = [ap |-> SoftAp(c.ap), sta |-> None] /\ UNCHANGED wifi_current_mode
  \/ /\ c.mode \notin 1 .. 3
     /\ phase' = "loop" /\ wifi_current_mode' = IF c.mode = 0 THEN 0 ELSE Unset
     /\ UNCHANGED <<jobVars, air>>

InitWifi ==
  /\ phase = "off"
  /\ wifiConfigFound' = (file # NoFile)
  /\ wifi_mode_on_boot' = Loaded.mode
  /\ ap' = Own(Loaded.ap) /\ sta' = Own(Loaded.sta)
  /\ WifiModeOnBoot(Loaded)
  /\ UNCHANGED <<file, turning, watchVars>>

\* The wait ends: the network was joined.  The first one ever is remembered.
ConnectSucceeds ==
  /\ phase = "connecting" /\ job.sta.name \in StaNames
  /\ wifi_current_mode' = job.mode
  /\ sta' = job.sta
  /\ air' = [air EXCEPT !.sta = job.sta.name]
  /\ wifi_mode_on_boot' = IF wifiConfigFound THEN wifi_mode_on_boot ELSE 3
  /\ IF job.save \/ ~wifiConfigFound
     THEN OpenFile /\ UNCHANGED job
     ELSE phase' = "loop" /\ job' = NoJob /\ UNCHANGED file
  /\ UNCHANGED <<waited, wifiConfigFound, ap, turning, watchVars>>

\* (mutant) a network is waited for without end
NeverTimedOut == FALSE

\* connectionTimeout
TimedOut == waited = Timeout

\* (mutant) giving up without an access point
NoFallback == wifi_current_mode' = 1 /\ UNCHANGED <<ap, air>>

FallBack == WifiModeAP(ap)

\* The wait ends: 15 s have passed.  createWifiConfigFileByInput saves all the same.
ConnectTimesOut ==
  /\ phase = "connecting" /\ TimedOut
  /\ FallBack
  /\ IF job.save
     THEN OpenFile /\ UNCHANGED job
     ELSE phase' = "loop" /\ job' = NoJob /\ UNCHANGED file
  /\ UNCHANGED <<waited, wifi_mode_on_boot, wifiConfigFound, sta, turning, watchVars>>

-----------------------------------------------------------------------------
(* loop(): commands, on the serial line or from a browser *)

\* What serialCtrl, unlike the /js handler, does for the watchdog.
Received(serial) ==
  /\ phase = "loop"
  /\ silence' = IF serial THEN 0 ELSE silence
  /\ stop_flag' = (stop_flag /\ ~serial)

\* What a name reads once a command with these texts was parsed into jsonCmdReceive.
Reread(name, text) ==
  IF name.at \in Places THEN [name EXCEPT !.name = text[name.at]] ELSE name

NoText == [p \in Places |-> Garbled]

StaReread(text) == sta' = Reread(sta, text)

SetAp(serial) ==
  /\ Received(serial)
  /\ \E name \in ApNames :
       /\ WifiModeAP(Lent(name, "ssid"))
       /\ StaReread([NoText EXCEPT !["ssid"] = name])
  /\ UNCHANGED <<phase, jobVars, wifi_mode_on_boot, wifiConfigFound, file, turning, heartbeat_on>>

SetSta(serial) ==
  /\ Received(serial)
  /\ \E name \in StaNames :
       /\ Join(2, Lent(name, "ssid"), FALSE)
       /\ ap' = Reread(ap, [NoText EXCEPT !["ssid"] = name])
       /\ StaReread([NoText EXCEPT !["ssid"] = name])
  /\ air' = [air EXCEPT !.sta = None]
  /\ UNCHANGED <<modeVars, file, turning, heartbeat_on>>

\* CMD_WIFI_APSTA, and with a mode to keep CMD_WIFI_CONFIG_CREATE_BY_INPUT.
StartApSta(apName, staName, apPlace, staPlace, save) ==
  /\ Join(3, Lent(staName, staPlace), save)
  /\ ap' = Lent(apName, apPlace)
  /\ StaReread([NoText EXCEPT ![apPlace] = apName, ![staPlace] = staName])
  /\ air' = [ap |-> SoftAp(apName), sta |-> None]

SetApSta(serial) ==
  /\ Received(serial)
  /\ \E a \in ApNames, s \in StaNames : StartApSta(a, s, "apsta_ap", "apsta_sta", FALSE)
  /\ UNCHANGED <<modeVars, file, turning, heartbeat_on>>

CreateByInput(serial) ==
  /\ Received(serial)
  /\ wifi_mode_on_boot' \in BootModes
  /\ \E a \in ApNames, s \in StaNames : StartApSta(a, s, "input_ap", "input_sta", TRUE)
  /\ UNCHANGED <<wifi_current_mode, wifiConfigFound, file, turning, heartbeat_on>>

\* Their texts are too short to reach a name in jsonCmdReceive.
CreateByStatus(serial) ==
  /\ Received(serial) /\ OpenFile
  /\ UNCHANGED <<jobVars, modeVars, nameVars, air, turning, heartbeat_on>>

ConfigModeOnBoot(serial) ==
  /\ Received(serial)
  /\ wifi_mode_on_boot' \in BootModes /\ OpenFile
  /\ UNCHANGED <<jobVars, wifi_current_mode, wifiConfigFound, nameVars, air, turning, heartbeat_on>>

WifiStop(serial) ==
  /\ Received(serial)
  /\ wifi_current_mode' = 0 /\ air' = [air EXCEPT !.sta = None]
  /\ UNCHANGED <<phase, jobVars, wifi_mode_on_boot, wifiConfigFound, nameVars, file, turning,
                 heartbeat_on>>

\* deleteFile; what was loaded stays in use.
ResetSettings(serial) ==
  /\ Received(serial)
  /\ file' = NoFile
  /\ UNCHANGED <<phase, jobVars, modeVars, nameVars, air, turning, heartbeat_on>>

HeartbeatTime(serial) ==
  /\ Received(serial)
  /\ heartbeat_on' \in BOOLEAN
  /\ UNCHANGED <<phase, jobVars, modeVars, nameVars, file, air, turning>>

\* ddsm_ctrl: "id", "cmd" and "act" overwrite what names point to.  One from a browser turns
\* the motor even while a watchdog stop is in force, and feeds nothing.
DdsmCtrl(serial) ==
  /\ Received(serial)
  /\ turning' \in BOOLEAN
  /\ ap' = Reread(ap, NoText) /\ StaReread(NoText)
  /\ UNCHANGED <<phase, jobVars, modeVars, file, air, heartbeat_on>>

-----------------------------------------------------------------------------
(* loop(): the watchdog; time; power *)

MustStop == heartbeat_on /\ silence > Limit /\ ~stop_flag

HeartbeatCtrl ==
  /\ phase = "loop" /\ MustStop
  /\ turning' = FALSE /\ stop_flag' = TRUE
  /\ UNCHANGED <<phase, jobVars, modeVars, nameVars, file, air, heartbeat_on, silence>>

\* loop() comes round to its watchdog before much time passes.
Elapse ==
  /\ \/ phase = "loop" /\ ~MustStop /\ silence <= Limit /\ UNCHANGED waited
     \/ phase = "connecting" /\ waited < Timeout /\ waited' = waited + 1
  /\ silence' = IF silence <= Limit THEN silence + 1 ELSE silence
  /\ UNCHANGED <<phase, job, modeVars, nameVars, file, air, turning, heartbeat_on, stop_flag>>

\* CMD_REBOOT, a fault, or the power fails; the motors may have power of their own.
PowerCut ==
  /\ phase # "off" /\ phase' = "off"
  /\ job' = NoJob /\ waited' = 0
  /\ wifi_mode_on_boot' = 1 /\ wifi_current_mode' = Unset /\ wifiConfigFound' = FALSE
  /\ ap' = Own(DefaultAp) /\ sta' = Own(DefaultSta)
  /\ air' = [ap |-> None, sta |-> None]
  /\ turning' \in {turning, FALSE}
  /\ heartbeat_on' = FALSE /\ stop_flag' = FALSE /\ silence' = 0
  /\ UNCHANGED file

-----------------------------------------------------------------------------
\* A new board: no file.
Init ==
  /\ phase = "off" /\ job = NoJob /\ waited = 0
  /\ wifi_mode_on_boot = 1 /\ wifi_current_mode = Unset /\ wifiConfigFound = FALSE
  /\ ap = Own(DefaultAp) /\ sta = Own(DefaultSta)
  /\ file = NoFile
  /\ air = [ap |-> None, sta |-> None]
  /\ turning = FALSE
  /\ heartbeat_on = FALSE /\ stop_flag = FALSE /\ silence = 0

Command(serial) ==
  \/ SetAp(serial) \/ SetSta(serial) \/ SetApSta(serial)
  \/ CreateByInput(serial) \/ CreateByStatus(serial) \/ ConfigModeOnBoot(serial)
  \/ WifiStop(serial) \/ ResetSettings(serial) \/ HeartbeatTime(serial) \/ DdsmCtrl(serial)

Next ==
  \/ InitWifi \/ ConnectSucceeds \/ ConnectTimesOut \/ SaveConfig
  \/ \E serial \in BOOLEAN : Command(serial)
  \/ HeartbeatCtrl \/ Elapse \/ PowerCut

Spec == Init /\ [][Next]_vars

\* The processor runs: a wait is timed, ends and what follows it is done.  loop() calls
\* the watchdog every time round, whatever commands it finds (strong fairness).
Fairness ==
  /\ WF_vars(Elapse) /\ WF_vars(ConnectTimesOut) /\ WF_vars(SaveConfig)
  /\ SF_vars(HeartbeatCtrl)

FairSpec == Spec /\ Fairness

-----------------------------------------------------------------------------
(* Properties *)

TypeOK ==
  /\ phase \in {"off", "loop", "connecting", "saving"}
  /\ job \in [mode : {0, 2, 3}, sta : [name : Names, at : Places \cup {"own"}], save : BOOLEAN]
  /\ waited \in 0 .. Timeout
  /\ wifi_mode_on_boot \in BootModes \cup 0 .. 3
  /\ wifi_current_mode \in 0 .. 3 \cup {Unset} /\ wifiConfigFound \in BOOLEAN
  /\ ap \in [name : Names, at : Places \cup {"own"}]
  /\ sta \in [name : Names, at : Places \cup {"own"}]
  /\ file \in [mode : BootModes \cup 0 .. 3, ap : Names, sta : Names] \cup {NoFile}
  /\ air \in [ap : Names \cup {None}, sta : StaNames \cup {None}]
  /\ turning \in BOOLEAN /\ heartbeat_on \in BOOLEAN /\ stop_flag \in BOOLEAN
  /\ silence \in 0 .. Limit + 1

\* Between commands WIFI_CURRENT_MODE tells of the network: it is a station mode exactly when
\* one is joined, also after an attempt that failed, a stop, or a change of mode under way.
\* And in the modes with an access point there is one, to reach the board by, unless the
\* board has no name for it.  Of the modes 0 and 2 nothing is said about the access point:
\* wifiStop and a join in mode 2 leave up one that was there.
ModeTellsNetwork ==
  phase = "loop" =>
    /\ (wifi_current_mode \in {2, 3}) <=> (air.sta # None)
    /\ wifi_current_mode \in {1, 3} => air.ap # None \/ ap.name = Null

\* What is saved by status are the names on the air, as long as they are the board's own: one
\* that lies in jsonCmdReceive may be saved as what was parsed there since.  And the first
\* network that a board without a file joins is the one it will join after the next start, in
\* the mode that keeps its own access point up.
NamesRemembered ==
  [][phase = "saving" /\ phase' = "loop" =>
       /\ job # NoJob /\ ~wifiConfigFound /\ air.sta # None
            => file'.mode = 3 /\ file'.sta = air.sta
       /\ job = NoJob /\ ap.at = "own" /\ air.ap # None => file'.ap = air.ap
       /\ job = NoJob /\ sta.at = "own" /\ air.sta # None => file'.sta = air.sta]_vars

\* A network once saved is not lost to a power failure, not even to one in the middle of
\* writing the file again; and as long as the name in use is the one the board started with,
\* and not one that came with a command and lies in jsonCmdReceive, it is not changed either:
\* saving by status or for a new boot mode writes the same network back.  The command that
\* resets the settings removes it.
SavedNetworkSurvives ==
  [][file.sta # Null /\ ~(\E serial \in BOOLEAN : ResetSettings(serial)) =>
       /\ file'.sta # Null
       /\ sta.at = "own" => file'.sta = file.sta]_vars

\* A motor that turns when the watchdog's time is over, with no watchdog stop in force, comes
\* to rest, even if the board is just then waiting for a network, or is told to join one again
\* and again by a browser.  With a stop in force only a browser can have set it turning, and
\* nothing is promised.
WatchdogStops ==
  (turning /\ heartbeat_on /\ silence > Limit /\ ~stop_flag)
    ~> (~turning \/ ~heartbeat_on \/ silence <= Limit)
=============================================================================
