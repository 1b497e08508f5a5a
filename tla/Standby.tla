------------------------------ MODULE Standby ------------------------------
(***************************************************************************)
(* The display's tasks around standby (main.cc, network_portal.cc,         *)
(* auto_ota_v2.cc): the main loop, which enters standby on POWER and opens *)
(* the manual OTA window on BOOT; the feed and the touch task, which it    *)
(* parks with event bits; the automatic updater behind its gate; and the   *)
(* portal with its web server, which main, the feed task, the Wi-Fi events *)
(* and two timers start and stop.                                          *)
(*                                                                         *)
(* at[t] is where task t is.  httpd_stop() waits for the request that the  *)
(* server's one thread is in.  The code reads some pairs of flags one      *)
(* after the other (armed and busy, suspended and portal_active); here     *)
(* these are read in one step.                                             *)
(***************************************************************************)
EXTENDS FiniteSets

Workers == {"feed", "touch"}

VARIABLES
  at,         \* where each task is
  asked,      \* STANDBY_REQUEST
  idle,       \* FEED_IDLE, TOUCH_IDLE
  gate,       \* who holds ota_gate
  armed,      \* ota_armed_
  window,     \* ota_timer is running
  portal,     \* portal_active_
  server,     \* http_server
  fallback,   \* connection_timer
  connected,  \* connected_
  suspended,  \* suspended_
  restore,    \* resume_portal_
  slipped     \* history: the upload began when its window had closed

bits == <<asked, idle>>
net == <<portal, server, fallback, connected, suspended, restore>>
ota == <<armed, window, slipped>>
vars == <<at, bits, gate, ota, net>>

Places == [
  main |-> {"awake", "pause", "clear", "ask", "wait", "suspend", "stopping", "wifi_stop",
            "asleep", "resume_serve", "release", "giveback", "arm_serve", "arm_timer"},
  feed |-> {"top", "work", "stopping", "seen", "parked", "leaving"},
  touch |-> {"top", "work", "seen", "parked", "leaving", "gone"},
  updater |-> {"rest", "check", "write", "restart"},
  httpd |-> {"idle", "form", "admitted", "upload"},
  timer |-> {"idle", "serve"},
  event |-> {"idle", "stopping"},
  close |-> {"idle", "spawned", "stopping"}]

\* Where main is when it is not in enter_screen_off_standby() with the gate.
Loop == {"awake", "pause", "arm_serve", "arm_timer"}

PlacesOK ==
  /\ DOMAIN at = DOMAIN Places
  /\ \A t \in DOMAIN Places : at[t] \in Places[t]

GateOK ==
  /\ gate \in {"none", "main", "updater"}
  /\ (gate = "updater") = (at["updater"] # "rest")
  /\ (gate = "main") = (at["main"] \notin Loop)

FlagsOK ==
  /\ asked \in BOOLEAN /\ idle \subseteq Workers
  /\ armed \in BOOLEAN /\ window \in BOOLEAN /\ slipped \in BOOLEAN
  /\ portal \in BOOLEAN /\ connected \in BOOLEAN
  /\ suspended \in BOOLEAN /\ restore \in BOOLEAN
  /\ server \in {"off", "on", "stopping"}
  /\ fallback \in {"absent", "off", "on"}

TypeOK == PlacesOK /\ GateOK /\ FlagsOK

\* app_main(), NetworkPortal::Initialize: without a saved network or a finished
\* setup the portal opens at once, and there is no fallback timer in this boot.
\* touch_task() ends at once when it finds no controller.
Started(touch) == [
  main |-> "awake", feed |-> "top", touch |-> touch, updater |-> "rest", httpd |-> "idle",
  timer |-> "idle", event |-> "idle", close |-> "idle"]

Init ==
  /\ at \in {Started(touch) : touch \in {"top", "gone"}}
  /\ asked = FALSE /\ idle = {} /\ gate = "none"
  /\ armed = FALSE /\ window = FALSE /\ slipped = FALSE
  /\ portal \in BOOLEAN
  /\ server = (IF portal THEN "on" ELSE "off")
  /\ fallback = (IF portal THEN "absent" ELSE "on")
  /\ connected = FALSE /\ suspended = FALSE /\ restore = FALSE

\* esp_restart() into a new slot, abort(), or no more power.
Reboot ==
  /\ at' \in {Started(touch) : touch \in {"top", "gone"}}
  /\ asked' = FALSE /\ idle' = {} /\ gate' = "none"
  /\ armed' = FALSE /\ window' = FALSE /\ slipped' = FALSE
  /\ portal' \in BOOLEAN
  /\ server' = (IF portal' THEN "on" ELSE "off")
  /\ fallback' = (IF portal' THEN "absent" ELSE "on")
  /\ connected' = FALSE /\ suspended' = FALSE /\ restore' = FALSE

Goto(t, place) == at' = [at EXCEPT ![t] = place]
Step(t, from, to) == at[t] = from /\ Goto(t, to)

-----------------------------------------------------------------------------
(* The portal, from whichever task *)

AfterStop == [main |-> "wifi_stop", feed |-> "top", event |-> "idle", close |-> "idle"]

\* StopPortal(): whoever takes portal_active_ waits in httpd_stop().
StopPortal(t) ==
  IF portal
  THEN /\ portal' = FALSE /\ armed' = FALSE /\ window' = FALSE
       /\ server' = (IF server = "off" THEN "off" ELSE "stopping")
       /\ Goto(t, IF server = "off" THEN AfterStop[t] ELSE "stopping")
  ELSE Goto(t, AfterStop[t]) /\ UNCHANGED <<portal, armed, window, server>>

Stopped(t) ==
  /\ at["httpd"] = "idle"
  /\ Step(t, "stopping", AfterStop[t])
  /\ server' = "off"
  /\ UNCHANGED <<bits, gate, ota, portal, fallback, connected, suspended, restore>>

AfterServe == [serve |-> "idle", arm_serve |-> "arm_timer", resume_serve |-> "release"]

\* StartPortal() up to portal_active_, and the rest.
StartPortal(t, serving) ==
  IF suspended' \/ portal
  THEN Goto(t, AfterServe[serving]) /\ UNCHANGED portal
  ELSE Goto(t, serving) /\ portal' = TRUE

\* httpd_start() fails while the former server has the port; ESP_ERROR_CHECK aborts.
Serve(t) ==
  /\ at[t] \in DOMAIN AfterServe
  /\ \/ /\ server = "off" /\ server' = "on"
        /\ Goto(t, AfterServe[at[t]])
        /\ UNCHANGED <<bits, gate, ota, portal, fallback, connected, suspended, restore>>
     \/ server # "off" /\ Reboot

-----------------------------------------------------------------------------
(* The main loop: enter_screen_off_standby() *)

\* A short press of POWER; refused while manual OTA is armed or busy.
Power ==
  /\ ~armed /\ at["httpd"] # "upload"
  /\ Step("main", "awake", "pause")
  /\ UNCHANGED <<bits, gate, ota, net>>

\* PauseV2AutomaticOtaForStandby(20000)
Pause ==
  /\ gate = "none" /\ gate' = "main"
  /\ Step("main", "pause", "clear")
  /\ UNCHANGED <<bits, ota, net>>

\* Mutant: the gate is given back although it was not taken.
PauseTimesOutGivingBack ==
  /\ gate = "updater" /\ gate' = "none"
  /\ Step("main", "pause", "awake")
  /\ UNCHANGED <<bits, ota, net>>

PauseTimesOut ==
  /\ gate = "updater"
  /\ Step("main", "pause", "awake")
  /\ UNCHANGED <<bits, gate, ota, net>>

ClearIdle ==
  /\ Step("main", "clear", "ask")
  /\ idle' = {}
  /\ UNCHANGED <<asked, gate, ota, net>>

Ask ==
  /\ Step("main", "ask", "wait")
  /\ asked' = TRUE
  /\ UNCHANGED <<idle, gate, ota, net>>

\* Mutant: one bit is enough.
AllIdleButOne ==
  /\ idle # {}
  /\ Step("main", "wait", "suspend")
  /\ UNCHANGED <<bits, gate, ota, net>>

\* xEventGroupWaitBits: all bits, or 20 seconds.
AllIdle ==
  /\ idle = Workers
  /\ Step("main", "wait", "suspend")
  /\ UNCHANGED <<bits, gate, ota, net>>

\* Mutant: the request is not withdrawn.
GiveUpStillAsking ==
  /\ idle # Workers
  /\ Step("main", "wait", "giveback")
  /\ UNCHANGED <<bits, gate, ota, net>>

GiveUp ==
  /\ idle # Workers
  /\ Step("main", "wait", "giveback")
  /\ asked' = FALSE
  /\ UNCHANGED <<idle, gate, ota, net>>

\* Suspend(): the portal, then Wi-Fi.
Suspend ==
  /\ at["main"] = "suspend"
  /\ suspended' = TRUE /\ restore' = portal
  /\ fallback' = (IF fallback = "absent" THEN "absent" ELSE "off")
  /\ StopPortal("main")
  /\ UNCHANGED <<bits, gate, slipped, connected>>

WifiStop ==
  /\ Step("main", "wifi_stop", "asleep")
  /\ connected' = FALSE
  /\ UNCHANGED <<bits, gate, ota, portal, server, fallback, suspended, restore>>

\* The second press: Resume(), where esp_wifi_start may fail.
Wake ==
  /\ at["main"] = "asleep"
  /\ suspended' = FALSE /\ restore' = FALSE
  /\ \/ restore /\ StartPortal("main", "resume_serve")
     \/ Goto("main", "release") /\ UNCHANGED portal
  /\ UNCHANGED <<bits, gate, ota, server, fallback, connected>>

Release ==
  /\ Step("main", "release", "giveback")
  /\ asked' = FALSE
  /\ UNCHANGED <<idle, gate, ota, net>>

\* ResumeV2AutomaticOtaAfterStandby()
GiveBack ==
  /\ Step("main", "giveback", "awake")
  /\ gate' = "none"
  /\ UNCHANGED <<bits, ota, net>>

\* BOOT held for ten seconds: ArmOta().
Arm ==
  /\ at["main"] = "awake"
  /\ armed' = TRUE
  /\ UNCHANGED <<bits, gate, window, slipped, server, fallback, connected, suspended, restore>>
  /\ StartPortal("main", "arm_serve")

ArmTimer ==
  /\ Step("main", "arm_timer", "awake")
  /\ window' = TRUE
  /\ UNCHANGED <<bits, gate, armed, slipped, net>>

\* What main does without a button.
Main ==
  \/ Pause \/ PauseTimesOut \/ ClearIdle \/ Ask \/ AllIdle \/ GiveUp
  \/ Suspend \/ Stopped("main") \/ WifiStop \/ Serve("main") \/ Release \/ GiveBack \/ ArmTimer

-----------------------------------------------------------------------------
(* fetch_task() and touch_task() *)

See(w) ==
  /\ asked
  /\ Step(w, "top", "seen")
  /\ UNCHANGED <<bits, gate, ota, net>>

SetIdle(w) ==
  /\ Step(w, "seen", "parked")
  /\ idle' = idle \cup {w}
  /\ UNCHANGED <<asked, gate, ota, net>>

Leave(w) ==
  /\ ~asked
  /\ Step(w, "parked", "leaving")
  /\ UNCHANGED <<bits, gate, ota, net>>

ClearOwn(w) ==
  /\ Step(w, "leaving", "top")
  /\ idle' = idle \ {w}
  /\ UNCHANGED <<asked, gate, ota, net>>

\* fetch(), or one sample of the touch controller.
Work(w) ==
  /\ ~asked
  /\ Step(w, "top", "work")
  /\ UNCHANGED <<bits, gate, ota, net>>

WorkDone(w) ==
  /\ Step(w, "work", "top")
  /\ UNCHANGED <<bits, gate, ota, net>>

\* A claim that ends the setup: CompletePendingSetup().
SetupDone ==
  /\ at["feed"] = "work" /\ connected /\ ~armed /\ portal
  /\ StopPortal("feed")
  /\ UNCHANGED <<bits, gate, slipped, fallback, connected, suspended, restore>>

Worker(w) ==
  \/ See(w) \/ SetIdle(w) \/ Leave(w) \/ ClearOwn(w) \/ Work(w) \/ WorkDone(w)
  \/ w = "feed" /\ (SetupDone \/ Stopped("feed"))

-----------------------------------------------------------------------------
(* AutomaticOtaTask() *)

MayUpdate == connected /\ ~portal /\ ~armed

TakeGate ==
  /\ gate = "none" /\ MayUpdate
  /\ Step("updater", "rest", "check")
  /\ gate' = "updater"
  /\ UNCHANGED <<bits, ota, net>>

\* DownloadAndInstall(): asked again before the transfer and before the slot is selected.
Download ==
  /\ MayUpdate
  /\ Step("updater", "check", "write")
  /\ UNCHANGED <<bits, gate, ota, net>>

Install ==
  /\ MayUpdate
  /\ Step("updater", "write", "restart")
  /\ UNCHANGED <<bits, gate, ota, net>>

\* No newer release, or something failed.
GiveGate ==
  /\ at["updater"] \in {"check", "write"}
  /\ Goto("updater", "rest")
  /\ gate' = "none"
  /\ UNCHANGED <<bits, ota, net>>

Updater == TakeGate \/ Download \/ Install \/ GiveGate

-----------------------------------------------------------------------------
(* The web server's thread *)

\* Any request with a body (/save, /abort-pending, /factory-reset).
Request ==
  /\ server = "on"
  /\ Step("httpd", "idle", "form")
  /\ UNCHANGED <<bits, gate, ota, net>>

\* OtaHandler(): the window and its code, then ota_upload_active.
Admit ==
  /\ server = "on" /\ armed
  /\ Step("httpd", "idle", "admitted")
  /\ UNCHANGED <<bits, gate, ota, net>>

Upload ==
  /\ Step("httpd", "admitted", "upload")
  /\ slipped' = ~armed
  /\ UNCHANGED <<bits, gate, armed, window, net>>

\* After an accepted upload RestartTask reboots the display a little later: Reboot.
RequestEnds ==
  /\ at["httpd"] # "idle"
  /\ Goto("httpd", "idle")
  /\ slipped' = FALSE
  /\ UNCHANGED <<bits, gate, armed, window, net>>

Httpd == Request \/ Admit \/ Upload \/ RequestEnds

-----------------------------------------------------------------------------
(* Timers and Wi-Fi events *)

\* OtaTimeout(); only a provisioned display closes its portal.
WindowEnds ==
  /\ window /\ at["timer"] = "idle"
  /\ window' = FALSE /\ armed' = FALSE
  /\ \/ UNCHANGED at
     \/ connected /\ Step("close", "idle", "spawned")
  /\ UNCHANGED <<bits, gate, slipped, net>>

ClosePortalTask ==
  /\ at["close"] = "spawned"
  /\ StopPortal("close")
  /\ UNCHANGED <<bits, gate, slipped, fallback, connected, suspended, restore>>

ConnectionTimeout ==
  /\ fallback = "on" /\ fallback' = "off" /\ at["timer"] = "idle"
  /\ UNCHANGED <<bits, gate, ota, server, connected, suspended, restore>>
  /\ IF connected THEN UNCHANGED <<at, portal>> ELSE StartPortal("timer", "serve")

\* EventHandler, IP_EVENT_STA_GOT_IP: the portal of a finished setup is closed.
GotIp ==
  /\ at["event"] = "idle" /\ ~suspended
  /\ connected' = TRUE
  /\ fallback' = (IF fallback = "absent" THEN "absent" ELSE "off")
  /\ \/ ~armed /\ StopPortal("event")
     \/ UNCHANGED <<at, portal, armed, window, server>>
  /\ UNCHANGED <<bits, gate, slipped, suspended, restore>>

\* EventHandler, WIFI_EVENT_STA_DISCONNECTED
Disconnected ==
  /\ at["event"] = "idle" /\ ~suspended /\ connected
  /\ connected' = FALSE
  /\ fallback' = (IF fallback = "absent" \/ portal THEN fallback ELSE "on")
  /\ UNCHANGED <<at, bits, gate, ota, portal, server, suspended, restore>>

Events ==
  \/ WindowEnds \/ ClosePortalTask \/ Stopped("close")
  \/ ConnectionTimeout \/ Serve("timer")
  \/ GotIp \/ Stopped("event") \/ Disconnected

-----------------------------------------------------------------------------
Next ==
  \/ Power \/ Wake \/ Arm \/ Main
  \/ \E w \in Workers : Worker(w)
  \/ Updater \/ Httpd \/ Events
  \/ Reboot

\* Main and the workers run, and every wait of theirs has a timeout but for
\* httpd_stop().  Requests, buttons and the network need not do anything.
Fairness == WF_vars(Main) /\ \A w \in Workers : WF_vars(Worker(w))

Spec == Init /\ [][Next]_vars /\ Fairness

-----------------------------------------------------------------------------
(* Properties *)

\* In standby neither worker is in the middle of its work, the automatic updater
\* has nothing under way, the network and the portal are down, and no firmware is
\* being uploaded, whichever of them started or ended anything while main waited
\* (enter_screen_off_standby; THREAT_MODEL.md: "defers standby while its window is
\* open").  An upload that was let in before its window closed and began after
\* main had looked is known to slip through (slipped).
StandbyIsQuiet ==
  at["main"] = "asleep" =>
    /\ at["feed"] \notin {"work", "stopping"} /\ at["touch"] # "work"
    /\ at["updater"] = "rest"
    /\ ~connected /\ ~portal
    /\ at["httpd"] = "upload" => slipped

\* The display never ends up neither asleep nor alive.  It sleeps again and again, or
\* main returns to its loop again and again and, once it stays there, the feed is
\* fetched again and again, however many standbys were given up before
\* (enter_screen_off_standby, fetch_task).  Only a request that never ends can hold a
\* task, in httpd_stop().
AliveOrAsleep ==
  \/ []<>(at["main"] = "asleep")
  \/ /\ []<>(at["main"] = "awake")
     /\ <>[](at["main"] \in Loop) => []<>(at["feed"] = "work")
  \/ <>[](\E t \in {"main", "feed"} : at[t] = "stopping")
=============================================================================
