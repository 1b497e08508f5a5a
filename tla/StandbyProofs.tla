---------------------------- MODULE StandbyProofs ----------------------------
(***************************************************************************)
(* Proofs about Standby: whatever the workers, the updater, the web server *)
(* and the Wi-Fi events do while main enters standby, nothing is under way *)
(* once it sleeps.                                                         *)
(***************************************************************************)
EXTENDS Standby, TLAPS

-----------------------------------------------------------------------------
(* Tasks and places *)

Tasks == {"main", "feed", "touch", "updater", "httpd", "timer", "event", "close"}

LEMMA TaskPlaces ==
  /\ DOMAIN Places = Tasks
  /\ Workers \subseteq Tasks
BY DEF Places, Tasks, Workers

\* A task goes somewhere; the others stay.
LEMMA Moves ==
  ASSUME PlacesOK, NEW t \in Tasks, NEW place, Goto(t, place)
  PROVE  /\ DOMAIN at' = DOMAIN Places
         /\ at'[t] = place
         /\ \A u \in Tasks \ {t} : at'[u] = at[u]
BY TaskPlaces DEF PlacesOK, Goto

\* After a reboot every task is where it starts.
LEMMA RebootPlaces ==
  ASSUME Reboot
  PROVE  /\ PlacesOK'
         /\ at'["main"] = "awake" /\ at'["feed"] = "top" /\ at'["touch"] \in {"top", "gone"}
         /\ at'["updater"] = "rest" /\ at'["httpd"] = "idle"
         /\ gate' = "none" /\ idle' = {}
BY DEF Reboot, Started, Places, PlacesOK

\* ... and every flag has its first value.
LEMMA RebootFlags ==
  ASSUME Reboot
  PROVE  FlagsOK'
BY Zenon DEF Reboot, FlagsOK

\* Main goes on after httpd_start as it was called.
LEMMA ServeMoves ==
  ASSUME PlacesOK, Serve("main"), ~Reboot
  PROVE  \/ at["main"] = "arm_serve" /\ at'["main"] = "arm_timer"
         \/ at["main"] = "resume_serve" /\ at'["main"] = "release"
<1>1. at["main"] \in {"arm_serve", "resume_serve", "serve"} /\ at["main"] # "serve"
  BY DEF Serve, AfterServe, PlacesOK, Places
<1>2. at'["main"] = AfterServe[at["main"]]
  BY Moves DEF Serve, Tasks
<1> QED
  BY <1>1, <1>2 DEF AfterServe

-----------------------------------------------------------------------------
(* The inductive invariant *)

\* Main is between having seen both bits and withdrawing its request.
Deep == {"suspend", "stopping", "wifi_stop", "asleep", "resume_serve", "release"}

\* A bit that is set stands for a worker that has parked or is just leaving; the
\* request is up while main counts on the bits, so that none can begin work.
WorkersInv ==
  /\ \A w \in idle : at[w] \in {"parked", "leaving"}
  /\ at["main"] \in Deep \cup {"wait"} => asked
  /\ at["main"] \in Deep => \A w \in Workers : at[w] \notin {"work", "stopping"}

\* Suspend() keeps the portal and Wi-Fi down until Resume().
NetInv ==
  /\ at["main"] \in {"stopping", "wifi_stop", "asleep"} => suspended /\ ~portal
  /\ at["main"] = "asleep" => ~connected

\* Only the loop arms the upload window, and it looked for an upload as it left.
UploadInv ==
  at["main"] \notin {"awake", "arm_serve", "arm_timer"} =>
    /\ ~armed
    /\ at["httpd"] = "upload" => slipped

\* What every step preserves.
Inv == TypeOK /\ WorkersInv /\ NetInv /\ UploadInv

-----------------------------------------------------------------------------
(* Every step preserves it *)

\* Every step keeps every task in its places.
LEMMA PlacesPreserved ==
  ASSUME TypeOK, [Next]_vars
  PROVE  PlacesOK'
<1> USE TaskPlaces, Moves
    DEF Tasks, Workers, Places, Loop, bits, net, ota, PlacesOK, TypeOK
<1>1. CASE UNCHANGED vars
  BY <1>1 DEF vars
<1>2. CASE Power
  BY <1>2 DEF Power, Step
<1>3. CASE Pause
  BY <1>3 DEF Pause, Step
<1>4. CASE PauseTimesOut
  BY <1>4 DEF PauseTimesOut, Step
<1>5. CASE ClearIdle
  BY <1>5 DEF ClearIdle, Step
<1>6. CASE Ask
  BY <1>6 DEF Ask, Step
<1>7. CASE AllIdle
  BY <1>7 DEF AllIdle, Step
<1>8. CASE GiveUp
  BY <1>8 DEF GiveUp, Step
<1>9. CASE WifiStop
  BY <1>9 DEF WifiStop, Step
<1>10. CASE Release
  BY <1>10 DEF Release, Step
<1>11. CASE GiveBack
  BY <1>11 DEF GiveBack, Step
<1>12. CASE ArmTimer
  BY <1>12 DEF ArmTimer, Step
<1>13. CASE TakeGate
  BY <1>13 DEF TakeGate, Step
<1>14. CASE Download
  BY <1>14 DEF Download, Step
<1>15. CASE Install
  BY <1>15 DEF Install, Step
<1>16. CASE GiveGate
  BY <1>16 DEF GiveGate, Step
<1>17. CASE Request
  BY <1>17 DEF Request, Step
<1>18. CASE Admit
  BY <1>18 DEF Admit, Step
<1>19. CASE Upload
  BY <1>19 DEF Upload, Step
<1>20. CASE RequestEnds
  BY <1>20 DEF RequestEnds, Step
<1>21. CASE Disconnected
  BY <1>21 DEF Disconnected, Step
<1>22. CASE Suspend
  BY <1>22 DEF Suspend, StopPortal, AfterStop
<1>23. CASE SetupDone
  BY <1>23 DEF SetupDone, StopPortal, AfterStop
<1>24. CASE ClosePortalTask
  BY <1>24 DEF ClosePortalTask, StopPortal, AfterStop
<1>25. CASE GotIp
  BY <1>25 DEF GotIp, StopPortal, AfterStop
<1>26. CASE Wake
  BY <1>26 DEF Wake, StartPortal, AfterServe
<1>27. CASE Arm
  BY <1>27 DEF Arm, StartPortal, AfterServe
<1>28. CASE ConnectionTimeout
  BY <1>28 DEF ConnectionTimeout, StartPortal, AfterServe
<1>29. CASE WindowEnds
  BY <1>29 DEF WindowEnds, Step
<1>30. ASSUME NEW t \in {"main", "feed", "event", "close"}, Stopped(t)
      PROVE  PlacesOK'
  BY <1>30 DEF Stopped, Step, AfterStop
<1>31. CASE Serve("main")
  BY <1>31, RebootPlaces DEF Serve, AfterServe
<1>32. CASE Serve("timer")
  BY <1>32, RebootPlaces DEF Serve, AfterServe
<1>33. ASSUME NEW w \in Workers, See(w)
      PROVE  PlacesOK'
  BY <1>33 DEF See, Step
<1>34. ASSUME NEW w \in Workers, SetIdle(w)
      PROVE  PlacesOK'
  BY <1>34 DEF SetIdle, Step
<1>35. ASSUME NEW w \in Workers, Leave(w)
      PROVE  PlacesOK'
  BY <1>35 DEF Leave, Step
<1>36. ASSUME NEW w \in Workers, ClearOwn(w)
      PROVE  PlacesOK'
  BY <1>36 DEF ClearOwn, Step
<1>37. ASSUME NEW w \in Workers, Work(w)
      PROVE  PlacesOK'
  BY <1>37 DEF Work, Step
<1>38. ASSUME NEW w \in Workers, WorkDone(w)
      PROVE  PlacesOK'
  BY <1>38 DEF WorkDone, Step
<1>39. CASE Reboot
  BY <1>39, RebootPlaces
<1> QED
  BY <1>1, <1>2, <1>3, <1>4, <1>5, <1>6, <1>7, <1>8, <1>9, <1>10, <1>11, <1>12, <1>13,
     <1>14, <1>15, <1>16, <1>17, <1>18, <1>19, <1>20, <1>21, <1>22, <1>23, <1>24, <1>25,
     <1>26, <1>27, <1>28, <1>29, <1>30, <1>31, <1>32, <1>33, <1>34, <1>35, <1>36, <1>37,
     <1>38, <1>39
  DEF Next, Main, Worker, Updater, Httpd, Events

\* The gate is held by whoever is between taking it and giving it back.
LEMMA GatePreserved ==
  ASSUME TypeOK, [Next]_vars
  PROVE  GateOK'
<1> USE TaskPlaces, Moves
    DEF Tasks, Workers, Places, Loop, bits, net, ota, PlacesOK, TypeOK, GateOK
<1>1. CASE UNCHANGED vars
  BY <1>1 DEF vars
<1>2. CASE Power
  BY <1>2 DEF Power, Step
<1>3. CASE Pause
  BY <1>3 DEF Pause, Step
<1>4. CASE PauseTimesOut
  BY <1>4 DEF PauseTimesOut, Step
<1>5. CASE ClearIdle
  BY <1>5 DEF ClearIdle, Step
<1>6. CASE Ask
  BY <1>6 DEF Ask, Step
<1>7. CASE AllIdle
  BY <1>7 DEF AllIdle, Step
<1>8. CASE GiveUp
  BY <1>8 DEF GiveUp, Step
<1>9. CASE WifiStop
  BY <1>9 DEF WifiStop, Step
<1>10. CASE Release
  BY <1>10 DEF Release, Step
<1>11. CASE GiveBack
  BY <1>11 DEF GiveBack, Step
<1>12. CASE ArmTimer
  BY <1>12 DEF ArmTimer, Step
<1>13. CASE TakeGate
  BY <1>13 DEF TakeGate, Step
<1>14. CASE Download
  BY <1>14 DEF Download, Step
<1>15. CASE Install
  BY <1>15 DEF Install, Step
<1>16. CASE GiveGate
  BY <1>16 DEF GiveGate, Step
<1>17. CASE Request
  BY <1>17 DEF Request, Step
<1>18. CASE Admit
  BY <1>18 DEF Admit, Step
<1>19. CASE Upload
  BY <1>19 DEF Upload, Step
<1>20. CASE RequestEnds
  BY <1>20 DEF RequestEnds, Step
<1>21. CASE Disconnected
  BY <1>21 DEF Disconnected, Step
<1>22. CASE Suspend
  BY <1>22 DEF Suspend, StopPortal, AfterStop
<1>23. CASE SetupDone
  BY <1>23 DEF SetupDone, StopPortal, AfterStop
<1>24. CASE ClosePortalTask
  BY <1>24 DEF ClosePortalTask, StopPortal, AfterStop
<1>25. CASE GotIp
  BY <1>25 DEF GotIp, StopPortal, AfterStop
<1>26. CASE Wake
  BY <1>26 DEF Wake, StartPortal, AfterServe
<1>27. CASE Arm
  BY <1>27 DEF Arm, StartPortal, AfterServe
<1>28. CASE ConnectionTimeout
  BY <1>28 DEF ConnectionTimeout, StartPortal, AfterServe
<1>29. CASE WindowEnds
  BY <1>29 DEF WindowEnds, Step
<1>30. ASSUME NEW t \in {"main", "feed", "event", "close"}, Stopped(t)
      PROVE  GateOK'
  BY <1>30 DEF Stopped, Step, AfterStop
<1>31. CASE Serve("main")
  BY <1>31, RebootPlaces DEF Serve, AfterServe
<1>32. CASE Serve("timer")
  BY <1>32, RebootPlaces DEF Serve, AfterServe
<1>33. ASSUME NEW w \in Workers, See(w)
      PROVE  GateOK'
  BY <1>33 DEF See, Step
<1>34. ASSUME NEW w \in Workers, SetIdle(w)
      PROVE  GateOK'
  BY <1>34 DEF SetIdle, Step
<1>35. ASSUME NEW w \in Workers, Leave(w)
      PROVE  GateOK'
  BY <1>35 DEF Leave, Step
<1>36. ASSUME NEW w \in Workers, ClearOwn(w)
      PROVE  GateOK'
  BY <1>36 DEF ClearOwn, Step
<1>37. ASSUME NEW w \in Workers, Work(w)
      PROVE  GateOK'
  BY <1>37 DEF Work, Step
<1>38. ASSUME NEW w \in Workers, WorkDone(w)
      PROVE  GateOK'
  BY <1>38 DEF WorkDone, Step
<1>39. CASE Reboot
  BY <1>39, RebootPlaces
<1> QED
  BY <1>1, <1>2, <1>3, <1>4, <1>5, <1>6, <1>7, <1>8, <1>9, <1>10, <1>11, <1>12, <1>13,
     <1>14, <1>15, <1>16, <1>17, <1>18, <1>19, <1>20, <1>21, <1>22, <1>23, <1>24, <1>25,
     <1>26, <1>27, <1>28, <1>29, <1>30, <1>31, <1>32, <1>33, <1>34, <1>35, <1>36, <1>37,
     <1>38, <1>39
  DEF Next, Main, Worker, Updater, Httpd, Events

\* Every step keeps the flags in their types.
LEMMA FlagsPreserved ==
  ASSUME TypeOK, [Next]_vars
  PROVE  FlagsOK'
<1> USE DEF bits, net, ota, TypeOK, FlagsOK
<1>1. CASE UNCHANGED vars
  BY <1>1, Zenon DEF vars
<1>2. CASE Power
  BY <1>2, Zenon DEF Power, Step
<1>3. CASE Pause
  BY <1>3, Zenon DEF Pause, Step
<1>4. CASE PauseTimesOut
  BY <1>4, Zenon DEF PauseTimesOut, Step
<1>5. CASE ClearIdle
  BY <1>5, Zenon DEF ClearIdle, Step
<1>6. CASE Ask
  BY <1>6, Zenon DEF Ask, Step
<1>7. CASE AllIdle
  BY <1>7, Zenon DEF AllIdle, Step
<1>8. CASE GiveUp
  BY <1>8, Zenon DEF GiveUp, Step
<1>9. CASE WifiStop
  BY <1>9, Zenon DEF WifiStop, Step
<1>10. CASE Release
  BY <1>10, Zenon DEF Release, Step
<1>11. CASE GiveBack
  BY <1>11, Zenon DEF GiveBack, Step
<1>12. CASE ArmTimer
  BY <1>12, Zenon DEF ArmTimer, Step
<1>13. CASE TakeGate
  BY <1>13, Zenon DEF TakeGate, Step
<1>14. CASE Download
  BY <1>14, Zenon DEF Download, Step
<1>15. CASE Install
  BY <1>15, Zenon DEF Install, Step
<1>16. CASE GiveGate
  BY <1>16, Zenon DEF GiveGate, Step
<1>17. CASE Request
  BY <1>17, Zenon DEF Request, Step
<1>18. CASE Admit
  BY <1>18, Zenon DEF Admit, Step
<1>19. CASE Upload
  BY <1>19, Zenon DEF Upload, Step
<1>20. CASE RequestEnds
  BY <1>20, Zenon DEF RequestEnds, Step
<1>21. CASE Disconnected
  BY <1>21, Zenon DEF Disconnected, Step
<1>22. CASE Suspend
  BY <1>22, Zenon DEF Suspend, StopPortal, AfterStop
<1>23. CASE SetupDone
  BY <1>23, Zenon DEF SetupDone, StopPortal, AfterStop
<1>24. CASE ClosePortalTask
  BY <1>24, Zenon DEF ClosePortalTask, StopPortal, AfterStop
<1>25. CASE GotIp
  BY <1>25, Zenon DEF GotIp, StopPortal, AfterStop
<1>26. CASE Wake
  BY <1>26, Zenon DEF Wake, StartPortal, AfterServe
<1>27. CASE Arm
  BY <1>27, Zenon DEF Arm, StartPortal, AfterServe
<1>28. CASE ConnectionTimeout
  BY <1>28, Zenon DEF ConnectionTimeout, StartPortal, AfterServe
<1>29. CASE WindowEnds
  BY <1>29, Zenon DEF WindowEnds, Step
<1>30. ASSUME NEW t \in {"main", "feed", "event", "close"}, Stopped(t)
      PROVE  FlagsOK'
  BY <1>30, Zenon DEF Stopped, Step, AfterStop
<1>31. CASE Serve("main")
  BY <1>31, RebootFlags, Zenon DEF Serve, AfterServe
<1>32. CASE Serve("timer")
  BY <1>32, RebootFlags, Zenon DEF Serve, AfterServe
<1>33. ASSUME NEW w \in Workers, See(w)
      PROVE  FlagsOK'
  BY <1>33, Zenon DEF See, Step
<1>34. ASSUME NEW w \in Workers, SetIdle(w)
      PROVE  FlagsOK'
  BY <1>34, Zenon DEF SetIdle, Step
<1>35. ASSUME NEW w \in Workers, Leave(w)
      PROVE  FlagsOK'
  BY <1>35, Zenon DEF Leave, Step
<1>36. ASSUME NEW w \in Workers, ClearOwn(w)
      PROVE  FlagsOK'
  BY <1>36, Zenon DEF ClearOwn, Step
<1>37. ASSUME NEW w \in Workers, Work(w)
      PROVE  FlagsOK'
  BY <1>37, Zenon DEF Work, Step
<1>38. ASSUME NEW w \in Workers, WorkDone(w)
      PROVE  FlagsOK'
  BY <1>38, Zenon DEF WorkDone, Step
<1>39. CASE Reboot
  BY <1>39, RebootFlags, Zenon
<1> QED
  BY <1>1, <1>2, <1>3, <1>4, <1>5, <1>6, <1>7, <1>8, <1>9, <1>10, <1>11, <1>12, <1>13,
     <1>14, <1>15, <1>16, <1>17, <1>18, <1>19, <1>20, <1>21, <1>22, <1>23, <1>24, <1>25,
     <1>26, <1>27, <1>28, <1>29, <1>30, <1>31, <1>32, <1>33, <1>34, <1>35, <1>36, <1>37,
     <1>38, <1>39
  DEF Next, Main, Worker, Updater, Httpd, Events

\* Every step keeps the request, the bits, the network and the window in line with
\* where main is.
LEMMA QuietPreserved ==
  ASSUME Inv, [Next]_vars
  PROVE  WorkersInv' /\ NetInv' /\ UploadInv'
<1> USE TaskPlaces, Moves
    DEF Tasks, Workers, Places, Loop, bits, net, ota, PlacesOK, TypeOK, FlagsOK, Inv,
        WorkersInv, NetInv, UploadInv, Deep
<1>1. CASE UNCHANGED vars
  BY <1>1 DEF vars
<1>2. CASE Power
  BY <1>2 DEF Power, Step
<1>3. CASE Pause
  BY <1>3 DEF Pause, Step
<1>4. CASE PauseTimesOut
  BY <1>4 DEF PauseTimesOut, Step
<1>5. CASE ClearIdle
  BY <1>5 DEF ClearIdle, Step
<1>6. CASE Ask
  BY <1>6 DEF Ask, Step
<1>7. CASE AllIdle
  BY <1>7 DEF AllIdle, Step
<1>8. CASE GiveUp
  BY <1>8 DEF GiveUp, Step
<1>9. CASE WifiStop
  BY <1>9 DEF WifiStop, Step
<1>10. CASE Release
  BY <1>10 DEF Release, Step
<1>11. CASE GiveBack
  BY <1>11 DEF GiveBack, Step
<1>12. CASE ArmTimer
  BY <1>12 DEF ArmTimer, Step
<1>13. CASE TakeGate
  BY <1>13 DEF TakeGate, Step
<1>14. CASE Download
  BY <1>14 DEF Download, Step
<1>15. CASE Install
  BY <1>15 DEF Install, Step
<1>16. CASE GiveGate
  BY <1>16 DEF GiveGate, Step
<1>17. CASE Request
  BY <1>17 DEF Request, Step
<1>18. CASE Admit
  BY <1>18 DEF Admit, Step
<1>19. CASE Upload
  BY <1>19 DEF Upload, Step
<1>20. CASE RequestEnds
  BY <1>20 DEF RequestEnds, Step
<1>21. CASE Disconnected
  BY <1>21 DEF Disconnected, Step
<1>22. CASE Suspend
  BY <1>22 DEF Suspend, StopPortal, AfterStop
<1>23. CASE SetupDone
  BY <1>23 DEF SetupDone, StopPortal, AfterStop
<1>24. CASE ClosePortalTask
  BY <1>24 DEF ClosePortalTask, StopPortal, AfterStop
<1>25. CASE GotIp
  BY <1>25 DEF GotIp, StopPortal, AfterStop
<1>26. CASE Wake
  BY <1>26 DEF Wake, StartPortal, AfterServe
<1>27. CASE Arm
  BY <1>27 DEF Arm, StartPortal, AfterServe
<1>28. CASE ConnectionTimeout
  BY <1>28 DEF ConnectionTimeout, StartPortal, AfterServe
<1>29. CASE WindowEnds
  BY <1>29 DEF WindowEnds, Step
<1>30. ASSUME NEW t \in {"main", "feed", "event", "close"}, Stopped(t)
      PROVE  WorkersInv' /\ NetInv' /\ UploadInv'
  BY <1>30 DEF Stopped, Step, AfterStop
<1>31. CASE Serve("main")
  <2>1. CASE Reboot
    BY <2>1, RebootPlaces
  <2>2. CASE ~Reboot
    <3>1. UNCHANGED <<bits, gate, ota, portal, fallback, connected, suspended, restore>>
      BY <1>31, <2>2 DEF Serve
    <3>2. \/ at["main"] = "arm_serve" /\ at'["main"] = "arm_timer"
          \/ at["main"] = "resume_serve" /\ at'["main"] = "release"
      BY <1>31, <2>2, ServeMoves
    <3>3. \A u \in Tasks \ {"main"} : at'[u] = at[u]
      BY <1>31, <2>2 DEF Serve
    <3> QED
      BY <3>1, <3>2, <3>3
  <2> QED
    BY <2>1, <2>2
<1>32. CASE Serve("timer")
  <2>1. CASE Reboot
    BY <2>1, RebootPlaces
  <2>2. CASE ~Reboot
    <3>1. UNCHANGED <<bits, gate, ota, portal, fallback, connected, suspended, restore>>
      BY <1>32, <2>2 DEF Serve
    <3>2. \A u \in Tasks \ {"timer"} : at'[u] = at[u]
      BY <1>32, <2>2 DEF Serve
    <3> QED
      BY <3>1, <3>2
  <2> QED
    BY <2>1, <2>2
<1>33. ASSUME NEW w \in Workers, See(w)
      PROVE  WorkersInv' /\ NetInv' /\ UploadInv'
  BY <1>33 DEF See, Step
<1>34. ASSUME NEW w \in Workers, SetIdle(w)
      PROVE  WorkersInv' /\ NetInv' /\ UploadInv'
  BY <1>34 DEF SetIdle, Step
<1>35. ASSUME NEW w \in Workers, Leave(w)
      PROVE  WorkersInv' /\ NetInv' /\ UploadInv'
  BY <1>35 DEF Leave, Step
<1>36. ASSUME NEW w \in Workers, ClearOwn(w)
      PROVE  WorkersInv' /\ NetInv' /\ UploadInv'
  BY <1>36 DEF ClearOwn, Step
<1>37. ASSUME NEW w \in Workers, Work(w)
      PROVE  WorkersInv' /\ NetInv' /\ UploadInv'
  BY <1>37 DEF Work, Step
<1>38. ASSUME NEW w \in Workers, WorkDone(w)
      PROVE  WorkersInv' /\ NetInv' /\ UploadInv'
  BY <1>38 DEF WorkDone, Step
<1>39. CASE Reboot
  BY <1>39, RebootPlaces
<1> QED
  BY <1>1, <1>2, <1>3, <1>4, <1>5, <1>6, <1>7, <1>8, <1>9, <1>10, <1>11, <1>12, <1>13,
     <1>14, <1>15, <1>16, <1>17, <1>18, <1>19, <1>20, <1>21, <1>22, <1>23, <1>24, <1>25,
     <1>26, <1>27, <1>28, <1>29, <1>30, <1>31, <1>32, <1>33, <1>34, <1>35, <1>36, <1>37,
     <1>38, <1>39
  DEF Next, Main, Worker, Updater, Httpd, Events

-----------------------------------------------------------------------------
(* The theorems *)

LEMMA InitInv == Init => Inv
<1> SUFFICES ASSUME Init PROVE Inv
  OBVIOUS
<1>1. PlacesOK /\ at["main"] = "awake" /\ at["updater"] = "rest"
  BY DEF Init, Started, Places, PlacesOK
<1>2. GateOK
  BY <1>1 DEF Init, GateOK, Loop
<1>3. FlagsOK
  BY Zenon DEF Init, FlagsOK
<1>4. WorkersInv /\ NetInv /\ UploadInv
  BY <1>1 DEF Init, WorkersInv, NetInv, UploadInv, Deep
<1> QED
  BY <1>1, <1>2, <1>3, <1>4 DEF Inv, TypeOK

\* The inductive invariant holds of every state of the display's tasks.
THEOREM Invariance == Spec => []Inv
<1>1. Inv /\ [Next]_vars => Inv'
  <2> SUFFICES ASSUME Inv, [Next]_vars PROVE Inv'
    OBVIOUS
  <2>1. TypeOK'
    BY PlacesPreserved, GatePreserved, FlagsPreserved DEF Inv, TypeOK
  <2> QED
    BY <2>1, QuietPreserved DEF Inv
<1> QED
  BY <1>1, InitInv, PTL DEF Spec

\* Every task stays in its places, and ota_gate is held by whoever is between
\* taking it and giving it back.
THEOREM TypeCorrect == Spec => []TypeOK
<1>1. Inv => TypeOK
  BY DEF Inv
<1> QED
  BY <1>1, Invariance, PTL

\* enter_screen_off_standby: once the display sleeps nothing is under way, in
\* whatever order the workers, the updater, the requests and the events came.
THEOREM SleepIsQuiet == Spec => []StandbyIsQuiet
<1>1. Inv => StandbyIsQuiet
  BY DEF Inv, TypeOK, GateOK, WorkersInv, NetInv, UploadInv, StandbyIsQuiet, Deep,
         Workers, Loop
<1> QED
  BY <1>1, Invariance, PTL

=============================================================================
