------------------------- MODULE SetupSessionProofs -------------------------
(***************************************************************************)
(* Proofs about SetupSession: the connection limit counts right, the       *)
(* listener accepts the device that was staged, and a browser that was     *)
(* told to go on finds its setup staged, for any number of requests.       *)
(***************************************************************************)
EXTENDS SetupSession, FiniteSets, FiniteSetTheorems, TLAPS

-----------------------------------------------------------------------------
(* The inductive invariant *)

\* The requests that hold a connection slot, and those that are counted active.
Holders == {r \in Requests : at[r] \notin {"idle", "done"}}
Counted == {r \in Requests : at[r] \notin {"idle", "done", "admitted", "release"}}

\* Every slot that is not free has its holder.
SlotsInv ==
  /\ IsFiniteSet(Holders)
  /\ slots = MaxConnections - Cardinality(Holders)
  /\ active = Cardinality(Counted)

Busy == {r \in Requests : at[r] \in Attempting}

\* One attempt at a time: the session is in flight as long as one is under way, or
\* its time is over; once it is used there is none any more.
AttemptInv ==
  /\ \A r, s \in Busy : r = s
  /\ Busy # {} => (inFlight \/ expired) /\ ~used
  /\ \A r \in Requests : reply[r] = "ok" => used

\* Whoever gave the listener its device was the last attempt.
ListenerInv ==
  listener # None =>
    /\ \A r \in Requests : at[r] \notin {"body", "complete", "set", "notify"}
    /\ used \/ expired \/ (listener \in Requests /\ at[listener] = "use")

\* No rollback is under way beside an attempt, nor after the session was used.
UndoneFirst ==
  Busy # {} \/ used => \A s \in Requests : at[s] \notin Undoing

\* Until the installer gives up, the setup of the attempt stays where it was staged.
StagedInv ==
  main \in {"flash", "wait", "read", "claim"} =>
    \A r \in Requests :
      /\ at[r] \in {"set", "notify", "use"} => journal = r
      /\ Told(r) /\ ~woken => journal = r

\* main() goes on with the session it has read.
TakenInv ==
  main \in {"claim", "finish", "commit", "mark"} => MarkAccepted

\* What every step preserves.
Inv ==
  /\ TypeOK /\ SlotsInv /\ AttemptInv /\ ListenerInv
  /\ ~overlap => UndoneFirst /\ StagedInv /\ TakenInv

-----------------------------------------------------------------------------
(* Connections *)

\* A request that goes from one place to another where it is counted leaves the
\* counts alone.
LEMMA Stays ==
  ASSUME PlacesOK, NEW r \in Requests, NEW p, Go(r, p),
         at[r] \notin {"idle", "done", "admitted", "release"},
         p \notin {"idle", "done", "admitted", "release"}
  PROVE  Holders' = Holders /\ Counted' = Counted
BY DEF PlacesOK, Go, Holders, Counted

\* The free slots bound both counts.
LEMMA Bounded ==
  ASSUME SlotsInv, slots >= 0
  PROVE  CountsOK
<1>1. Cardinality(Holders) \in Nat
  BY FS_CardinalityType DEF SlotsInv
<1>2. Counted \in SUBSET Holders
  BY DEF Counted, Holders
<1>3. IsFiniteSet(Counted) /\ Cardinality(Counted) <= Cardinality(Holders)
  BY <1>2, FS_Subset DEF SlotsInv
<1>4. Cardinality(Counted) \in Nat
  BY <1>3, FS_CardinalityType
<1> QED
  BY <1>1, <1>3, <1>4, MaxConnectionsAssumption DEF SlotsInv, CountsOK

\* A slot is taken once and given back once on every way through a request.
LEMMA SlotsPreserved ==
  ASSUME TypeOK, SlotsInv, [Next]_vars
  PROVE  SlotsInv' /\ slots' >= 0
<1> USE DEF session, connections, coordinator, installer, claims
<1>0. slots >= 0 /\ slots \in Int /\ active \in Int /\ Cardinality(Holders) \in Nat
  BY MaxConnectionsAssumption, FS_CardinalityType DEF TypeOK, CountsOK, SlotsInv
<1>1. IsFiniteSet(Counted) /\ Cardinality(Counted) \in Nat
  <2>1. Counted \in SUBSET Holders
    BY DEF Counted, Holders
  <2> QED
    BY <2>1, FS_Subset, FS_CardinalityType DEF SlotsInv
<1>2. CASE UNCHANGED <<connections, Holders, Counted>>
  BY <1>2, <1>0 DEF SlotsInv
<1>3. ASSUME NEW r \in Requests, Admit(r)
      PROVE  SlotsInv' /\ slots' >= 0
  <2>1. Holders' = Holders \cup {r} /\ r \notin Holders /\ Counted' = Counted
    BY <1>3 DEF Admit, At, Go, Holders, Counted, TypeOK, PlacesOK
  <2>2. slots > 0 /\ slots' = slots - 1 /\ active' = active
    BY <1>3 DEF Admit
  <2>3. IsFiniteSet(Holders') /\ Cardinality(Holders') = Cardinality(Holders) + 1
    BY <2>1, FS_AddElement DEF SlotsInv
  <2> QED
    BY <2>1, <2>2, <2>3, <1>0, MaxConnectionsAssumption DEF SlotsInv
<1>4. ASSUME NEW r \in Requests, CountIn(r)
      PROVE  SlotsInv' /\ slots' >= 0
  <2>1. Counted' = Counted \cup {r} /\ r \notin Counted /\ Holders' = Holders
    BY <1>4 DEF CountIn, At, Go, Holders, Counted, TypeOK, PlacesOK
  <2>2. active' = active + 1 /\ slots' = slots
    BY <1>4 DEF CountIn
  <2>3. Cardinality(Counted') = Cardinality(Counted) + 1
    BY <2>1, <1>1, FS_AddElement
  <2> QED
    BY <2>1, <2>2, <2>3, <1>0, MaxConnectionsAssumption DEF SlotsInv
<1>5. ASSUME NEW r \in Requests, SpawnFails(r)
      PROVE  SlotsInv' /\ slots' >= 0
  <2>1. /\ Holders' = Holders \ {r} /\ r \in Holders
        /\ Counted' = Counted \ {r} /\ r \in Counted
    BY <1>5 DEF SpawnFails, At, Go, GoReply, Holders, Counted, TypeOK, PlacesOK
  <2>2. active' = active - 1 /\ slots' = slots + 1
    BY <1>5 DEF SpawnFails
  <2>3. IsFiniteSet(Holders') /\ Cardinality(Holders') = Cardinality(Holders) - 1
    BY <2>1, FS_RemoveElement DEF SlotsInv
  <2>4. Cardinality(Counted') = Cardinality(Counted) - 1
    BY <2>1, <1>1, FS_RemoveElement
  <2> QED
    BY <2>2, <2>3, <2>4, <1>0, MaxConnectionsAssumption DEF SlotsInv
<1>6. ASSUME NEW r \in Requests, Leave(r)
      PROVE  SlotsInv' /\ slots' >= 0
  <2>1. Counted' = Counted \ {r} /\ r \in Counted /\ Holders' = Holders
    BY <1>6 DEF Leave, At, Go, Holders, Counted, TypeOK, PlacesOK
  <2>2. active' = active - 1 /\ slots' = slots
    BY <1>6 DEF Leave
  <2>3. Cardinality(Counted') = Cardinality(Counted) - 1
    BY <2>1, <1>1, FS_RemoveElement
  <2> QED
    BY <2>1, <2>2, <2>3, <1>0, MaxConnectionsAssumption DEF SlotsInv
<1>7. ASSUME NEW r \in Requests, Release(r)
      PROVE  SlotsInv' /\ slots' >= 0
  <2>1. Holders' = Holders \ {r} /\ r \in Holders /\ Counted' = Counted
    BY <1>7 DEF Release, At, Go, Holders, Counted, TypeOK, PlacesOK
  <2>2. slots' = slots + 1 /\ active' = active
    BY <1>7 DEF Release
  <2>3. IsFiniteSet(Holders') /\ Cardinality(Holders') = Cardinality(Holders) - 1
    BY <2>1, FS_RemoveElement DEF SlotsInv
  <2> QED
    BY <2>1, <2>2, <2>3, <1>0, MaxConnectionsAssumption DEF SlotsInv
<1>8. ASSUME NEW r \in Requests,
             TurnAway(r) \/ Spawn(r) \/ ClaimArrives(r) \/ AbortArrives(r)
      PROVE  UNCHANGED <<connections, Holders, Counted>>
  BY <1>8 DEF TurnAway, Spawn, ClaimArrives, AbortArrives, At, Go, GoReply, Holders,
              Counted, TypeOK, PlacesOK
<1>9. ASSUME NEW r \in Requests, Thread(r), ~Leave(r), ~Release(r)
      PROVE  UNCHANGED <<connections, Holders, Counted>>
  <2> USE DEF At, GoReply, Answer
  <2>1. CASE RefuseRequest(r)
    BY <2>1, Stays DEF RefuseRequest, TypeOK
  <2>2. CASE ServePage(r)
    BY <2>2, Stays DEF ServePage, TypeOK
  <2>3. CASE Authorize(r)
    BY <2>3, Stays DEF Authorize, TypeOK
  <2>4. CASE BeginOnce(r)
    BY <2>4, Stays DEF BeginOnce, TypeOK
  <2>5. CASE BeginRefused(r)
    BY <2>5, Stays DEF BeginRefused, TypeOK
  <2>6. CASE BodyRead(r)
    BY <2>6, Stays DEF BodyRead, TypeOK
  <2>7. CASE BodyRefused(r)
    BY <2>7, Stays DEF BodyRefused, TypeOK
  <2>8. CASE BodyStalls(r)
    BY <2>8, Stays DEF BodyStalls, TypeOK
  <2>9. CASE Complete(r)
    BY <2>9, Stays DEF Complete, TypeOK
  <2>10. CASE CompleteFails(r)
    BY <2>10, Stays DEF CompleteFails, TypeOK
  <2>11. CASE SetProvisioning(r)
    BY <2>11, Stays DEF SetProvisioning, TypeOK
  <2>12. CASE Notify(r)
    BY <2>12, Stays DEF Notify, TypeOK
  <2>13. CASE UseOnce(r)
    BY <2>13, Stays DEF UseOnce, TypeOK
  <2>14. CASE UseRefused(r)
    BY <2>14, Stays DEF UseRefused, TypeOK
  <2>15. CASE FailAttempt(r)
    BY <2>15, Stays DEF FailAttempt, TypeOK, Failing
  <2>16. CASE AskUndo(r)
    BY <2>16, Stays DEF AskUndo, TypeOK
  <2>17. CASE Undo(r)
    BY <2>17, Stays DEF Undo, TypeOK
  <2>18. CASE UndoFails(r)
    BY <2>18, Stays DEF UndoFails, TypeOK
  <2>19. CASE AbortSession(r)
    BY <2>19, Stays DEF AbortSession, TypeOK
  <2> QED
    BY <1>9, <2>1, <2>2, <2>3, <2>4, <2>5, <2>6, <2>7, <2>8, <2>9, <2>10,
       <2>11, <2>12, <2>13, <2>14, <2>15, <2>16, <2>17, <2>18, <2>19
    DEF Thread
<1>10. CASE UNCHANGED vars \/ Expire \/ Installer \/ Interrupted
  <2>1. UNCHANGED <<connections, at>>
    BY <1>10 DEF vars, Expire, Interrupted, Installer, MainQuiet,
           Flashed, Provisioned, SessionTimesOut, TakeProvisioning, Claimed,
           ClaimTimesOut, FinishPending, Commit, CommitFails, MarkFinished, Shutdown,
           StopListener, RollbackIncomplete, Close, Exit
  <2> QED
    BY <2>1, <1>2 DEF Holders, Counted
<1> QED
  BY <1>2, <1>3, <1>4, <1>5, <1>6, <1>7, <1>8, <1>9, <1>10
  DEF Next, Serve, Display

-----------------------------------------------------------------------------
(* Every step preserves it *)

\* Every step keeps the flags in their types.
LEMMA FlagsPreserved ==
  ASSUME TypeOK, [Next]_vars
  PROVE  FlagsOK'
<1> USE DEF session, connections, coordinator, installer, claims, TypeOK, FlagsOK,
            MainGo, MainQuiet, Alive
<1>1. CASE UNCHANGED vars
  BY <1>1, Zenon DEF vars
<1>2. CASE Expire
  BY <1>2, Zenon DEF Expire
<1>3. CASE Flashed
  BY <1>3, Zenon DEF Flashed
<1>4. CASE Provisioned
  BY <1>4, Zenon DEF Provisioned
<1>5. CASE SessionTimesOut
  BY <1>5, Zenon DEF SessionTimesOut
<1>6. CASE TakeProvisioning
  BY <1>6, Zenon DEF TakeProvisioning
<1>7. CASE Claimed
  BY <1>7, Zenon DEF Claimed
<1>8. CASE ClaimTimesOut
  BY <1>8, Zenon DEF ClaimTimesOut
<1>9. CASE FinishPending
  BY <1>9, Zenon DEF FinishPending
<1>10. CASE Commit
  BY <1>10, Zenon DEF Commit
<1>11. CASE CommitFails
  BY <1>11, Zenon DEF CommitFails
<1>12. CASE MarkFinished
  BY <1>12, Zenon DEF MarkFinished
<1>13. CASE Shutdown
  BY <1>13, Zenon DEF Shutdown
<1>14. CASE StopListener
  BY <1>14, Zenon DEF StopListener
<1>15. CASE RollbackIncomplete
  BY <1>15, Zenon DEF RollbackIncomplete
<1>16. CASE Close
  BY <1>16, Zenon DEF Close
<1>17. CASE Exit
  BY <1>17, Zenon DEF Exit
<1>18. CASE Interrupted
  BY <1>18, Zenon DEF Interrupted
<1>19. ASSUME NEW r \in Requests, Admit(r)
      PROVE  FlagsOK'
  BY <1>19, Zenon DEF Admit
<1>20. ASSUME NEW r \in Requests, TurnAway(r)
      PROVE  FlagsOK'
  BY <1>20, Zenon DEF TurnAway
<1>21. ASSUME NEW r \in Requests, CountIn(r)
      PROVE  FlagsOK'
  BY <1>21, Zenon DEF CountIn
<1>22. ASSUME NEW r \in Requests, Spawn(r)
      PROVE  FlagsOK'
  BY <1>22, Zenon DEF Spawn
<1>23. ASSUME NEW r \in Requests, SpawnFails(r)
      PROVE  FlagsOK'
  BY <1>23, Zenon DEF SpawnFails
<1>24. ASSUME NEW r \in Requests, RefuseRequest(r)
      PROVE  FlagsOK'
  BY <1>24, Zenon DEF RefuseRequest
<1>25. ASSUME NEW r \in Requests, ServePage(r)
      PROVE  FlagsOK'
  BY <1>25, Zenon DEF ServePage
<1>26. ASSUME NEW r \in Requests, Authorize(r)
      PROVE  FlagsOK'
  BY <1>26, Zenon DEF Authorize
<1>27. ASSUME NEW r \in Requests, BeginOnce(r)
      PROVE  FlagsOK'
  BY <1>27, Zenon DEF BeginOnce
<1>28. ASSUME NEW r \in Requests, BeginRefused(r)
      PROVE  FlagsOK'
  BY <1>28, Zenon DEF BeginRefused
<1>29. ASSUME NEW r \in Requests, BodyRead(r)
      PROVE  FlagsOK'
  BY <1>29, Zenon DEF BodyRead
<1>30. ASSUME NEW r \in Requests, BodyRefused(r)
      PROVE  FlagsOK'
  BY <1>30, Zenon DEF BodyRefused
<1>31. ASSUME NEW r \in Requests, BodyStalls(r)
      PROVE  FlagsOK'
  BY <1>31, Zenon DEF BodyStalls
<1>32. ASSUME NEW r \in Requests, Complete(r)
      PROVE  FlagsOK'
  BY <1>32, Zenon DEF Complete
<1>33. ASSUME NEW r \in Requests, CompleteFails(r)
      PROVE  FlagsOK'
  BY <1>33, Zenon DEF CompleteFails
<1>34. ASSUME NEW r \in Requests, SetProvisioning(r)
      PROVE  FlagsOK'
  BY <1>34, Zenon DEF SetProvisioning
<1>35. ASSUME NEW r \in Requests, Notify(r)
      PROVE  FlagsOK'
  BY <1>35, Zenon DEF Notify
<1>36. ASSUME NEW r \in Requests, UseOnce(r)
      PROVE  FlagsOK'
  BY <1>36, Zenon DEF UseOnce
<1>37. ASSUME NEW r \in Requests, UseRefused(r)
      PROVE  FlagsOK'
  BY <1>37, Zenon DEF UseRefused
<1>38. ASSUME NEW r \in Requests, FailAttempt(r)
      PROVE  FlagsOK'
  BY <1>38, Zenon DEF FailAttempt
<1>39. ASSUME NEW r \in Requests, AskUndo(r)
      PROVE  FlagsOK'
  BY <1>39, Zenon DEF AskUndo
<1>40. ASSUME NEW r \in Requests, Undo(r)
      PROVE  FlagsOK'
  BY <1>40, Zenon DEF Undo
<1>41. ASSUME NEW r \in Requests, UndoFails(r)
      PROVE  FlagsOK'
  BY <1>41, Zenon DEF UndoFails
<1>42. ASSUME NEW r \in Requests, AbortSession(r)
      PROVE  FlagsOK'
  BY <1>42, Zenon DEF AbortSession
<1>43. ASSUME NEW r \in Requests, Leave(r)
      PROVE  FlagsOK'
  BY <1>43, Zenon DEF Leave
<1>44. ASSUME NEW r \in Requests, Release(r)
      PROVE  FlagsOK'
  BY <1>44, Zenon DEF Release
<1>45. ASSUME NEW r \in Requests, ClaimArrives(r)
      PROVE  FlagsOK'
  BY <1>45, Zenon DEF ClaimArrives
<1>46. ASSUME NEW r \in Requests, AbortArrives(r)
      PROVE  FlagsOK'
  BY <1>46, Zenon DEF AbortArrives
<1> QED
  BY <1>1, <1>2, <1>3, <1>4, <1>5, <1>6, <1>7, <1>8, <1>9, <1>10, <1>11,
     <1>12, <1>13, <1>14, <1>15, <1>16, <1>17, <1>18, <1>19, <1>20, <1>21,
     <1>22, <1>23, <1>24, <1>25, <1>26, <1>27, <1>28, <1>29, <1>30, <1>31,
     <1>32, <1>33, <1>34, <1>35, <1>36, <1>37, <1>38, <1>39, <1>40, <1>41,
     <1>42, <1>43, <1>44, <1>45, <1>46
  DEF Next, Installer, Serve, Thread, Display

\* Every step keeps the requests, the devices and the installer in their places.
LEMMA PlacesPreserved ==
  ASSUME TypeOK, [Next]_vars
  PROVE  PlacesOK'
<1> USE NoneAssumption
    DEF session, connections, coordinator, installer, claims, TypeOK, PlacesOK, At, Go,
        GoReply, Answer, MainGo, MainQuiet, Devices, RequestPlaces, Admitting, Attempting,
        Failing, Undoing, Replies, MainPlaces
<1>1. CASE UNCHANGED vars
  BY <1>1 DEF vars
<1>2. CASE Expire
  BY <1>2 DEF Expire
<1>3. CASE Flashed
  BY <1>3 DEF Flashed
<1>4. CASE Provisioned
  BY <1>4 DEF Provisioned
<1>5. CASE SessionTimesOut
  BY <1>5 DEF SessionTimesOut
<1>6. CASE TakeProvisioning
  BY <1>6 DEF TakeProvisioning
<1>7. CASE Claimed
  BY <1>7 DEF Claimed
<1>8. CASE ClaimTimesOut
  BY <1>8 DEF ClaimTimesOut
<1>9. CASE FinishPending
  BY <1>9 DEF FinishPending
<1>10. CASE Commit
  BY <1>10 DEF Commit
<1>11. CASE CommitFails
  BY <1>11 DEF CommitFails
<1>12. CASE MarkFinished
  BY <1>12 DEF MarkFinished
<1>13. CASE Shutdown
  BY <1>13 DEF Shutdown
<1>14. CASE StopListener
  BY <1>14 DEF StopListener
<1>15. CASE RollbackIncomplete
  BY <1>15 DEF RollbackIncomplete
<1>16. CASE Close
  BY <1>16 DEF Close
<1>17. CASE Exit
  BY <1>17 DEF Exit
<1>18. CASE Interrupted
  BY <1>18 DEF Interrupted
<1>19. ASSUME NEW r \in Requests, Admit(r)
      PROVE  PlacesOK'
  BY <1>19 DEF Admit
<1>20. ASSUME NEW r \in Requests, TurnAway(r)
      PROVE  PlacesOK'
  BY <1>20 DEF TurnAway
<1>21. ASSUME NEW r \in Requests, CountIn(r)
      PROVE  PlacesOK'
  BY <1>21 DEF CountIn
<1>22. ASSUME NEW r \in Requests, Spawn(r)
      PROVE  PlacesOK'
  BY <1>22 DEF Spawn
<1>23. ASSUME NEW r \in Requests, SpawnFails(r)
      PROVE  PlacesOK'
  BY <1>23 DEF SpawnFails
<1>24. ASSUME NEW r \in Requests, RefuseRequest(r)
      PROVE  PlacesOK'
  BY <1>24 DEF RefuseRequest
<1>25. ASSUME NEW r \in Requests, ServePage(r)
      PROVE  PlacesOK'
  BY <1>25 DEF ServePage
<1>26. ASSUME NEW r \in Requests, Authorize(r)
      PROVE  PlacesOK'
  BY <1>26 DEF Authorize
<1>27. ASSUME NEW r \in Requests, BeginOnce(r)
      PROVE  PlacesOK'
  BY <1>27 DEF BeginOnce
<1>28. ASSUME NEW r \in Requests, BeginRefused(r)
      PROVE  PlacesOK'
  BY <1>28 DEF BeginRefused
<1>29. ASSUME NEW r \in Requests, BodyRead(r)
      PROVE  PlacesOK'
  BY <1>29 DEF BodyRead
<1>30. ASSUME NEW r \in Requests, BodyRefused(r)
      PROVE  PlacesOK'
  BY <1>30 DEF BodyRefused
<1>31. ASSUME NEW r \in Requests, BodyStalls(r)
      PROVE  PlacesOK'
  BY <1>31 DEF BodyStalls
<1>32. ASSUME NEW r \in Requests, Complete(r)
      PROVE  PlacesOK'
  BY <1>32 DEF Complete
<1>33. ASSUME NEW r \in Requests, CompleteFails(r)
      PROVE  PlacesOK'
  BY <1>33 DEF CompleteFails
<1>34. ASSUME NEW r \in Requests, SetProvisioning(r)
      PROVE  PlacesOK'
  BY <1>34 DEF SetProvisioning
<1>35. ASSUME NEW r \in Requests, Notify(r)
      PROVE  PlacesOK'
  BY <1>35 DEF Notify
<1>36. ASSUME NEW r \in Requests, UseOnce(r)
      PROVE  PlacesOK'
  BY <1>36 DEF UseOnce
<1>37. ASSUME NEW r \in Requests, UseRefused(r)
      PROVE  PlacesOK'
  BY <1>37 DEF UseRefused
<1>38. ASSUME NEW r \in Requests, FailAttempt(r)
      PROVE  PlacesOK'
  BY <1>38 DEF FailAttempt
<1>39. ASSUME NEW r \in Requests, AskUndo(r)
      PROVE  PlacesOK'
  BY <1>39 DEF AskUndo
<1>40. ASSUME NEW r \in Requests, Undo(r)
      PROVE  PlacesOK'
  BY <1>40 DEF Undo
<1>41. ASSUME NEW r \in Requests, UndoFails(r)
      PROVE  PlacesOK'
  BY <1>41 DEF UndoFails
<1>42. ASSUME NEW r \in Requests, AbortSession(r)
      PROVE  PlacesOK'
  BY <1>42 DEF AbortSession
<1>43. ASSUME NEW r \in Requests, Leave(r)
      PROVE  PlacesOK'
  BY <1>43 DEF Leave
<1>44. ASSUME NEW r \in Requests, Release(r)
      PROVE  PlacesOK'
  BY <1>44 DEF Release
<1>45. ASSUME NEW r \in Requests, ClaimArrives(r)
      PROVE  PlacesOK'
  BY <1>45 DEF ClaimArrives
<1>46. ASSUME NEW r \in Requests, AbortArrives(r)
      PROVE  PlacesOK'
  BY <1>46 DEF AbortArrives
<1> QED
  BY <1>1, <1>2, <1>3, <1>4, <1>5, <1>6, <1>7, <1>8, <1>9, <1>10, <1>11,
     <1>12, <1>13, <1>14, <1>15, <1>16, <1>17, <1>18, <1>19, <1>20, <1>21,
     <1>22, <1>23, <1>24, <1>25, <1>26, <1>27, <1>28, <1>29, <1>30, <1>31,
     <1>32, <1>33, <1>34, <1>35, <1>36, <1>37, <1>38, <1>39, <1>40, <1>41,
     <1>42, <1>43, <1>44, <1>45, <1>46
  DEF Next, Installer, Serve, Thread, Display

\* One attempt at a time, and the listener belongs to the last.
LEMMA AttemptPreserved ==
  ASSUME TypeOK, AttemptInv, ListenerInv, [Next]_vars
  PROVE  AttemptInv' /\ ListenerInv'
<1> USE NoneAssumption
    DEF session, connections, coordinator, installer, claims, TypeOK, PlacesOK, FlagsOK,
        At, Go, GoReply, Answer, MainGo, MainQuiet, Devices, RequestPlaces, Admitting,
        Attempting, Failing, Undoing, Replies, Busy, AttemptInv, ListenerInv
<1>1. CASE UNCHANGED vars
  BY <1>1 DEF vars
<1>2. CASE Expire
  BY <1>2 DEF Expire
<1>3. CASE Flashed
  BY <1>3 DEF Flashed
<1>4. CASE Provisioned
  BY <1>4 DEF Provisioned
<1>5. CASE SessionTimesOut
  BY <1>5 DEF SessionTimesOut
<1>6. CASE TakeProvisioning
  BY <1>6 DEF TakeProvisioning
<1>7. CASE Claimed
  BY <1>7 DEF Claimed
<1>8. CASE ClaimTimesOut
  BY <1>8 DEF ClaimTimesOut
<1>9. CASE FinishPending
  BY <1>9 DEF FinishPending
<1>10. CASE Commit
  BY <1>10 DEF Commit
<1>11. CASE CommitFails
  BY <1>11 DEF CommitFails
<1>12. CASE MarkFinished
  BY <1>12 DEF MarkFinished
<1>13. CASE Shutdown
  BY <1>13 DEF Shutdown
<1>14. CASE StopListener
  BY <1>14 DEF StopListener
<1>15. CASE RollbackIncomplete
  BY <1>15 DEF RollbackIncomplete
<1>16. CASE Close
  BY <1>16 DEF Close
<1>17. CASE Exit
  BY <1>17 DEF Exit
<1>18. CASE Interrupted
  BY <1>18 DEF Interrupted
<1>19. ASSUME NEW r \in Requests, Admit(r)
      PROVE  AttemptInv' /\ ListenerInv'
  BY <1>19 DEF Admit
<1>20. ASSUME NEW r \in Requests, TurnAway(r)
      PROVE  AttemptInv' /\ ListenerInv'
  BY <1>20 DEF TurnAway
<1>21. ASSUME NEW r \in Requests, CountIn(r)
      PROVE  AttemptInv' /\ ListenerInv'
  BY <1>21 DEF CountIn
<1>22. ASSUME NEW r \in Requests, Spawn(r)
      PROVE  AttemptInv' /\ ListenerInv'
  BY <1>22 DEF Spawn
<1>23. ASSUME NEW r \in Requests, SpawnFails(r)
      PROVE  AttemptInv' /\ ListenerInv'
  BY <1>23 DEF SpawnFails
<1>24. ASSUME NEW r \in Requests, RefuseRequest(r)
      PROVE  AttemptInv' /\ ListenerInv'
  BY <1>24 DEF RefuseRequest
<1>25. ASSUME NEW r \in Requests, ServePage(r)
      PROVE  AttemptInv' /\ ListenerInv'
  BY <1>25 DEF ServePage
<1>26. ASSUME NEW r \in Requests, Authorize(r)
      PROVE  AttemptInv' /\ ListenerInv'
  BY <1>26 DEF Authorize
<1>27. ASSUME NEW r \in Requests, BeginOnce(r)
      PROVE  AttemptInv' /\ ListenerInv'
  BY <1>27 DEF BeginOnce
<1>28. ASSUME NEW r \in Requests, BeginRefused(r)
      PROVE  AttemptInv' /\ ListenerInv'
  BY <1>28 DEF BeginRefused
<1>29. ASSUME NEW r \in Requests, BodyRead(r)
      PROVE  AttemptInv' /\ ListenerInv'
  BY <1>29 DEF BodyRead
<1>30. ASSUME NEW r \in Requests, BodyRefused(r)
      PROVE  AttemptInv' /\ ListenerInv'
  BY <1>30 DEF BodyRefused
<1>31. ASSUME NEW r \in Requests, BodyStalls(r)
      PROVE  AttemptInv' /\ ListenerInv'
  BY <1>31 DEF BodyStalls
<1>32. ASSUME NEW r \in Requests, Complete(r)
      PROVE  AttemptInv' /\ ListenerInv'
  BY <1>32 DEF Complete
<1>33. ASSUME NEW r \in Requests, CompleteFails(r)
      PROVE  AttemptInv' /\ ListenerInv'
  BY <1>33 DEF CompleteFails
<1>34. ASSUME NEW r \in Requests, SetProvisioning(r)
      PROVE  AttemptInv' /\ ListenerInv'
  BY <1>34 DEF SetProvisioning
<1>35. ASSUME NEW r \in Requests, Notify(r)
      PROVE  AttemptInv' /\ ListenerInv'
  BY <1>35 DEF Notify
<1>36. ASSUME NEW r \in Requests, UseOnce(r)
      PROVE  AttemptInv' /\ ListenerInv'
  BY <1>36 DEF UseOnce
<1>37. ASSUME NEW r \in Requests, UseRefused(r)
      PROVE  AttemptInv' /\ ListenerInv'
  BY <1>37 DEF UseRefused
<1>38. ASSUME NEW r \in Requests, FailAttempt(r)
      PROVE  AttemptInv' /\ ListenerInv'
  BY <1>38 DEF FailAttempt
<1>39. ASSUME NEW r \in Requests, AskUndo(r)
      PROVE  AttemptInv' /\ ListenerInv'
  BY <1>39 DEF AskUndo
<1>40. ASSUME NEW r \in Requests, Undo(r)
      PROVE  AttemptInv' /\ ListenerInv'
  BY <1>40 DEF Undo
<1>41. ASSUME NEW r \in Requests, UndoFails(r)
      PROVE  AttemptInv' /\ ListenerInv'
  BY <1>41 DEF UndoFails
<1>42. ASSUME NEW r \in Requests, AbortSession(r)
      PROVE  AttemptInv' /\ ListenerInv'
  BY <1>42 DEF AbortSession
<1>43. ASSUME NEW r \in Requests, Leave(r)
      PROVE  AttemptInv' /\ ListenerInv'
  BY <1>43 DEF Leave
<1>44. ASSUME NEW r \in Requests, Release(r)
      PROVE  AttemptInv' /\ ListenerInv'
  BY <1>44 DEF Release
<1>45. ASSUME NEW r \in Requests, ClaimArrives(r)
      PROVE  AttemptInv' /\ ListenerInv'
  BY <1>45 DEF ClaimArrives
<1>46. ASSUME NEW r \in Requests, AbortArrives(r)
      PROVE  AttemptInv' /\ ListenerInv'
  BY <1>46 DEF AbortArrives
<1> QED
  BY <1>1, <1>2, <1>3, <1>4, <1>5, <1>6, <1>7, <1>8, <1>9, <1>10, <1>11,
     <1>12, <1>13, <1>14, <1>15, <1>16, <1>17, <1>18, <1>19, <1>20, <1>21,
     <1>22, <1>23, <1>24, <1>25, <1>26, <1>27, <1>28, <1>29, <1>30, <1>31,
     <1>32, <1>33, <1>34, <1>35, <1>36, <1>37, <1>38, <1>39, <1>40, <1>41,
     <1>42, <1>43, <1>44, <1>45, <1>46
  DEF Next, Installer, Serve, Thread, Display

\* Unless an attempt begins before a failed one is undone, no rollback takes the
\* setup of another.
LEMMA StagedPreserved ==
  ASSUME Inv, [Next]_vars
  PROVE  ~overlap' => UndoneFirst' /\ StagedInv' /\ TakenInv'
<1> USE NoneAssumption
    DEF session, connections, coordinator, installer, claims, TypeOK, PlacesOK, FlagsOK,
        At, Go, GoReply, Answer, MainGo, MainQuiet, Devices, RequestPlaces, Admitting,
        Attempting, Failing, Undoing, Replies, Busy, Told, MarkAccepted, Open, Inv,
        AttemptInv, ListenerInv, UndoneFirst, StagedInv, TakenInv
<1>1. CASE UNCHANGED vars
  BY <1>1 DEF vars
<1>2. CASE Expire
  BY <1>2 DEF Expire
<1>3. CASE Flashed
  BY <1>3 DEF Flashed
<1>4. CASE Provisioned
  BY <1>4 DEF Provisioned
<1>5. CASE SessionTimesOut
  BY <1>5 DEF SessionTimesOut
<1>6. CASE TakeProvisioning
  BY <1>6 DEF TakeProvisioning
<1>7. CASE Claimed
  BY <1>7 DEF Claimed
<1>8. CASE ClaimTimesOut
  BY <1>8 DEF ClaimTimesOut
<1>9. CASE FinishPending
  BY <1>9 DEF FinishPending
<1>10. CASE Commit
  BY <1>10 DEF Commit
<1>11. CASE CommitFails
  BY <1>11 DEF CommitFails
<1>12. CASE MarkFinished
  BY <1>12 DEF MarkFinished
<1>13. CASE Shutdown
  BY <1>13 DEF Shutdown
<1>14. CASE StopListener
  BY <1>14 DEF StopListener
<1>15. CASE RollbackIncomplete
  BY <1>15 DEF RollbackIncomplete
<1>16. CASE Close
  BY <1>16 DEF Close
<1>17. CASE Exit
  BY <1>17 DEF Exit
<1>18. CASE Interrupted
  BY <1>18 DEF Interrupted
<1>19. ASSUME NEW r \in Requests, Admit(r)
      PROVE  ~overlap' => UndoneFirst' /\ StagedInv' /\ TakenInv'
  BY <1>19 DEF Admit
<1>20. ASSUME NEW r \in Requests, TurnAway(r)
      PROVE  ~overlap' => UndoneFirst' /\ StagedInv' /\ TakenInv'
  BY <1>20 DEF TurnAway
<1>21. ASSUME NEW r \in Requests, CountIn(r)
      PROVE  ~overlap' => UndoneFirst' /\ StagedInv' /\ TakenInv'
  BY <1>21 DEF CountIn
<1>22. ASSUME NEW r \in Requests, Spawn(r)
      PROVE  ~overlap' => UndoneFirst' /\ StagedInv' /\ TakenInv'
  BY <1>22 DEF Spawn
<1>23. ASSUME NEW r \in Requests, SpawnFails(r)
      PROVE  ~overlap' => UndoneFirst' /\ StagedInv' /\ TakenInv'
  BY <1>23 DEF SpawnFails
<1>24. ASSUME NEW r \in Requests, RefuseRequest(r)
      PROVE  ~overlap' => UndoneFirst' /\ StagedInv' /\ TakenInv'
  BY <1>24 DEF RefuseRequest
<1>25. ASSUME NEW r \in Requests, ServePage(r)
      PROVE  ~overlap' => UndoneFirst' /\ StagedInv' /\ TakenInv'
  BY <1>25 DEF ServePage
<1>26. ASSUME NEW r \in Requests, Authorize(r)
      PROVE  ~overlap' => UndoneFirst' /\ StagedInv' /\ TakenInv'
  BY <1>26 DEF Authorize
<1>27. ASSUME NEW r \in Requests, BeginOnce(r)
      PROVE  ~overlap' => UndoneFirst' /\ StagedInv' /\ TakenInv'
  <2>1. ~overlap' => ~overlap /\ \A u \in Requests : at[u] \notin Undoing
    BY <1>27, Zenon DEF BeginOnce
  <2>2. /\ at[r] = "begin" /\ Go(r, "body") /\ inFlight' = TRUE /\ ~used
        /\ UNCHANGED <<expired, used, tokenLive, provisioning, finished, connections,
                       reply, coordinator, installer, claims>>
    BY <1>27 DEF BeginOnce
  <2> QED
    BY <2>1, <2>2
<1>28. ASSUME NEW r \in Requests, BeginRefused(r)
      PROVE  ~overlap' => UndoneFirst' /\ StagedInv' /\ TakenInv'
  BY <1>28 DEF BeginRefused
<1>29. ASSUME NEW r \in Requests, BodyRead(r)
      PROVE  ~overlap' => UndoneFirst' /\ StagedInv' /\ TakenInv'
  BY <1>29 DEF BodyRead
<1>30. ASSUME NEW r \in Requests, BodyRefused(r)
      PROVE  ~overlap' => UndoneFirst' /\ StagedInv' /\ TakenInv'
  BY <1>30 DEF BodyRefused
<1>31. ASSUME NEW r \in Requests, BodyStalls(r)
      PROVE  ~overlap' => UndoneFirst' /\ StagedInv' /\ TakenInv'
  BY <1>31 DEF BodyStalls
<1>32. ASSUME NEW r \in Requests, Complete(r)
      PROVE  ~overlap' => UndoneFirst' /\ StagedInv' /\ TakenInv'
  BY <1>32 DEF Complete
<1>33. ASSUME NEW r \in Requests, CompleteFails(r)
      PROVE  ~overlap' => UndoneFirst' /\ StagedInv' /\ TakenInv'
  BY <1>33 DEF CompleteFails
<1>34. ASSUME NEW r \in Requests, SetProvisioning(r)
      PROVE  ~overlap' => UndoneFirst' /\ StagedInv' /\ TakenInv'
  BY <1>34 DEF SetProvisioning
<1>35. ASSUME NEW r \in Requests, Notify(r)
      PROVE  ~overlap' => UndoneFirst' /\ StagedInv' /\ TakenInv'
  BY <1>35 DEF Notify
<1>36. ASSUME NEW r \in Requests, UseOnce(r)
      PROVE  ~overlap' => UndoneFirst' /\ StagedInv' /\ TakenInv'
  BY <1>36 DEF UseOnce
<1>37. ASSUME NEW r \in Requests, UseRefused(r)
      PROVE  ~overlap' => UndoneFirst' /\ StagedInv' /\ TakenInv'
  BY <1>37 DEF UseRefused
<1>38. ASSUME NEW r \in Requests, FailAttempt(r)
      PROVE  ~overlap' => UndoneFirst' /\ StagedInv' /\ TakenInv'
  BY <1>38 DEF FailAttempt
<1>39. ASSUME NEW r \in Requests, AskUndo(r)
      PROVE  ~overlap' => UndoneFirst' /\ StagedInv' /\ TakenInv'
  BY <1>39 DEF AskUndo
<1>40. ASSUME NEW r \in Requests, Undo(r)
      PROVE  ~overlap' => UndoneFirst' /\ StagedInv' /\ TakenInv'
  BY <1>40 DEF Undo
<1>41. ASSUME NEW r \in Requests, UndoFails(r)
      PROVE  ~overlap' => UndoneFirst' /\ StagedInv' /\ TakenInv'
  BY <1>41 DEF UndoFails
<1>42. ASSUME NEW r \in Requests, AbortSession(r)
      PROVE  ~overlap' => UndoneFirst' /\ StagedInv' /\ TakenInv'
  BY <1>42 DEF AbortSession
<1>43. ASSUME NEW r \in Requests, Leave(r)
      PROVE  ~overlap' => UndoneFirst' /\ StagedInv' /\ TakenInv'
  BY <1>43 DEF Leave
<1>44. ASSUME NEW r \in Requests, Release(r)
      PROVE  ~overlap' => UndoneFirst' /\ StagedInv' /\ TakenInv'
  BY <1>44 DEF Release
<1>45. ASSUME NEW r \in Requests, ClaimArrives(r)
      PROVE  ~overlap' => UndoneFirst' /\ StagedInv' /\ TakenInv'
  BY <1>45 DEF ClaimArrives
<1>46. ASSUME NEW r \in Requests, AbortArrives(r)
      PROVE  ~overlap' => UndoneFirst' /\ StagedInv' /\ TakenInv'
  BY <1>46 DEF AbortArrives
<1> QED
  BY <1>1, <1>2, <1>3, <1>4, <1>5, <1>6, <1>7, <1>8, <1>9, <1>10, <1>11,
     <1>12, <1>13, <1>14, <1>15, <1>16, <1>17, <1>18, <1>19, <1>20, <1>21,
     <1>22, <1>23, <1>24, <1>25, <1>26, <1>27, <1>28, <1>29, <1>30, <1>31,
     <1>32, <1>33, <1>34, <1>35, <1>36, <1>37, <1>38, <1>39, <1>40, <1>41,
     <1>42, <1>43, <1>44, <1>45, <1>46
  DEF Next, Installer, Serve, Thread, Display

-----------------------------------------------------------------------------
(* The theorems *)

LEMMA InitInv == Init => Inv
<1> SUFFICES ASSUME Init PROVE Inv
  OBVIOUS
<1>1. PlacesOK
  BY DEF Init, PlacesOK, RequestPlaces, Replies, MainPlaces, Devices
<1>2. FlagsOK
  BY Zenon DEF Init, FlagsOK
<1>3. Holders = {} /\ Counted = {} /\ Busy = {}
  BY DEF Init, Holders, Counted, Busy, Attempting, Failing
<1>4. SlotsInv /\ CountsOK
  BY <1>3, FS_EmptySet, MaxConnectionsAssumption DEF Init, SlotsInv, CountsOK
<1>5. AttemptInv /\ ListenerInv /\ UndoneFirst /\ StagedInv /\ TakenInv
  BY <1>3 DEF Init, AttemptInv, ListenerInv, UndoneFirst, StagedInv, TakenInv, Told
<1> QED
  BY <1>1, <1>2, <1>4, <1>5 DEF Inv, TypeOK

\* The inductive invariant holds of every state of a session.
THEOREM Invariance == Spec => []Inv
<1>1. Inv /\ [Next]_vars => Inv'
  <2> SUFFICES ASSUME Inv, [Next]_vars PROVE Inv'
    OBVIOUS
  <2>1. SlotsInv' /\ slots' >= 0
    BY SlotsPreserved DEF Inv
  <2>2. (SlotsInv /\ slots >= 0 => CountsOK)'
    BY Bounded, PTL
  <2>3. TypeOK'
    BY <2>1, <2>2, FlagsPreserved, PlacesPreserved DEF Inv, TypeOK
  <2> QED
    BY <2>1, <2>3, AttemptPreserved, StagedPreserved DEF Inv
<1> QED
  BY <1>1, InitInv, PTL DEF Spec

\* Requests, session and installer stay in their places, and the free slots and the
\* active connections within the limit: no way through a request gives its slot
\* back twice (LocalOnboardingServer.process_request).
THEOREM TypeCorrect == Spec => []TypeOK
<1>1. Inv => TypeOK
  BY DEF Inv
<1> QED
  BY <1>1, Invariance, PTL

\* set_pending is never called with a device other than the listener's.
THEOREM ListenerAccepts == Spec => []SetPendingAccepted
<1>1. Inv => SetPendingAccepted
  BY DEF Inv, ListenerInv, SetPendingAccepted
<1> QED
  BY <1>1, Invariance, PTL

\* Whatever requests come, fail and time out around it: a submission that was
\* answered 200 stays staged until it is claimed, aborted or given up, and a setup
\* that was committed is marked finished.
THEOREM AnsweredIsStaged == Spec => []AnsweredStaysStaged
<1>1. Inv => AnsweredStaysStaged
  BY DEF Inv, StagedInv, TakenInv, AnsweredStaysStaged
<1> QED
  BY <1>1, Invariance, PTL

=============================================================================
