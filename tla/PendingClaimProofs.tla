------------------------- MODULE PendingClaimProofs -------------------------
(***************************************************************************)
(* Proofs about PendingClaim: a display that was told its setup is         *)
(* rejected is right, and "ready" is said of an activated transaction      *)
(* only, for any number of request threads.                                *)
(***************************************************************************)
EXTENDS PendingClaim, TLAPS

-----------------------------------------------------------------------------
(* The inductive invariant *)

\* The transaction will never become active, or it is already: for good.
Settled == txn \in {"undoing", "gone", "active"}

\* The installer goes to its end without finish_pending.
Over == main \in {"timeout", "final", "rollback"}

NobodyAtWork == \A h \in Handlers : at[h] = "idle"

\* A process that is gone has left neither threads nor an event.
DownInv ==
  main = "down" =>
    /\ ~listening /\ ~known /\ ~claimed /\ NobodyAtWork
    /\ status = "waiting_for_network"

\* The display and the threads know of a transaction that exists.
KnownInv ==
  /\ disp # "none" \/ ~NobodyAtWork => txn # "none"
  /\ ~known => main \in {"down", "submit", "final", "rollback"}
  /\ main = "submit" => txn \in {"none", "gone", "active"}

\* Under the transaction lock only finish_pending moves the transaction on; a
\* service that answers knows the device or the transaction is settled.
FinishInv ==
  /\ main = "check" => txn = "claimed"
  /\ main \in {"apply", "start", "ready"} => txn = "applying"
  /\ main = "undo" => txn \in {"claimed", "applying"}
  /\ main = "committed" => txn = "active"
  /\ txn = "applying" => main \in {"apply", "start", "ready", "undo", "down"}
  /\ main \in {"start", "ready"} => device
  /\ up => txn \in {"applying", "undoing", "gone", "active"}
  /\ up => device \/ Settled

\* Whoever says no says it of a setup that is settled or given up.
RefusalInv ==
  /\ status = "rejected" => Settled \/ Over
  /\ \A h \in Handlers :
       /\ at[h] \in {"claim_reject", "abort_reject"} => Settled
       /\ at[h] = "answer" /\ reply[h] \in {"gone", "rejected", "unauthorized"}
            => Settled \/ Over

\* A display that was told no stays out, after a restart that resumes the
\* transaction too: nobody is left to claim it.
OutInv ==
  disp = "rejected" =>
    \/ Settled
    \/ Over
    \/ main = "down"
    \/ main = "claim" /\ ~claimed /\ NobodyAtWork

\* What every step preserves.
Inv ==
  /\ TypeOK /\ DownInv /\ KnownInv /\ FinishInv /\ RefusalInv /\ OutInv
  /\ ReadyMeansActive

-----------------------------------------------------------------------------
(* Every step preserves it *)

\* Every step keeps the flags in their types.
LEMMA FlagsPreserved ==
  ASSUME TypeOK, [Next]_vars
  PROVE  FlagsOK'
<1> USE DEF bridge, installer, app, threads, display, TypeOK, FlagsOK
<1>1. CASE UNCHANGED vars
  BY <1>1, Zenon DEF vars
<1>2. CASE Start
  BY <1>2, Zenon DEF Start, Recovered, Inactive
<1>3. CASE Exit
  BY <1>3, Zenon DEF Exit, ProcessGone
<1>4. CASE Expire
  BY <1>4, Zenon DEF Expire
<1>5. CASE Submit
  BY <1>5, Zenon DEF Submit
<1>6. CASE SubmitTimeout
  BY <1>6, Zenon DEF SubmitTimeout
<1>7. CASE ClaimSeen
  BY <1>7, Zenon DEF ClaimSeen
<1>8. CASE ClaimTimeout
  BY <1>8, Zenon DEF ClaimTimeout
<1>9. CASE FinishEnter
  BY <1>9, Zenon DEF FinishEnter
<1>10. CASE CheckRound
  BY <1>10, Zenon DEF CheckRound
<1>11. CASE CheckPassed
  BY <1>11, Zenon DEF CheckPassed
<1>12. CASE AddDevice
  BY <1>12, Zenon DEF AddDevice
<1>13. CASE StopListener
  BY <1>13, Zenon DEF StopListener
<1>14. CASE StartService
  BY <1>14, Zenon DEF StartService
<1>15. CASE Commit
  BY <1>15, Zenon DEF Commit
<1>16. CASE ReportReady
  BY <1>16, Zenon DEF ReportReady
<1>17. CASE CleanupFails
  BY <1>17, Zenon DEF CleanupFails
<1>18. CASE FinishFails
  BY <1>18, Zenon DEF FinishFails
<1>19. CASE FinishUndone
  BY <1>19, Zenon DEF FinishUndone
<1>20. CASE FinishUndoFails
  BY <1>20, Zenon DEF FinishUndoFails
<1>21. CASE TellFailed
  BY <1>21, Zenon DEF TellFailed
<1>22. CASE TimeoutRollback
  BY <1>22, Zenon DEF TimeoutRollback, RolledBack, RollbackRaises, Inactive
<1>23. CASE FinalStop
  BY <1>23, Zenon DEF FinalStop
<1>24. CASE FinalRollback
  BY <1>24, Zenon DEF FinalRollback, ProcessGone, Inactive
<1>25. CASE Save
  BY <1>25, Zenon DEF Save
<1>26. CASE GiveUp
  BY <1>26, Zenon DEF GiveUp
<1>27. CASE ClaimAtService
  BY <1>27, Zenon DEF ClaimAtService
<1>28. CASE AbortPending
  BY <1>28, Zenon DEF AbortPending, Free, Goes
<1>29. ASSUME NEW h \in Handlers, ClaimRefused(h)
      PROVE  FlagsOK'
  BY <1>29, Zenon DEF ClaimRefused, Answers, Goes
<1>30. ASSUME NEW h \in Handlers, ClaimExpired(h)
      PROVE  FlagsOK'
  BY <1>30, Zenon DEF ClaimExpired, Goes
<1>31. ASSUME NEW h \in Handlers, ClaimAsks(h)
      PROVE  FlagsOK'
  BY <1>31, Zenon DEF ClaimAsks, Goes
<1>32. ASSUME NEW h \in Handlers, ClaimGranted(h)
      PROVE  FlagsOK'
  BY <1>32, Zenon DEF ClaimGranted, Goes, Inactive, LockFree
<1>33. ASSUME NEW h \in Handlers, ClaimDenied(h)
      PROVE  FlagsOK'
  BY <1>33, Zenon DEF ClaimDenied, Goes, Inactive, LockFree
<1>34. ASSUME NEW h \in Handlers, ClaimExpiryRaises(h)
      PROVE  FlagsOK'
  BY <1>34, Zenon DEF ClaimExpiryRaises, Answers, Goes
<1>35. ASSUME NEW h \in Handlers, ClaimStored(h)
      PROVE  FlagsOK'
  BY <1>35, Zenon DEF ClaimStored, Answers, Goes
<1>36. ASSUME NEW h \in Handlers, ThreadRollback(h)
      PROVE  FlagsOK'
  BY <1>36, Zenon DEF ThreadRollback, Goes, RolledBack, Inactive, LockFree
<1>37. ASSUME NEW h \in Handlers, ThreadRollbackRaises(h)
      PROVE  FlagsOK'
  BY <1>37, Zenon DEF ThreadRollbackRaises, Answers, Goes, RollbackRaises
<1>38. ASSUME NEW h \in Handlers, MarkRejected(h)
      PROVE  FlagsOK'
  BY <1>38, Zenon DEF MarkRejected, Answers, Goes
<1>39. ASSUME NEW h \in Handlers, Unheard(h)
      PROVE  FlagsOK'
  BY <1>39, Zenon DEF Unheard, Goes
<1>40. ASSUME NEW h \in Handlers, SendClaim(h)
      PROVE  FlagsOK'
  BY <1>40, Zenon DEF SendClaim, Answers, Goes, Free
<1>41. ASSUME NEW h \in Handlers, ReceiveAnswer(h)
      PROVE  FlagsOK'
  BY <1>41, Zenon DEF ReceiveAnswer, Goes, Told
<1> QED
  BY <1>1, <1>2, <1>3, <1>4, <1>5, <1>6, <1>7, <1>8, <1>9, <1>10, <1>11,
     <1>12, <1>13, <1>14, <1>15, <1>16, <1>17, <1>18, <1>19, <1>20, <1>21,
     <1>22, <1>23, <1>24, <1>25, <1>26, <1>27, <1>28, <1>29, <1>30,
     <1>31, <1>32, <1>33, <1>34, <1>35, <1>36, <1>37, <1>38, <1>39, <1>40,
     <1>41
  DEF Next, Installer, Display, Thread

\* Every step keeps the transaction, the installer, the threads and the display
\* in their places.
LEMMA PlacesPreserved ==
  ASSUME TypeOK, [Next]_vars
  PROVE  PlacesOK'
<1> USE HandlerAssumption
    DEF bridge, installer, app, threads, display, TypeOK, PlacesOK, FlagsOK, Places,
        InFinish, Claiming, Aborting, Replies
<1>1. CASE UNCHANGED vars
  BY <1>1 DEF vars
<1>2. CASE Start
  BY <1>2 DEF Start, Recovered, Inactive
<1>3. CASE Exit
  BY <1>3 DEF Exit, ProcessGone
<1>4. CASE Expire
  BY <1>4 DEF Expire
<1>5. CASE Submit
  BY <1>5 DEF Submit
<1>6. CASE SubmitTimeout
  BY <1>6 DEF SubmitTimeout
<1>7. CASE ClaimSeen
  BY <1>7 DEF ClaimSeen
<1>8. CASE ClaimTimeout
  BY <1>8 DEF ClaimTimeout
<1>9. CASE FinishEnter
  BY <1>9 DEF FinishEnter
<1>10. CASE CheckRound
  BY <1>10 DEF CheckRound
<1>11. CASE CheckPassed
  BY <1>11 DEF CheckPassed
<1>12. CASE AddDevice
  BY <1>12 DEF AddDevice
<1>13. CASE StopListener
  BY <1>13 DEF StopListener
<1>14. CASE StartService
  BY <1>14 DEF StartService
<1>15. CASE Commit
  BY <1>15 DEF Commit
<1>16. CASE ReportReady
  BY <1>16 DEF ReportReady
<1>17. CASE CleanupFails
  BY <1>17 DEF CleanupFails
<1>18. CASE FinishFails
  BY <1>18 DEF FinishFails
<1>19. CASE FinishUndone
  BY <1>19 DEF FinishUndone
<1>20. CASE FinishUndoFails
  BY <1>20 DEF FinishUndoFails
<1>21. CASE TellFailed
  BY <1>21 DEF TellFailed
<1>22. CASE TimeoutRollback
  BY <1>22 DEF TimeoutRollback, RolledBack, RollbackRaises, Inactive
<1>23. CASE FinalStop
  BY <1>23 DEF FinalStop
<1>24. CASE FinalRollback
  BY <1>24 DEF FinalRollback, ProcessGone, Inactive
<1>25. CASE Save
  BY <1>25 DEF Save
<1>26. CASE GiveUp
  BY <1>26 DEF GiveUp
<1>27. CASE ClaimAtService
  BY <1>27 DEF ClaimAtService
<1>28. CASE AbortPending
  BY <1>28 DEF AbortPending, Free, Goes
<1>29. ASSUME NEW h \in Handlers, ClaimRefused(h)
      PROVE  PlacesOK'
  BY <1>29 DEF ClaimRefused, Answers, Goes
<1>30. ASSUME NEW h \in Handlers, ClaimExpired(h)
      PROVE  PlacesOK'
  BY <1>30 DEF ClaimExpired, Goes
<1>31. ASSUME NEW h \in Handlers, ClaimAsks(h)
      PROVE  PlacesOK'
  BY <1>31 DEF ClaimAsks, Goes
<1>32. ASSUME NEW h \in Handlers, ClaimGranted(h)
      PROVE  PlacesOK'
  BY <1>32 DEF ClaimGranted, Goes, Inactive, LockFree
<1>33. ASSUME NEW h \in Handlers, ClaimDenied(h)
      PROVE  PlacesOK'
  BY <1>33 DEF ClaimDenied, Goes, Inactive, LockFree
<1>34. ASSUME NEW h \in Handlers, ClaimExpiryRaises(h)
      PROVE  PlacesOK'
  BY <1>34 DEF ClaimExpiryRaises, Answers, Goes
<1>35. ASSUME NEW h \in Handlers, ClaimStored(h)
      PROVE  PlacesOK'
  BY <1>35 DEF ClaimStored, Answers, Goes
<1>36. ASSUME NEW h \in Handlers, ThreadRollback(h)
      PROVE  PlacesOK'
  BY <1>36 DEF ThreadRollback, Goes, RolledBack, Inactive, LockFree
<1>37. ASSUME NEW h \in Handlers, ThreadRollbackRaises(h)
      PROVE  PlacesOK'
  BY <1>37 DEF ThreadRollbackRaises, Answers, Goes, RollbackRaises
<1>38. ASSUME NEW h \in Handlers, MarkRejected(h)
      PROVE  PlacesOK'
  BY <1>38 DEF MarkRejected, Answers, Goes
<1>39. ASSUME NEW h \in Handlers, Unheard(h)
      PROVE  PlacesOK'
  BY <1>39 DEF Unheard, Goes
<1>40. ASSUME NEW h \in Handlers, SendClaim(h)
      PROVE  PlacesOK'
  BY <1>40 DEF SendClaim, Answers, Goes, Free
<1>41. ASSUME NEW h \in Handlers, ReceiveAnswer(h)
      PROVE  PlacesOK'
  BY <1>41 DEF ReceiveAnswer, Goes, Told
<1> QED
  BY <1>1, <1>2, <1>3, <1>4, <1>5, <1>6, <1>7, <1>8, <1>9, <1>10, <1>11,
     <1>12, <1>13, <1>14, <1>15, <1>16, <1>17, <1>18, <1>19, <1>20, <1>21,
     <1>22, <1>23, <1>24, <1>25, <1>26, <1>27, <1>28, <1>29, <1>30,
     <1>31, <1>32, <1>33, <1>34, <1>35, <1>36, <1>37, <1>38, <1>39, <1>40,
     <1>41
  DEF Next, Installer, Display, Thread

\* Every step keeps what the processes know of one another in line.
LEMMA StepsPreserve ==
  ASSUME Inv, [Next]_vars
  PROVE  DownInv' /\ KnownInv' /\ FinishInv' /\ RefusalInv' /\ OutInv'
         /\ ReadyMeansActive'
<1> USE HandlerAssumption
    DEF bridge, installer, app, threads, display, TypeOK, PlacesOK, FlagsOK, Places,
        InFinish, Claiming, Aborting, Replies, Settled, Over, NobodyAtWork, DownInv,
        KnownInv, FinishInv, RefusalInv, OutInv, ReadyMeansActive, Inv
<1>1. CASE UNCHANGED vars
  BY <1>1 DEF vars
<1>2. CASE Start
  BY <1>2 DEF Start, Recovered, Inactive
<1>3. CASE Exit
  BY <1>3 DEF Exit, ProcessGone
<1>4. CASE Expire
  BY <1>4 DEF Expire
<1>5. CASE Submit
  BY <1>5 DEF Submit
<1>6. CASE SubmitTimeout
  BY <1>6 DEF SubmitTimeout
<1>7. CASE ClaimSeen
  BY <1>7 DEF ClaimSeen
<1>8. CASE ClaimTimeout
  BY <1>8 DEF ClaimTimeout
<1>9. CASE FinishEnter
  BY <1>9 DEF FinishEnter
<1>10. CASE CheckRound
  BY <1>10 DEF CheckRound
<1>11. CASE CheckPassed
  BY <1>11 DEF CheckPassed
<1>12. CASE AddDevice
  BY <1>12 DEF AddDevice
<1>13. CASE StopListener
  BY <1>13 DEF StopListener
<1>14. CASE StartService
  BY <1>14 DEF StartService
<1>15. CASE Commit
  BY <1>15 DEF Commit
<1>16. CASE ReportReady
  BY <1>16 DEF ReportReady
<1>17. CASE CleanupFails
  BY <1>17 DEF CleanupFails
<1>18. CASE FinishFails
  BY <1>18 DEF FinishFails
<1>19. CASE FinishUndone
  BY <1>19 DEF FinishUndone
<1>20. CASE FinishUndoFails
  <2>1. up' => up
    BY <1>20, Zenon DEF FinishUndoFails
  <2>2. /\ main = "undo" /\ main' = "failed"
        /\ txn' = IF txn = "claimed" THEN "claimed" ELSE "undoing"
        /\ UNCHANGED <<expired, listening, known, app, threads, display>>
    BY <1>20 DEF FinishUndoFails
  <2> QED
    BY <2>1, <2>2
<1>21. CASE TellFailed
  BY <1>21 DEF TellFailed
<1>22. CASE TimeoutRollback
  BY <1>22 DEF TimeoutRollback, RolledBack, RollbackRaises, Inactive
<1>23. CASE FinalStop
  BY <1>23 DEF FinalStop
<1>24. CASE FinalRollback
  BY <1>24 DEF FinalRollback, ProcessGone, Inactive
<1>25. CASE Save
  BY <1>25 DEF Save
<1>26. CASE GiveUp
  BY <1>26 DEF GiveUp
<1>27. CASE ClaimAtService
  BY <1>27 DEF ClaimAtService
<1>28. CASE AbortPending
  BY <1>28 DEF AbortPending, Free, Goes
<1>29. ASSUME NEW h \in Handlers, ClaimRefused(h)
      PROVE  DownInv' /\ KnownInv' /\ FinishInv' /\ RefusalInv' /\ OutInv'
               /\ ReadyMeansActive'
  BY <1>29 DEF ClaimRefused, Answers, Goes
<1>30. ASSUME NEW h \in Handlers, ClaimExpired(h)
      PROVE  DownInv' /\ KnownInv' /\ FinishInv' /\ RefusalInv' /\ OutInv'
               /\ ReadyMeansActive'
  BY <1>30 DEF ClaimExpired, Goes
<1>31. ASSUME NEW h \in Handlers, ClaimAsks(h)
      PROVE  DownInv' /\ KnownInv' /\ FinishInv' /\ RefusalInv' /\ OutInv'
               /\ ReadyMeansActive'
  BY <1>31 DEF ClaimAsks, Goes
<1>32. ASSUME NEW h \in Handlers, ClaimGranted(h)
      PROVE  DownInv' /\ KnownInv' /\ FinishInv' /\ RefusalInv' /\ OutInv'
               /\ ReadyMeansActive'
  BY <1>32 DEF ClaimGranted, Goes, Inactive, LockFree
<1>33. ASSUME NEW h \in Handlers, ClaimDenied(h)
      PROVE  DownInv' /\ KnownInv' /\ FinishInv' /\ RefusalInv' /\ OutInv'
               /\ ReadyMeansActive'
  BY <1>33 DEF ClaimDenied, Goes, Inactive, LockFree
<1>34. ASSUME NEW h \in Handlers, ClaimExpiryRaises(h)
      PROVE  DownInv' /\ KnownInv' /\ FinishInv' /\ RefusalInv' /\ OutInv'
               /\ ReadyMeansActive'
  BY <1>34 DEF ClaimExpiryRaises, Answers, Goes
<1>35. ASSUME NEW h \in Handlers, ClaimStored(h)
      PROVE  DownInv' /\ KnownInv' /\ FinishInv' /\ RefusalInv' /\ OutInv'
               /\ ReadyMeansActive'
  BY <1>35 DEF ClaimStored, Answers, Goes
<1>36. ASSUME NEW h \in Handlers, ThreadRollback(h)
      PROVE  DownInv' /\ KnownInv' /\ FinishInv' /\ RefusalInv' /\ OutInv'
               /\ ReadyMeansActive'
  BY <1>36 DEF ThreadRollback, Goes, RolledBack, Inactive, LockFree
<1>37. ASSUME NEW h \in Handlers, ThreadRollbackRaises(h)
      PROVE  DownInv' /\ KnownInv' /\ FinishInv' /\ RefusalInv' /\ OutInv'
               /\ ReadyMeansActive'
  BY <1>37 DEF ThreadRollbackRaises, Answers, Goes, RollbackRaises
<1>38. ASSUME NEW h \in Handlers, MarkRejected(h)
      PROVE  DownInv' /\ KnownInv' /\ FinishInv' /\ RefusalInv' /\ OutInv'
               /\ ReadyMeansActive'
  BY <1>38 DEF MarkRejected, Answers, Goes
<1>39. ASSUME NEW h \in Handlers, Unheard(h)
      PROVE  DownInv' /\ KnownInv' /\ FinishInv' /\ RefusalInv' /\ OutInv'
               /\ ReadyMeansActive'
  BY <1>39 DEF Unheard, Goes
<1>40. ASSUME NEW h \in Handlers, SendClaim(h)
      PROVE  DownInv' /\ KnownInv' /\ FinishInv' /\ RefusalInv' /\ OutInv'
               /\ ReadyMeansActive'
  BY <1>40 DEF SendClaim, Answers, Goes, Free
<1>41. ASSUME NEW h \in Handlers, ReceiveAnswer(h)
      PROVE  DownInv' /\ KnownInv' /\ FinishInv' /\ RefusalInv' /\ OutInv'
               /\ ReadyMeansActive'
  BY <1>41 DEF ReceiveAnswer, Goes, Told
<1> QED
  BY <1>1, <1>2, <1>3, <1>4, <1>5, <1>6, <1>7, <1>8, <1>9, <1>10, <1>11,
     <1>12, <1>13, <1>14, <1>15, <1>16, <1>17, <1>18, <1>19, <1>20, <1>21,
     <1>22, <1>23, <1>24, <1>25, <1>26, <1>27, <1>28, <1>29, <1>30,
     <1>31, <1>32, <1>33, <1>34, <1>35, <1>36, <1>37, <1>38, <1>39, <1>40,
     <1>41
  DEF Next, Installer, Display, Thread

-----------------------------------------------------------------------------
(* The theorems *)

LEMMA InitInv == Init => Inv
<1> SUFFICES ASSUME Init PROVE Inv
  OBVIOUS
<1>1. PlacesOK
  BY DEF Init, PlacesOK, Places, Replies
<1>2. FlagsOK
  BY Zenon DEF Init, FlagsOK
<1>3. DownInv /\ KnownInv /\ FinishInv /\ RefusalInv /\ OutInv /\ ReadyMeansActive
  BY DEF Init, DownInv, KnownInv, FinishInv, RefusalInv, OutInv, ReadyMeansActive,
         NobodyAtWork
<1> QED
  BY <1>1, <1>2, <1>3 DEF Inv, TypeOK

\* The inductive invariant holds of every state of a setup.
THEOREM Invariance == Spec => []Inv
<1>1. Inv /\ [Next]_vars => Inv'
  <2> SUFFICES ASSUME Inv, [Next]_vars PROVE Inv'
    OBVIOUS
  <2>1. TypeOK'
    BY FlagsPreserved, PlacesPreserved DEF Inv, TypeOK
  <2> QED
    BY <2>1, StepsPreserve DEF Inv
<1> QED
  BY <1>1, InitInv, PTL DEF Spec

\* The transaction, the installer, the listener, its threads and the display stay
\* in their places.
THEOREM TypeCorrect == Spec => []TypeOK
<1>1. Inv => TypeOK
  BY DEF Inv
<1> QED
  BY <1>1, Invariance, PTL

\* The listener says "ready" (PendingClaimApplication.mark_active) of a transaction
\* that is activated, however many claims and aborts are under way.
THEOREM ReadyIsActive == Spec => []ReadyMeansActive
<1>1. Inv => ReadyMeansActive
  BY DEF Inv
<1> QED
  BY <1>1, Invariance, PTL

\* No transaction is activated after its display was told that it is rejected.
THEOREM OutIsOut == Spec => RejectedStaysOut
<1>1. Inv /\ [Next]_vars
        => [disp = "rejected" /\ txn # "active" => txn' # "active"]_vars
  <2> SUFFICES ASSUME Inv, Next, disp = "rejected", txn # "active"
               PROVE  txn' # "active"
    BY DEF vars
  <2>1. CASE Commit
    BY <2>1 DEF Commit, Inv, FinishInv, OutInv, Settled, Over
  <2>2. CASE UNCHANGED bridge
    BY <2>2 DEF bridge
  <2>3. CASE txn' = txn \/ txn' \in {"staged", "claimed", "applying", "undoing", "gone"}
    BY <2>3
  <2>4. Commit \/ UNCHANGED bridge
          \/ txn' = txn \/ txn' \in {"staged", "claimed", "applying", "undoing", "gone"}
    BY DEF Next, Installer, Display, Thread, bridge, Start, Exit, Expire, Submit,
      SubmitTimeout, ClaimSeen, ClaimTimeout, FinishEnter, CheckRound,
      CheckPassed, AddDevice, StopListener, StartService, Commit, ReportReady,
      CleanupFails, FinishFails, FinishUndone, FinishUndoFails, TellFailed,
      TimeoutRollback, FinalStop, FinalRollback, Save, GiveUp, ClaimAtService,
      AbortPending, SendClaim, ReceiveAnswer, ClaimRefused,
      ClaimExpired, ClaimAsks, ClaimGranted, ClaimDenied, ClaimExpiryRaises,
      ClaimStored, ThreadRollback, ThreadRollbackRaises, MarkRejected,
      Unheard, Recovered, Inactive, RolledBack, RollbackRaises, ProcessGone,
      Answers, Goes
  <2> QED
    BY <2>1, <2>2, <2>3, <2>4
<1> QED
  BY <1>1, Invariance, PTL DEF Spec, RejectedStaysOut

=============================================================================
