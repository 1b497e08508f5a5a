-------------------------- MODULE OnboardingProofs --------------------------
(***************************************************************************)
(* Proofs about Onboarding.  One inductive invariant, Inv, carries the     *)
(* safety properties: each of its parts has a lemma that every step        *)
(* preserves it, with one proof step per kind of action.                   *)
(*                                                                         *)
(* The lemmas come in three layers: what the edits of a journal record do  *)
(* to it, what the actions that write a journal leave in memory and on     *)
(* disk, and the preservation of the invariant.  Only the first two look   *)
(* into the record type Journals.                                          *)
(***************************************************************************)
EXTENDS Onboarding, TLAPS

-----------------------------------------------------------------------------
(* Journal records *)

\* The types of the fields of a journal.
LEMMA JournalFields ==
  \A j \in Journals :
    /\ j.txn \in Txns
    /\ j.phase \in Phases
    /\ j.verified \in BOOLEAN
    /\ j.switched \in BOOLEAN
    /\ j.previous \in Txns \cup {None}
    /\ j.service \in Baselines
BY DEF Journals

\* _write_journal after a change of phase.
LEMMA SetPhase ==
  ASSUME NEW j \in Journals, NEW p \in Phases
  PROVE  LET k == [j EXCEPT !.phase = p] IN
         /\ k \in Journals
         /\ k.txn = j.txn /\ k.phase = p /\ k.verified = j.verified
         /\ k.switched = j.switched /\ k.previous = j.previous /\ k.service = j.service
BY DEF Journals

\* ... after the permission check.
LEMMA SetVerified ==
  ASSUME NEW j \in Journals
  PROVE  LET k == [j EXCEPT !.verified = TRUE] IN
         /\ k \in Journals
         /\ k.txn = j.txn /\ k.phase = j.phase /\ k.verified = TRUE
         /\ k.switched = j.switched /\ k.previous = j.previous /\ k.service = j.service
BY DEF Journals

\* ... after the previous selector has been read.
LEMMA SetPrevious ==
  ASSUME NEW j \in Journals, NEW a \in Txns \cup {None}
  PROVE  LET k == [j EXCEPT !.switched = TRUE, !.previous = a] IN
         /\ k \in Journals
         /\ k.txn = j.txn /\ k.phase = j.phase /\ k.verified = j.verified
         /\ k.switched = TRUE /\ k.previous = a /\ k.service = j.service
BY DEF Journals

\* ... after the baseline of the service is known.
LEMMA SetService ==
  ASSUME NEW j \in Journals, NEW b \in Baselines
  PROVE  LET k == [j EXCEPT !.service = b] IN
         /\ k \in Journals
         /\ k.txn = j.txn /\ k.phase = j.phase /\ k.verified = j.verified
         /\ k.switched = j.switched /\ k.previous = j.previous /\ k.service = b
BY DEF Journals

\* ... after finish_pending has merged what memory knows into what it re-read.
LEMMA Recalled ==
  ASSUME NEW j \in Journals, NEW m \in Journals
  PROVE  LET k == [j EXCEPT
         !.service = IF m.service = "unrecorded" THEN @ ELSE m.service,
         !.switched = @ \/ m.switched,
         !.previous = IF m.switched THEN m.previous ELSE @] IN
         /\ k \in Journals
         /\ k.txn = j.txn /\ k.phase = j.phase /\ k.verified = j.verified
         /\ k.switched = (j.switched \/ m.switched)
         /\ k.previous = (IF m.switched THEN m.previous ELSE j.previous)
         /\ k.service = (IF m.service = "unrecorded" THEN j.service ELSE m.service)
BY DEF Journals

\* The journal complete() stages.
LEMMA NewJournal ==
  ASSUME NEW t \in Txns
  PROVE  LET k == [txn |-> t, phase |-> "staged", verified |-> FALSE,
             switched |-> FALSE, previous |-> None, service |-> "unrecorded"] IN
         k \in Journals
BY DEF Journals, Phases, Inactive, Baselines

-----------------------------------------------------------------------------
(* Actions that write a journal *)

\* k is j with other phase and service fields.
Keeps(k, j) ==
  /\ k \in Journals
  /\ k.txn = j.txn /\ k.verified = j.verified
  /\ k.switched = j.switched /\ k.previous = j.previous

\* The holder's journal reaches phase p, on disk too unless the write failed.
Reaches(p, next) ==
  /\ Keeps(mem', mem) /\ mem'.phase = p
  /\ \/ journal' = mem' /\ pc' = next
     \/ journal' = journal /\ pc' = "failed"

\* The steps of _finish_locked that write a new phase.
LEMMA FinishWrites ==
  ASSUME TypeOK, HolderInv
  PROVE  /\ Apply => Reaches("applying", "record")
         /\ MarkSwitched => Reaches("credentials_active", "add_token")
         /\ MarkDeviceAdded => Reaches("device_added", "service")
         /\ RecordServiceBaseline => Reaches("service_starting", "change")
         /\ MarkServiceStarted => Reaches("service_started", "verify")
         /\ Commit => Reaches("complete", "cl_staged")
<1>1. /\ {"applying", "credentials_active", "device_added", "service_starting",
          "service_started", "complete"} \subseteq Phases
      /\ {"was_active", "was_inactive"} \subseteq Baselines
  BY DEF Phases, Activating, Baselines
<1>2. pc \in {"apply", "switched", "added", "service", "started", "commit"}
        => mem \in Journals
  BY DEF HolderInv, Busy, FinishSteps
<1>3. ASSUME Apply PROVE Reaches("applying", "record")
  BY <1>1, <1>2, <1>3, SetPhase DEF Apply, Write, Reaches, Keeps
<1>4. ASSUME MarkSwitched PROVE Reaches("credentials_active", "add_token")
  BY <1>1, <1>2, <1>4, SetPhase DEF MarkSwitched, Write, Reaches, Keeps
<1>5. ASSUME MarkDeviceAdded PROVE Reaches("device_added", "service")
  BY <1>1, <1>2, <1>5, SetPhase DEF MarkDeviceAdded, Write, Reaches, Keeps
<1>6. ASSUME RecordServiceBaseline PROVE Reaches("service_starting", "change")
  <2>1. Baseline \in Baselines
    BY DEF Baseline, Baselines
  <2>2. [mem EXCEPT !.phase = "service_starting", !.service = Baseline] \in Journals
    BY <1>1, <1>2, <1>6, <2>1 DEF RecordServiceBaseline, Journals
  <2> QED
    BY <1>2, <1>6, <2>2 DEF RecordServiceBaseline, Write, Reaches, Keeps, Journals
<1>7. ASSUME MarkServiceStarted PROVE Reaches("service_started", "verify")
  BY <1>1, <1>2, <1>7, SetPhase DEF MarkServiceStarted, Write, Reaches, Keeps
<1>8. ASSUME Commit PROVE Reaches("complete", "cl_staged")
  BY <1>1, <1>2, <1>8, SetPhase DEF Commit, Write, Reaches, Keeps
<1> QED
  BY <1>3, <1>4, <1>5, <1>6, <1>7, <1>8

\* The step that records the passed check.
LEMMA GrantWrites ==
  ASSUME TypeOK, HolderInv, PermissionGranted
  PROVE  /\ mem' \in Journals
         /\ mem'.txn = mem.txn /\ mem'.phase = mem.phase /\ mem'.verified
         /\ mem'.switched = mem.switched /\ mem'.previous = mem.previous
         /\ \/ journal' = mem' /\ pc' = "apply"
            \/ journal' = journal /\ pc' = "failed"
<1>1. mem \in Journals
  BY DEF PermissionGranted, HolderInv, Busy, FinishSteps
<1> QED
  BY <1>1, SetVerified DEF PermissionGranted, Write

\* The step that records the selector to go back to.
LEMMA PreviousWrites ==
  ASSUME TypeOK, HolderInv, RecordPrevious
  PROVE  /\ mem' \in Journals
         /\ mem'.txn = mem.txn /\ mem'.phase = mem.phase
         /\ mem'.verified = mem.verified /\ mem'.switched /\ mem'.previous = active
         /\ \/ journal' = mem' /\ pc' = "switch"
            \/ journal' = journal /\ pc' = "failed"
<1>1. mem \in Journals /\ active \in Txns \cup {None}
  BY DEF RecordPrevious, HolderInv, Busy, FinishSteps, TypeOK
<1> QED
  BY <1>1, SetPrevious DEF RecordPrevious, Write

\* A failed probe of the service manager leaves at most another baseline.
LEMMA ProbeWrites ==
  ASSUME TypeOK, HolderInv, ServiceProbeFails
  PROVE  Keeps(mem', mem) /\ mem'.phase = mem.phase /\ journal' \in {journal, mem'}
<1>1. mem \in Journals
  BY DEF ServiceProbeFails, HolderInv, Busy, FinishSteps
<1> QED
  BY <1>1, SetService DEF ServiceProbeFails, Keeps

\* The rollback works on the journal on disk with what memory adds to it.
LEMMA RollbackBegins ==
  ASSUME TypeOK, HolderInv, FinishRollback
  PROVE  /\ mem' \in Journals
         /\ mem'.txn = journal.txn /\ mem'.phase = journal.phase
         /\ mem'.verified = journal.verified
         /\ mem'.switched = (journal.switched \/ mem.switched)
         /\ mem'.previous = IF mem.switched THEN mem.previous ELSE journal.previous
<1>1. mem \in Journals /\ journal \in Journals
  BY DEF FinishRollback, HolderInv, Busy, TypeOK
<1> QED
  BY <1>1, Recalled, Zenon DEF FinishRollback, EnterRollback

\* The three places that write a phase outside _finish_locked's try block.
LEMMA PhaseWrites ==
  ASSUME TypeOK
  PROVE  /\ RecoverChecking => Keeps(journal', journal) /\ journal'.phase = "claimed"
         /\ Claim => Keeps(journal', journal) /\ journal'.phase = "claimed"
         /\ FinishBegin => Keeps(journal', journal) /\ journal'.phase = "checking"
<1>1. journal # None => journal \in Journals
  BY DEF TypeOK
<1>2. {"claimed", "checking"} \subseteq Phases
  BY DEF Phases, Inactive
<1>3. ASSUME RecoverChecking PROVE Keeps(journal', journal) /\ journal'.phase = "claimed"
  BY <1>1, <1>2, <1>3, SetPhase DEF RecoverChecking, Keeps
<1>4. ASSUME Claim PROVE Keeps(journal', journal) /\ journal'.phase = "claimed"
  BY <1>1, <1>2, <1>4, SetPhase DEF Claim, Keeps
<1>5. ASSUME FinishBegin PROVE Keeps(journal', journal) /\ journal'.phase = "checking"
  BY <1>1, <1>2, <1>5, SetPhase DEF FinishBegin, Keeps
<1> QED
  BY <1>3, <1>4, <1>5

-----------------------------------------------------------------------------
(* Every step preserves the invariant *)

\* Every step keeps every variable in its type.
LEMMA TypePreserved ==
  ASSUME TypeOK, HolderInv, [Next]_vars
  PROVE  TypeOK'
<1> USE OnboardingAssumption, JournalFields
        DEF durable, service, flags, history, TypeOK, HolderInv, Busy, Steps,
            StageSteps, FinishSteps, RollbackSteps, CleanupSteps
<1>1. ASSUME Start \/ Crash \/ Close
     PROVE  TypeOK'
  BY <1>1
  DEF Crash, Close, Start, Stop
<1>2. ASSUME Recover
     PROVE  TypeOK'
  <2>1. CASE RecoverNothing
    BY <2>1
    DEF RecoverNothing
  <2>2. CASE RecoverChecking
    BY <2>2, PhaseWrites
    DEF RecoverChecking, Keeps
  <2>3. CASE RecoverRollback
    BY <2>3
    DEF RecoverRollback, EnterRollback
  <2>4. CASE RecoverComplete
    BY <2>4
    DEF RecoverComplete, EnterCleanup
  <2>5. CASE CleanupOrphans
    BY <2>5
    DEF CleanupOrphans
  <2>6. CASE RecoverFails
    BY <2>6
    DEF RecoverFails
  <2> QED
    BY <1>2, <2>1, <2>2, <2>3, <2>4, <2>5, <2>6 DEF Recover
<1>3. ASSUME Staging
     PROVE  TypeOK'
  <2>1. CASE StageSlot
    BY <2>1
    DEF StageSlot
  <2>2. CASE StageToken
    BY <2>2
    DEF StageToken
  <2>3. CASE StageJournal
    BY <2>3
    DEF StageJournal, Return
  <2>4. CASE StageFails
    BY <2>4
    DEF StageFails, Return
  <2> QED
    BY <1>3, <2>1, <2>2, <2>3, <2>4 DEF Staging
<1>4. ASSUME Apply \/ MarkSwitched \/ MarkDeviceAdded
     PROVE  TypeOK'
  BY <1>4, FinishWrites
  DEF Apply, Reaches, Keeps, MarkSwitched, MarkDeviceAdded
<1>5. ASSUME RecordServiceBaseline \/ MarkServiceStarted \/ Commit
     PROVE  TypeOK'
  BY <1>5, FinishWrites
  DEF RecordServiceBaseline, Reaches, Keeps, MarkServiceStarted, Commit
<1>6. ASSUME PermissionGranted
     PROVE  TypeOK'
  BY <1>6, GrantWrites
  DEF PermissionGranted
<1>7. ASSUME RecordPrevious
     PROVE  TypeOK'
  BY <1>7, PreviousWrites
  DEF RecordPrevious
<1>8. ASSUME ServiceProbeFails
     PROVE  TypeOK'
  BY <1>8, ProbeWrites
  DEF ServiceProbeFails, Keeps
<1>9. ASSUME SwitchCredentials \/ AddDeviceToken \/ AddDeviceRecord \/ AddDeviceFails
     PROVE  TypeOK'
  BY <1>9
  DEF SwitchCredentials, AddDeviceToken, AddDeviceRecord, AddDeviceFails
<1>10. ASSUME CheckAbort \/ PermissionRetry \/ VerifyOwnedState \/ FinishFails
      PROVE  TypeOK'
  BY <1>10
  DEF CheckAbort, PermissionRetry, VerifyOwnedState, FinishFails
<1>11. ASSUME StartService \/ StartServiceFails
      PROVE  TypeOK'
  <2>1. CASE StartService
    BY <2>1
    DEF StartService
  <2>2. CASE StartServiceFails
    BY <2>2
    DEF StartServiceFails, ServiceCommandFails
  <2> QED
    BY <1>11, <2>1, <2>2
<1>12. ASSUME FinishRollback
      PROVE  TypeOK'
  BY <1>12, RollbackBegins
  DEF FinishRollback, EnterRollback
<1>13. ASSUME Undo
      PROVE  TypeOK'
  <2>1. CASE RollbackRecord
    BY <2>1
    DEF RollbackRecord
  <2>2. CASE RollbackToken
    BY <2>2
    DEF RollbackToken
  <2>3. CASE RollbackSelector
    BY <2>3
    DEF RollbackSelector, SelectorRestored, SelectorOurs
  <2>4. CASE RollbackService
    BY <2>4
    DEF RollbackService
  <2>5. CASE RollbackStaged
    BY <2>5
    DEF RollbackStaged
  <2>6. CASE RollbackSlot
    BY <2>6
    DEF RollbackSlot
  <2> QED
    BY <1>13, <2>1, <2>2, <2>3, <2>4, <2>5, <2>6 DEF Undo
<1>14. ASSUME UndoRefused \/ UndoFails
      PROVE  TypeOK'
  <2>1. CASE UndoRefused
    BY <2>1
    DEF UndoRefused, SkipUndo, Conflict
  <2>2. CASE UndoFails
    BY <2>2
    DEF UndoFails, SkipUndo, ServiceCommandFails
  <2> QED
    BY <1>14, <2>1, <2>2
<1>15. ASSUME RollbackDone \/ RollbackIncomplete
      PROVE  TypeOK'
  BY <1>15
  DEF RollbackDone, Return, RollbackIncomplete
<1>16. ASSUME Cleanup
      PROVE  TypeOK'
  BY <1>16
  DEF Cleanup, CleanupStaged, CleanupPrevious, CleanupJournal, Return,
      CleanupFails
<1>17. ASSUME StageRefused \/ Claim \/ ExpirePending
      PROVE  TypeOK'
  BY <1>17, PhaseWrites
  DEF StageRefused, Claim, Keeps, ExpirePending, EnterRollback
<1>18. ASSUME FinishBegin
      PROVE  TypeOK'
  BY <1>18, PhaseWrites
  DEF FinishBegin, Keeps
<1>19. ASSUME NEW t \in Txns, Stage(t)
      PROVE  TypeOK'
  BY <1>19, NewJournal
  DEF Stage
<1>20. ASSUME NEW c \in Clients, RequestAbort(c) \/ AbortNothing(c) \/ AbortRollback(c)
      PROVE  TypeOK'
  <2>1. CASE RequestAbort(c)
    BY <2>1
    DEF RequestAbort
  <2>2. CASE AbortNothing(c)
    BY <2>2
    DEF AbortNothing
  <2>3. CASE AbortRollback(c)
    BY <2>3
    DEF AbortRollback, EnterRollback, EnterCleanup
  <2> QED
    BY <1>20, <2>1, <2>2, <2>3
<1>21. ASSUME Expire \/ ReplaceCredentials \/ RestartService
      PROVE  TypeOK'
  <2>1. CASE Expire
    BY <2>1
    DEF Expire
  <2>2. CASE ReplaceCredentials
    BY <2>2
    DEF ReplaceCredentials
  <2>3. CASE RestartService
    BY <2>3
    DEF RestartService
  <2> QED
    BY <1>21, <2>1, <2>2, <2>3
<1>22. ASSUME NEW t \in Txns, RotateRecord(t) \/ RotateToken(t) \/ DisableDevice(t)
      PROVE  TypeOK'
  BY <1>22
  DEF RotateRecord, RotateToken, DisableDevice
<1>23. ASSUME UNCHANGED vars
      PROVE  TypeOK'
  BY <1>23
  DEF vars
<1> QED
  BY <1>1, <1>2, <1>3, <1>4, <1>5, <1>6, <1>7, <1>8, <1>9, <1>10, <1>11, <1>12,
     <1>13, <1>14, <1>15, <1>16, <1>17, <1>18, <1>19, <1>20, <1>21, <1>22,
     <1>23
  DEF Next, Holder, Finish, Rollback, Call, Others

\* Every step keeps the holder's journal and the one on disk together.
LEMMA HolderPreserved ==
  ASSUME TypeOK, HolderInv, [Next]_vars
  PROVE  HolderInv'
<1> USE NoneIsNoJournal, JournalFields
        DEF durable, service, flags, history, TypeOK, HolderInv, Busy,
            StageSteps, FinishSteps, RollbackSteps, CleanupSteps
<1>1. ASSUME Start \/ Crash \/ Close
     PROVE  HolderInv'
  BY <1>1
  DEF Crash, Close, Start, Stop
<1>2. ASSUME Recover
     PROVE  HolderInv'
  BY <1>2, PhaseWrites
  DEF Recover, RecoverNothing, RecoverChecking, Keeps, RecoverRollback,
      EnterRollback, RecoverComplete, EnterCleanup, CleanupOrphans,
      RecoverFails
<1>3. ASSUME Staging
     PROVE  HolderInv'
  BY <1>3
  DEF Staging, StageSlot, StageToken, StageJournal, Return, StageFails
<1>4. ASSUME Apply \/ MarkSwitched \/ MarkDeviceAdded
     PROVE  HolderInv'
  BY <1>4, FinishWrites
  DEF Apply, Reaches, Keeps, MarkSwitched, MarkDeviceAdded
<1>5. ASSUME RecordServiceBaseline \/ MarkServiceStarted \/ Commit
     PROVE  HolderInv'
  BY <1>5, FinishWrites
  DEF RecordServiceBaseline, Reaches, Keeps, MarkServiceStarted, Commit
<1>6. ASSUME PermissionGranted
     PROVE  HolderInv'
  BY <1>6, GrantWrites
  DEF PermissionGranted
<1>7. ASSUME RecordPrevious
     PROVE  HolderInv'
  BY <1>7, PreviousWrites
  DEF RecordPrevious
<1>8. ASSUME ServiceProbeFails
     PROVE  HolderInv'
  BY <1>8, ProbeWrites
  DEF ServiceProbeFails, Keeps
<1>9. ASSUME SwitchCredentials \/ AddDeviceToken \/ AddDeviceRecord \/ AddDeviceFails
     PROVE  HolderInv'
  BY <1>9
  DEF SwitchCredentials, AddDeviceToken, AddDeviceRecord, AddDeviceFails
<1>10. ASSUME CheckAbort \/ PermissionRetry \/ VerifyOwnedState \/ FinishFails
      PROVE  HolderInv'
  BY <1>10
  DEF CheckAbort, PermissionRetry, VerifyOwnedState, FinishFails
<1>11. ASSUME StartService \/ StartServiceFails
      PROVE  HolderInv'
  BY <1>11
  DEF StartService, StartServiceFails, ServiceCommandFails
<1>12. ASSUME FinishRollback
      PROVE  HolderInv'
  BY <1>12, RollbackBegins
  DEF FinishRollback, EnterRollback
<1>13. ASSUME Undo
      PROVE  HolderInv'
  BY <1>13
  DEF Undo, RollbackRecord, RollbackToken, RollbackSelector, SelectorRestored,
      SelectorOurs, RollbackService, RollbackStaged, RollbackSlot
<1>14. ASSUME UndoRefused \/ UndoFails
      PROVE  HolderInv'
  BY <1>14
  DEF UndoRefused, SkipUndo, Conflict, UndoFails, ServiceCommandFails
<1>15. ASSUME RollbackDone \/ RollbackIncomplete
      PROVE  HolderInv'
  BY <1>15
  DEF RollbackDone, Return, RollbackIncomplete
<1>16. ASSUME Cleanup
      PROVE  HolderInv'
  BY <1>16
  DEF Cleanup, CleanupStaged, CleanupPrevious, CleanupJournal, Return,
      CleanupFails
<1>17. ASSUME StageRefused \/ Claim \/ ExpirePending
      PROVE  HolderInv'
  BY <1>17, PhaseWrites
  DEF StageRefused, Claim, Keeps, ExpirePending, EnterRollback
<1>18. ASSUME FinishBegin
      PROVE  HolderInv'
  BY <1>18, PhaseWrites
  DEF FinishBegin, Keeps
<1>19. ASSUME NEW t \in Txns, Stage(t)
      PROVE  HolderInv'
  BY <1>19, NewJournal
  DEF Stage
<1>20. ASSUME NEW c \in Clients, RequestAbort(c) \/ AbortNothing(c) \/ AbortRollback(c)
      PROVE  HolderInv'
  BY <1>20
  DEF RequestAbort, AbortNothing, AbortRollback, EnterRollback, EnterCleanup
<1>21. ASSUME Expire \/ ReplaceCredentials \/ RestartService
      PROVE  HolderInv'
  BY <1>21
  DEF Expire, ReplaceCredentials, RestartService
<1>22. ASSUME NEW t \in Txns, RotateRecord(t) \/ RotateToken(t) \/ DisableDevice(t)
      PROVE  HolderInv'
  BY <1>22
  DEF RotateRecord, RotateToken, DisableDevice
<1>23. ASSUME UNCHANGED vars
      PROVE  HolderInv'
  BY <1>23
  DEF vars
<1> QED
  BY <1>1, <1>2, <1>3, <1>4, <1>5, <1>6, <1>7, <1>8, <1>9, <1>10, <1>11, <1>12,
     <1>13, <1>14, <1>15, <1>16, <1>17, <1>18, <1>19, <1>20, <1>21, <1>22,
     <1>23
  DEF Next, Holder, Finish, Rollback, Call, Others

\* No step selects or serves a key before "verified" is recorded for it.
LEMMA KeyPreserved ==
  ASSUME TypeOK, HolderInv, KeyInv, OnlyViewOnlyActive, [Next]_vars
  PROVE  KeyInv' /\ OnlyViewOnlyActive'
<1> USE NoneIsNoJournal
        DEF durable, service, flags, history, TypeOK, HolderInv, KeyInv,
            OnlyViewOnlyActive, Vetted, Busy, Unchecked, StageSteps,
            FinishSteps, RollbackSteps, CleanupSteps
<1>1. ASSUME Start \/ Crash \/ Close
     PROVE  KeyInv' /\ OnlyViewOnlyActive'
  BY <1>1
  DEF Crash, Close, Start, Stop
<1>2. ASSUME Recover
     PROVE  KeyInv' /\ OnlyViewOnlyActive'
  BY <1>2, PhaseWrites
  DEF Recover, RecoverNothing, RecoverChecking, Keeps, RecoverRollback,
      EnterRollback, RecoverComplete, EnterCleanup, CleanupOrphans,
      RecoverFails
<1>3. ASSUME Staging
     PROVE  KeyInv' /\ OnlyViewOnlyActive'
  BY <1>3
  DEF Staging, StageSlot, StageToken, StageJournal, Return, StageFails
<1>4. ASSUME Apply \/ MarkSwitched \/ MarkDeviceAdded
     PROVE  KeyInv' /\ OnlyViewOnlyActive'
  BY <1>4, FinishWrites
  DEF Apply, Reaches, Keeps, MarkSwitched, MarkDeviceAdded
<1>5. ASSUME RecordServiceBaseline \/ MarkServiceStarted \/ Commit
     PROVE  KeyInv' /\ OnlyViewOnlyActive'
  BY <1>5, FinishWrites
  DEF RecordServiceBaseline, Reaches, Keeps, MarkServiceStarted, Commit
<1>6. ASSUME PermissionGranted
     PROVE  KeyInv' /\ OnlyViewOnlyActive'
  BY <1>6, GrantWrites
  DEF PermissionGranted
<1>7. ASSUME RecordPrevious
     PROVE  KeyInv' /\ OnlyViewOnlyActive'
  BY <1>7, PreviousWrites
  DEF RecordPrevious
<1>8. ASSUME ServiceProbeFails
     PROVE  KeyInv' /\ OnlyViewOnlyActive'
  BY <1>8, ProbeWrites
  DEF ServiceProbeFails, Keeps
<1>9. ASSUME SwitchCredentials \/ AddDeviceToken \/ AddDeviceRecord \/ AddDeviceFails
     PROVE  KeyInv' /\ OnlyViewOnlyActive'
  BY <1>9
  DEF SwitchCredentials, AddDeviceToken, AddDeviceRecord, AddDeviceFails
<1>10. ASSUME CheckAbort \/ PermissionRetry \/ VerifyOwnedState \/ FinishFails
      PROVE  KeyInv' /\ OnlyViewOnlyActive'
  BY <1>10
  DEF CheckAbort, PermissionRetry, VerifyOwnedState, FinishFails
<1>11. ASSUME StartService \/ StartServiceFails
      PROVE  KeyInv' /\ OnlyViewOnlyActive'
  BY <1>11
  DEF StartService, StartServiceFails, ServiceCommandFails
<1>12. ASSUME FinishRollback
      PROVE  KeyInv' /\ OnlyViewOnlyActive'
  BY <1>12, RollbackBegins
  DEF FinishRollback, EnterRollback
<1>13. ASSUME Undo
      PROVE  KeyInv' /\ OnlyViewOnlyActive'
  BY <1>13
  DEF Undo, RollbackRecord, RollbackToken, RollbackSelector, SelectorRestored,
      SelectorOurs, RollbackService, RollbackStaged, RollbackSlot
<1>14. ASSUME UndoRefused \/ UndoFails
      PROVE  KeyInv' /\ OnlyViewOnlyActive'
  BY <1>14
  DEF UndoRefused, SkipUndo, Conflict, UndoFails, ServiceCommandFails
<1>15. ASSUME RollbackDone \/ RollbackIncomplete
      PROVE  KeyInv' /\ OnlyViewOnlyActive'
  BY <1>15
  DEF RollbackDone, Return, RollbackIncomplete
<1>16. ASSUME Cleanup
      PROVE  KeyInv' /\ OnlyViewOnlyActive'
  BY <1>16
  DEF Cleanup, CleanupStaged, CleanupPrevious, CleanupJournal, Return,
      CleanupFails
<1>17. ASSUME StageRefused \/ Claim \/ ExpirePending
      PROVE  KeyInv' /\ OnlyViewOnlyActive'
  BY <1>17, PhaseWrites
  DEF StageRefused, Claim, Keeps, ExpirePending, EnterRollback
<1>18. ASSUME FinishBegin
      PROVE  KeyInv' /\ OnlyViewOnlyActive'
  BY <1>18, PhaseWrites
  DEF FinishBegin, Keeps
<1>19. ASSUME NEW t \in Txns, Stage(t)
      PROVE  KeyInv' /\ OnlyViewOnlyActive'
  BY <1>19, NewJournal
  DEF Stage
<1>20. ASSUME NEW c \in Clients, RequestAbort(c) \/ AbortNothing(c) \/ AbortRollback(c)
      PROVE  KeyInv' /\ OnlyViewOnlyActive'
  BY <1>20
  DEF RequestAbort, AbortNothing, AbortRollback, EnterRollback, EnterCleanup
<1>21. ASSUME Expire \/ ReplaceCredentials \/ RestartService
      PROVE  KeyInv' /\ OnlyViewOnlyActive'
  BY <1>21
  DEF Expire, ReplaceCredentials, RestartService
<1>22. ASSUME NEW t \in Txns, RotateRecord(t) \/ RotateToken(t) \/ DisableDevice(t)
      PROVE  KeyInv' /\ OnlyViewOnlyActive'
  BY <1>22
  DEF RotateRecord, RotateToken, DisableDevice
<1>23. ASSUME UNCHANGED vars
      PROVE  KeyInv' /\ OnlyViewOnlyActive'
  BY <1>23
  DEF vars
<1> QED
  BY <1>1, <1>2, <1>3, <1>4, <1>5, <1>6, <1>7, <1>8, <1>9, <1>10, <1>11, <1>12,
     <1>13, <1>14, <1>15, <1>16, <1>17, <1>18, <1>19, <1>20, <1>21, <1>22,
     <1>23
  DEF Next, Holder, Finish, Rollback, Call, Others

\* Every step keeps the phase on disk in line with what is committed.
LEMMA PhasePreserved ==
  ASSUME TypeOK, HolderInv, PhaseInv, [Next]_vars
  PROVE  PhaseInv'
<1> USE NoneIsNoJournal, JournalFields
        DEF durable, service, flags, history, TypeOK, HolderInv, PhaseInv,
            Busy, Unchecked, Inactive, Activating, StageSteps, FinishSteps,
            RollbackSteps, CleanupSteps
<1>1. ASSUME Start \/ Crash \/ Close
     PROVE  PhaseInv'
  BY <1>1
  DEF Crash, Close, Start, Stop
<1>2. ASSUME Recover
     PROVE  PhaseInv'
  BY <1>2, PhaseWrites
  DEF Recover, RecoverNothing, RecoverChecking, Keeps, RecoverRollback,
      EnterRollback, RecoverComplete, EnterCleanup, CleanupOrphans,
      RecoverFails
<1>3. ASSUME Staging
     PROVE  PhaseInv'
  BY <1>3
  DEF Staging, StageSlot, StageToken, StageJournal, Return, StageFails
<1>4. ASSUME Apply \/ MarkSwitched \/ MarkDeviceAdded
     PROVE  PhaseInv'
  BY <1>4, FinishWrites
  DEF Apply, Reaches, Keeps, MarkSwitched, MarkDeviceAdded
<1>5. ASSUME RecordServiceBaseline \/ MarkServiceStarted \/ Commit
     PROVE  PhaseInv'
  BY <1>5, FinishWrites
  DEF RecordServiceBaseline, Reaches, Keeps, MarkServiceStarted, Commit
<1>6. ASSUME PermissionGranted
     PROVE  PhaseInv'
  BY <1>6, GrantWrites
  DEF PermissionGranted
<1>7. ASSUME RecordPrevious
     PROVE  PhaseInv'
  BY <1>7, PreviousWrites
  DEF RecordPrevious
<1>8. ASSUME ServiceProbeFails
     PROVE  PhaseInv'
  BY <1>8, ProbeWrites
  DEF ServiceProbeFails, Keeps
<1>9. ASSUME SwitchCredentials \/ AddDeviceToken \/ AddDeviceRecord \/ AddDeviceFails
     PROVE  PhaseInv'
  BY <1>9
  DEF SwitchCredentials, AddDeviceToken, AddDeviceRecord, AddDeviceFails
<1>10. ASSUME CheckAbort \/ PermissionRetry \/ VerifyOwnedState \/ FinishFails
      PROVE  PhaseInv'
  BY <1>10
  DEF CheckAbort, PermissionRetry, VerifyOwnedState, FinishFails
<1>11. ASSUME StartService \/ StartServiceFails
      PROVE  PhaseInv'
  BY <1>11
  DEF StartService, StartServiceFails, ServiceCommandFails
<1>12. ASSUME FinishRollback
      PROVE  PhaseInv'
  BY <1>12, RollbackBegins
  DEF FinishRollback, EnterRollback
<1>13. ASSUME Undo
      PROVE  PhaseInv'
  BY <1>13
  DEF Undo, RollbackRecord, RollbackToken, RollbackSelector, SelectorRestored,
      SelectorOurs, RollbackService, RollbackStaged, RollbackSlot
<1>14. ASSUME UndoRefused \/ UndoFails
      PROVE  PhaseInv'
  BY <1>14
  DEF UndoRefused, SkipUndo, Conflict, UndoFails, ServiceCommandFails
<1>15. ASSUME RollbackDone \/ RollbackIncomplete
      PROVE  PhaseInv'
  BY <1>15
  DEF RollbackDone, Return, RollbackIncomplete
<1>16. ASSUME Cleanup
      PROVE  PhaseInv'
  BY <1>16
  DEF Cleanup, CleanupStaged, CleanupPrevious, CleanupJournal, Return,
      CleanupFails
<1>17. ASSUME StageRefused \/ Claim \/ ExpirePending
      PROVE  PhaseInv'
  BY <1>17, PhaseWrites
  DEF StageRefused, Claim, Keeps, ExpirePending, EnterRollback
<1>18. ASSUME FinishBegin
      PROVE  PhaseInv'
  BY <1>18, PhaseWrites
  DEF FinishBegin, Keeps
<1>19. ASSUME NEW t \in Txns, Stage(t)
      PROVE  PhaseInv'
  BY <1>19, NewJournal
  DEF Stage
<1>20. ASSUME NEW c \in Clients, RequestAbort(c) \/ AbortNothing(c) \/ AbortRollback(c)
      PROVE  PhaseInv'
  BY <1>20
  DEF RequestAbort, AbortNothing, AbortRollback, EnterRollback, EnterCleanup
<1>21. ASSUME Expire \/ ReplaceCredentials \/ RestartService
      PROVE  PhaseInv'
  BY <1>21
  DEF Expire, ReplaceCredentials, RestartService
<1>22. ASSUME NEW t \in Txns, RotateRecord(t) \/ RotateToken(t) \/ DisableDevice(t)
      PROVE  PhaseInv'
  BY <1>22
  DEF RotateRecord, RotateToken, DisableDevice
<1>23. ASSUME UNCHANGED vars
      PROVE  PhaseInv'
  BY <1>23
  DEF vars
<1> QED
  BY <1>1, <1>2, <1>3, <1>4, <1>5, <1>6, <1>7, <1>8, <1>9, <1>10, <1>11, <1>12,
     <1>13, <1>14, <1>15, <1>16, <1>17, <1>18, <1>19, <1>20, <1>21, <1>22,
     <1>23
  DEF Next, Holder, Finish, Rollback, Call, Others

\* Every step keeps the way back from a moved selector.
LEMMA SwitchPreserved ==
  ASSUME Inv, [Next]_vars
  PROVE  SwitchInv'
<1> USE OnboardingAssumption, NoneIsNoJournal, JournalFields
        DEF durable, service, flags, history, Inv, TypeOK, HolderInv, PhaseInv,
            SwitchInv, JournalCoversEffects, Busy, Unchecked, Unswitched,
            StageSteps, FinishSteps, RollbackSteps, CleanupSteps, Inactive,
            Activating
<1>1. ASSUME Start \/ Crash \/ Close
     PROVE  SwitchInv'
  BY <1>1
  DEF Crash, Close, Start, Stop
<1>2. ASSUME Recover
     PROVE  SwitchInv'
  BY <1>2, PhaseWrites
  DEF Recover, RecoverNothing, RecoverChecking, Keeps, RecoverRollback,
      EnterRollback, RecoverComplete, EnterCleanup, CleanupOrphans,
      RecoverFails
<1>3. ASSUME Staging
     PROVE  SwitchInv'
  BY <1>3
  DEF Staging, StageSlot, StageToken, StageJournal, Return, StageFails
<1>4. ASSUME Apply \/ MarkSwitched \/ MarkDeviceAdded
     PROVE  SwitchInv'
  BY <1>4, FinishWrites
  DEF Apply, Reaches, Keeps, MarkSwitched, MarkDeviceAdded
<1>5. ASSUME RecordServiceBaseline \/ MarkServiceStarted \/ Commit
     PROVE  SwitchInv'
  BY <1>5, FinishWrites
  DEF RecordServiceBaseline, Reaches, Keeps, MarkServiceStarted, Commit
<1>6. ASSUME PermissionGranted
     PROVE  SwitchInv'
  BY <1>6, GrantWrites
  DEF PermissionGranted
<1>7. ASSUME RecordPrevious
     PROVE  SwitchInv'
  BY <1>7, PreviousWrites
  DEF RecordPrevious
<1>8. ASSUME ServiceProbeFails
     PROVE  SwitchInv'
  BY <1>8, ProbeWrites
  DEF ServiceProbeFails, Keeps
<1>9. ASSUME SwitchCredentials \/ AddDeviceToken \/ AddDeviceRecord \/ AddDeviceFails
     PROVE  SwitchInv'
  BY <1>9
  DEF SwitchCredentials, AddDeviceToken, AddDeviceRecord, AddDeviceFails
<1>10. ASSUME CheckAbort \/ PermissionRetry \/ VerifyOwnedState \/ FinishFails
      PROVE  SwitchInv'
  BY <1>10
  DEF CheckAbort, PermissionRetry, VerifyOwnedState, FinishFails
<1>11. ASSUME StartService \/ StartServiceFails
      PROVE  SwitchInv'
  BY <1>11
  DEF StartService, StartServiceFails, ServiceCommandFails
<1>12. ASSUME FinishRollback
      PROVE  SwitchInv'
  BY <1>12, RollbackBegins
  DEF FinishRollback, EnterRollback
<1>13. ASSUME Undo
      PROVE  SwitchInv'
  BY <1>13
  DEF Undo, RollbackRecord, RollbackToken, RollbackSelector, SelectorRestored,
      SelectorOurs, RollbackService, RollbackStaged, RollbackSlot
<1>14. ASSUME UndoRefused \/ UndoFails
      PROVE  SwitchInv'
  BY <1>14
  DEF UndoRefused, SkipUndo, Conflict, UndoFails, ServiceCommandFails
<1>15. ASSUME RollbackDone \/ RollbackIncomplete
      PROVE  SwitchInv'
  BY <1>15
  DEF RollbackDone, Return, RollbackIncomplete
<1>16. ASSUME Cleanup
      PROVE  SwitchInv'
  BY <1>16
  DEF Cleanup, CleanupStaged, CleanupPrevious, CleanupJournal, Return,
      CleanupFails
<1>17. ASSUME StageRefused \/ Claim \/ ExpirePending
      PROVE  SwitchInv'
  BY <1>17, PhaseWrites
  DEF StageRefused, Claim, Keeps, ExpirePending, EnterRollback
<1>18. ASSUME FinishBegin
      PROVE  SwitchInv'
  BY <1>18, PhaseWrites
  DEF FinishBegin, Keeps
<1>19. ASSUME NEW t \in Txns, Stage(t)
      PROVE  SwitchInv'
  BY <1>19, NewJournal
  DEF Stage
<1>20. ASSUME NEW c \in Clients, RequestAbort(c) \/ AbortNothing(c) \/ AbortRollback(c)
      PROVE  SwitchInv'
  BY <1>20
  DEF RequestAbort, AbortNothing, AbortRollback, EnterRollback, EnterCleanup
<1>21. ASSUME Expire \/ ReplaceCredentials \/ RestartService
      PROVE  SwitchInv'
  BY <1>21
  DEF Expire, ReplaceCredentials, RestartService
<1>22. ASSUME NEW t \in Txns, RotateRecord(t) \/ RotateToken(t) \/ DisableDevice(t)
      PROVE  SwitchInv'
  BY <1>22
  DEF RotateRecord, RotateToken, DisableDevice
<1>23. ASSUME UNCHANGED vars
      PROVE  SwitchInv'
  BY <1>23
  DEF vars
<1> QED
  BY <1>1, <1>2, <1>3, <1>4, <1>5, <1>6, <1>7, <1>8, <1>9, <1>10, <1>11, <1>12,
     <1>13, <1>14, <1>15, <1>16, <1>17, <1>18, <1>19, <1>20, <1>21, <1>22,
     <1>23
  DEF Next, Holder, Finish, Rollback, Call, Others

\* Every step keeps the record of what a rollback has undone.
LEMMA UndoPreserved ==
  ASSUME Inv, [Next]_vars
  PROVE  UndoInv'
<1> USE OnboardingAssumption, JournalFields
        DEF durable, service, flags, history, Inv, TypeOK, HolderInv, PhaseInv,
            SwitchInv, UndoInv, Busy, StageSteps, FinishSteps, RollbackSteps,
            CleanupSteps
<1>1. ASSUME Start \/ Crash \/ Close
     PROVE  UndoInv'
  BY <1>1
  DEF Crash, Close, Start, Stop
<1>2. ASSUME Recover
     PROVE  UndoInv'
  BY <1>2, PhaseWrites
  DEF Recover, RecoverNothing, RecoverChecking, Keeps, RecoverRollback,
      EnterRollback, RecoverComplete, EnterCleanup, CleanupOrphans,
      RecoverFails
<1>3. ASSUME Staging
     PROVE  UndoInv'
  BY <1>3
  DEF Staging, StageSlot, StageToken, StageJournal, Return, StageFails
<1>4. ASSUME Apply \/ MarkSwitched \/ MarkDeviceAdded
     PROVE  UndoInv'
  BY <1>4, FinishWrites
  DEF Apply, Reaches, Keeps, MarkSwitched, MarkDeviceAdded
<1>5. ASSUME RecordServiceBaseline \/ MarkServiceStarted \/ Commit
     PROVE  UndoInv'
  BY <1>5, FinishWrites
  DEF RecordServiceBaseline, Reaches, Keeps, MarkServiceStarted, Commit
<1>6. ASSUME PermissionGranted
     PROVE  UndoInv'
  BY <1>6, GrantWrites
  DEF PermissionGranted
<1>7. ASSUME RecordPrevious
     PROVE  UndoInv'
  BY <1>7, PreviousWrites
  DEF RecordPrevious
<1>8. ASSUME ServiceProbeFails
     PROVE  UndoInv'
  BY <1>8, ProbeWrites
  DEF ServiceProbeFails, Keeps
<1>9. ASSUME SwitchCredentials \/ AddDeviceToken \/ AddDeviceRecord \/ AddDeviceFails
     PROVE  UndoInv'
  BY <1>9
  DEF SwitchCredentials, AddDeviceToken, AddDeviceRecord, AddDeviceFails
<1>10. ASSUME CheckAbort \/ PermissionRetry \/ VerifyOwnedState \/ FinishFails
      PROVE  UndoInv'
  BY <1>10
  DEF CheckAbort, PermissionRetry, VerifyOwnedState, FinishFails
<1>11. ASSUME StartService \/ StartServiceFails
      PROVE  UndoInv'
  BY <1>11
  DEF StartService, StartServiceFails, ServiceCommandFails
<1>12. ASSUME FinishRollback
      PROVE  UndoInv'
  BY <1>12, RollbackBegins
  DEF FinishRollback, EnterRollback
<1>13. ASSUME Undo
      PROVE  UndoInv'
  BY <1>13
  DEF Undo, RollbackRecord, RollbackToken, RollbackSelector, SelectorRestored,
      SelectorOurs, RollbackService, RollbackStaged, RollbackSlot
<1>14. ASSUME UndoRefused \/ UndoFails
      PROVE  UndoInv'
  BY <1>14
  DEF UndoRefused, SkipUndo, Conflict, UndoFails, ServiceCommandFails
<1>15. ASSUME RollbackDone \/ RollbackIncomplete
      PROVE  UndoInv'
  BY <1>15
  DEF RollbackDone, Return, RollbackIncomplete
<1>16. ASSUME Cleanup
      PROVE  UndoInv'
  BY <1>16
  DEF Cleanup, CleanupStaged, CleanupPrevious, CleanupJournal, Return,
      CleanupFails
<1>17. ASSUME StageRefused \/ Claim \/ ExpirePending
      PROVE  UndoInv'
  BY <1>17, PhaseWrites
  DEF StageRefused, Claim, Keeps, ExpirePending, EnterRollback
<1>18. ASSUME FinishBegin
      PROVE  UndoInv'
  BY <1>18, PhaseWrites
  DEF FinishBegin, Keeps
<1>19. ASSUME NEW t \in Txns, Stage(t)
      PROVE  UndoInv'
  BY <1>19, NewJournal
  DEF Stage
<1>20. ASSUME NEW c \in Clients, RequestAbort(c) \/ AbortNothing(c) \/ AbortRollback(c)
      PROVE  UndoInv'
  BY <1>20
  DEF RequestAbort, AbortNothing, AbortRollback, EnterRollback, EnterCleanup
<1>21. ASSUME Expire \/ ReplaceCredentials \/ RestartService
      PROVE  UndoInv'
  BY <1>21
  DEF Expire, ReplaceCredentials, RestartService
<1>22. ASSUME NEW t \in Txns, RotateRecord(t) \/ RotateToken(t) \/ DisableDevice(t)
      PROVE  UndoInv'
  BY <1>22
  DEF RotateRecord, RotateToken, DisableDevice
<1>23. ASSUME UNCHANGED vars
      PROVE  UndoInv'
  BY <1>23
  DEF vars
<1> QED
  BY <1>1, <1>2, <1>3, <1>4, <1>5, <1>6, <1>7, <1>8, <1>9, <1>10, <1>11, <1>12,
     <1>13, <1>14, <1>15, <1>16, <1>17, <1>18, <1>19, <1>20, <1>21, <1>22,
     <1>23
  DEF Next, Holder, Finish, Rollback, Call, Others

\* No step takes effect, or drops the journal, ahead of its cover.
LEMMA EffectsPreserved ==
  ASSUME Inv, [Next]_vars
  PROVE  JournalCoversEffects'
<1> USE OnboardingAssumption, NoneIsNoJournal, JournalFields
        DEF durable, service, flags, history, Inv, TypeOK, HolderInv, PhaseInv,
            SwitchInv, UndoInv, JournalCoversEffects, Busy, Unchecked,
            Unswitched, StageSteps, FinishSteps, RollbackSteps, CleanupSteps,
            Inactive, Activating
<1>1. ASSUME Start \/ Crash \/ Close
     PROVE  JournalCoversEffects'
  BY <1>1
  DEF Crash, Close, Start, Stop
<1>2. ASSUME Recover
     PROVE  JournalCoversEffects'
  BY <1>2, PhaseWrites
  DEF Recover, RecoverNothing, RecoverChecking, Keeps, RecoverRollback,
      EnterRollback, RecoverComplete, EnterCleanup, CleanupOrphans,
      RecoverFails
<1>3. ASSUME Staging
     PROVE  JournalCoversEffects'
  BY <1>3
  DEF Staging, StageSlot, StageToken, StageJournal, Return, StageFails
<1>4. ASSUME Apply \/ MarkSwitched \/ MarkDeviceAdded
     PROVE  JournalCoversEffects'
  BY <1>4, FinishWrites
  DEF Apply, Reaches, Keeps, MarkSwitched, MarkDeviceAdded
<1>5. ASSUME RecordServiceBaseline \/ MarkServiceStarted \/ Commit
     PROVE  JournalCoversEffects'
  BY <1>5, FinishWrites
  DEF RecordServiceBaseline, Reaches, Keeps, MarkServiceStarted, Commit
<1>6. ASSUME PermissionGranted
     PROVE  JournalCoversEffects'
  BY <1>6, GrantWrites
  DEF PermissionGranted
<1>7. ASSUME RecordPrevious
     PROVE  JournalCoversEffects'
  BY <1>7, PreviousWrites
  DEF RecordPrevious
<1>8. ASSUME ServiceProbeFails
     PROVE  JournalCoversEffects'
  <2>1. /\ mem' \in Journals /\ journal' \in {journal, mem'}
        /\ mem'.txn = mem.txn /\ mem'.phase = mem.phase
    BY <1>8, ProbeWrites DEF Keeps
  <2>2. journal = mem /\ mem \in Journals
    BY <1>8 DEF ServiceProbeFails
  <2>3. journal' # None /\ journal'.txn = journal.txn /\ journal'.phase = journal.phase
    BY <2>1, <2>2
  <2>4. UNCHANGED <<active, record, tokenFile, committed>>
    BY <1>8 DEF ServiceProbeFails
  <2> QED
    BY <2>2, <2>3, <2>4
<1>9. ASSUME SwitchCredentials \/ AddDeviceToken \/ AddDeviceRecord \/ AddDeviceFails
     PROVE  JournalCoversEffects'
  BY <1>9
  DEF SwitchCredentials, AddDeviceToken, AddDeviceRecord, AddDeviceFails
<1>10. ASSUME CheckAbort \/ PermissionRetry \/ VerifyOwnedState \/ FinishFails
      PROVE  JournalCoversEffects'
  BY <1>10
  DEF CheckAbort, PermissionRetry, VerifyOwnedState, FinishFails
<1>11. ASSUME StartService \/ StartServiceFails
      PROVE  JournalCoversEffects'
  BY <1>11
  DEF StartService, StartServiceFails, ServiceCommandFails
<1>12. ASSUME FinishRollback
      PROVE  JournalCoversEffects'
  BY <1>12, RollbackBegins
  DEF FinishRollback, EnterRollback
<1>13. ASSUME Undo
      PROVE  JournalCoversEffects'
  BY <1>13
  DEF Undo, RollbackRecord, RollbackToken, RollbackSelector, SelectorRestored,
      SelectorOurs, RollbackService, RollbackStaged, RollbackSlot
<1>14. ASSUME UndoRefused \/ UndoFails
      PROVE  JournalCoversEffects'
  BY <1>14
  DEF UndoRefused, SkipUndo, Conflict, UndoFails, ServiceCommandFails
<1>15. ASSUME RollbackDone \/ RollbackIncomplete
      PROVE  JournalCoversEffects'
  BY <1>15
  DEF RollbackDone, Return, RollbackIncomplete
<1>16. ASSUME Cleanup
      PROVE  JournalCoversEffects'
  BY <1>16
  DEF Cleanup, CleanupStaged, CleanupPrevious, CleanupJournal, Return,
      CleanupFails
<1>17. ASSUME StageRefused \/ Claim \/ ExpirePending
      PROVE  JournalCoversEffects'
  BY <1>17, PhaseWrites
  DEF StageRefused, Claim, Keeps, ExpirePending, EnterRollback
<1>18. ASSUME FinishBegin
      PROVE  JournalCoversEffects'
  BY <1>18, PhaseWrites
  DEF FinishBegin, Keeps
<1>19. ASSUME NEW t \in Txns, Stage(t)
      PROVE  JournalCoversEffects'
  BY <1>19, NewJournal
  DEF Stage
<1>20. ASSUME NEW c \in Clients, RequestAbort(c) \/ AbortNothing(c) \/ AbortRollback(c)
      PROVE  JournalCoversEffects'
  BY <1>20
  DEF RequestAbort, AbortNothing, AbortRollback, EnterRollback, EnterCleanup
<1>21. ASSUME Expire \/ ReplaceCredentials \/ RestartService
      PROVE  JournalCoversEffects'
  BY <1>21
  DEF Expire, ReplaceCredentials, RestartService
<1>22. ASSUME NEW t \in Txns, RotateRecord(t) \/ RotateToken(t) \/ DisableDevice(t)
      PROVE  JournalCoversEffects'
  BY <1>22
  DEF RotateRecord, RotateToken, DisableDevice
<1>23. ASSUME UNCHANGED vars
      PROVE  JournalCoversEffects'
  BY <1>23
  DEF vars
<1> QED
  BY <1>1, <1>2, <1>3, <1>4, <1>5, <1>6, <1>7, <1>8, <1>9, <1>10, <1>11, <1>12,
     <1>13, <1>14, <1>15, <1>16, <1>17, <1>18, <1>19, <1>20, <1>21, <1>22,
     <1>23
  DEF Next, Holder, Finish, Rollback, Call, Others

\* No step deletes the selected bundle.
LEMMA BundlePreserved ==
  ASSUME Inv, [Next]_vars
  PROVE  ActiveHasBundle'
<1> USE OnboardingAssumption, JournalFields
        DEF durable, service, flags, history, Inv, TypeOK, HolderInv, PhaseInv,
            JournalCoversEffects, ActiveHasBundle, Busy, StageSteps,
            FinishSteps, RollbackSteps, CleanupSteps
<1>1. ASSUME Start \/ Crash \/ Close
     PROVE  ActiveHasBundle'
  BY <1>1
  DEF Crash, Close, Start, Stop
<1>2. ASSUME Recover
     PROVE  ActiveHasBundle'
  BY <1>2, PhaseWrites
  DEF Recover, RecoverNothing, RecoverChecking, Keeps, RecoverRollback,
      EnterRollback, RecoverComplete, EnterCleanup, CleanupOrphans,
      RecoverFails
<1>3. ASSUME Staging
     PROVE  ActiveHasBundle'
  BY <1>3
  DEF Staging, StageSlot, StageToken, StageJournal, Return, StageFails
<1>4. ASSUME Apply \/ MarkSwitched \/ MarkDeviceAdded
     PROVE  ActiveHasBundle'
  BY <1>4, FinishWrites
  DEF Apply, Reaches, Keeps, MarkSwitched, MarkDeviceAdded
<1>5. ASSUME RecordServiceBaseline \/ MarkServiceStarted \/ Commit
     PROVE  ActiveHasBundle'
  BY <1>5, FinishWrites
  DEF RecordServiceBaseline, Reaches, Keeps, MarkServiceStarted, Commit
<1>6. ASSUME PermissionGranted
     PROVE  ActiveHasBundle'
  BY <1>6, GrantWrites
  DEF PermissionGranted
<1>7. ASSUME RecordPrevious
     PROVE  ActiveHasBundle'
  BY <1>7, PreviousWrites
  DEF RecordPrevious
<1>8. ASSUME ServiceProbeFails
     PROVE  ActiveHasBundle'
  BY <1>8, ProbeWrites
  DEF ServiceProbeFails, Keeps
<1>9. ASSUME SwitchCredentials \/ AddDeviceToken \/ AddDeviceRecord \/ AddDeviceFails
     PROVE  ActiveHasBundle'
  BY <1>9
  DEF SwitchCredentials, AddDeviceToken, AddDeviceRecord, AddDeviceFails
<1>10. ASSUME CheckAbort \/ PermissionRetry \/ VerifyOwnedState \/ FinishFails
      PROVE  ActiveHasBundle'
  BY <1>10
  DEF CheckAbort, PermissionRetry, VerifyOwnedState, FinishFails
<1>11. ASSUME StartService \/ StartServiceFails
      PROVE  ActiveHasBundle'
  BY <1>11
  DEF StartService, StartServiceFails, ServiceCommandFails
<1>12. ASSUME FinishRollback
      PROVE  ActiveHasBundle'
  BY <1>12, RollbackBegins
  DEF FinishRollback, EnterRollback
<1>13. ASSUME Undo
      PROVE  ActiveHasBundle'
  BY <1>13
  DEF Undo, RollbackRecord, RollbackToken, RollbackSelector, SelectorRestored,
      SelectorOurs, RollbackService, RollbackStaged, RollbackSlot
<1>14. ASSUME UndoRefused \/ UndoFails
      PROVE  ActiveHasBundle'
  BY <1>14
  DEF UndoRefused, SkipUndo, Conflict, UndoFails, ServiceCommandFails
<1>15. ASSUME RollbackDone \/ RollbackIncomplete
      PROVE  ActiveHasBundle'
  BY <1>15
  DEF RollbackDone, Return, RollbackIncomplete
<1>16. ASSUME Cleanup
      PROVE  ActiveHasBundle'
  BY <1>16
  DEF Cleanup, CleanupStaged, CleanupPrevious, CleanupJournal, Return,
      CleanupFails
<1>17. ASSUME StageRefused \/ Claim \/ ExpirePending
      PROVE  ActiveHasBundle'
  BY <1>17, PhaseWrites
  DEF StageRefused, Claim, Keeps, ExpirePending, EnterRollback
<1>18. ASSUME FinishBegin
      PROVE  ActiveHasBundle'
  BY <1>18, PhaseWrites
  DEF FinishBegin, Keeps
<1>19. ASSUME NEW t \in Txns, Stage(t)
      PROVE  ActiveHasBundle'
  BY <1>19, NewJournal
  DEF Stage
<1>20. ASSUME NEW c \in Clients, RequestAbort(c) \/ AbortNothing(c) \/ AbortRollback(c)
      PROVE  ActiveHasBundle'
  BY <1>20
  DEF RequestAbort, AbortNothing, AbortRollback, EnterRollback, EnterCleanup
<1>21. ASSUME Expire \/ ReplaceCredentials \/ RestartService
      PROVE  ActiveHasBundle'
  BY <1>21
  DEF Expire, ReplaceCredentials, RestartService
<1>22. ASSUME NEW t \in Txns, RotateRecord(t) \/ RotateToken(t) \/ DisableDevice(t)
      PROVE  ActiveHasBundle'
  BY <1>22
  DEF RotateRecord, RotateToken, DisableDevice
<1>23. ASSUME UNCHANGED vars
      PROVE  ActiveHasBundle'
  BY <1>23
  DEF vars
<1> QED
  BY <1>1, <1>2, <1>3, <1>4, <1>5, <1>6, <1>7, <1>8, <1>9, <1>10, <1>11, <1>12,
     <1>13, <1>14, <1>15, <1>16, <1>17, <1>18, <1>19, <1>20, <1>21, <1>22,
     <1>23
  DEF Next, Holder, Finish, Rollback, Call, Others

\* No step deletes the bundle an unfinished switch goes back to.
LEMMA PreviousPreserved ==
  ASSUME Inv, [Next]_vars
  PROVE  PreviousBundleKept'
<1> USE OnboardingAssumption, NoneIsNoJournal, JournalFields
        DEF durable, service, flags, history, Inv, TypeOK, HolderInv, PhaseInv,
            SwitchInv, ActiveHasBundle, PreviousBundleKept, Busy, Unchecked,
            Unswitched, StageSteps, FinishSteps, RollbackSteps, CleanupSteps,
            Inactive, Activating
<1>1. ASSUME Start \/ Crash \/ Close
     PROVE  PreviousBundleKept'
  BY <1>1
  DEF Crash, Close, Start, Stop
<1>2. ASSUME Recover
     PROVE  PreviousBundleKept'
  BY <1>2, PhaseWrites
  DEF Recover, RecoverNothing, RecoverChecking, Keeps, RecoverRollback,
      EnterRollback, RecoverComplete, EnterCleanup, CleanupOrphans,
      RecoverFails
<1>3. ASSUME Staging
     PROVE  PreviousBundleKept'
  BY <1>3
  DEF Staging, StageSlot, StageToken, StageJournal, Return, StageFails
<1>4. ASSUME Apply \/ MarkSwitched \/ MarkDeviceAdded
     PROVE  PreviousBundleKept'
  BY <1>4, FinishWrites
  DEF Apply, Reaches, Keeps, MarkSwitched, MarkDeviceAdded
<1>5. ASSUME RecordServiceBaseline \/ MarkServiceStarted \/ Commit
     PROVE  PreviousBundleKept'
  BY <1>5, FinishWrites
  DEF RecordServiceBaseline, Reaches, Keeps, MarkServiceStarted, Commit
<1>6. ASSUME PermissionGranted
     PROVE  PreviousBundleKept'
  BY <1>6, GrantWrites
  DEF PermissionGranted
<1>7. ASSUME RecordPrevious
     PROVE  PreviousBundleKept'
  BY <1>7, PreviousWrites
  DEF RecordPrevious
<1>8. ASSUME ServiceProbeFails
     PROVE  PreviousBundleKept'
  BY <1>8, ProbeWrites
  DEF ServiceProbeFails, Keeps
<1>9. ASSUME SwitchCredentials \/ AddDeviceToken \/ AddDeviceRecord \/ AddDeviceFails
     PROVE  PreviousBundleKept'
  BY <1>9
  DEF SwitchCredentials, AddDeviceToken, AddDeviceRecord, AddDeviceFails
<1>10. ASSUME CheckAbort \/ PermissionRetry \/ VerifyOwnedState \/ FinishFails
      PROVE  PreviousBundleKept'
  BY <1>10
  DEF CheckAbort, PermissionRetry, VerifyOwnedState, FinishFails
<1>11. ASSUME StartService \/ StartServiceFails
      PROVE  PreviousBundleKept'
  BY <1>11
  DEF StartService, StartServiceFails, ServiceCommandFails
<1>12. ASSUME FinishRollback
      PROVE  PreviousBundleKept'
  BY <1>12, RollbackBegins
  DEF FinishRollback, EnterRollback
<1>13. ASSUME Undo
      PROVE  PreviousBundleKept'
  BY <1>13
  DEF Undo, RollbackRecord, RollbackToken, RollbackSelector, SelectorRestored,
      SelectorOurs, RollbackService, RollbackStaged, RollbackSlot
<1>14. ASSUME UndoRefused \/ UndoFails
      PROVE  PreviousBundleKept'
  BY <1>14
  DEF UndoRefused, SkipUndo, Conflict, UndoFails, ServiceCommandFails
<1>15. ASSUME RollbackDone \/ RollbackIncomplete
      PROVE  PreviousBundleKept'
  BY <1>15
  DEF RollbackDone, Return, RollbackIncomplete
<1>16. ASSUME Cleanup
      PROVE  PreviousBundleKept'
  BY <1>16
  DEF Cleanup, CleanupStaged, CleanupPrevious, CleanupJournal, Return,
      CleanupFails
<1>17. ASSUME StageRefused \/ Claim \/ ExpirePending
      PROVE  PreviousBundleKept'
  BY <1>17, PhaseWrites
  DEF StageRefused, Claim, Keeps, ExpirePending, EnterRollback
<1>18. ASSUME FinishBegin
      PROVE  PreviousBundleKept'
  BY <1>18, PhaseWrites
  DEF FinishBegin, Keeps
<1>19. ASSUME NEW t \in Txns, Stage(t)
      PROVE  PreviousBundleKept'
  BY <1>19, NewJournal
  DEF Stage
<1>20. ASSUME NEW c \in Clients, RequestAbort(c) \/ AbortNothing(c) \/ AbortRollback(c)
      PROVE  PreviousBundleKept'
  BY <1>20
  DEF RequestAbort, AbortNothing, AbortRollback, EnterRollback, EnterCleanup
<1>21. ASSUME Expire \/ ReplaceCredentials \/ RestartService
      PROVE  PreviousBundleKept'
  BY <1>21
  DEF Expire, ReplaceCredentials, RestartService
<1>22. ASSUME NEW t \in Txns, RotateRecord(t) \/ RotateToken(t) \/ DisableDevice(t)
      PROVE  PreviousBundleKept'
  BY <1>22
  DEF RotateRecord, RotateToken, DisableDevice
<1>23. ASSUME UNCHANGED vars
      PROVE  PreviousBundleKept'
  BY <1>23
  DEF vars
<1> QED
  BY <1>1, <1>2, <1>3, <1>4, <1>5, <1>6, <1>7, <1>8, <1>9, <1>10, <1>11, <1>12,
     <1>13, <1>14, <1>15, <1>16, <1>17, <1>18, <1>19, <1>20, <1>21, <1>22,
     <1>23
  DEF Next, Holder, Finish, Rollback, Call, Others

\* Every step leaves only drawn transactions with files, and keeps the way back of
\* a selector that has moved.
LEMMA MappingPreserved ==
  ASSUME Inv, [Next]_vars
  PROVE  MappingInv'
<1> USE OnboardingAssumption, NoneIsNoJournal, JournalFields
        DEF durable, service, flags, history, Inv, TypeOK, HolderInv, PhaseInv,
            SwitchInv, MappingInv, Busy, Unswitched, Unchecked, StageSteps,
            FinishSteps, RollbackSteps, CleanupSteps
<1>1. ASSUME Start \/ Crash \/ Close
     PROVE  MappingInv'
  BY <1>1
  DEF Crash, Close, Start, Stop
<1>2. ASSUME Recover
     PROVE  MappingInv'
  BY <1>2, PhaseWrites
  DEF Recover, RecoverNothing, RecoverChecking, Keeps, RecoverRollback,
      EnterRollback, RecoverComplete, EnterCleanup, CleanupOrphans,
      RecoverFails
<1>3. ASSUME Staging
     PROVE  MappingInv'
  BY <1>3
  DEF Staging, StageSlot, StageToken, StageJournal, Return, StageFails
<1>4. ASSUME Apply \/ MarkSwitched \/ MarkDeviceAdded
     PROVE  MappingInv'
  BY <1>4, FinishWrites
  DEF Apply, Reaches, Keeps, MarkSwitched, MarkDeviceAdded
<1>5. ASSUME RecordServiceBaseline \/ MarkServiceStarted \/ Commit
     PROVE  MappingInv'
  BY <1>5, FinishWrites
  DEF RecordServiceBaseline, Reaches, Keeps, MarkServiceStarted, Commit
<1>6. ASSUME PermissionGranted
     PROVE  MappingInv'
  BY <1>6, GrantWrites
  DEF PermissionGranted
<1>7. ASSUME RecordPrevious
     PROVE  MappingInv'
  BY <1>7, PreviousWrites
  DEF RecordPrevious
<1>8. ASSUME ServiceProbeFails
     PROVE  MappingInv'
  BY <1>8, ProbeWrites
  DEF ServiceProbeFails, Keeps
<1>9. ASSUME SwitchCredentials \/ AddDeviceToken \/ AddDeviceRecord \/ AddDeviceFails
     PROVE  MappingInv'
  BY <1>9
  DEF SwitchCredentials, AddDeviceToken, AddDeviceRecord, AddDeviceFails
<1>10. ASSUME CheckAbort \/ PermissionRetry \/ VerifyOwnedState \/ FinishFails
      PROVE  MappingInv'
  BY <1>10
  DEF CheckAbort, PermissionRetry, VerifyOwnedState, FinishFails
<1>11. ASSUME StartService \/ StartServiceFails
      PROVE  MappingInv'
  BY <1>11
  DEF StartService, StartServiceFails, ServiceCommandFails
<1>12. ASSUME FinishRollback
      PROVE  MappingInv'
  BY <1>12, RollbackBegins
  DEF FinishRollback, EnterRollback
<1>13. ASSUME Undo
      PROVE  MappingInv'
  BY <1>13
  DEF Undo, RollbackRecord, RollbackToken, RollbackSelector, SelectorRestored,
      SelectorOurs, RollbackService, RollbackStaged, RollbackSlot
<1>14. ASSUME UndoRefused \/ UndoFails
      PROVE  MappingInv'
  BY <1>14
  DEF UndoRefused, SkipUndo, Conflict, UndoFails, ServiceCommandFails
<1>15. ASSUME RollbackDone \/ RollbackIncomplete
      PROVE  MappingInv'
  BY <1>15
  DEF RollbackDone, Return, RollbackIncomplete
<1>16. ASSUME Cleanup
      PROVE  MappingInv'
  BY <1>16
  DEF Cleanup, CleanupStaged, CleanupPrevious, CleanupJournal, Return,
      CleanupFails
<1>17. ASSUME StageRefused \/ Claim \/ ExpirePending
      PROVE  MappingInv'
  BY <1>17, PhaseWrites
  DEF StageRefused, Claim, Keeps, ExpirePending, EnterRollback
<1>18. ASSUME FinishBegin
      PROVE  MappingInv'
  BY <1>18, PhaseWrites
  DEF FinishBegin, Keeps
<1>19. ASSUME NEW t \in Txns, Stage(t)
      PROVE  MappingInv'
  BY <1>19, NewJournal
  DEF Stage
<1>20. ASSUME NEW c \in Clients, RequestAbort(c) \/ AbortNothing(c) \/ AbortRollback(c)
      PROVE  MappingInv'
  BY <1>20
  DEF RequestAbort, AbortNothing, AbortRollback, EnterRollback, EnterCleanup
<1>21. ASSUME Expire \/ ReplaceCredentials \/ RestartService
      PROVE  MappingInv'
  BY <1>21
  DEF Expire, ReplaceCredentials, RestartService
<1>22. ASSUME NEW t \in Txns, RotateRecord(t) \/ RotateToken(t) \/ DisableDevice(t)
      PROVE  MappingInv'
  BY <1>22
  DEF RotateRecord, RotateToken, DisableDevice
<1>23. ASSUME UNCHANGED vars
      PROVE  MappingInv'
  BY <1>23
  DEF vars
<1> QED
  BY <1>1, <1>2, <1>3, <1>4, <1>5, <1>6, <1>7, <1>8, <1>9, <1>10, <1>11, <1>12,
     <1>13, <1>14, <1>15, <1>16, <1>17, <1>18, <1>19, <1>20, <1>21, <1>22,
     <1>23
  DEF Next, Holder, Finish, Rollback, Call, Others

-----------------------------------------------------------------------------
(* The theorems *)

LEMMA InitInv == Init => Inv
BY OnboardingAssumption, NoneIsNoJournal
   DEF Init, Inv, TypeOK, HolderInv, KeyInv, OnlyViewOnlyActive, PhaseInv,
       SwitchInv, UndoInv, JournalCoversEffects, ActiveHasBundle,
       PreviousBundleKept, MappingInv, Busy, Steps, Unchecked, Unswitched, StageSteps,
       FinishSteps, RollbackSteps, CleanupSteps

LEMMA StepInv == Inv /\ [Next]_vars => Inv'
<1> SUFFICES ASSUME Inv, [Next]_vars PROVE Inv'
  OBVIOUS
<1>1. TypeOK /\ HolderInv /\ KeyInv /\ OnlyViewOnlyActive /\ PhaseInv
  BY DEF Inv
<1>2. TypeOK' /\ HolderInv'
  BY <1>1, TypePreserved, HolderPreserved
<1>3. KeyInv' /\ OnlyViewOnlyActive' /\ PhaseInv'
  BY <1>1, KeyPreserved, PhasePreserved
<1>4. SwitchInv' /\ UndoInv' /\ JournalCoversEffects'
  BY SwitchPreserved, UndoPreserved, EffectsPreserved
<1>5. ActiveHasBundle' /\ PreviousBundleKept' /\ MappingInv'
  BY BundlePreserved, PreviousPreserved, MappingPreserved
<1> QED
  BY <1>2, <1>3, <1>4, <1>5 DEF Inv

\* The inductive invariant holds of every state the coordinator reaches, for any
\* set of transactions, keys and clients, whatever crashes and whoever interferes.
THEOREM Invariance == Spec => []Inv
BY InitInv, StepInv, PTL DEF Spec

\* Every variable keeps its type.
THEOREM TypeCorrect == Spec => []TypeOK
<1>1. Inv => TypeOK
  BY DEF Inv
<1> QED
  BY <1>1, Invariance, PTL

\* The bundle named by the selector of auth.py is never deleted under it.
THEOREM BundleThere == Spec => []ActiveHasBundle
<1>1. Inv => ActiveHasBundle
  BY DEF Inv
<1> QED
  BY <1>1, Invariance, PTL

\* _finish_locked's permission gate is never bypassed, by a resumed transaction
\* and a rollback either: only view-only keys are selected or served.
THEOREM GateHolds == Spec => []OnlyViewOnlyActive
<1>1. Inv => OnlyViewOnlyActive
  BY DEF Inv
<1> QED
  BY <1>1, Invariance, PTL

\* The journal covers all that an uncommitted transaction has activated.
THEOREM WriteAhead == Spec => []JournalCoversEffects
<1>1. Inv => JournalCoversEffects
  BY DEF Inv
<1> QED
  BY <1>1, Invariance, PTL

\* The bundle that _restore_credential_selector would go back to is there.
THEOREM WayBack == Spec => []PreviousBundleKept
<1>1. Inv => PreviousBundleKept
  BY DEF Inv
<1> QED
  BY <1>1, Invariance, PTL

\* What a step may take from the transactions that are committed.
Keeping(t) ==
  /\ (record'[t] = "none") => (record[t] = "none")
  /\ (tokenFile'[t] = "none") => (tokenFile[t] = "none")
  /\ (active = t /\ t \notin slots') => FALSE

\* No step takes anything from a committed transaction.
LEMMA CommittedKept ==
  ASSUME Inv, NEW u \in committed, [Next]_vars
  PROVE  Keeping(u)
<1> USE OnboardingAssumption, NoneIsNoJournal, JournalFields
        DEF durable, service, flags, history, Inv, TypeOK, HolderInv, PhaseInv,
            ActiveHasBundle, Keeping, Busy, StageSteps, FinishSteps, RollbackSteps,
            CleanupSteps
<1>1. ASSUME Start \/ Crash \/ Close
     PROVE  Keeping(u)
  BY <1>1
  DEF Crash, Close, Start, Stop
<1>2. ASSUME Recover
     PROVE  Keeping(u)
  BY <1>2, PhaseWrites
  DEF Recover, RecoverNothing, RecoverChecking, Keeps, RecoverRollback,
      EnterRollback, RecoverComplete, EnterCleanup, CleanupOrphans,
      RecoverFails
<1>3. ASSUME Staging
     PROVE  Keeping(u)
  BY <1>3
  DEF Staging, StageSlot, StageToken, StageJournal, Return, StageFails
<1>4. ASSUME Apply \/ MarkSwitched \/ MarkDeviceAdded
     PROVE  Keeping(u)
  BY <1>4, FinishWrites
  DEF Apply, Reaches, Keeps, MarkSwitched, MarkDeviceAdded
<1>5. ASSUME RecordServiceBaseline \/ MarkServiceStarted \/ Commit
     PROVE  Keeping(u)
  BY <1>5, FinishWrites
  DEF RecordServiceBaseline, Reaches, Keeps, MarkServiceStarted, Commit
<1>6. ASSUME PermissionGranted
     PROVE  Keeping(u)
  BY <1>6, GrantWrites
  DEF PermissionGranted
<1>7. ASSUME RecordPrevious
     PROVE  Keeping(u)
  BY <1>7, PreviousWrites
  DEF RecordPrevious
<1>8. ASSUME ServiceProbeFails
     PROVE  Keeping(u)
  BY <1>8, ProbeWrites
  DEF ServiceProbeFails, Keeps
<1>9. ASSUME SwitchCredentials \/ AddDeviceToken \/ AddDeviceRecord \/ AddDeviceFails
     PROVE  Keeping(u)
  BY <1>9
  DEF SwitchCredentials, AddDeviceToken, AddDeviceRecord, AddDeviceFails
<1>10. ASSUME CheckAbort \/ PermissionRetry \/ VerifyOwnedState \/ FinishFails
      PROVE  Keeping(u)
  BY <1>10
  DEF CheckAbort, PermissionRetry, VerifyOwnedState, FinishFails
<1>11. ASSUME StartService \/ StartServiceFails
      PROVE  Keeping(u)
  BY <1>11
  DEF StartService, StartServiceFails, ServiceCommandFails
<1>12. ASSUME FinishRollback
      PROVE  Keeping(u)
  BY <1>12, RollbackBegins
  DEF FinishRollback, EnterRollback
<1>13. ASSUME Undo
      PROVE  Keeping(u)
  BY <1>13
  DEF Undo, RollbackRecord, RollbackToken, RollbackSelector, SelectorRestored,
      SelectorOurs, RollbackService, RollbackStaged, RollbackSlot
<1>14. ASSUME UndoRefused \/ UndoFails
      PROVE  Keeping(u)
  BY <1>14
  DEF UndoRefused, SkipUndo, Conflict, UndoFails, ServiceCommandFails
<1>15. ASSUME RollbackDone \/ RollbackIncomplete
      PROVE  Keeping(u)
  BY <1>15
  DEF RollbackDone, Return, RollbackIncomplete
<1>16. ASSUME Cleanup
      PROVE  Keeping(u)
  BY <1>16
  DEF Cleanup, CleanupStaged, CleanupPrevious, CleanupJournal, Return,
      CleanupFails
<1>17. ASSUME StageRefused \/ Claim \/ ExpirePending
      PROVE  Keeping(u)
  BY <1>17, PhaseWrites
  DEF StageRefused, Claim, Keeps, ExpirePending, EnterRollback
<1>18. ASSUME FinishBegin
      PROVE  Keeping(u)
  BY <1>18, PhaseWrites
  DEF FinishBegin, Keeps
<1>19. ASSUME NEW t \in Txns, Stage(t)
      PROVE  Keeping(u)
  BY <1>19, NewJournal
  DEF Stage
<1>20. ASSUME NEW c \in Clients, RequestAbort(c) \/ AbortNothing(c) \/ AbortRollback(c)
      PROVE  Keeping(u)
  BY <1>20
  DEF RequestAbort, AbortNothing, AbortRollback, EnterRollback, EnterCleanup
<1>21. ASSUME Expire \/ ReplaceCredentials \/ RestartService
      PROVE  Keeping(u)
  BY <1>21
  DEF Expire, ReplaceCredentials, RestartService
<1>22. ASSUME NEW t \in Txns, RotateRecord(t) \/ RotateToken(t) \/ DisableDevice(t)
      PROVE  Keeping(u)
  BY <1>22
  DEF RotateRecord, RotateToken, DisableDevice
<1>23. ASSUME UNCHANGED vars
      PROVE  Keeping(u)
  BY <1>23
  DEF vars
<1> QED
  BY <1>1, <1>2, <1>3, <1>4, <1>5, <1>6, <1>7, <1>8, <1>9, <1>10, <1>11, <1>12,
     <1>13, <1>14, <1>15, <1>16, <1>17, <1>18, <1>19, <1>20, <1>21, <1>22,
     <1>23
  DEF Next, Holder, Finish, Rollback, Call, Others

\* CommitIsFinal: no failure, expiry, crash or recovery after the commit point of
\* _finish_locked takes back what the committed transaction activated.
THEOREM CommitLasts == Spec => CommitIsFinal
<1>1. ASSUME Inv, [Next]_vars
      PROVE  [\A t \in committed :
                /\ (record'[t] = "none") => (record[t] = "none")
                /\ (tokenFile'[t] = "none") => (tokenFile[t] = "none")
                /\ (active = t /\ t \notin slots') => FALSE]_vars
  BY <1>1, CommittedKept DEF Keeping
<1> QED
  BY <1>1, Invariance, PTL DEF Spec, CommitIsFinal

-----------------------------------------------------------------------------
(* Onboarding implements Activation: the coordinator's durable writes, crashes *)
(* and recoveries, seen through Life and Selected, are steps of the            *)
(* all-or-nothing transaction.                                                 *)
(*                                                                             *)
(* Most steps do not show: they change what only the holder sees, or files of  *)
(* a transaction that is pending or committed anyway (Quiet).  The others are  *)
(* a draw, a preparation, the commit, a completed rollback, a sweep of strays  *)
(* and the user's replacement of the credentials.                              *)

-----------------------------------------------------------------------------
(* The mapping *)

\* The journal on disk is t's.
Pending(t) == journal # None /\ journal.txn = t

\* A transaction without a journal has left files, or is leaving them just now.
Left(t) == t \in slots \cup staged \/ (op = "stage" /\ mem.txn = t)

\* An uncommitted transaction has activated something only while it is pending, so
\* that Left stands for Trace in Life.
LEMMA LifeIs ==
  Inv => \A t \in Txns :
    Life[t] = IF t \in committed THEN "activated"
              ELSE IF Pending(t) THEN "pending"
              ELSE IF Left(t) THEN "stray"
              ELSE IF t \in used THEN "gone" ELSE "new"
<1> SUFFICES ASSUME Inv, NEW t \in Txns
             PROVE  Life[t] = IF t \in committed THEN "activated"
                              ELSE IF Pending(t) THEN "pending"
                              ELSE IF Left(t) THEN "stray"
                              ELSE IF t \in used THEN "gone" ELSE "new"
  OBVIOUS
<1>1. t \notin committed /\ ~Pending(t) => (Trace(t) <=> t \in slots \cup staged)
  BY DEF Inv, JournalCoversEffects, Trace, Pending
<1> QED
  BY <1>1 DEF Life, Pending, Left

\* Life is determined by its values.
LEMMA LifeFunction ==
  Life = [t \in Txns |-> Life[t]] /\ Life' = [t \in Txns |-> Life'[t]]
BY DEF Life

\* The selection is that of a committed transaction or of the pending one.
LEMMA SelectedIs ==
  Inv => /\ active \in committed \cup {None} => Selected = active
         /\ active \notin committed \cup {None}
              => /\ active \in Txns
                 /\ Pending(active)
                 /\ Selected = journal.previous
BY DEF Inv, TypeOK, JournalCoversEffects, Selected, Pending

\* The same of the state after a step.
LEMMA MappedAfter ==
  ASSUME Inv'
  PROVE  /\ \A t \in Txns :
              Life'[t] = IF t \in committed' THEN "activated"
                         ELSE IF Pending(t)' THEN "pending"
                         ELSE IF Left(t)' THEN "stray"
                         ELSE IF t \in used' THEN "gone" ELSE "new"
         /\ active' \in committed' \cup {None} => Selected' = active'
         /\ active' \notin committed' \cup {None} => Selected' = journal'.previous
<1>1. (Inv => \A t \in Txns :
         Life[t] = IF t \in committed THEN "activated"
                   ELSE IF Pending(t) THEN "pending"
                   ELSE IF Left(t) THEN "stray"
                   ELSE IF t \in used THEN "gone" ELSE "new")'
  BY LifeIs, PTL
<1>2. \A t \in Txns :
         Life'[t] = IF t \in committed' THEN "activated"
                    ELSE IF Pending(t)' THEN "pending"
                    ELSE IF Left(t)' THEN "stray"
                    ELSE IF t \in used' THEN "gone" ELSE "new"
  BY <1>1
<1> QED
  BY <1>2 DEF Selected

-----------------------------------------------------------------------------
(* Steps that do not show, or show as a sweep *)

\* At most files of transactions without a journal go.
Quiet ==
  /\ committed' = committed
  /\ used' = used
  /\ active' = active
  /\ active \notin committed \cup {None} => journal'.previous = journal.previous
  /\ \A t \in Txns \ committed :
       /\ Pending(t)' <=> Pending(t)
       /\ ~Pending(t) /\ Left(t)' => Left(t)

\* The transactions whose last files go in this step.
Swept == {t \in Txns \ committed : ~Pending(t) /\ Left(t) /\ ~Left(t)'}

\* A quiet step sweeps the strays it leaves no files of; without any it stutters.
LEMMA QuietSweeps ==
  ASSUME Inv, Inv', Quiet
  PROVE  [Abstract!Next]_(Abstract!vars)
<1>1. Selected' = Selected
  BY SelectedIs, MappedAfter DEF Quiet
<1>2. \A t \in Swept : t \in used
  BY DEF Swept, Left, Inv, MappingInv, PhaseInv
<1>3. \A t \in Swept : Life[t] = "stray" /\ Life'[t] = "gone"
  <2> SUFFICES ASSUME NEW t \in Swept PROVE Life[t] = "stray" /\ Life'[t] = "gone"
    OBVIOUS
  <2>1. Life[t] = "stray"
    BY LifeIs DEF Swept
  <2>2. t \in Txns /\ t \notin committed' /\ ~Pending(t)' /\ ~Left(t)' /\ t \in used'
    BY <1>2 DEF Swept, Quiet
  <2> QED
    BY <2>1, <2>2, MappedAfter
<1>4. \A t \in Txns \ Swept : Life'[t] = Life[t]
  <2> SUFFICES ASSUME NEW t \in Txns \ Swept PROVE Life'[t] = Life[t]
    OBVIOUS
  <2>1. CASE t \in committed
    BY <2>1, LifeIs, MappedAfter DEF Quiet
  <2>2. CASE t \notin committed
    <3>1. /\ t \notin committed' /\ (t \in used' <=> t \in used)
          /\ Pending(t)' <=> Pending(t)
          /\ ~Pending(t) => (Left(t)' <=> Left(t))
      BY <2>2 DEF Quiet, Swept
    <3> QED
      BY <2>2, <3>1, LifeIs, MappedAfter
  <2> QED
    BY <2>1, <2>2
<1>5. Life' = [t \in Txns |-> IF t \in Swept THEN "gone" ELSE Life[t]]
  BY <1>3, <1>4, LifeFunction
<1>6. CASE Swept = {}
  BY <1>1, <1>4, <1>6, LifeFunction DEF Abstract!vars
<1>7. CASE Swept # {}
  <2>1. Swept \in SUBSET Txns
    BY DEF Swept
  <2>2. Abstract!Sweep(Swept)
    BY <1>1, <1>3, <1>5, <1>7 DEF Abstract!Sweep
  <2> QED
    BY <2>1, <2>2 DEF Abstract!Next
<1> QED
  BY <1>6, <1>7

-----------------------------------------------------------------------------
(* Steps that show *)

\* The step leaves every transaction but t where it is.
OthersStay(t) ==
  \A u \in Txns \ {t} :
    /\ u \in committed' <=> u \in committed
    /\ u \in used' <=> u \in used
    /\ Pending(u)' <=> Pending(u)
    /\ Left(u)' <=> Left(u)

LEMMA OneMoves ==
  ASSUME Inv, Inv', NEW t \in Txns, OthersStay(t)
  PROVE  Life' = [Life EXCEPT ![t] = Life'[t]]
<1>1. \A u \in Txns \ {t} : Life'[u] = Life[u]
  BY LifeIs, MappedAfter DEF OthersStay
<1> QED
  BY <1>1, LifeFunction

\* Nobody is pending without a journal.
LEMMA NobodyPending ==
  ASSUME Inv, journal = None
  PROVE  \A u \in Txns : Life[u] # "pending"
BY LifeIs DEF Pending

\* complete() draws a fresh transaction id.
LEMMA StageDraws ==
  ASSUME Inv, Inv', NEW t \in Txns, Stage(t)
  PROVE  Abstract!Draw(t)
<1> USE DEF durable, service, Pending, Left
<1>1. op # "stage"
  BY DEF Stage, Inv, MappingInv, StageSteps
<1>2. OthersStay(t)
  BY <1>1 DEF Stage, OthersStay
<1>3. Life[t] = "new"
  <2>1. t \notin committed /\ t \notin slots \cup staged
    BY DEF Stage, Inv, MappingInv, PhaseInv
  <2> QED
    BY <1>1, <2>1, LifeIs DEF Stage
<1>4. Life'[t] = "stray"
  <2>1. t \notin committed' /\ ~Pending(t)' /\ Left(t)'
    BY DEF Stage, Inv, PhaseInv
  <2> QED
    BY <2>1, MappedAfter
<1>5. Selected' = Selected
  BY DEF Stage, Selected
<1> QED
  BY <1>2, <1>3, <1>4, <1>5, OneMoves, NobodyPending DEF Abstract!Draw, Stage

\* The journal that complete() writes makes it pending.
LEMMA JournalPrepares ==
  ASSUME Inv, Inv', NEW t \in Txns, t = mem.txn, StageJournal
  PROVE  Abstract!Prepare(t)
<1> USE DEF Pending, Left
<1>1. mem \in Journals /\ mem # None
  BY JournalFields, NoneIsNoJournal DEF StageJournal, Inv, HolderInv, Busy, StageSteps
<1>2. /\ op = "stage" /\ journal = None /\ journal' = mem /\ op' = "none"
      /\ t \notin committed
  BY DEF StageJournal, Return, Inv, MappingInv, HolderInv, PhaseInv, StageSteps
<1>3. OthersStay(t)
  BY <1>1, <1>2 DEF StageJournal, OthersStay, history
<1>4. Life[t] = "stray"
  BY <1>1, <1>2, LifeIs
<1>5. Life'[t] = "pending"
  <2>1. t \notin committed' /\ Pending(t)'
    BY <1>1, <1>2 DEF StageJournal, history
  <2> QED
    BY <1>1, <2>1, MappedAfter
<1>6. Selected' = Selected
  <2>1. active \in committed \cup {None}
    BY <1>2, SelectedIs
  <2> QED
    BY <2>1 DEF StageJournal, Selected, history
<1> QED
  BY <1>1, <1>2, <1>3, <1>4, <1>5, <1>6, OneMoves, NobodyPending DEF Abstract!Prepare

\* The durable write of "complete" activates the transaction and with it its
\* credentials, unless the user has just chosen others.
LEMMA CommitActivates ==
  ASSUME Inv, Inv', NEW t \in Txns, t = mem.txn, Commit, journal' = mem'
  PROVE  Abstract!Activate(t)
<1> USE DEF Pending, Left
<1>1. mem \in Journals /\ journal = mem /\ journal # None
  BY JournalFields, NoneIsNoJournal
     DEF Commit, Inv, HolderInv, Busy, FinishSteps
<1>2. t \notin committed
  BY <1>1 DEF Commit, Inv, PhaseInv, FinishSteps
<1>3. mem'.txn = t /\ mem' # None
  BY FinishWrites, NoneIsNoJournal DEF Inv, Reaches, Keeps
<1>4. op # "stage" /\ active \in {t, None}
  BY DEF Commit, Inv, MappingInv, StageSteps, FinishSteps, Unswitched, Unchecked
<1>5. committed' = committed \cup {t} /\ active' = active /\ op' = op
  BY DEF Commit
<1>6. OthersStay(t)
  BY <1>1, <1>3, <1>4, <1>5 DEF Commit, OthersStay
<1>7. Life[t] = "pending" /\ Life'[t] = "activated"
  BY <1>1, <1>2, <1>5, LifeIs, MappedAfter
<1>8. Selected' = t \/ (Selected = None /\ Selected' = None)
  BY <1>4, <1>5 DEF Selected
<1> QED
  BY <1>1, <1>6, <1>7, <1>8, OneMoves DEF Abstract!Activate

\* An error-free rollback drops the journal when nothing of the transaction is left.
LEMMA RollbackDiscards ==
  ASSUME Inv, Inv', NEW t \in Txns, t = mem.txn, RollbackDone
  PROVE  Abstract!Discard(t)
<1> USE DEF Pending, Left
<1>1. /\ journal # None /\ journal.txn = t /\ journal' = None
  BY JournalFields DEF RollbackDone, Inv, HolderInv, Busy, RollbackSteps
<1>2. t \notin committed /\ t \in used
  BY <1>1 DEF RollbackDone, Inv, PhaseInv, RollbackSteps
<1>3. /\ active # t
      /\ t \notin slots \cup staged
  BY DEF RollbackDone, Inv, UndoInv, RollbackSteps
<1>4. op # "stage" /\ op' # "stage"
  BY DEF RollbackDone, Return, Inv, MappingInv, RollbackSteps, StageSteps
<1>5. OthersStay(t)
  BY <1>1, <1>4 DEF RollbackDone, OthersStay, history
<1>6. Life[t] = "pending"
  BY <1>1, <1>2, LifeIs
<1>7. Life'[t] = "gone"
  <2>1. /\ t \notin committed' /\ ~Pending(t)'
        /\ ~Left(t)' /\ t \in used'
    BY <1>1, <1>2, <1>3, <1>4 DEF RollbackDone, history
  <2> QED
    BY <1>1, <2>1, MappedAfter
<1>8. Selected' = Selected
  <2>1. active \in committed \cup {None}
    BY <1>1, <1>3, SelectedIs
  <2> QED
    BY <2>1 DEF RollbackDone, Selected, history
<1> QED
  BY <1>1, <1>5, <1>6, <1>7, <1>8, OneMoves DEF Abstract!Discard

\* A step of the selector alone moves no transaction.
LEMMA SelectorOnly ==
  ASSUME UNCHANGED <<journal, slots, staged, record, tokenFile, op, mem, history>>,
         Inv, Inv'
  PROVE  Life' = Life
<1>1. \A u \in Txns : Life'[u] = Life[u]
  BY LifeIs, MappedAfter DEF Pending, Left, history
<1> QED
  BY <1>1, LifeFunction

\* The switch is not yet the transaction's effect: it stands for the way back.
LEMMA SwitchHidden ==
  ASSUME Inv, Inv', SwitchCredentials
  PROVE  UNCHANGED Abstract!vars
<1>1. Life' = Life
  BY SelectorOnly DEF SwitchCredentials
<1>2. /\ journal = mem /\ active = journal.previous
      /\ mem.previous \in committed \cup {None}
  BY DEF SwitchCredentials, Inv, HolderInv, SwitchInv, Busy, FinishSteps
<1>3. mem.txn \notin committed \cup {None}
  BY <1>2, JournalFields, OnboardingAssumption, NoneIsNoJournal
     DEF SwitchCredentials, Inv, HolderInv, PhaseInv, TypeOK, Busy, FinishSteps
<1>4. Selected' = Selected
  BY <1>2, <1>3 DEF SwitchCredentials, Selected, history
<1> QED
  BY <1>1, <1>4 DEF Abstract!vars

\* Going back shows just as little.
LEMMA RestoreHidden ==
  ASSUME Inv, Inv', RollbackSelector
  PROVE  UNCHANGED Abstract!vars
<1>1. Life' = Life
  BY SelectorOnly DEF RollbackSelector
<1>2. CASE SelectorRestored
  BY <1>1, <1>2 DEF RollbackSelector, Selected, history, Abstract!vars
<1>3. CASE ~SelectorRestored
  <2>1. active = mem.txn /\ active' = mem.previous
    BY <1>3 DEF RollbackSelector, SelectorOurs
  <2>2. /\ mem.previous \in committed \cup {None}
        /\ journal.previous = mem.previous
    BY <2>1 DEF RollbackSelector, Inv, SwitchInv, MappingInv, Busy, RollbackSteps
  <2>3. mem.txn \notin committed \cup {None}
    BY JournalFields, OnboardingAssumption
       DEF RollbackSelector, Inv, HolderInv, PhaseInv, Busy, RollbackSteps
  <2>4. Selected' = Selected
    BY <2>1, <2>2, <2>3 DEF RollbackSelector, Selected, history
  <2> QED
    BY <1>1, <2>4 DEF Abstract!vars
<1> QED
  BY <1>2, <1>3

\* setup --replace-credentials.
LEMMA ReplaceReplaces ==
  ASSUME Inv, Inv', ReplaceCredentials
  PROVE  Abstract!Replace
<1>1. Life' = Life
  BY SelectorOnly DEF ReplaceCredentials
<1>2. Selected' = None
  BY DEF ReplaceCredentials, Selected
<1> QED
  BY <1>1, <1>2 DEF Abstract!Replace

-----------------------------------------------------------------------------
(* The simulation *)

\* The steps that may show.
Shows == \/ \E t \in Txns : Stage(t)
         \/ StageJournal
         \/ Commit /\ journal' = mem'
         \/ RollbackDone
         \/ SwitchCredentials
         \/ RollbackSelector
         \/ ReplaceCredentials

\* All the others are quiet.
LEMMA OthersQuiet ==
  ASSUME Inv, [Next]_vars, ~Shows
  PROVE  Quiet
<1> USE OnboardingAssumption, NoneIsNoJournal, JournalFields
        DEF durable, service, flags, history, Inv, TypeOK, HolderInv, PhaseInv,
            SwitchInv, MappingInv, Quiet, Pending, Left, Busy, Unswitched, Unchecked,
            StageSteps, FinishSteps, RollbackSteps, CleanupSteps
<1>1. ASSUME Start \/ Crash \/ Close
     PROVE  Quiet
  BY <1>1
  DEF Crash, Close, Start, Stop
<1>2. ASSUME Recover
     PROVE  Quiet
  BY <1>2, PhaseWrites
  DEF Recover, RecoverNothing, RecoverChecking, Keeps, RecoverRollback,
      EnterRollback, RecoverComplete, EnterCleanup, CleanupOrphans,
      RecoverFails
<1>3. ASSUME StageSlot \/ StageToken \/ StageFails
     PROVE  Quiet
  BY <1>3
  DEF StageSlot, StageToken, Return, StageFails
<1>4. ASSUME Apply \/ MarkSwitched \/ MarkDeviceAdded
     PROVE  Quiet
  BY <1>4, FinishWrites
  DEF Apply, Reaches, Keeps, MarkSwitched, MarkDeviceAdded
<1>5. ASSUME \/ RecordServiceBaseline
             \/ MarkServiceStarted
             \/ Commit /\ journal' # mem'
     PROVE  Quiet
  BY <1>5, FinishWrites
  DEF RecordServiceBaseline, Reaches, Keeps, MarkServiceStarted, Commit
<1>6. ASSUME PermissionGranted
     PROVE  Quiet
  BY <1>6, GrantWrites
  DEF PermissionGranted
<1>7. ASSUME RecordPrevious
     PROVE  Quiet
  <2>1. active \notin committed \cup {None} => active = journal.txn
    BY SelectedIs DEF Pending
  <2> QED
    BY <1>7, <2>1, PreviousWrites
    DEF RecordPrevious
<1>8. ASSUME ServiceProbeFails
     PROVE  Quiet
  BY <1>8, ProbeWrites
  DEF ServiceProbeFails, Keeps
<1>9. ASSUME AddDeviceToken \/ AddDeviceRecord \/ AddDeviceFails
     PROVE  Quiet
  BY <1>9
  DEF AddDeviceToken, AddDeviceRecord, AddDeviceFails
<1>10. ASSUME CheckAbort \/ PermissionRetry \/ VerifyOwnedState \/ FinishFails
      PROVE  Quiet
  BY <1>10
  DEF CheckAbort, PermissionRetry, VerifyOwnedState, FinishFails
<1>11. ASSUME StartService \/ StartServiceFails
      PROVE  Quiet
  BY <1>11
  DEF StartService, StartServiceFails, ServiceCommandFails
<1>12. ASSUME FinishRollback
      PROVE  Quiet
  BY <1>12, RollbackBegins
  DEF FinishRollback, EnterRollback
<1>13. ASSUME \/ RollbackRecord \/ RollbackToken \/ RollbackService
              \/ RollbackStaged \/ RollbackSlot
      PROVE  Quiet
  BY <1>13
  DEF RollbackRecord, RollbackToken, RollbackService, RollbackStaged, RollbackSlot
<1>14. ASSUME UndoRefused \/ UndoFails
      PROVE  Quiet
  BY <1>14
  DEF UndoRefused, SkipUndo, Conflict, UndoFails, ServiceCommandFails
<1>15. ASSUME RollbackIncomplete
      PROVE  Quiet
  BY <1>15
  DEF Return, RollbackIncomplete
<1>16. ASSUME Cleanup
      PROVE  Quiet
  <2>1. CASE CleanupStaged
    BY <2>1
    DEF CleanupStaged
  <2>2. CASE CleanupPrevious
    BY <2>2
    DEF CleanupPrevious
  <2>3. CASE CleanupJournal
    <3>1. journal # None /\ journal.txn \in committed /\ journal' = None
      BY <2>3
      DEF CleanupJournal
    <3>2. active \in committed \cup {None}
      BY <3>1, SelectedIs
    <3>3. op # "stage" /\ op' # "stage"
      BY <2>3
      DEF CleanupJournal, Return
    <3> QED
      BY <2>3, <3>1, <3>2, <3>3
      DEF CleanupJournal
  <2>4. CASE CleanupFails
    BY <2>4
    DEF CleanupFails, Return
  <2> QED
    BY <1>16, <2>1, <2>2, <2>3, <2>4 DEF Cleanup
<1>17. ASSUME StageRefused \/ Claim \/ ExpirePending
      PROVE  Quiet
  BY <1>17, PhaseWrites
  DEF StageRefused, Claim, Keeps, ExpirePending, EnterRollback
<1>18. ASSUME FinishBegin
      PROVE  Quiet
  BY <1>18, PhaseWrites
  DEF FinishBegin, Keeps
<1>19. ASSUME NEW c \in Clients, RequestAbort(c) \/ AbortNothing(c) \/ AbortRollback(c)
      PROVE  Quiet
  BY <1>19
  DEF RequestAbort, AbortNothing, AbortRollback, EnterRollback, EnterCleanup
<1>20. ASSUME Expire \/ RestartService
      PROVE  Quiet
  BY <1>20
  DEF Expire, RestartService
<1>21. ASSUME NEW t \in Txns, RotateRecord(t) \/ RotateToken(t) \/ DisableDevice(t)
      PROVE  Quiet
  BY <1>21
  DEF RotateRecord, RotateToken, DisableDevice
<1>22. ASSUME UNCHANGED vars
      PROVE  Quiet
  BY <1>22
  DEF vars
<1> QED
  BY <1>1, <1>2, <1>3, <1>4, <1>5, <1>6, <1>7, <1>8, <1>9, <1>10, <1>11, <1>12,
     <1>13, <1>14, <1>15, <1>16, <1>17, <1>18, <1>19, <1>20, <1>21, <1>22
  DEF Next, Holder, Staging, Finish, Undo, Rollback, Call, Others, Shows

\* Each step is a step of the abstract transaction, or leaves it alone.
LEMMA StepSimulates ==
  ASSUME Inv, Inv', [Next]_vars
  PROVE  [Abstract!Next]_(Abstract!vars)
<1> USE DEF Abstract!Next
<1>1. CASE ~Shows
  BY <1>1, OthersQuiet, QuietSweeps
<1>2. ASSUME NEW t \in Txns, Stage(t)
      PROVE  Abstract!Next
  BY <1>2, StageDraws
<1>3. StageJournal \/ Commit \/ RollbackDone => mem.txn \in Txns
  BY JournalFields
     DEF StageJournal, Commit, RollbackDone, Inv, HolderInv, Busy, StageSteps,
         FinishSteps, RollbackSteps
<1>4. CASE StageJournal
  BY <1>3, <1>4, JournalPrepares
<1>5. CASE Commit /\ journal' = mem'
  BY <1>3, <1>5, CommitActivates
<1>6. CASE RollbackDone
  BY <1>3, <1>6, RollbackDiscards
<1>7. CASE SwitchCredentials \/ RollbackSelector
  BY <1>7, SwitchHidden, RestoreHidden
<1>8. CASE ReplaceCredentials
  BY <1>8, ReplaceReplaces
<1> QED
  BY <1>1, <1>2, <1>4, <1>5, <1>6, <1>7, <1>8 DEF Shows

\* A fresh installation knows no transaction.
LEMMA InitSimulates == Init => Abstract!Init
<1> SUFFICES ASSUME Init PROVE Abstract!Init
  OBVIOUS
<1>1. Inv
  BY InitInv
<1>2. \A t \in Txns : Life[t] = "new"
  BY <1>1, LifeIs DEF Init, Pending, Left
<1>3. Selected = None
  BY DEF Init, Selected
<1> QED
  BY <1>2, <1>3, LifeFunction DEF Abstract!Init

\* The coordinator of onboarding.py implements the all-or-nothing transaction:
\* whatever fails, crashes or interferes, a transaction takes effect as a whole
\* or goes without a trace, one at a time.
THEOREM AllOrNothing == Spec => ImplementsActivation
<1>1. Init => Abstract!Init
  BY InitSimulates
<1>2. Inv /\ Inv' /\ [Next]_vars => [Abstract!Next]_(Abstract!vars)
  BY StepSimulates
<1> QED
  BY <1>1, <1>2, Invariance, PTL DEF Spec, ImplementsActivation, Abstract!Spec

=============================================================================
