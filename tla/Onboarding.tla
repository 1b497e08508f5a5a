----------------------------- MODULE Onboarding -----------------------------
(***************************************************************************)
(* The crash-recoverable onboarding transaction of                         *)
(* bridge/src/coinbase_amoled_bridge/onboarding.py (OnboardingCoordinator) *)
(* over the files of auth.py (credential slots, their selector, device     *)
(* tokens), config.py (the device allowlist) and the user service of       *)
(* user_service.py.                                                        *)
(*                                                                         *)
(* One action is one durable write of the code, with the reads and guards  *)
(* that precede it.  The program counter pc belongs to the thread that     *)
(* holds _transaction_lock; "free" means nobody does and "down" that no    *)
(* coordinator is open (the flock on .onboarding.lock admits one).  A kill *)
(* may fall between any two actions.                                       *)
(***************************************************************************)

CONSTANTS
  Txns,      \* transaction ids; t also names its slot onboarding_t.bundle, its
             \* staged token t.device-token and the device id generated for it
  None,      \* no transaction; as a selector value: no slot is selected
  ViewOnly,  \* the transactions whose key Coinbase reports as view-only
  Clients,   \* threads that may ask for a rollback at any moment
  External   \* what other local programs do meanwhile: a subset of ExternalKinds

ExternalKinds == {"replace", "rotate", "disable", "restart"}

ASSUME OnboardingAssumption ==
  /\ None \notin Txns
  /\ ViewOnly \subseteq Txns
  /\ External \subseteq ExternalKinds

VARIABLES
  (* durable state *)
  journal,    \* .onboarding/journal.json, or None
  slots,      \* transactions whose bundle file is in secrets/credential-slots
  active,     \* the slot named by secrets/coinbase_credentials.active, or None
  staged,     \* transactions whose .onboarding/<txn>.device-token exists
  record,     \* the allowlist entry of each device in config.json
  tokenFile,  \* secrets/devices/<device>.token
  serving,    \* is the user service running?
  loaded,     \* the selection the user service read when it last started
  expired,    \* has the journal's expires_at passed?
  (* the installer process *)
  pc,         \* where the holder of _transaction_lock is
  op,         \* the operation it is executing
  mem,        \* its in-memory _OnboardingJournal, or None
  errs,       \* has the running rollback collected an error?
  abortReq,   \* the _abort_requested event
  waiting,    \* clients inside rollback_pending, still waiting for the lock
  (* history *)
  used,       \* transaction ids already drawn: secrets.token_urlsafe is fresh
  committed   \* transactions whose journal reached "complete" on disk

durable == <<journal, slots, active, staged, record, tokenFile>>
service == <<serving, loaded>>
history == <<used, committed>>
flags == <<expired, abortReq, waiting>>
vars == <<journal, slots, active, staged, record, tokenFile, serving, loaded,
          expired, pc, op, mem, errs, abortReq, waiting, used, committed>>

Inactive == {"staged", "claimed", "checking"}
Activating == {"applying", "credentials_active", "device_added",
               "service_starting", "service_started"}
Phases == Inactive \cup Activating \cup {"complete"}
Baselines == {"unrecorded", "was_active", "was_inactive"}
Journals == [txn : Txns, phase : Phases, verified : BOOLEAN, switched : BOOLEAN,
             previous : Txns \cup {None}, service : Baselines]

ASSUME NoneIsNoJournal == None \notin Journals

FinishSteps == {"check", "checking", "apply", "record", "switch", "switched",
                "add_token", "add_record", "added", "service", "change",
                "started", "verify", "commit"}
RollbackSteps == {"rb_record", "rb_token", "rb_selector", "rb_service",
                  "rb_staged", "rb_slot", "rb_done"}
CleanupSteps == {"cl_staged", "cl_previous", "cl_journal"}
StageSteps == {"st_slot", "st_token", "st_journal"}
Steps == {"down", "free", "recover", "orphans", "failed"}
           \cup StageSteps \cup FinishSteps \cup RollbackSteps \cup CleanupSteps

TypeOK ==
  /\ journal \in Journals \cup {None}
  /\ slots \subseteq Txns
  /\ active \in Txns \cup {None}
  /\ staged \subseteq Txns
  /\ record \in [Txns -> {"none", "own", "disabled", "rotated"}]
  /\ tokenFile \in [Txns -> {"none", "own", "rotated"}]
  /\ serving \in BOOLEAN
  /\ loaded \in Txns \cup {None}
  /\ expired \in BOOLEAN
  /\ pc \in Steps
  /\ op \in {"none", "recover", "stage", "finish", "expire", "abort"}
  /\ mem \in Journals \cup {None}
  /\ errs \in BOOLEAN
  /\ abortReq \in BOOLEAN
  /\ waiting \subseteq Clients
  /\ used \subseteq Txns
  /\ committed \subseteq Txns

Init ==
  /\ journal = None
  /\ slots = {}
  /\ active = None
  /\ staged = {}
  /\ record = [t \in Txns |-> "none"]
  /\ tokenFile = [t \in Txns |-> "none"]
  /\ serving \in BOOLEAN
  /\ loaded = None
  /\ expired = FALSE
  /\ pc = "down"
  /\ op = "none"
  /\ mem = None
  /\ errs = FALSE
  /\ abortReq = FALSE
  /\ waiting = {}
  /\ used = {}
  /\ committed = {}

-----------------------------------------------------------------------------
(* Building blocks *)

\* _write_journal: write_secret_atomic replaces the file or raises and leaves
\* it alone; the in-memory journal has changed either way.
Write(m, next) ==
  /\ mem' = m
  /\ \/ journal' = m /\ pc' = next
     \/ journal' = journal /\ pc' = "failed"

\* The holder leaves its critical section: the constructor goes on to the
\* orphans when it succeeded and closes when it raised; rollback_pending clears
\* the abort flag on its way out (its finally clause).
Return(ok) ==
  /\ pc' = CASE op = "recover" /\ ok -> "orphans"
             [] op = "recover" /\ ~ok -> "down"
             [] OTHER -> "free"
  /\ op' = IF op = "recover" /\ ok THEN "recover" ELSE "none"
  /\ abortReq' = (abortReq /\ op # "abort")
  /\ mem' = None
  /\ errs' = FALSE

\* _rollback_journal_locked(j), entered by operation o.
EnterRollback(o, j) == pc' = "rb_record" /\ op' = o /\ mem' = j /\ errs' = FALSE

\* _cleanup_complete_locked(j), entered by operation o.
EnterCleanup(o, j) == pc' = "cl_staged" /\ op' = o /\ mem' = j /\ errs' = FALSE

-----------------------------------------------------------------------------
(* Process start, recovery and death *)

\* OnboardingCoordinator.__init__ up to the owner lock: nobody else holds it.
Start ==
  /\ pc = "down"
  /\ pc' = "recover"
  /\ op' = "recover"
  /\ UNCHANGED <<durable, service, flags, history, mem, errs>>

\* _recover_locked: what a restart does with the journal it finds.
RecoverNothing ==
  /\ pc = "recover"
  /\ \/ journal = None
     \/ journal # None /\ ~expired /\ journal.phase \in {"staged", "claimed"}
  /\ pc' = "orphans"
  /\ UNCHANGED <<durable, service, flags, history, op, mem, errs>>

\* Mutant: the phase of a resumed check is one that no reader of the journal knows.
RecoverCheckingUnknownPhase ==
  /\ pc = "recover"
  /\ journal # None
  /\ ~expired
  /\ journal.phase = "checking"
  /\ journal' = [journal EXCEPT !.phase = "unchecked"]
  /\ pc' = "orphans"
  /\ UNCHANGED <<slots, active, staged, record, tokenFile, service, flags,
                 history, op, mem, errs>>

RecoverChecking ==
  /\ pc = "recover"
  /\ journal # None
  /\ ~expired
  /\ journal.phase = "checking"
  /\ journal' = [journal EXCEPT !.phase = "claimed"]
  /\ pc' = "orphans"
  /\ UNCHANGED <<slots, active, staged, record, tokenFile, service, flags,
                 history, op, mem, errs>>

\* Mutant: recovery looks at the expiry before it looks for "complete".
RecoverRollbackExpired ==
  /\ pc = "recover"
  /\ journal # None
  /\ expired \/ journal.phase \in Activating
  /\ EnterRollback("recover", journal)
  /\ UNCHANGED <<durable, service, flags, history>>

RecoverRollback ==
  /\ pc = "recover"
  /\ journal # None
  /\ journal.phase # "complete"
  /\ expired \/ journal.phase \in Activating
  /\ EnterRollback("recover", journal)
  /\ UNCHANGED <<durable, service, flags, history>>

RecoverComplete ==
  /\ pc = "recover"
  /\ journal # None
  /\ journal.phase = "complete"
  /\ EnterCleanup("recover", journal)
  /\ UNCHANGED <<durable, service, flags, history>>

\* Mutant: orphaned token files are forgotten.
CleanupOrphanSlotsOnly ==
  /\ pc = "orphans"
  /\ slots' = slots \cap ({active} \cup IF journal = None THEN {} ELSE {journal.txn})
  /\ pc' = "free"
  /\ op' = "none"
  /\ UNCHANGED <<journal, active, staged, record, tokenFile, service, flags,
                 history, mem, errs>>

\* _cleanup_orphans_locked: token files and slots of no live transaction.  The
\* deletions are independent and repeated at the next start, so a kill among
\* them leaves what a kill before this action leaves, or less.
CleanupOrphans ==
  /\ pc = "orphans"
  /\ LET current == IF journal = None THEN {} ELSE {journal.txn}
     IN  /\ staged' = staged \cap current
         /\ slots' = slots \cap (current \cup {active})
  /\ pc' = "free"
  /\ op' = "none"
  /\ UNCHANGED <<journal, active, record, tokenFile, service, flags, history,
                 mem, errs>>

\* Any of the recovery steps may raise: __init__ closes and re-raises.
RecoverFails ==
  /\ pc \in {"recover", "orphans"}
  /\ pc' = "down"
  /\ op' = "none"
  /\ UNCHANGED <<durable, service, flags, history, mem, errs>>

\* close() between operations, or a kill anywhere: the process's memory is
\* gone, the files stay.
Stop ==
  /\ pc # "down"
  /\ pc' = "down"
  /\ op' = "none"
  /\ mem' = None
  /\ errs' = FALSE
  /\ abortReq' = FALSE
  /\ waiting' = {}
  /\ UNCHANGED <<durable, service, expired, history>>

Crash == pc # "free" /\ Stop
Close == pc = "free" /\ Stop

-----------------------------------------------------------------------------
(* complete(): staging *)

\* A transaction is already pending: complete() raises, but it has cleared the
\* abort flag by then.
StageRefused ==
  /\ pc = "free"
  /\ journal # None
  /\ abortReq' = FALSE
  /\ UNCHANGED <<durable, service, expired, waiting, history, pc, op, mem, errs>>

\* Mutant: complete() does not look for a pending journal.
StageOverPending(t) ==
  /\ pc = "free"
  /\ t \notin used
  /\ abortReq' = FALSE
  /\ expired' = FALSE
  /\ used' = used \cup {t}
  /\ mem' = [txn |-> t, phase |-> "staged", verified |-> FALSE,
             switched |-> FALSE, previous |-> None, service |-> "unrecorded"]
  /\ pc' = "st_slot"
  /\ op' = "stage"
  /\ UNCHANGED <<durable, service, waiting, committed, errs>>

Stage(t) ==
  /\ pc = "free"
  /\ t \notin used
  /\ journal = None
  /\ abortReq' = FALSE
  /\ expired' = FALSE
  /\ used' = used \cup {t}
  /\ mem' = [txn |-> t, phase |-> "staged", verified |-> FALSE,
             switched |-> FALSE, previous |-> None, service |-> "unrecorded"]
  /\ pc' = "st_slot"
  /\ op' = "stage"
  /\ UNCHANGED <<durable, service, waiting, committed, errs>>

StageSlot ==
  /\ pc = "st_slot"
  /\ slots' = slots \cup {mem.txn}
  /\ pc' = "st_token"
  /\ UNCHANGED <<journal, active, staged, record, tokenFile, service, flags,
                 history, op, mem, errs>>

StageToken ==
  /\ pc = "st_token"
  /\ staged' = staged \cup {mem.txn}
  /\ pc' = "st_journal"
  /\ UNCHANGED <<journal, slots, active, record, tokenFile, service, flags,
                 history, op, mem, errs>>

StageJournal ==
  /\ pc = "st_journal"
  /\ journal' = mem
  /\ Return(TRUE)
  /\ UNCHANGED <<slots, active, staged, record, tokenFile, service, expired,
                 waiting, history>>

\* A staging write raised: both files are removed again.  When a removal raises
\* too, either may stay behind until the next start.
StageFails ==
  /\ pc \in StageSteps
  /\ staged' \in {staged, staged \ {mem.txn}}
  /\ slots' \in {slots, slots \ {mem.txn}}
  /\ Return(FALSE)
  /\ UNCHANGED <<journal, active, record, tokenFile, service, expired, waiting,
                 history>>

-----------------------------------------------------------------------------
(* claim_pending(), pending_provisioning() *)

\* The display's first authenticated claim.  Repeated claims change nothing.
Claim ==
  /\ pc = "free"
  /\ journal # None
  /\ journal.phase = "staged"
  /\ ~expired
  /\ journal' = [journal EXCEPT !.phase = "claimed"]
  /\ UNCHANGED <<slots, active, staged, record, tokenFile, service, flags,
                 history, pc, op, mem, errs>>

\* claim_pending and pending_provisioning roll an expired transaction back.
ExpirePending ==
  /\ pc = "free"
  /\ journal # None
  /\ journal.phase \in Inactive
  /\ expired
  /\ EnterRollback("expire", journal)
  /\ UNCHANGED <<durable, service, flags, history>>

-----------------------------------------------------------------------------
(* finish_pending() and _finish_locked() *)

\* Mutant: a check that was interrupted counts as passed.
FinishBeginTrusting ==
  /\ pc = "free"
  /\ ~abortReq
  /\ journal # None
  /\ journal.phase \in {"claimed", "checking"}
  /\ journal.txn \in staged
  /\ journal' = [journal EXCEPT !.phase = "checking"]
  /\ mem' = journal'
  /\ op' = "finish"
  /\ pc' = IF journal.phase = "checking" THEN "apply" ELSE "check"
  /\ UNCHANGED <<slots, active, staged, record, tokenFile, service, flags,
                 history, errs>>

\* Everything up to the write of "checking" is outside the try block: a refused
\* or failed entry changes nothing.
FinishBegin ==
  /\ pc = "free"
  /\ ~abortReq
  /\ journal # None
  /\ journal.phase \in {"claimed", "checking"}
  /\ journal.txn \in staged
  /\ journal' = [journal EXCEPT !.phase = "checking"]
  /\ mem' = journal'
  /\ op' = "finish"
  /\ pc' = IF journal.verified THEN "apply" ELSE "check"
  /\ UNCHANGED <<slots, active, staged, record, tokenFile, service, flags,
                 history, errs>>

\* Head of the permission loop: the abort flag is read before the slow call.
CheckAbort ==
  /\ pc = "check"
  /\ ~abortReq
  /\ mem.txn \in slots
  /\ pc' = "checking"
  /\ UNCHANGED <<durable, service, flags, history, op, mem, errs>>

PermissionGranted ==
  /\ pc = "checking"
  /\ mem.txn \in ViewOnly
  /\ Write([mem EXCEPT !.verified = TRUE], "apply")
  /\ UNCHANGED <<slots, active, staged, record, tokenFile, service, flags,
                 history, op, errs>>

\* A retryable CoinbaseAPIError before the deadline: sleep and go round again.
PermissionRetry ==
  /\ pc = "checking"
  /\ pc' = "check"
  /\ UNCHANGED <<durable, service, flags, history, op, mem, errs>>

Apply ==
  /\ pc = "apply"
  /\ ~abortReq
  /\ Write([mem EXCEPT !.phase = "applying"], "record")
  /\ UNCHANGED <<slots, active, staged, record, tokenFile, service, flags,
                 history, op, errs>>

\* Mutant: the selector to go back to is known to memory only.
RecordPreviousInMemory ==
  /\ pc = "record"
  /\ mem' = [mem EXCEPT !.switched = TRUE, !.previous = active]
  /\ pc' = "switch"
  /\ UNCHANGED <<durable, service, flags, history, op, errs>>

\* The selector to go back to is made durable before the selector moves.
RecordPrevious ==
  /\ pc = "record"
  /\ Write([mem EXCEPT !.switched = TRUE, !.previous = active], "switch")
  /\ UNCHANGED <<slots, active, staged, record, tokenFile, service, flags,
                 history, op, errs>>

\* compare_and_swap_local_credential_slot(previous -> own slot).
SwitchCredentials ==
  /\ pc = "switch"
  /\ active = mem.previous
  /\ mem.txn \in slots
  /\ active' = mem.txn
  /\ pc' = "switched"
  /\ UNCHANGED <<journal, slots, staged, record, tokenFile, service, flags,
                 history, op, mem, errs>>

\* Mutant: the previous bundle is dropped as soon as the selector has moved.
MarkSwitchedDroppingPrevious ==
  /\ pc = "switched"
  /\ Write([mem EXCEPT !.phase = "credentials_active"], "add_token")
  /\ slots' = slots \ {mem.previous}
  /\ UNCHANGED <<active, staged, record, tokenFile, service, flags, history,
                 op, errs>>

MarkSwitched ==
  /\ pc = "switched"
  /\ Write([mem EXCEPT !.phase = "credentials_active"], "add_token")
  /\ UNCHANGED <<slots, active, staged, record, tokenFile, service, flags,
                 history, op, errs>>

\* DeviceManager.add writes the token file first, then the allowlist entry.
AddDeviceToken ==
  /\ pc = "add_token"
  /\ ~abortReq
  /\ tokenFile[mem.txn] = "none"
  /\ tokenFile' = [tokenFile EXCEPT ![mem.txn] = "own"]
  /\ pc' = "add_record"
  /\ UNCHANGED <<journal, slots, active, staged, record, service, flags,
                 history, op, mem, errs>>

AddDeviceRecord ==
  /\ pc = "add_record"
  /\ record[mem.txn] = "none"
  /\ record' = [record EXCEPT ![mem.txn] = "own"]
  /\ pc' = "added"
  /\ UNCHANGED <<journal, slots, active, staged, tokenFile, service, flags,
                 history, op, mem, errs>>

\* The allowlist update raised: add() takes the token file back.
AddDeviceFails ==
  /\ pc = "add_record"
  /\ tokenFile' = [tokenFile EXCEPT ![mem.txn] = "none"]
  /\ pc' = "failed"
  /\ UNCHANGED <<journal, slots, active, staged, record, service, flags,
                 history, op, mem, errs>>

\* The canonical token file is read back before the phase is recorded.
MarkDeviceAdded ==
  /\ pc = "added"
  /\ tokenFile[mem.txn] = "own"
  /\ Write([mem EXCEPT !.phase = "device_added"], "service")
  /\ UNCHANGED <<slots, active, staged, record, tokenFile, service, flags,
                 history, op, errs>>

\* The answer of the service manager, asked before the service is touched.
Baseline == IF serving THEN "was_active" ELSE "was_inactive"

\* record_service_baseline, called by start_user_service before it changes
\* anything.
RecordServiceBaseline ==
  /\ pc = "service"
  /\ ~abortReq
  /\ Write([mem EXCEPT !.phase = "service_starting", !.service = Baseline],
           "change")
  /\ UNCHANGED <<slots, active, staged, record, tokenFile, service, flags,
                 history, op, errs>>

\* No manager or unit is installed, or launchctl print, systemctl is-active or
\* is-enabled gives no answer: the starter returns without calling the observer.
\* Without an answer from is-active the result says was_active=False whatever
\* the service does; without one from is-enabled it tells what was_active is.
ServiceProbeFails ==
  /\ pc = "service"
  /\ ~abortReq
  /\ \E b \in Baselines :
       /\ b = "was_active" => serving
       /\ mem' = [mem EXCEPT !.service = b]
  /\ journal' \in {journal, mem'}
  /\ pc' = "failed"
  /\ UNCHANGED <<slots, active, staged, record, tokenFile, service, flags,
                 history, op, errs>>

\* restart, enable --now, bootstrap or kickstart: the new process reads the
\* selected credentials as it starts.
StartService ==
  /\ pc = "change"
  /\ serving' = TRUE
  /\ loaded' = active
  /\ pc' = "started"
  /\ UNCHANGED <<durable, flags, history, op, mem, errs>>

\* The manager reports failure: the service may be down, up or untouched.
ServiceCommandFails ==
  \/ serving' = FALSE /\ UNCHANGED loaded
  \/ serving' = TRUE /\ loaded' = active
  \/ UNCHANGED service

StartServiceFails ==
  /\ pc = "change"
  /\ ServiceCommandFails
  /\ pc' = "failed"
  /\ UNCHANGED <<durable, flags, history, op, mem, errs>>

MarkServiceStarted ==
  /\ pc = "started"
  /\ Write([mem EXCEPT !.phase = "service_started"], "verify")
  /\ UNCHANGED <<slots, active, staged, record, tokenFile, service, flags,
                 history, op, errs>>

\* readiness_checker, _verify_owned_state, and the last look at the abort flag.
VerifyOwnedState ==
  /\ pc = "verify"
  /\ serving
  /\ active = mem.txn
  /\ record[mem.txn] = "own"
  /\ tokenFile[mem.txn] = "own"
  /\ ~abortReq
  /\ pc' = "commit"
  /\ UNCHANGED <<durable, service, flags, history, op, mem, errs>>

\* The durable write of "complete" is the commit point.
Commit ==
  /\ pc = "commit"
  /\ Write([mem EXCEPT !.phase = "complete"], "cl_staged")
  /\ committed' = IF journal' = mem' THEN committed \cup {mem.txn} ELSE committed
  /\ UNCHANGED <<slots, active, staged, record, tokenFile, service, flags, used,
                 op, errs>>

\* Any step may raise: an abort seen at a check, a refused or unreachable
\* permission check, a failed compare-and-swap, listener, readiness or
\* verification, an OSError.
FinishFails ==
  /\ pc \in FinishSteps
  /\ pc' = "failed"
  /\ UNCHANGED <<durable, service, flags, history, op, mem, errs>>

\* The except block of finish_pending: re-read the journal and roll back what is
\* on disk, completed by what only memory knows.
FinishRollback ==
  /\ pc = "failed"
  /\ EnterRollback(op,
       [journal EXCEPT
         !.service = IF mem.service = "unrecorded" THEN @ ELSE mem.service,
         !.switched = @ \/ mem.switched,
         !.previous = IF mem.switched THEN mem.previous ELSE @])
  /\ UNCHANGED <<durable, service, flags, history>>

-----------------------------------------------------------------------------
(* rollback_pending() *)

\* The flag is raised before the lock is requested.
RequestAbort(c) ==
  /\ pc # "down"
  /\ op # "recover"
  /\ c \notin waiting
  /\ abortReq' = TRUE
  /\ waiting' = waiting \cup {c}
  /\ UNCHANGED <<durable, service, expired, history, pc, op, mem, errs>>

\* The lock is granted.
AbortNothing(c) ==
  /\ pc = "free"
  /\ c \in waiting
  /\ journal = None
  /\ abortReq' = FALSE
  /\ waiting' = waiting \ {c}
  /\ UNCHANGED <<durable, service, expired, history, pc, op, mem, errs>>

AbortRollback(c) ==
  /\ pc = "free"
  /\ c \in waiting
  /\ journal # None
  /\ IF journal.phase = "complete" THEN EnterCleanup("abort", journal)
                                   ELSE EnterRollback("abort", journal)
  /\ waiting' = waiting \ {c}
  /\ UNCHANGED <<durable, service, expired, abortReq, history>>

-----------------------------------------------------------------------------
(* _rollback_journal_locked(): every undo step runs, errors are collected *)

\* _remove_scoped_device, first half: the allowlist entry, if its digest is ours.
RollbackRecord ==
  /\ pc = "rb_record"
  /\ record[mem.txn] # "rotated"
  /\ record' = [record EXCEPT ![mem.txn] = "none"]
  /\ pc' = "rb_token"
  /\ UNCHANGED <<journal, slots, active, staged, tokenFile, service, flags,
                 history, op, mem, errs>>

\* Second half: the device token file, if the token in it is ours.
RollbackToken ==
  /\ pc = "rb_token"
  /\ tokenFile[mem.txn] # "rotated"
  /\ tokenFile' = [tokenFile EXCEPT ![mem.txn] = "none"]
  /\ pc' = "rb_selector"
  /\ UNCHANGED <<journal, slots, active, staged, record, service, flags,
                 history, op, mem, errs>>

\* _restore_credential_selector: has it anything to do, and may it?
SelectorRestored == ~mem.switched \/ active = mem.previous
SelectorOurs == active = mem.txn /\ mem.previous \in slots \cup {None}

RollbackSelector ==
  /\ pc = "rb_selector"
  /\ SelectorRestored \/ SelectorOurs
  /\ active' = IF SelectorRestored THEN active ELSE mem.previous
  /\ pc' = "rb_service"
  /\ UNCHANGED <<journal, slots, staged, record, tokenFile, service, flags,
                 history, op, mem, errs>>

\* _restore_service: restart what was running, stop what was not.
RollbackService ==
  /\ pc = "rb_service"
  /\ \/ mem.service = "unrecorded" /\ UNCHANGED service
     \/ mem.service = "was_active" /\ serving' = TRUE /\ loaded' = active
     \/ mem.service = "was_inactive" /\ serving' = FALSE /\ UNCHANGED loaded
  /\ pc' = "rb_staged"
  /\ UNCHANGED <<durable, flags, history, op, mem, errs>>

RollbackStaged ==
  /\ pc = "rb_staged"
  /\ staged' = staged \ {mem.txn}
  /\ pc' = "rb_slot"
  /\ UNCHANGED <<journal, slots, active, record, tokenFile, service, flags,
                 history, op, mem, errs>>

\* Mutant: the bundle is removed whether or not it is still selected.
RollbackSlotUnchecked ==
  /\ pc = "rb_slot"
  /\ slots' = slots \ {mem.txn}
  /\ pc' = "rb_done"
  /\ UNCHANGED <<journal, active, staged, record, tokenFile, service, flags,
                 history, op, mem, errs>>

\* remove_local_credential_slot refuses the selected slot.
RollbackSlot ==
  /\ pc = "rb_slot"
  /\ active # mem.txn
  /\ slots' = slots \ {mem.txn}
  /\ pc' = "rb_done"
  /\ UNCHANGED <<journal, active, staged, record, tokenFile, service, flags,
                 history, op, mem, errs>>

\* Mutant: an allowlist entry that is already gone is a conflict.
ConflictWhenGone ==
  \/ pc = "rb_record" /\ record[mem.txn] \notin {"own", "disabled"}
  \/ pc = "rb_token" /\ tokenFile[mem.txn] = "rotated"
  \/ pc = "rb_selector" /\ ~SelectorRestored /\ ~SelectorOurs
  \/ pc = "rb_slot" /\ active = mem.txn

\* The undo step at pc finds that somebody else has changed what it would undo.
Conflict ==
  \/ pc = "rb_record" /\ record[mem.txn] = "rotated"
  \/ pc = "rb_token" /\ tokenFile[mem.txn] = "rotated"
  \/ pc = "rb_selector" /\ ~SelectorRestored /\ ~SelectorOurs
  \/ pc = "rb_slot" /\ active = mem.txn

\* An undo step that raises is skipped; with the allowlist entry the token file
\* is skipped too.
SkipUndo ==
  /\ errs' = TRUE
  /\ pc' = CASE pc = "rb_record" -> "rb_selector"
             [] pc = "rb_token" -> "rb_selector"
             [] pc = "rb_selector" -> "rb_service"
             [] pc = "rb_service" -> "rb_staged"
             [] pc = "rb_staged" -> "rb_slot"
             [] OTHER -> "rb_done"
  /\ UNCHANGED <<durable, flags, history, op, mem>>

UndoRefused == Conflict /\ SkipUndo /\ UNCHANGED service

\* An OSError, or a service manager that reports failure.
UndoFails ==
  /\ pc \in RollbackSteps \ {"rb_done"}
  /\ ~Conflict
  /\ SkipUndo
  /\ \/ pc # "rb_service" /\ UNCHANGED service
     \/ pc = "rb_service" /\ mem.service # "unrecorded" /\ ServiceCommandFails

\* Mutant: the journal is removed although an undo step failed.
RollbackDoneAnyway ==
  /\ pc = "rb_done"
  /\ journal' = None
  /\ Return(TRUE)
  /\ UNCHANGED <<slots, active, staged, record, tokenFile, service, expired,
                 waiting, history>>

\* Nothing went wrong: the journal goes, and with it the transaction.
RollbackDone ==
  /\ pc = "rb_done"
  /\ ~errs
  /\ journal' = None
  /\ Return(TRUE)
  /\ UNCHANGED <<slots, active, staged, record, tokenFile, service, expired,
                 waiting, history>>

\* With errors the journal stays for the next start, and the rollback raises.
RollbackIncomplete ==
  /\ pc = "rb_done"
  /\ errs
  /\ Return(FALSE)
  /\ UNCHANGED <<durable, service, expired, waiting, history>>

-----------------------------------------------------------------------------
(* _cleanup_complete_locked() *)

CleanupStaged ==
  /\ pc = "cl_staged"
  /\ staged' = staged \ {mem.txn}
  /\ pc' = "cl_previous"
  /\ UNCHANGED <<journal, slots, active, record, tokenFile, service, flags,
                 history, op, mem, errs>>

CleanupPrevious ==
  /\ pc = "cl_previous"
  /\ slots' = IF mem.previous = active THEN slots ELSE slots \ {mem.previous}
  /\ pc' = "cl_journal"
  /\ UNCHANGED <<journal, active, staged, record, tokenFile, service, flags,
                 history, op, mem, errs>>

CleanupJournal ==
  /\ pc = "cl_journal"
  /\ journal' = None
  /\ Return(TRUE)
  /\ UNCHANGED <<slots, active, staged, record, tokenFile, service, expired,
                 waiting, history>>

\* A cleanup that raises leaves "complete" on disk; nothing is rolled back.
CleanupFails ==
  /\ pc \in CleanupSteps
  /\ Return(FALSE)
  /\ UNCHANGED <<durable, service, expired, waiting, history>>

-----------------------------------------------------------------------------
(* What happens around the installer *)

\* The wall clock passes expires_at.
Expire ==
  /\ journal # None
  /\ ~expired
  /\ expired' = TRUE
  /\ UNCHANGED <<durable, service, abortReq, waiting, history, pc, op, mem, errs>>

\* setup --replace-credentials: save_local_credentials(_atomic) writes the
\* unversioned files and drops the selector, under the credential lock.
ReplaceCredentials ==
  /\ "replace" \in External
  /\ active # None
  /\ active' = None
  /\ UNCHANGED <<journal, slots, staged, record, tokenFile, service, flags,
                 history, pc, op, mem, errs>>

\* device rotate: the digest in config.json, then the token file.
RotateRecord(t) ==
  /\ "rotate" \in External
  /\ record[t] \in {"own", "disabled"}
  /\ record' = [record EXCEPT ![t] = "rotated"]
  /\ UNCHANGED <<journal, slots, active, staged, tokenFile, service, flags,
                 history, pc, op, mem, errs>>

RotateToken(t) ==
  /\ "rotate" \in External
  /\ record[t] = "rotated"
  /\ tokenFile[t] = "own"
  /\ tokenFile' = [tokenFile EXCEPT ![t] = "rotated"]
  /\ UNCHANGED <<journal, slots, active, staged, record, service, flags,
                 history, pc, op, mem, errs>>

\* device disable.
DisableDevice(t) ==
  /\ "disable" \in External
  /\ record[t] = "own"
  /\ record' = [record EXCEPT ![t] = "disabled"]
  /\ UNCHANGED <<journal, slots, active, staged, tokenFile, service, flags,
                 history, pc, op, mem, errs>>

\* The service manager revives the service (Restart=on-failure, KeepAlive), or
\* the user restarts it: it reads the selector again.
RestartService ==
  /\ "restart" \in External
  /\ serving
  /\ loaded' = active
  /\ UNCHANGED <<durable, serving, flags, history, pc, op, mem, errs>>

-----------------------------------------------------------------------------
Recover == RecoverNothing \/ RecoverChecking \/ RecoverRollback
             \/ RecoverComplete \/ CleanupOrphans \/ RecoverFails
Staging == StageSlot \/ StageToken \/ StageJournal \/ StageFails
Finish == \/ CheckAbort \/ PermissionGranted \/ PermissionRetry \/ Apply
          \/ RecordPrevious \/ SwitchCredentials \/ MarkSwitched
          \/ AddDeviceToken \/ AddDeviceRecord \/ AddDeviceFails
          \/ MarkDeviceAdded \/ RecordServiceBaseline \/ ServiceProbeFails
          \/ StartService \/ StartServiceFails \/ MarkServiceStarted
          \/ VerifyOwnedState \/ Commit \/ FinishFails \/ FinishRollback
Undo == \/ RollbackRecord \/ RollbackToken \/ RollbackSelector
        \/ RollbackService \/ RollbackStaged \/ RollbackSlot
Rollback == Undo \/ UndoRefused \/ UndoFails \/ RollbackDone \/ RollbackIncomplete
Cleanup == CleanupStaged \/ CleanupPrevious \/ CleanupJournal \/ CleanupFails

\* The steps of whoever holds the lock.
Holder == Recover \/ Staging \/ Finish \/ Rollback \/ Cleanup

\* The calls that take the lock.
Call == \/ StageRefused \/ \E t \in Txns : Stage(t)
        \/ Claim \/ ExpirePending \/ FinishBegin
        \/ \E c \in Clients : RequestAbort(c) \/ AbortNothing(c) \/ AbortRollback(c)

Others == \/ ReplaceCredentials
          \/ \E t \in Txns : RotateRecord(t) \/ RotateToken(t) \/ DisableDevice(t)
          \/ RestartService

Next == Start \/ Crash \/ Close \/ Holder \/ Call \/ Expire \/ Others

Spec == Init /\ [][Next]_vars

\* The holder of the lock keeps running; a permission loop ends by its deadline;
\* the installer ends (its main() always reaches the finally clause) and is run
\* again; the clock moves on; a client that asked for the lock gets it.
FairSpec ==
  /\ Spec
  /\ WF_vars(Holder)
  /\ SF_vars(pc = "checking" /\ FinishFails)
  /\ WF_vars(Start)
  /\ WF_vars(Close)
  /\ WF_vars(Expire)

-----------------------------------------------------------------------------
(* Safety *)

\* The selector never names a missing bundle: every read of the active slot in
\* auth.py raises on that, and the bridge could not start any more.
ActiveHasBundle == active # None => active \in slots

\* No key is selected, or being served, that has not passed the view-only check,
\* whatever was interrupted and resumed on the way.
OnlyViewOnlyActive == {active, loaded} \subseteq ViewOnly \cup {None}

\* Write-ahead: as long as a transaction is not committed, everything it has
\* activated (selector, allowlist entry, device token file) is covered by a
\* durable journal whose phase makes the next start undo it.
JournalCoversEffects ==
  \A t \in Txns \ committed :
    \/ active = t
    \/ record[t] # "none"
    \/ tokenFile[t] # "none"
    => journal # None /\ journal.txn = t /\ journal.phase \in Activating

\* The bundle an unfinished switch would go back to is still there.
PreviousBundleKept ==
  journal # None /\ journal.switched /\ journal.phase # "complete"
    => journal.previous \in slots \cup {None}

\* A committed device loses its authorization by the hand of the user only: no
\* later failure, expiry or recovery takes it back.
CommitIsFinal ==
  [][\A t \in committed :
       /\ (record'[t] = "none") => (record[t] = "none")
       /\ (tokenFile'[t] = "none") => (tokenFile[t] = "none")
       /\ (active = t /\ t \notin slots') => FALSE]_vars

-----------------------------------------------------------------------------
(* The inductive invariant behind the safety properties *)

\* The holder is inside complete(), finish_pending, a rollback or a cleanup.
Busy == {"failed"} \cup StageSteps \cup FinishSteps \cup RollbackSteps
          \cup CleanupSteps
Unchecked == {"check", "checking"}
Unswitched == {"check", "checking", "apply", "record"}

\* What the holder works on is what is on disk.
HolderInv ==
  /\ pc \in Busy => mem \in Journals
  /\ pc \in StageSteps => journal = None
  /\ pc \in FinishSteps => journal = mem
  /\ pc \in {"failed"} \cup RollbackSteps \cup CleanupSteps
       => journal # None /\ journal.txn = mem.txn

\* "verified" is a record of the check, and only what was active is gone back to.
Vetted(j) ==
  /\ j.verified => j.txn \in ViewOnly
  /\ j.previous \in ViewOnly \cup {None}

KeyInv ==
  /\ journal # None => Vetted(journal)
  /\ pc \in Busy => Vetted(mem)
  /\ pc \in FinishSteps \ Unchecked => mem.verified

\* The phase on disk says whether the transaction is committed and bounds where
\* the holder is.
PhaseInv ==
  /\ committed \subseteq used
  /\ journal # None => /\ journal.txn \in used
                       /\ journal.phase = "complete" <=> journal.txn \in committed
  /\ pc \in StageSteps => mem.phase = "staged" /\ mem.txn \in used \ committed
  /\ pc \in FinishSteps \cup RollbackSteps \cup {"failed"}
       => journal.phase # "complete"
  /\ pc \in CleanupSteps => journal.phase = "complete"
  /\ pc \in Unchecked \cup {"apply"} => journal.phase = "checking"
  /\ pc \in FinishSteps \ (Unchecked \cup {"apply"}) => journal.phase \in Activating
  /\ pc = "orphans" /\ journal # None => journal.phase \in Inactive

\* A selector that has moved is one the journal says has moved, and the way back
\* leads to committed credentials.
SwitchInv ==
  /\ journal # None =>
       /\ journal.previous \in committed \cup {None}
       /\ journal.phase \in Inactive => ~journal.switched
       /\ journal.switched \/ journal.phase = "complete" \/ active # journal.txn
  /\ pc \in Busy => mem.previous \in committed \cup {None}
  /\ pc \in StageSteps \cup Unswitched => ~mem.switched
  /\ pc \in FinishSteps \ Unswitched => mem.switched
  /\ pc \in RollbackSteps => mem.switched \/ active # mem.txn

\* How much of an error-free rollback is done.
UndoInv ==
  pc \in RollbackSteps /\ ~errs =>
    /\ pc # "rb_record" => record[mem.txn] = "none"
    /\ pc \notin {"rb_record", "rb_token"} => tokenFile[mem.txn] = "none"
    /\ pc \notin {"rb_record", "rb_token", "rb_selector"} => active # mem.txn
    /\ pc \in {"rb_slot", "rb_done"} => mem.txn \notin staged
    /\ pc = "rb_done" => mem.txn \notin slots

\* What the mapping to the abstract transaction needs besides: only complete()
\* draws a transaction, only a drawn one leaves files, and a selector that has
\* moved is either still where it was moved to or was given up by the user.
MappingInv ==
  /\ op = "stage" <=> pc \in StageSteps
  /\ (slots \cup staged) \subseteq used
  /\ pc \in FinishSteps \ (Unswitched \cup {"switch"}) => active \in {mem.txn, None}
  /\ pc \in {"failed"} \cup RollbackSteps /\ active = mem.txn
       => journal.previous = mem.previous

\* Together with the safety properties this is preserved by every step.
Inv ==
  /\ TypeOK
  /\ HolderInv
  /\ KeyInv /\ OnlyViewOnlyActive
  /\ PhaseInv /\ SwitchInv /\ UndoInv /\ JournalCoversEffects
  /\ ActiveHasBundle /\ PreviousBundleKept
  /\ MappingInv

-----------------------------------------------------------------------------
(* All or nothing: the abstract transaction of Activation.tla *)

\* Anything of t that is on disk.
Trace(t) ==
  \/ t \in slots \cup staged
  \/ active = t
  \/ record[t] # "none"
  \/ tokenFile[t] # "none"

Life == [t \in Txns |->
  CASE t \in committed -> "activated"
    [] t \notin committed /\ journal # None /\ journal.txn = t -> "pending"
    [] OTHER -> IF Trace(t) \/ (op = "stage" /\ mem.txn = t) THEN "stray"
                ELSE IF t \in used THEN "gone" ELSE "new"]

\* The credentials the installation is committed to: an uncommitted selection
\* stands for the one its journal goes back to.
Selected == IF active \in committed \cup {None} THEN active ELSE journal.previous

Abstract == INSTANCE Activation WITH life <- Life, selected <- Selected

\* The coordinator implements the all-or-nothing transaction.  In particular a
\* journal is never dropped while anything of its transaction is left, and no
\* crash, failure or foreign change resurrects a discarded one.
ImplementsActivation == Abstract!Spec

-----------------------------------------------------------------------------
(* Liveness *)

\* What may go wrong by itself, apart from another program's changes.  A
\* constructor that raises on an incomplete rollback ends like a kill there, and
\* an undo step with nothing left to undo looks the same when it fails: neither
\* counts.
Fault == \/ Crash /\ ~(pc = "rb_done" /\ errs)
         \/ RecoverFails \/ CleanupFails
         \/ UndoFails /\ ~Undo

\* Faults happen finitely often.
FaultsCease == <>[][~Fault]_vars

\* An activation that was begun is eventually completed or undone.
ActivationSettles ==
  FaultsCease => ((journal # None /\ journal.phase \in Activating)
                    ~> (journal = None))

\* Staged secrets do not stay on disk for ever.
SecretsSettle ==
  FaultsCease => \A t \in Txns : (t \in staged) ~> (t \notin staged)

=============================================================================
