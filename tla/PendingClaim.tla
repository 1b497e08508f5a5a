---------------------------- MODULE PendingClaim ----------------------------
(***************************************************************************)
(* One setup transaction between the display (firmware/main/main.cc), the  *)
(* pending claim listener (PendingClaimApplication in onboarding.py), the  *)
(* installer's main() (installer/onboard_device.py), the coordinator and,  *)
(* once it is started, the bridge service (server.py).                     *)
(*                                                                         *)
(* The coordinator appears by what it does to the transaction under its    *)
(* lock; module Onboarding has its steps.  The listener and the service    *)
(* share one port, so a claim reaches whichever is up.                     *)
(***************************************************************************)

CONSTANTS
  Handlers,  \* request threads of the listener
  NoHandler  \* the display waits for no answer

ASSUME HandlerAssumption == NoHandler \notin Handlers

VARIABLES
  txn,      \* the transaction on disk
  device,   \* is its device in the allowlist?
  up,       \* does the bridge service answer on the port?
  expired,  \* has the transaction's expires_at passed?
  main,     \* where the installer is; "down": it does not run
  listening,\* is the pending claim listener accepting connections?
  known,    \* has the listener been given the transaction (set_pending)?
  status,   \* PendingClaimApplication.status
  claimed,  \* its claimed_event
  abortReq, \* the coordinator's _abort_requested
  at,       \* where each request thread is
  reply,    \* what it is going to answer
  disp,     \* the display's pending configuration
  awaits    \* the request thread whose answer the display waits for

bridge == <<txn, device, up>>
installer == <<main, listening, known>>
app == <<status, claimed, abortReq>>
threads == <<at, reply>>
display == <<disp, awaits>>
vars == <<txn, device, up, expired, main, listening, known, status, claimed,
          abortReq, at, reply, disp, awaits>>

\* finish_pending holds the transaction lock in these places.
InFinish == {"check", "apply", "start", "ready", "committed", "undo"}
Places == {"down", "submit", "claim", "timeout", "enter", "failed", "final",
           "rollback", "done"} \cup InFinish
LockFree == main \notin InFinish

Claiming == {"claim", "claim_lock", "claim_rollback", "claim_reject", "claimed",
             "answer"}
Aborting == {"abort_lock", "abort_reject"}
Replies == {"none", "waiting_for_network", "checking_read_only_key", "ready",
            "rejected", "gone", "error", "unauthorized"}

PlacesOK ==
  /\ txn \in {"none", "staged", "claimed", "applying", "undoing", "active", "gone"}
  /\ main \in Places
  /\ status \in {"waiting_for_network", "checking_read_only_key", "ready", "rejected"}
  /\ at \in [Handlers -> {"idle"} \cup Claiming \cup Aborting]
  /\ reply \in [Handlers -> Replies]
  /\ disp \in {"none", "pending", "active", "rejected", "aborted"}
  /\ awaits \in Handlers \cup {NoHandler}

FlagsOK ==
  /\ device \in BOOLEAN /\ up \in BOOLEAN /\ expired \in BOOLEAN
  /\ listening \in BOOLEAN /\ known \in BOOLEAN
  /\ claimed \in BOOLEAN /\ abortReq \in BOOLEAN

TypeOK == PlacesOK /\ FlagsOK

Init ==
  /\ txn = "none" /\ device = FALSE /\ up = FALSE /\ expired = FALSE
  /\ main = "down" /\ listening = FALSE /\ known = FALSE
  /\ status = "waiting_for_network" /\ claimed = FALSE /\ abortReq = FALSE
  /\ at = [h \in Handlers |-> "idle"]
  /\ reply = [h \in Handlers |-> "none"]
  /\ disp = "none" /\ awaits = NoHandler

-----------------------------------------------------------------------------
(* The installer: main() *)

\* What a thread leaves behind when the process goes: nothing.
ProcessGone ==
  /\ main' = "down"
  /\ listening' = FALSE
  /\ known' = FALSE
  /\ status' = "waiting_for_network"
  /\ claimed' = FALSE
  /\ abortReq' = FALSE
  /\ at' = [h \in Handlers |-> "idle"]
  /\ reply' = [h \in Handlers |-> "none"]
  /\ awaits' = NoHandler
  /\ UNCHANGED disp

\* The constructor's recovery, pending_provisioning and the listener's bind; a
\* service on the port makes the bind fail.
Inactive == {"staged", "claimed"}
Recovered == IF txn \in {"applying", "undoing"} \/ (txn \in Inactive /\ expired)
             THEN "gone" ELSE txn

Start ==
  /\ main = "down"
  /\ txn' = Recovered
  /\ device' = (device /\ txn' # "gone")
  /\ up' = (up /\ txn \notin {"applying", "undoing"})
  /\ main' = IF up' THEN "down" ELSE IF txn' \in Inactive THEN "claim" ELSE "submit"
  /\ listening' = ~up'
  /\ known' = (~up' /\ txn' \in Inactive)
  /\ UNCHANGED <<expired, app, threads, display>>

\* complete() and then set_pending, both in the loopback server's thread, before
\* main() is woken.
Submit ==
  /\ main = "submit"
  /\ txn = "none"
  /\ txn' = "staged"
  /\ known' = TRUE
  /\ main' = "claim"
  /\ UNCHANGED <<device, up, expired, listening, app, threads, display>>

\* The session ran out, or a download or the flashing failed before it.
SubmitTimeout ==
  /\ main = "submit"
  /\ main' = "final"
  /\ UNCHANGED <<bridge, expired, listening, known, app, threads, display>>

ClaimSeen ==
  /\ main = "claim"
  /\ claimed
  /\ main' = "enter"
  /\ UNCHANGED <<bridge, expired, listening, known, app, threads, display>>

\* claimed_event.wait ran out: the status first, the rollback after it.
ClaimTimeout ==
  /\ main = "claim"
  /\ ~claimed
  /\ expired
  /\ status' = "rejected"
  /\ main' = "timeout"
  /\ UNCHANGED <<bridge, expired, listening, known, claimed, abortReq, threads,
                 display>>

\* finish_pending up to the permission loop.
FinishEnter ==
  /\ main = "enter"
  /\ main' = IF ~abortReq /\ txn = "claimed" THEN "check" ELSE "failed"
  /\ UNCHANGED <<bridge, expired, listening, known, app, threads, display>>

CheckRound ==
  /\ main = "check"
  /\ ~abortReq
  /\ status' \in {"checking_read_only_key", "waiting_for_network"}
  /\ UNCHANGED <<bridge, expired, installer, claimed, abortReq, threads, display>>

CheckPassed ==
  /\ main = "check"
  /\ ~abortReq
  /\ txn' = "applying"
  /\ main' = "apply"
  /\ UNCHANGED <<device, up, expired, listening, known, app, threads, display>>

AddDevice ==
  /\ main = "apply"
  /\ ~device
  /\ ~abortReq
  /\ device' = TRUE
  /\ UNCHANGED <<txn, up, expired, installer, app, threads, display>>

\* before_service_start: stop_pending_listener frees the port.  Request threads
\* are daemons: those that are running go on.
StopListener ==
  /\ main = "apply"
  /\ device
  /\ listening' = FALSE
  /\ main' = "start"
  /\ UNCHANGED <<bridge, expired, known, app, threads, display>>

\* Mutant: "ready" is reported as soon as the service has been started.
StartServiceReporting ==
  /\ main = "start"
  /\ ~abortReq
  /\ up' = TRUE
  /\ main' = "ready"
  /\ status' = "ready"
  /\ UNCHANGED <<txn, device, expired, listening, known, claimed, abortReq,
                 threads, display>>

StartService ==
  /\ main = "start"
  /\ ~abortReq
  /\ up' = TRUE
  /\ main' = "ready"
  /\ UNCHANGED <<txn, device, expired, listening, known, app, threads, display>>

Commit ==
  /\ main = "ready"
  /\ ~abortReq
  /\ txn' = "active"
  /\ main' = "committed"
  /\ UNCHANGED <<device, up, expired, listening, known, app, threads, display>>

ReportReady ==
  /\ main = "committed"
  /\ status' = "ready"
  /\ main' = "done"
  /\ UNCHANGED <<bridge, expired, listening, known, claimed, abortReq, threads,
                 display>>

\* The transaction is complete and its cleanup raises: nothing is undone.
CleanupFails ==
  /\ main = "committed"
  /\ main' = "failed"
  /\ UNCHANGED <<bridge, expired, listening, known, app, threads, display>>

FinishFails ==
  /\ main \in InFinish \ {"committed", "undo"}
  /\ main' = "undo"
  /\ UNCHANGED <<bridge, expired, listening, known, app, threads, display>>

FinishUndone ==
  /\ main = "undo"
  /\ txn' = "gone"
  /\ device' = FALSE
  /\ up' = FALSE
  /\ main' = "failed"
  /\ UNCHANGED <<expired, listening, known, app, threads, display>>

\* An undo step raised: the journal stays as it is and the next rollback repeats
\* it, or, when nothing had been activated, the next start resumes the setup.
FinishUndoFails ==
  /\ main = "undo"
  /\ txn' = IF txn = "claimed" THEN "claimed" ELSE "undoing"
  /\ device' \in {device, FALSE}
  /\ up' \in {up, FALSE}
  /\ main' = "failed"
  /\ UNCHANGED <<expired, listening, known, app, threads, display>>

\* Mutant: a status that is not one of PENDING_WIRE_STATES.
TellFailedUnknown ==
  /\ main = "failed"
  /\ status' = "failed"
  /\ main' = "final"
  /\ UNCHANGED <<bridge, expired, listening, known, claimed, abortReq, threads,
                 display>>

\* The except clause: with the listener still open the display is told.
TellFailed ==
  /\ main = "failed"
  /\ status' = IF listening THEN "rejected" ELSE status
  /\ main' = "final"
  /\ UNCHANGED <<bridge, expired, listening, known, claimed, abortReq, threads,
                 display>>

\* rollback_pending as main() calls it, after the claim timeout and in the
\* finally clause.
RolledBack ==
  /\ txn' = IF txn \in Inactive \cup {"undoing"} THEN "gone" ELSE txn
  /\ device' = (device /\ txn' # "gone")
  /\ up' = (up /\ txn # "undoing")
  /\ abortReq' = FALSE

RollbackRaises == abortReq' = FALSE /\ UNCHANGED bridge

TimeoutRollback ==
  /\ main = "timeout"
  /\ RolledBack \/ RollbackRaises
  /\ main' = "final"
  /\ UNCHANGED <<expired, listening, known, status, claimed, threads, display>>

FinalStop ==
  /\ main = "final"
  /\ listening' = FALSE
  /\ main' = "rollback"
  /\ UNCHANGED <<bridge, expired, known, app, threads, display>>

FinalRollback ==
  /\ main = "rollback"
  /\ txn' = IF txn \in Inactive \cup {"undoing"} THEN "gone" ELSE txn
  /\ device' = (device /\ txn' # "gone")
  /\ up' = (up /\ txn # "undoing")
  /\ ProcessGone
  /\ UNCHANGED expired

\* The installer is done, raises out of its last rollback, or is killed.
Exit ==
  /\ main # "down"
  /\ ProcessGone
  /\ UNCHANGED <<bridge, expired>>

-----------------------------------------------------------------------------
(* The listener's request threads *)

Goes(h, place) == at' = [at EXCEPT ![h] = place]
Answers(h, r) == Goes(h, "answer") /\ reply' = [reply EXCEPT ![h] = r]

\* claim(): the status and the clock are read before the coordinator is asked.
ClaimRefused(h) ==
  /\ at[h] = "claim"
  /\ status = "rejected"
  /\ Answers(h, "gone")
  /\ UNCHANGED <<bridge, expired, installer, app, display>>

ClaimExpired(h) ==
  /\ at[h] = "claim"
  /\ status # "rejected"
  /\ expired
  /\ abortReq' = TRUE
  /\ Goes(h, "claim_rollback")
  /\ UNCHANGED <<bridge, expired, installer, status, claimed, reply, display>>

ClaimAsks(h) ==
  /\ at[h] = "claim"
  /\ status # "rejected"
  /\ ~expired
  /\ Goes(h, "claim_lock")
  /\ UNCHANGED <<bridge, expired, installer, app, reply, display>>

\* claim_pending under the transaction lock.
ClaimGranted(h) ==
  /\ at[h] = "claim_lock"
  /\ LockFree
  /\ txn \in Inactive
  /\ ~expired
  /\ txn' = "claimed"
  /\ Goes(h, "claimed")
  /\ UNCHANGED <<device, up, expired, installer, app, reply, display>>

\* The rollback of an expired transaction raises: 500.
ClaimExpiryRaises(h) ==
  /\ at[h] = "claim_lock"
  /\ LockFree
  /\ txn \in Inactive
  /\ expired
  /\ Answers(h, "error")
  /\ UNCHANGED <<bridge, expired, installer, app, display>>

ClaimDenied(h) ==
  /\ at[h] = "claim_lock"
  /\ LockFree
  /\ txn \notin Inactive \/ expired
  /\ txn' = IF txn \in Inactive THEN "gone" ELSE txn
  /\ Goes(h, "claim_reject")
  /\ UNCHANGED <<device, up, expired, installer, app, reply, display>>

\* The status of a granted claim is stored whatever happened since.
ClaimStored(h) ==
  /\ at[h] = "claimed"
  /\ status' = "checking_read_only_key"
  /\ claimed' = TRUE
  /\ Answers(h, "checking_read_only_key")
  /\ UNCHANGED <<bridge, expired, installer, abortReq, display>>

\* Mutant: an abort is confirmed without waiting for the rollback.
ThreadNoRollback(h) ==
  /\ at[h] \in {"claim_rollback", "abort_lock"}
  /\ Goes(h, IF at[h] = "abort_lock" THEN "abort_reject" ELSE "claim_reject")
  /\ UNCHANGED <<bridge, expired, installer, app, reply, display>>

\* rollback_pending as abort() and an expired claim call it.
ThreadRollback(h) ==
  /\ at[h] \in {"claim_rollback", "abort_lock"}
  /\ LockFree
  /\ RolledBack
  /\ Goes(h, IF at[h] = "abort_lock" THEN "abort_reject" ELSE "claim_reject")
  /\ UNCHANGED <<expired, installer, status, claimed, reply, display>>

ThreadRollbackRaises(h) ==
  /\ at[h] \in {"claim_rollback", "abort_lock"}
  /\ LockFree
  /\ RollbackRaises
  /\ Answers(h, "error")
  /\ UNCHANGED <<expired, installer, status, claimed, display>>

\* Mutant: the installer is not woken by a rejection.
MarkRejectedQuietly(h) ==
  /\ at[h] \in {"claim_reject", "abort_reject"}
  /\ status' = "rejected"
  /\ Answers(h, IF at[h] = "abort_reject" THEN "rejected" ELSE "gone")
  /\ UNCHANGED <<bridge, expired, installer, claimed, abortReq, display>>

MarkRejected(h) ==
  /\ at[h] \in {"claim_reject", "abort_reject"}
  /\ status' = "rejected"
  /\ claimed' = TRUE
  /\ Answers(h, IF at[h] = "abort_reject" THEN "rejected" ELSE "gone")
  /\ UNCHANGED <<bridge, expired, installer, abortReq, display>>

\* public_status() is read last; nobody may be waiting any more.
Unheard(h) ==
  /\ at[h] = "answer"
  /\ awaits # h
  /\ Goes(h, "idle")
  /\ reply' = [reply EXCEPT ![h] = "none"]
  /\ UNCHANGED <<bridge, expired, installer, app, display>>

-----------------------------------------------------------------------------
(* The display.  Its own expiry of a setup is not here: nothing sets its   *)
(* clock (RuntimeConfig).                                                  *)

\* The browser hands the safe values to the portal, which stages and commits them.
Save ==
  /\ disp = "none"
  /\ txn # "none"
  /\ disp' = "pending"
  /\ UNCHANGED <<bridge, expired, installer, app, threads, awaits>>

Free(h) == at[h] = "idle" /\ awaits # h

\* fetch_pending posts a claim to the listener, which refuses it at once when it
\* has been given no transaction.
SendClaim(h) ==
  /\ disp = "pending"
  /\ awaits = NoHandler
  /\ listening
  /\ Free(h)
  /\ awaits' = h
  /\ IF known THEN Goes(h, "claim") /\ UNCHANGED reply
              ELSE Answers(h, "unauthorized")
  /\ UNCHANGED <<bridge, expired, installer, app, disp>>

\* After a 200 the body is public_status() as it is by now.
Told(h) == IF reply[h] = "checking_read_only_key" THEN status ELSE reply[h]

ReceiveAnswer(h) ==
  /\ awaits = h
  /\ at[h] = "answer"
  /\ disp' = IF disp # "pending" THEN disp
             ELSE CASE Told(h) \in {"gone", "unauthorized", "rejected"} -> "rejected"
                    [] Told(h) = "ready" -> "active"
                    [] OTHER -> "pending"
  /\ awaits' = NoHandler
  /\ Goes(h, "idle")
  /\ reply' = [reply EXCEPT ![h] = "none"]
  /\ UNCHANGED <<bridge, expired, installer, app>>

\* The client's twelve seconds are over, or the connection broke.
GiveUp ==
  /\ awaits # NoHandler
  /\ awaits' = NoHandler
  /\ UNCHANGED <<bridge, expired, installer, app, threads, disp>>

\* The same claim when the bridge service has the port: _handle_active_claim.
ClaimAtService ==
  /\ disp = "pending"
  /\ awaits = NoHandler
  /\ up
  /\ disp' = IF device THEN "active" ELSE "rejected"
  /\ UNCHANGED <<bridge, expired, installer, app, threads, awaits>>

\* /abort-pending: the display forgets first and tells the bridge if it can.
AbortPending ==
  /\ disp \in {"none", "pending"}
  /\ txn # "none"
  /\ disp' = "aborted"
  /\ \/ UNCHANGED <<abortReq, at>>
     \/ /\ listening /\ known
        /\ \E h \in Handlers : Free(h) /\ Goes(h, "abort_lock")
        /\ abortReq' = TRUE
  /\ UNCHANGED <<bridge, expired, installer, status, claimed, reply, awaits>>

Expire ==
  /\ txn # "none"
  /\ ~expired
  /\ expired' = TRUE
  /\ UNCHANGED <<bridge, installer, app, threads, display>>

-----------------------------------------------------------------------------
Installer ==
  \/ Submit \/ SubmitTimeout \/ ClaimSeen \/ ClaimTimeout \/ FinishEnter
  \/ CheckRound \/ CheckPassed \/ AddDevice \/ StopListener \/ StartService
  \/ Commit \/ ReportReady \/ CleanupFails \/ FinishFails \/ FinishUndone
  \/ FinishUndoFails \/ TellFailed \/ TimeoutRollback \/ FinalStop \/ FinalRollback

Thread(h) ==
  \/ ClaimRefused(h) \/ ClaimExpired(h) \/ ClaimAsks(h) \/ ClaimGranted(h)
  \/ ClaimDenied(h) \/ ClaimExpiryRaises(h) \/ ClaimStored(h) \/ ThreadRollback(h)
  \/ ThreadRollbackRaises(h) \/ MarkRejected(h) \/ Unheard(h)

Display ==
  \/ Save \/ GiveUp \/ ClaimAtService \/ AbortPending
  \/ \E h \in Handlers : SendClaim(h) \/ ReceiveAnswer(h)

Next ==
  \/ Start \/ Installer \/ Exit \/ Display \/ Expire
  \/ \E h \in Handlers : Thread(h)

Spec == Init /\ [][Next]_vars

\* Request threads run and main() goes on whenever it is not waiting; its
\* permission loop ends by its deadline.  Neither the clock nor the display helps.
FairSpec ==
  /\ Spec
  /\ \A h \in Handlers : WF_vars(Thread(h))
  /\ WF_vars(Installer /\ main' # main)
  /\ WF_vars(AddDevice)
  /\ WF_vars(main = "done" /\ Exit)

-----------------------------------------------------------------------------
(* Properties *)

\* A display that was told its setup is rejected has forgotten its token: the
\* transaction is not activated after that, whatever was under way.
RejectedStaysOut ==
  [][disp = "rejected" /\ txn # "active" => txn' # "active"]_vars

\* The listener says "ready" of nothing but an activated transaction.
ReadyMeansActive == status = "ready" => txn = "active"

\* "A rejected request must not leave the local coordinator waiting until the
\* original TTL elapses" (onboarding.py, _mark_rejected): however the setup came to
\* be rejected, the installer ends without the clock's help.
RejectionEndsInstaller == (status = "rejected") ~> (main = "down")

\* "Idempotently tell a previously claimed device that it is active" (server.py,
\* _handle_active_claim).  A claim that waited for the lock while the transaction
\* was activated finds no journal and is told the opposite.
ActiveDeviceNotRefused ==
  [][disp = "pending" /\ disp' = "rejected" => txn # "active"]_vars
=============================================================================
