---------------------------- MODULE SetupSession ----------------------------
(***************************************************************************)
(* The loopback setup session: SetupSession, LocalOnboardingServer and     *)
(* OnboardingRequestHandler of onboarding.py, with the installer's main()  *)
(* (installer/onboard_device.py) that owns them.                           *)
(*                                                                         *)
(* Each request has a thread.  The coordinator appears by what it does     *)
(* under its lock (module Onboarding has the steps) and the pending claim  *)
(* listener by what it knows (module PendingClaim has its protocol).  The  *)
(* device a request stages is named by the request.                        *)
(***************************************************************************)
EXTENDS Naturals

CONSTANTS
  Requests,      \* the requests the loopback server is sent
  None,          \* no device
  MaxConnections \* MAX_CONCURRENT_CONNECTIONS

ASSUME NoneAssumption == None \notin Requests
ASSUME MaxConnectionsAssumption == MaxConnections \in Nat \ {0}

VARIABLES
  expired,      \* SetupSession.expired(): has the monotonic deadline passed?
  inFlight,     \* _in_flight
  used,         \* _used; use_once() sets provisioned_event with it
  tokenLive,    \* setup_token is not empty
  provisioning, \* _provisioning
  finished,     \* _finished
  slots,        \* free _connection_slots
  active,       \* _active_connections
  full,         \* connections_at_capacity
  at,           \* where each request is
  reply,        \* what it has been answered, or is going to be
  journal,      \* the transaction the coordinator has pending
  closed,       \* has the coordinator been closed?
  abortReq,     \* its _abort_requested
  main,         \* where the installer is
  accepting,    \* does the loopback server accept connections?
  took,         \* the provisioning main() has taken
  listening,    \* is the pending claim listener up?
  listener,     \* the device it has been given (set_pending)
  woken,        \* its claimed_event
  overlap       \* history: has an attempt begun while a failed one was undone?

session == <<expired, inFlight, used, tokenLive, provisioning, finished>>
connections == <<slots, active, full>>
coordinator == <<journal, closed, abortReq>>
claims == <<listening, listener, woken>>
installer == <<main, accepting, took>>
vars == <<session, connections, at, reply, coordinator, installer, claims, overlap>>

Devices == Requests \cup {None}
Admitting == {"admitted", "counted"}
Failing == {"fail_setup", "fail_other"}
Undoing == {"undo_setup", "undo_other", "lock_setup", "lock_other", "abort"}
Attempting == {"body", "complete", "set", "notify", "use"} \cup Failing
RequestPlaces == {"idle", "read", "begin", "leave", "release", "done"}
                   \cup Admitting \cup Attempting \cup Undoing
Replies == {"none", "closed", "refused", "error", "page", "ok"}
MainPlaces == {"flash", "wait", "read", "claim", "finish", "commit", "mark",
               "shutdown", "listener", "rollback", "close", "exit"}

PlacesOK ==
  /\ at \in [Requests -> RequestPlaces] /\ reply \in [Requests -> Replies]
  /\ provisioning \in Devices /\ journal \in Devices
  /\ took \in Devices /\ listener \in Devices
  /\ main \in MainPlaces

CountsOK == slots \in 0..MaxConnections /\ active \in 0..MaxConnections

FlagsOK ==
  /\ expired \in BOOLEAN /\ inFlight \in BOOLEAN /\ used \in BOOLEAN
  /\ tokenLive \in BOOLEAN /\ finished \in BOOLEAN /\ full \in BOOLEAN
  /\ closed \in BOOLEAN /\ abortReq \in BOOLEAN /\ accepting \in BOOLEAN
  /\ listening \in BOOLEAN /\ woken \in BOOLEAN /\ overlap \in BOOLEAN

TypeOK == PlacesOK /\ CountsOK /\ FlagsOK

\* main() with no recovered setup, after create_onboarding_server.
Init ==
  /\ expired = FALSE /\ inFlight = FALSE /\ used = FALSE
  /\ tokenLive = TRUE /\ provisioning = None /\ finished = FALSE
  /\ slots = MaxConnections /\ active = 0 /\ full = FALSE
  /\ at = [r \in Requests |-> "idle"] /\ reply = [r \in Requests |-> "none"]
  /\ journal = None /\ closed = FALSE /\ abortReq = FALSE
  /\ main = "flash" /\ accepting = TRUE /\ took = None
  /\ listening = TRUE /\ listener = None /\ woken = FALSE
  /\ overlap = FALSE

-----------------------------------------------------------------------------
(* Helpers *)

\* The process lives: its daemon threads end with it.
Alive == main # "exit"
\* finish_pending holds the transaction lock until it has committed or undone.
LockFree == main # "commit"
\* authorize_setup with the right secrets, and page_token.
Open == ~used /\ ~finished /\ ~expired /\ tokenLive

At(r, p) == Alive /\ at[r] = p
Go(r, p) == at' = [at EXCEPT ![r] = p]
GoReply(r, p, a) == Go(r, p) /\ reply' = [reply EXCEPT ![r] = a]
Answer(r, a) == GoReply(r, "leave", a)

-----------------------------------------------------------------------------
(* The accept loop of LocalOnboardingServer.  It is one thread. *)

Admit(r) ==
  /\ At(r, "idle") /\ accepting /\ \A s \in Requests : at[s] \notin Admitting
  /\ slots > 0
  /\ slots' = slots - 1
  /\ Go(r, "admitted")
  /\ UNCHANGED <<session, active, full, reply, coordinator, installer, claims, overlap>>

TurnAway(r) ==
  /\ At(r, "idle") /\ accepting /\ \A s \in Requests : at[s] \notin Admitting
  /\ slots = 0
  /\ GoReply(r, "done", "closed")
  /\ UNCHANGED <<session, connections, coordinator, installer, claims, overlap>>

CountIn(r) ==
  /\ At(r, "admitted")
  /\ active' = active + 1
  /\ full' = (full \/ active + 1 = MaxConnections)
  /\ Go(r, "counted")
  /\ UNCHANGED <<session, slots, reply, coordinator, installer, claims, overlap>>

Spawn(r) ==
  /\ At(r, "counted") /\ Go(r, "read")
  /\ UNCHANGED <<session, connections, reply, coordinator, installer, claims, overlap>>

\* Mutant: a failed start gives its slot back twice.
SpawnFailsTwice(r) ==
  /\ At(r, "counted")
  /\ active' = active - 1 /\ full' = FALSE /\ slots' = slots + 1
  /\ Go(r, "release")
  /\ UNCHANGED <<session, reply, coordinator, installer, claims, overlap>>

\* Starting the thread raised.
SpawnFails(r) ==
  /\ At(r, "counted")
  /\ active' = active - 1 /\ full' = FALSE /\ slots' = slots + 1
  /\ GoReply(r, "done", "closed")
  /\ UNCHANGED <<session, coordinator, installer, claims, overlap>>

\* process_request_thread's finally: first the count, then the slot.
Leave(r) ==
  /\ At(r, "leave")
  /\ active' = active - 1
  /\ full' = IF active - 1 < MaxConnections THEN FALSE ELSE full
  /\ Go(r, "release")
  /\ UNCHANGED <<session, slots, reply, coordinator, installer, claims, overlap>>

Release(r) ==
  /\ At(r, "release")
  /\ slots' = slots + 1
  /\ Go(r, "done")
  /\ UNCHANGED <<session, active, full, reply, coordinator, installer, claims, overlap>>

-----------------------------------------------------------------------------
(* One request *)

\* 400, 403, 404, 405, 410 or 414: it is cut off, malformed, too large, for
\* another host, path or method, or without the session's secrets.  A preflight
\* (do_OPTIONS) changes as little.
RefuseRequest(r) ==
  /\ At(r, "read")
  /\ Answer(r, "refused")
  /\ UNCHANGED <<session, connections, coordinator, installer, claims, overlap>>

\* do_GET: the same-computer page, which carries the setup token.
ServePage(r) ==
  /\ At(r, "read")
  /\ Answer(r, IF Open THEN "page" ELSE "refused")
  /\ UNCHANGED <<session, connections, coordinator, installer, claims, overlap>>

\* _handle_onboarding with the session's secrets.  They leave this process when
\* the display has been flashed.
Authorize(r) ==
  /\ At(r, "read") /\ main # "flash"
  /\ IF Open THEN Go(r, "begin") /\ UNCHANGED reply ELSE Answer(r, "refused")
  /\ UNCHANGED <<session, connections, coordinator, installer, claims, overlap>>

\* Mutant: a second submission may begin while one is in flight.
BeginAlways(r) ==
  /\ At(r, "begin") /\ ~(expired \/ used)
  /\ inFlight' = TRUE
  /\ overlap' = (overlap \/ \E s \in Requests : at[s] \in Undoing)
  /\ Go(r, "body")
  /\ UNCHANGED <<expired, used, tokenLive, provisioning, finished, connections,
                 reply, coordinator, installer, claims>>

BeginOnce(r) ==
  /\ At(r, "begin") /\ ~(expired \/ used \/ inFlight)
  /\ inFlight' = TRUE
  /\ overlap' = (overlap \/ \E s \in Requests : at[s] \in Undoing)
  /\ Go(r, "body")
  /\ UNCHANGED <<expired, used, tokenLive, provisioning, finished, connections,
                 reply, coordinator, installer, claims>>

BeginRefused(r) ==
  /\ At(r, "begin") /\ (expired \/ used \/ inFlight)
  /\ Answer(r, "refused")
  /\ UNCHANGED <<session, connections, coordinator, installer, claims, overlap>>

BodyRead(r) ==
  /\ At(r, "body") /\ Go(r, "complete")
  /\ UNCHANGED <<session, connections, reply, coordinator, installer, claims, overlap>>

\* The body is short or is no acceptable key: fail_attempt(), no rollback.
BodyRefused(r) ==
  /\ At(r, "body")
  /\ inFlight' = FALSE
  /\ Answer(r, "refused")
  /\ UNCHANGED <<expired, used, tokenLive, provisioning, finished, connections,
                 coordinator, installer, claims, overlap>>

\* The read of the body times out or the connection breaks.  The OSError passes
\* the two handlers of _handle_onboarding and ends in handle_one_request, so
\* nothing calls fail_attempt().
BodyStalls(r) ==
  /\ At(r, "body")
  /\ Answer(r, "none")
  /\ UNCHANGED <<session, connections, coordinator, installer, claims, overlap>>

\* coordinator.complete()
Complete(r) ==
  /\ At(r, "complete") /\ LockFree /\ ~closed /\ journal = None
  /\ journal' = r /\ abortReq' = FALSE
  /\ Go(r, "set")
  /\ UNCHANGED <<session, connections, reply, closed, installer, claims, overlap>>

\* It is closed, a setup is pending, or staging failed and was undone; a refused
\* key is one of the errors that count as the user's.
CompleteFails(r) ==
  /\ At(r, "complete") /\ LockFree
  /\ abortReq' = (closed /\ abortReq)
  /\ \/ Go(r, "fail_other")
     \/ ~closed /\ journal = None /\ Go(r, "fail_setup")
  /\ UNCHANGED <<session, connections, reply, journal, closed, installer, claims, overlap>>

SetProvisioning(r) ==
  /\ At(r, "set")
  /\ IF expired \/ used \/ ~inFlight
       THEN Go(r, "fail_setup") /\ UNCHANGED provisioning
       ELSE Go(r, "notify") /\ provisioning' = r
  /\ UNCHANGED <<expired, inFlight, used, tokenLive, finished, connections, reply,
                 coordinator, installer, claims, overlap>>

\* on_staged is the listener's set_pending.
Notify(r) ==
  /\ At(r, "notify")
  /\ IF listener \in {None, r}
       THEN Go(r, "use") /\ listener' = r
       ELSE Go(r, "fail_other") /\ UNCHANGED listener
  /\ UNCHANGED <<session, connections, reply, coordinator, installer, listening,
                 woken, overlap>>

\* Mutant: the token is cleared, the session is not marked used.
UseAgain(r) ==
  /\ At(r, "use") /\ inFlight /\ ~used /\ ~expired
  /\ inFlight' = FALSE /\ tokenLive' = FALSE
  /\ Answer(r, "ok")
  /\ UNCHANGED <<expired, used, provisioning, finished, connections, coordinator,
                 installer, claims, overlap>>

UseOnce(r) ==
  /\ At(r, "use") /\ inFlight /\ ~used /\ ~expired
  /\ inFlight' = FALSE /\ used' = TRUE /\ tokenLive' = FALSE
  /\ Answer(r, "ok")
  /\ UNCHANGED <<expired, provisioning, finished, connections, coordinator,
                 installer, claims, overlap>>

UseRefused(r) ==
  /\ At(r, "use") /\ ~(inFlight /\ ~used /\ ~expired)
  /\ inFlight' = FALSE
  /\ Go(r, "fail_setup")
  /\ UNCHANGED <<expired, used, tokenLive, provisioning, finished, connections,
                 reply, coordinator, installer, claims, overlap>>

FailAttempt(r) ==
  /\ Alive /\ at[r] \in Failing
  /\ inFlight' = FALSE
  /\ Go(r, IF at[r] = "fail_setup" THEN "undo_setup" ELSE "undo_other")
  /\ UNCHANGED <<expired, used, tokenLive, provisioning, finished, connections,
                 reply, coordinator, installer, claims, overlap>>

\* rollback_pending() asks first and then waits for the lock.
AskUndo(r) ==
  /\ Alive /\ at[r] \in {"undo_setup", "undo_other"}
  /\ abortReq' = TRUE
  /\ Go(r, IF at[r] = "undo_setup" THEN "lock_setup" ELSE "lock_other")
  /\ UNCHANGED <<session, connections, reply, journal, closed, installer, claims, overlap>>

Undo(r) ==
  /\ Alive /\ at[r] \in {"lock_setup", "lock_other"} /\ LockFree /\ ~closed
  /\ journal' = None /\ abortReq' = FALSE
  /\ IF at[r] = "lock_setup" THEN Answer(r, "refused") ELSE GoReply(r, "abort", "error")
  /\ UNCHANGED <<session, connections, closed, installer, claims, overlap>>

\* The coordinator is closed, or the rollback failed and kept the journal.
UndoFails(r) ==
  /\ Alive /\ at[r] \in {"lock_setup", "lock_other"} /\ LockFree
  /\ abortReq' = FALSE
  /\ GoReply(r, "abort", "error")
  /\ UNCHANGED <<session, connections, journal, closed, installer, claims, overlap>>

\* SetupSession.abort()
AbortSession(r) ==
  /\ At(r, "abort")
  /\ tokenLive' = FALSE /\ provisioning' = None
  /\ Go(r, "leave")
  /\ UNCHANGED <<expired, inFlight, used, finished, connections, reply, coordinator,
                 installer, claims, overlap>>

-----------------------------------------------------------------------------
(* The display, told by the browser *)

Told(r) == reply[r] = "ok" /\ at[r] \in {"leave", "release", "done"}

ClaimArrives(r) ==
  /\ Alive /\ Told(r) /\ listening /\ listener = r /\ ~woken
  /\ woken' = TRUE
  /\ UNCHANGED <<session, connections, at, reply, coordinator, installer, listening,
                 listener, overlap>>

\* The browser could not save the setup; PendingClaimApplication.abort.
AbortArrives(r) ==
  /\ Alive /\ Told(r) /\ listening /\ listener = r /\ LockFree
  /\ journal' = None /\ abortReq' = FALSE /\ woken' = TRUE
  /\ UNCHANGED <<session, connections, at, reply, closed, installer, listening,
                 listener, overlap>>

-----------------------------------------------------------------------------
(* The installer *)

MainGo(p) == Alive /\ main' = p
MainQuiet == UNCHANGED <<connections, at, reply, overlap>>

Flashed ==
  /\ main = "flash" /\ MainGo("wait") /\ MainQuiet
  /\ UNCHANGED <<session, coordinator, accepting, took, claims>>

\* The download or the flash fails, or the user interrupts a wait.
Interrupted ==
  /\ main \in {"flash", "wait", "claim"} /\ MainGo("shutdown") /\ MainQuiet
  /\ UNCHANGED <<session, coordinator, accepting, took, claims>>

Provisioned ==
  /\ main = "wait" /\ used /\ MainGo("read") /\ MainQuiet
  /\ UNCHANGED <<session, coordinator, accepting, took, claims>>

\* Mutant: the wait for a submission has no timeout.
SessionNeverTimesOut ==
  /\ main = "wait" /\ expired /\ used /\ MainGo("shutdown") /\ MainQuiet
  /\ UNCHANGED <<session, coordinator, accepting, took, claims>>

SessionTimesOut ==
  /\ main = "wait" /\ expired /\ ~used /\ MainGo("shutdown") /\ MainQuiet
  /\ UNCHANGED <<session, coordinator, accepting, took, claims>>

\* safe_provisioning()
TakeProvisioning ==
  /\ main = "read" /\ MainQuiet
  /\ IF ~expired /\ used /\ ~finished /\ provisioning # None
       THEN MainGo("claim") /\ took' = provisioning
       ELSE MainGo("shutdown") /\ UNCHANGED took
  /\ UNCHANGED <<session, coordinator, accepting, claims>>

Claimed ==
  /\ main = "claim" /\ woken /\ MainGo("finish") /\ MainQuiet
  /\ UNCHANGED <<session, coordinator, accepting, took, claims>>

ClaimTimesOut ==
  /\ main = "claim" /\ ~woken /\ MainGo("shutdown") /\ MainQuiet
  /\ journal' = None /\ abortReq' = FALSE
  /\ UNCHANGED <<session, closed, accepting, took, claims>>

\* finish_pending, up to its last look at the abort flag.
FinishPending ==
  /\ main = "finish" /\ MainQuiet
  /\ IF journal = took /\ ~abortReq
       THEN MainGo("commit") /\ listening' = FALSE /\ UNCHANGED journal
       ELSE MainGo("shutdown") /\ journal' = None /\ UNCHANGED listening
  /\ UNCHANGED <<session, closed, abortReq, accepting, took, listener, woken>>

Commit ==
  /\ main = "commit" /\ MainQuiet
  /\ MainGo("mark") /\ journal' = None
  /\ UNCHANGED <<session, closed, abortReq, accepting, took, claims>>

CommitFails ==
  /\ main = "commit" /\ MainQuiet
  /\ MainGo("shutdown") /\ journal' = None
  /\ UNCHANGED <<session, closed, abortReq, accepting, took, claims>>

MarkAccepted == used /\ ~finished /\ provisioning # None

MarkFinished ==
  /\ main = "mark" /\ MainQuiet /\ MainGo("shutdown")
  /\ IF MarkAccepted THEN finished' = TRUE /\ provisioning' = None
                     ELSE UNCHANGED <<finished, provisioning>>
  /\ UNCHANGED <<expired, inFlight, used, tokenLive, coordinator, accepting, took, claims>>

\* server.shutdown() waits for the accept loop.
Shutdown ==
  /\ main = "shutdown" /\ \A r \in Requests : at[r] \notin Admitting
  /\ MainGo("listener") /\ accepting' = FALSE /\ MainQuiet
  /\ UNCHANGED <<session, coordinator, took, claims>>

StopListener ==
  /\ main = "listener" /\ MainQuiet
  /\ listening' = FALSE
  /\ MainGo(IF finished THEN "close" ELSE "rollback")
  /\ UNCHANGED <<session, coordinator, accepting, took, listener, woken>>

RollbackIncomplete ==
  /\ main = "rollback" /\ MainGo("close") /\ MainQuiet
  /\ journal' = None /\ abortReq' = FALSE
  /\ UNCHANGED <<session, closed, accepting, took, claims>>

\* close() does not take the transaction lock.
Close ==
  /\ main = "close" /\ ~closed /\ closed' = TRUE /\ MainQuiet
  /\ UNCHANGED <<session, journal, abortReq, installer, claims>>

Exit ==
  /\ main = "close" /\ closed /\ MainGo("exit") /\ MainQuiet
  /\ UNCHANGED <<session, coordinator, accepting, took, claims>>

\* The monotonic clock reaches the session's deadline.
Expire ==
  /\ ~expired /\ expired' = TRUE
  /\ UNCHANGED <<inFlight, used, tokenLive, provisioning, finished, connections, at,
                 reply, coordinator, installer, claims, overlap>>

-----------------------------------------------------------------------------

Serve(r) == Admit(r) \/ TurnAway(r) \/ CountIn(r) \/ Spawn(r) \/ SpawnFails(r)
Thread(r) ==
  \/ RefuseRequest(r) \/ ServePage(r) \/ Authorize(r)
  \/ BeginOnce(r) \/ BeginRefused(r)
  \/ BodyRead(r) \/ BodyRefused(r) \/ BodyStalls(r)
  \/ Complete(r) \/ CompleteFails(r) \/ SetProvisioning(r) \/ Notify(r)
  \/ UseOnce(r) \/ UseRefused(r) \/ FailAttempt(r)
  \/ AskUndo(r) \/ Undo(r) \/ UndoFails(r) \/ AbortSession(r)
  \/ Leave(r) \/ Release(r)
Display(r) == ClaimArrives(r) \/ AbortArrives(r)
Installer ==
  \/ Flashed \/ Provisioned \/ SessionTimesOut \/ TakeProvisioning
  \/ Claimed \/ ClaimTimesOut \/ FinishPending \/ Commit \/ CommitFails
  \/ MarkFinished \/ Shutdown \/ StopListener \/ RollbackIncomplete \/ Close \/ Exit

Next ==
  \/ \E r \in Requests : Serve(r) \/ Thread(r) \/ Display(r)
  \/ Installer \/ Interrupted \/ Expire

Spec == Init /\ [][Next]_vars

\* The installer's waits are timed, the clock advances, and the accept loop ends
\* what it has begun.  Nothing obliges a browser or a display to come.
FairSpec ==
  /\ Spec /\ WF_vars(Installer) /\ WF_vars(Expire)
  /\ \A r \in Requests : WF_vars(CountIn(r) \/ Spawn(r) \/ SpawnFails(r))

-----------------------------------------------------------------------------
(* Properties *)

\* The listener never refuses the device a submission has staged: a failed
\* submission leaves the listener either without a device or with the session
\* over (set_pending, onboarding.py:1717).
SetPendingAccepted ==
  \A r \in Requests : at[r] = "notify" => listener \in {None, r}

\* A browser that was told to go on finds its setup staged until it is claimed,
\* aborted or the installer gives up, and a committed setup is marked finished.
\* The exception is a submission that began while a failed one was still being
\* undone: fail_attempt() frees the session before rollback_pending() runs, and
\* that rollback then takes the other submission's setup (onboarding.py:1459).
AnsweredStaysStaged ==
  ~overlap =>
    /\ \A r \in Requests :
         (Told(r) /\ ~woken /\ main \in {"wait", "read", "claim"}) => journal = r
    /\ main = "mark" => MarkAccepted

\* The installer ends, whatever stalls, and does not leave its coordinator open.
InstallerEnds == <>(main = "exit" /\ closed)

\* Expected by the page the session serves: "Keep this installer running, verify
\* the fields, and try again."  An attempt that ended has freed the session.
FailedAttemptFreesSession ==
  (inFlight /\ ~expired) => \E r \in Requests : at[r] \in Attempting
=============================================================================
