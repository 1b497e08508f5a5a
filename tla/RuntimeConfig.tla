--------------------------- MODULE RuntimeConfig ---------------------------
(***************************************************************************)
(* The display's configuration (firmware/main/runtime_config.cc) and the   *)
(* tasks that change it: the portal's request task (network_portal.cc),    *)
(* the feed task (main.cc) and the two tasks that end in esp_restart.      *)
(*                                                                         *)
(* Every NVS write is durable by itself and the device may stop between    *)
(* two of them, so an operation is a job: its writes and how far it is.    *)
(* The mutex of RuntimeConfig is held for the whole of a job; the feed     *)
(* task works on a snapshot it took earlier, and the factory reset erases  *)
(* the namespace without the mutex.                                        *)
(***************************************************************************)
EXTENDS Naturals, Sequences

CONSTANTS
  Setups,     \* what /save can carry, each with a pending token of its own
  Direct,     \* a bridge entered by hand
  Old,        \* the bridge the display has at the beginning
  None,
  Former,     \* the setups a former session may have left pending; None: none
  MaxFaults,  \* bound: NVS calls that fail
  MaxCrashes, \* bound: power cuts
  MaxRequests \* bound: forms sent to the portal

ASSUME RuntimeAssumption ==
  /\ {Direct, Old, None} \cap Setups = {} /\ Direct # Old
  /\ None \notin {Direct, Old, "staged", "committed"}
  /\ Former \subseteq Setups \cup {None}
  /\ MaxFaults \in Nat /\ MaxCrashes \in Nat /\ MaxRequests \in Nat

VARIABLES
  flash,    \* the NVS keys of namespace "terminal"
  meta,     \* is there one-time setup metadata in its partition?
  on,       \* Initialize has returned and the tasks run
  config,   \* config_: the active bridge and the pending setup in RAM
  staged,   \* staged_pending_
  job,      \* the operation that holds the mutex
  portal,   \* where the request task is, and the setup of its form
  fetch,    \* where the feed task is, and the snapshot it works on
  restart,  \* RestartTask has been created
  reset,    \* how far FactoryResetTask is
  late,     \* the setups whose expires_at has passed
  answered, \* history: the setups whose /save got its answer
  dropped,  \* history: the setups of which a pending key has been erased
  bare,     \* history: those whose promotion failed in the erasure
  faults, crashes, requests

disk == <<flash, meta>>
held == <<on, config, staged>>
ending == <<restart, reset>>
ram == <<held, job, portal, fetch, ending>>
history == <<answered, dropped, bare>>
bounds == <<faults, crashes, requests>>
env == <<late, history, bounds>>
vars == <<disk, ram, env>>

Bridges == Setups \cup {Direct, Old}
ActiveKeys == {"bridge_url", "device_id", "bridge_token"}
PendingKeys == {"pending_url", "pending_token", "pending_id", "pending_exp"}
Keys == ActiveKeys \cup PendingKeys \cup {"pending_state"}
States == {"staged", "committed"}

Write(key, value) == [key |-> key, value |-> value]
Ops == {"none", "boot", "save", "stage", "commit", "promote", "clear"}
Blank == [bridge |-> None, pending |-> None]
NoJob == [op |-> "none", by |-> "none", for |-> None, next |-> 1, failed |-> FALSE]
Idle == [pc |-> "idle", for |-> None]

FlashOK ==
  /\ flash \in [Keys -> Bridges \cup States \cup {None}]
  /\ \A k \in ActiveKeys : flash[k] \in Bridges \cup {None}
  /\ \A k \in PendingKeys : flash[k] \in Setups \cup {None}
  /\ flash["pending_state"] \in States \cup {None}
PlacesOK ==
  /\ config \in [bridge : Bridges \cup {None}, pending : Setups \cup {None}]
  /\ staged \in Setups \cup {None}
  /\ job \in [op : Ops, by : {"none", "boot", "portal", "fetch", "reset"},
              for : Bridges \cup {None}, next : 1..11, failed : BOOLEAN]
  /\ portal \in [pc : {"idle", "saving", "close", "answer", "commit", "undo"},
                 for : Bridges \cup {None}]
  /\ fetch \in [pc : {"idle", "asking", "promote", "clear"}, for : Setups \cup {None}]
  /\ reset \in {"none", "armed", "wipe", "wiped"}
  /\ on \/ job.by \in {"none", "boot"}
FlagsOK ==
  /\ meta \in BOOLEAN /\ on \in BOOLEAN
  /\ restart \in BOOLEAN
HistoryOK ==
  /\ late \subseteq Setups
  /\ answered \subseteq Setups /\ dropped \subseteq Setups /\ bare \subseteq Setups
  /\ faults \in 0..MaxFaults /\ crashes \in 0..MaxCrashes
  /\ requests \in 0..MaxRequests
TypeOK == FlashOK /\ PlacesOK /\ FlagsOK /\ HistoryOK

\* A display with a bridge and, from a former session, perhaps a setup that was
\* committed and not promoted yet.
Init ==
  /\ \E former \in Former :
       /\ flash = [k \in Keys |->
                    IF k \in PendingKeys THEN former
                    ELSE IF k # "pending_state" THEN Old
                    ELSE IF former = None THEN None ELSE "committed"]
       /\ answered = {former} \ {None}
  /\ meta = FALSE
  /\ on = FALSE /\ config = Blank /\ staged = None
  /\ job = NoJob /\ portal = Idle /\ fetch = Idle
  /\ restart = FALSE /\ reset = "none"
  /\ late = {}
  /\ dropped = {} /\ bare = {}
  /\ faults = 0 /\ crashes = 0 /\ requests = 0

-----------------------------------------------------------------------------
(* The writes of a job *)

\* IsProvisioned and HasPendingProvisioning: every field is there.  Fields of
\* two bridges make a configuration too: nothing in it tells.
Mixed == /\ \A k \in ActiveKeys : flash[k] # None
         /\ \E k, l \in ActiveKeys : flash[k] # flash[l]
Whole(s) == \A k \in PendingKeys : flash[k] = s
Committed(s) == Whole(s) /\ flash["pending_state"] = "committed"
AnyPending == \E k \in PendingKeys \cup {"pending_state"} : flash[k] # None

\* ErasePending
Erase == <<Write("pending_url", None), Write("pending_token", None),
           Write("pending_id", None), Write("pending_exp", None),
           Write("pending_state", None)>>
SetActive(b) ==
  <<Write("bridge_url", b), Write("device_id", b), Write("bridge_token", b)>>
SetPending(s) ==
  <<Write("pending_state", "staged"), Write("pending_url", s), Write("pending_id", s),
    Write("pending_token", s), Write("pending_exp", s)>>

\* Mutant: the pending keys go before the active ones are written.
PlanErasingFirst(op, b) ==
  [none    |-> <<>>,
   boot    |-> Erase,
   save    |-> SetActive(b),
   stage   |-> Erase \o SetPending(b),
   commit  |-> <<Write("pending_state", "committed")>>,
   promote |-> Erase \o SetActive(b),
   clear   |-> Erase][op]

\* What an operation writes, and in which order.
Plan(op, b) ==
  [none    |-> <<>>,
   boot    |-> Erase,
   save    |-> SetActive(b),
   stage   |-> Erase \o SetPending(b),
   commit  |-> <<Write("pending_state", "committed")>>,
   promote |-> SetActive(b) \o Erase,
   clear   |-> Erase][op]

Length == Len(Plan(job.op, job.for))
This == Plan(job.op, job.for)[job.next]

\* ErasePending goes on after an error and reports it; every other write ends
\* the operation.
Writing == job.next <= Length /\ (job.failed => This.value = None)

\* ScopedLock, then nvs_open.
Takes(op, by, b) ==
  /\ job = NoJob
  /\ job' = [op |-> op, by |-> by, for |-> b, next |-> 1, failed |-> FALSE]

NvsWrite ==
  /\ Writing
  /\ flash' = [flash EXCEPT ![This.key] = This.value]
  /\ dropped' = IF This.value = None /\ This.key \in PendingKeys
                THEN dropped \cup ({flash[This.key]} \cap Setups) ELSE dropped
  /\ job' = [job EXCEPT !.next = @ + 1]
  /\ UNCHANGED <<meta, held, portal, fetch, ending, late, answered, bare, bounds>>

NvsWriteFails ==
  /\ Writing
  /\ faults < MaxFaults
  /\ faults' = faults + 1
  /\ job' = [job EXCEPT !.failed = TRUE,
                        !.next = IF This.value = None THEN @ + 1 ELSE Length + 1]
  /\ UNCHANGED <<disk, held, portal, fetch, ending, late, history, crashes, requests>>

\* nvs_open fails and nothing is written.
NvsOpenFails ==
  /\ Writing /\ job.next = 1
  /\ faults < MaxFaults
  /\ faults' = faults + 1
  /\ job' = [job EXCEPT !.failed = TRUE, !.next = Length + 1]
  /\ UNCHANGED <<disk, held, portal, fetch, ending, late, history, crashes, requests>>

\* nvs_commit after the last write; it may fail too.
Ends(op, good) ==
  /\ job.op = op
  /\ ~Writing
  /\ good => ~job.failed
  /\ IF good \/ job.failed THEN UNCHANGED faults
     ELSE faults < MaxFaults /\ faults' = faults + 1
  /\ job' = NoJob
  /\ UNCHANGED <<disk, late, answered, dropped, crashes, requests>>

-----------------------------------------------------------------------------
(* Initialize *)

\* time(nullptr) counts from the power-on: no part of the firmware asks for the
\* time, so it never reaches kMinimumValidEpoch, fifty years on.
ClockIsSet == FALSE

\* WallClockExpired, pending_expired_by_wall_clock
Expired(s) == ClockIsSet /\ s \in late

\* Mutant: a setup that was staged and never committed is taken up as well.
UsableAnyState == \E s \in Setups : Whole(s) /\ ~Expired(s)

Usable == \E s \in Setups : Committed(s) /\ ~Expired(s)

\* The bridge that RAM shows is the one of the URL; Mixed says of flash whether
\* the other two fields agree.
Loaded(s) == [bridge |-> flash["bridge_url"], pending |-> s]

Boot ==
  /\ ~on /\ job = NoJob
  /\ ~AnyPending \/ Usable
  /\ on' = TRUE
  /\ config' = Loaded(flash["pending_url"])
  /\ staged' = None
  /\ UNCHANGED <<disk, job, portal, fetch, ending, env>>

BootErases ==
  /\ ~on
  /\ AnyPending /\ ~Usable
  /\ Takes("boot", "boot", None)
  /\ UNCHANGED <<disk, held, portal, fetch, ending, env>>

\* An error of Initialize reaches ESP_ERROR_CHECK in app_main: the device
\* starts again.
BootErased(good) ==
  /\ Ends("boot", good)
  /\ on' = good
  /\ config' = IF good THEN Loaded(None) ELSE Blank
  /\ UNCHANGED <<staged, portal, fetch, ending, bare>>

\* Mutant: the mutex is not given back by a task that is gone.
StopsLocked ==
  /\ on' = FALSE /\ config' = Blank /\ staged' = None
  /\ portal' = Idle /\ fetch' = Idle
  /\ restart' = FALSE /\ reset' = "none"
  /\ UNCHANGED <<disk, job, late, history, faults, requests>>

\* The tasks and the RAM go.
Stops ==
  /\ on' = FALSE /\ config' = Blank /\ staged' = None
  /\ job' = NoJob /\ portal' = Idle /\ fetch' = Idle
  /\ restart' = FALSE /\ reset' = "none"
  /\ UNCHANGED <<disk, late, history, faults, requests>>

PowerCut ==
  /\ crashes < MaxCrashes
  /\ crashes' = crashes + 1
  /\ Stops

\* RestartTask: 1.5 s after the handler, whatever another task is doing.
EspRestart ==
  /\ on /\ restart
  /\ Stops
  /\ UNCHANGED crashes

\* A setup that has never been submitted.
Fresh(s) == /\ s \notin answered \cup dropped /\ ~Expired(s)
            /\ \A k \in Keys : flash[k] # s

\* The installer flashes firmware and metadata and leaves the NVS partition.
Flashed ==
  /\ ~on /\ job = NoJob
  /\ ~meta
  /\ \E s \in Setups : Fresh(s)
  /\ meta' = TRUE
  /\ UNCHANGED <<flash, ram, late, history, bounds>>

-----------------------------------------------------------------------------
(* The portal's request task: SaveHandler, AbortPendingHandler *)

PortalAt(pc) == on /\ portal.pc = pc
Goes(pc) == portal' = [portal EXCEPT !.pc = pc]
Finishes == portal' = Idle
RequestArrives == /\ PortalAt("idle")
                  /\ requests < MaxRequests
                  /\ requests' = requests + 1

\* StagePendingProvisioning, which is refused while there is a setup: the
\* handler then clears that setup and answers 500.
SaveSetup(s) ==
  /\ RequestArrives /\ meta
  /\ job = NoJob
  /\ Fresh(s)
  /\ IF config.pending = None /\ staged = None
     THEN /\ portal' = [pc |-> "saving", for |-> s]
          /\ Takes("stage", "portal", s)
     ELSE portal' = [pc |-> "undo", for |-> s] /\ UNCHANGED job
  /\ UNCHANGED <<disk, held, fetch, ending, late, history, faults, crashes>>

StageEnds(good) ==
  /\ Ends("stage", good)
  /\ staged' = IF good THEN job.for ELSE staged
  /\ Goes(IF good THEN "close" ELSE "undo")
  /\ UNCHANGED <<on, config, fetch, ending, bare>>

\* SaveCredential, then OnboardingMetadata::Clear.
CloseSetup ==
  /\ PortalAt("close")
  /\ meta' = FALSE
  /\ Goes("answer")
  /\ UNCHANGED <<flash, held, job, fetch, ending, env>>

CloseFails ==
  /\ PortalAt("close")
  /\ faults < MaxFaults
  /\ faults' = faults + 1
  /\ Goes("undo")
  /\ UNCHANGED <<disk, held, job, fetch, ending, late, history, crashes, requests>>

\* httpd_resp_sendstr: the browser is told, or the connection is gone.
Answer ==
  /\ PortalAt("answer")
  /\ answered' = answered \cup {portal.for}
  /\ Goes("commit")
  /\ UNCHANGED <<disk, held, job, fetch, ending, late, dropped, bare, bounds>>

AnswerLost ==
  /\ PortalAt("answer")
  /\ Goes("undo")
  /\ UNCHANGED <<disk, held, job, fetch, ending, env>>

\* CommitPendingProvisioning, refused when another task has cleared the setup.
Commit ==
  /\ PortalAt("commit")
  /\ job = NoJob
  /\ IF staged # None
     THEN Takes("commit", "portal", staged) /\ UNCHANGED portal
     ELSE Goes("undo") /\ UNCHANGED job
  /\ UNCHANGED <<disk, held, fetch, ending, env>>

CommitEnds(good) ==
  /\ Ends("commit", good)
  /\ config' = IF good THEN [config EXCEPT !.pending = job.for] ELSE config
  /\ staged' = IF good THEN None ELSE staged
  /\ restart' = (restart \/ good)
  /\ IF good THEN Finishes ELSE Goes("undo")
  /\ UNCHANGED <<on, fetch, reset, bare>>

\* Without metadata the form is saved at once.
SaveDirect ==
  /\ RequestArrives /\ ~meta
  /\ Takes("save", "portal", Direct)
  /\ portal' = [pc |-> "saving", for |-> Direct]
  /\ UNCHANGED <<disk, held, fetch, ending, late, history, faults, crashes>>

SaveEnds(good) ==
  /\ Ends("save", good)
  /\ config' = IF good THEN [config EXCEPT !.bridge = Direct] ELSE config
  /\ restart' = (restart \/ good)
  /\ Finishes
  /\ UNCHANGED <<on, staged, fetch, reset, bare>>

\* AbortPendingHandler clears whatever is pending.
Abort ==
  /\ RequestArrives
  /\ portal' = [portal EXCEPT !.pc = "undo"]
  /\ UNCHANGED <<disk, held, job, fetch, ending, late, history, faults, crashes>>

UndoSetup ==
  /\ PortalAt("undo")
  /\ Takes("clear", "portal", None)
  /\ UNCHANGED <<disk, held, portal, fetch, ending, env>>

\* FactoryResetHandler and its task.
FactoryReset ==
  /\ RequestArrives
  /\ reset = "none"
  /\ reset' = "armed"
  /\ UNCHANGED <<disk, held, job, portal, fetch, restart, late, history, faults, crashes>>

ResetClears ==
  /\ on /\ reset = "armed"
  /\ Takes("clear", "reset", None)
  /\ UNCHANGED <<disk, held, portal, fetch, ending, env>>

\* nvs_erase_all on the namespace, without the mutex; then esp_restart.
Wipe ==
  /\ on /\ reset = "wipe"
  /\ flash' = [k \in Keys |-> None]
  /\ meta' = FALSE
  /\ reset' = "wiped"
  /\ restart' = TRUE
  /\ UNCHANGED <<held, job, portal, fetch, env>>

\* Mutant: a setup that is staged and not committed stays in RAM.
ClearEndsKeepingStaged(good) ==
  /\ Ends("clear", good)
  /\ config' = [config EXCEPT !.pending = None]
  /\ portal' = IF job.by = "portal" THEN Idle ELSE portal
  /\ fetch' = IF job.by = "fetch" THEN Idle ELSE fetch
  /\ reset' = IF job.by = "reset" THEN "wipe" ELSE reset
  /\ UNCHANGED <<on, staged, restart, bare>>

\* ClearPendingProvisioning clears RAM whatever flash did.
ClearEnds(good) ==
  /\ Ends("clear", good)
  /\ config' = [config EXCEPT !.pending = None]
  /\ staged' = None
  /\ portal' = IF job.by = "portal" THEN Idle ELSE portal
  /\ fetch' = IF job.by = "fetch" THEN Idle ELSE fetch
  /\ reset' = IF job.by = "reset" THEN "wipe" ELSE reset
  /\ UNCHANGED <<on, restart, bare>>

-----------------------------------------------------------------------------
(* The feed task: fetch(), fetch_pending() *)

\* Snapshot, and the expiry before anything is sent.
ClaimStarts ==
  /\ on /\ job = NoJob
  /\ fetch.pc = "idle"
  /\ config.pending # None
  /\ fetch' = [pc |-> IF Expired(config.pending) THEN "clear" ELSE "asking",
               for |-> config.pending]
  /\ UNCHANGED <<disk, held, job, portal, ending, env>>

\* "ready", a refusal, or neither: no network, a time-out, another status.
ClaimAnswered ==
  /\ fetch.pc = "asking"
  /\ \/ fetch' = [fetch EXCEPT !.pc = "promote"]
     \/ fetch' = [fetch EXCEPT !.pc = "clear"]
     \/ fetch' = Idle
  /\ UNCHANGED <<disk, held, job, portal, ending, env>>

\* PromotePendingProvisioning promotes the setup that is pending now, which the
\* snapshot may be too old to show.
Promote ==
  /\ fetch.pc = "promote"
  /\ IF config.pending # None
     THEN Takes("promote", "fetch", config.pending) /\ UNCHANGED fetch
     ELSE job = NoJob /\ fetch' = Idle /\ UNCHANGED job
  /\ UNCHANGED <<disk, held, portal, ending, env>>

\* Mutant: the promoted setup stays pending in RAM.
PromoteEndsKeepingPending(good) ==
  /\ Ends("promote", good)
  /\ config' = IF good THEN [config EXCEPT !.bridge = job.for] ELSE config
  /\ staged' = IF good THEN None ELSE staged
  /\ fetch' = Idle
  /\ bare' = IF good \/ Committed(job.for) THEN bare ELSE bare \cup {job.for}
  /\ UNCHANGED <<on, portal, ending>>

PromoteEnds(good) ==
  /\ Ends("promote", good)
  /\ config' = IF good THEN [bridge |-> job.for, pending |-> None] ELSE config
  /\ staged' = IF good THEN None ELSE staged
  /\ fetch' = Idle
  /\ bare' = IF good \/ Committed(job.for) THEN bare ELSE bare \cup {job.for}
  /\ UNCHANGED <<on, portal, ending>>

Drop ==
  /\ fetch.pc = "clear"
  /\ Takes("clear", "fetch", None)
  /\ UNCHANGED <<disk, held, portal, fetch, ending, env>>

-----------------------------------------------------------------------------
(* Expiry.  The device cannot see it: what passes during a job is as good  *)
(* as passed after it.                                                     *)

TimePasses(s) ==
  /\ job = NoJob
  /\ s \in answered \ late
  /\ late' = late \cup {s}
  /\ UNCHANGED <<disk, ram, history, bounds>>

-----------------------------------------------------------------------------
Ending == \E good \in BOOLEAN :
            \/ BootErased(good) \/ StageEnds(good) \/ CommitEnds(good)
            \/ SaveEnds(good) \/ ClearEnds(good) \/ PromoteEnds(good)
Starting == Boot \/ BootErases
Saving == CloseSetup \/ Answer \/ Commit \/ UndoSetup
Claiming == ClaimStarts \/ ClaimAnswered \/ Promote \/ Drop
Resetting == ResetClears \/ Wipe \/ EspRestart

Next ==
  \/ NvsWrite \/ NvsWriteFails \/ NvsOpenFails \/ Ending
  \/ Starting \/ PowerCut \/ Flashed
  \/ \E s \in Setups : SaveSetup(s) \/ TimePasses(s)
  \/ Saving \/ CloseFails \/ AnswerLost \/ SaveDirect \/ Abort \/ FactoryReset
  \/ Claiming \/ Resetting

Spec == Init /\ [][Next]_vars

\* Each task runs and no call of it lasts for ever: a job ends, a form is dealt
\* with, the feed task claims again and again, a restart that was begun happens.
\* The user, the bridge and the faults owe nothing.
FairSpec ==
  /\ Spec
  /\ WF_vars(NvsWrite \/ Ending) /\ WF_vars(Starting) /\ WF_vars(Saving)
  /\ WF_vars(Claiming) /\ WF_vars(Resetting)

-----------------------------------------------------------------------------
(* What must hold *)

\* runtime_config.h: a staged setup is invisible until /save has succeeded.  A
\* setup that the feed task can see is one whose submission was answered, over
\* every restart between its five pending keys and the commit marker.
PendingWasAnswered == config.pending \in answered \cup {None}

\* Once one of its keys has been erased -- by an abort, a rejection or a
\* promotion -- a setup never comes back from flash or from the staging area:
\* cleared, promoted or half erased, it is gone.
ErasedStaysErased ==
  [][config'.pending \notin {config.pending, None}
       => config'.pending \notin dropped]_vars

\* Promotion replaces three keys one by one.  Whenever it is cut short between
\* them, the setup that completes it is still whole and committed in flash; the
\* next claim goes on from there.  Not so for a factory reset that has erased the
\* keys under the promotion and is about to restart the device, and for a setup
\* whose promotion failed in the erasure, of its keys or of the commit marker, and is
\* repeated from RAM.
PromotionCanResume ==
  [][job.op = "promote" /\ reset # "wiped" /\ job.for \notin bare =>
       (Mixed' => \E s \in Setups : flash'["bridge_url"] = s /\ Committed(s)')]_flash

\* Each claim may go unanswered, but not for ever: while a setup is pending, "ready"
\* or a refusal comes again and again.
BridgeDecides == []<>(config.pending = None \/ fetch.pc \in {"promote", "clear"})

\* A bridge that goes on deciding settles every setup for good: failed writes, a
\* power cut inside the promotion or the erasure, and a setup that comes back from
\* flash only delay it.  Without the bridge's word nothing does: the expiry that
\* fetch_pending looks for is never seen.
PendingSettles == BridgeDecides => <>[](config.pending = None)
=============================================================================
