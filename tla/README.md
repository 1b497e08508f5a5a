# Verification of coinbase-amoled-terminal

The repository is a self-hosted market display: a *bridge* on the user's computer
(`bridge/`, Python) holds a view-only Coinbase key and serves a reduced feed; a
*display* (`firmware/`, C++ on an ESP32) fetches and draws it; an *installer*
(`installer/`) joins the two. This directory holds TLA+ models of the parts that
keep state, the TLC runs that check them on small instances, and proofs checked
by TLAPS.

Short names: ON = `bridge/src/coinbase_amoled_bridge/onboarding.py`, AU =
`auth.py`, US = `user_service.py` (same directory), OD = `installer/onboard_device.py`,
FW = `firmware/main`.

## 1. Inventory

| component | state | operations | hard behaviour | what makes it correct |
|---|---|---|---|---|
| Onboarding transaction coordinator (ON, `OnboardingCoordinator`) | journal, staged token and key files, abort flag, one owner lock, one transaction lock | complete, claim_pending, finish_pending, rollback_pending, recovery in the constructor | a kill between any two durable writes; every step may raise; undo steps may raise one by one; an abort arrives while an activation runs; other programs change the same files | all or nothing; write-ahead; the view-only gate is passed before a key is used; a commit is final; every transaction settles |
| Credential store (AU) | slots, selector, unversioned bundle and two-file key | stage, compare-and-swap, remove, replace, load | three formats with a precedence; a two-file pair written in two steps | the selector never names a missing bundle; a key is never mixed from two |
| Device manager and allowlist (AU, `config.py`) | config.json, one token file per device | add, rotate, enable, disable, delete | two files per operation; rollback of the first when the second fails | digest and token file agree, or the operation is repeatable |
| User service manager (US) | the systemd or launchd service | baseline, start, restore, stop | probes without an answer; commands that fail half way; the manager's own restarts | the state before the setup is restored |
| Setup session and loopback server (ON, `SetupSession`, `LocalOnboardingServer`) | attempts, lease, terminal event | submit, cancel, expire | concurrent submissions; late answers | one submission at a time; a terminal state is final |
| Pending claim server (ON, `PendingClaimApplication`) with the display's claim task (FW/main.cc) | status, pending transaction, stored claim token | claim, abort, set_status, set_pending | retries, 410 against 503, claim blocked behind an activation | the display keeps a token the bridge honours |
| Installer entry point (OD) | phases of `main()` | wait for a submission, a claim; finish or roll back; close | deadlines against late claims | what the display is told agrees with what was done |
| Device registry (AU) | snapshot of the allowlist, its mtime | authenticate, reload | reload against a concurrent update | a revoked token stops working |
| Config store (`config.py`) | config.json, lock file, backup | load, update, migrate | two programs at once; a kill inside a migration | no update is lost |
| Feed service (`feed.py`, `device_feed.py`) | components with ages and errors, next refresh | get_feed | slow and failing upstream; waiting requests; a wall clock | nothing stale is shown as fresh, nothing expired is served |
| Bridge server and limiter (`server.py`, `ratelimit.py`) | buckets, connection slots, permits | allow, admit, release | the table at its limit; slots leaked by a failing connection; permits held by waiting requests | no client exceeds its burst; slots and permits come back |
| Quickstart and CLI (`cli.py`, `quickstart.py`) | the files above | setup, quickstart, device commands | a rollback of several steps | a failed quickstart leaves the prior state |
| Display runtime configuration (FW/runtime_config.cc) | NVS keys: active, staged, committed | stage, commit, promote, abort, load | a reset between two NVS writes | a boot sees the old bridge or the new one, never a mixture |
| Display tasks (FW/main.cc) | event bits, standby request, workers | fetch, touch, standby, claim | two-way handshake with a timeout | no worker runs in standby; wake-up always works |
| Automatic OTA (FW/auto_ota_v2.cc) | manifest, version, partition | check, install, confirm | standby or claim during an update | never a downgrade |
| Portal, firmware installer, scripts, Coinbase client | — | — | I/O | see `PROJECT.json` |

How they interact: the browser posts a key to the loopback server, which calls
`complete`; `main()` waits for the display's claim, which reaches
`PendingClaimApplication` and from there `claim_pending`; then `main()` calls
`finish_pending`, which calls the Coinbase client, the credential store, the
device manager, the service manager and the readiness check in this order and
reports through `set_status` to the display. A rollback may be asked for by the
browser, by the display, by an expired lease and by `main()`'s `finally` clause. The
service and the command line share the credential files and the allowlist with
the coordinator under file locks only.

The hazards of the code, each with its line and the properties aimed at it, are
listed in `PROJECT.json`.

## 2. Modules

`Onboarding.tla` models the coordinator with the files and the service it acts
on. One action is one durable write with the reads and guards before it, so that
a kill (`Crash`) falls between any two writes; `write_secret_atomic` is
atomic because it replaces the file by a rename. `pc` is the place of the thread that
holds `_transaction_lock`; "down" means that no coordinator is open.

| state | code |
|---|---|
| `journal` | `.onboarding/journal.json`: transaction, phase, permission check, recorded selector, recorded service baseline |
| `slots`, `active` | bundle files in `credential-slots`, the selector file |
| `staged` | `.onboarding/<txn>.device-token` |
| `record`, `tokenFile` | allowlist entry and token file of the device a transaction adds |
| `serving`, `loaded` | the user service and the selection it read when it started |
| `expired` | has `expires_at` passed |
| `pc`, `op`, `mem`, `errs` | position, operation, in-memory journal and collected errors of the lock holder |
| `abortReq`, `waiting` | `_abort_requested`; clients waiting for the lock in `rollback_pending` |
| `used`, `committed` | history: transaction ids drawn, transactions whose journal reached "complete" |

| actions | code |
|---|---|
| `Start`, `Recover*`, `CleanupOrphans`, `RecoverFails`, `Crash`, `Close` | the constructor, `_recover_locked`, `_cleanup_orphans_locked`, `close`, a kill |
| `Stage*` | `complete` with the undo of its own failure |
| `Claim`, `ExpirePending` | `claim_pending`, `pending_provisioning` |
| `FinishBegin`, `CheckAbort`, `Permission*`, `Apply`, `RecordPrevious`, `SwitchCredentials`, `MarkSwitched`, `AddDevice*`, `MarkDeviceAdded`, `RecordServiceBaseline`, `ServiceProbeFails`, `StartService*`, `MarkServiceStarted`, `VerifyOwnedState`, `Commit`, `FinishFails`, `FinishRollback` | `finish_pending`, `_finish_locked` and the calls it makes |
| `RequestAbort`, `AbortNothing`, `AbortRollback` | `rollback_pending` |
| `Rollback*`, `UndoRefused`, `UndoFails` | `_rollback_journal_locked`: each undo step succeeds, is refused by a conflict, or raises |
| `Cleanup*` | `_cleanup_complete_locked` |
| `Expire`, `ReplaceCredentials`, `Rotate*`, `DisableDevice`, `RestartService` | the clock, `setup --replace-credentials`, `device rotate`, `device disable`, the service manager |

`Activation.tla` is what the coordinator promises: one transaction at a time
takes effect as a whole or disappears without a trace. `Onboarding` defines the refinement
mapping (`Life`, `Selected`): a transaction is *pending* while its journal is on
disk, *activated* from the commit, *stray* while files of it exist that no journal
mentions; a selection that is not committed stands for the one its journal
goes back to.

Every component `X.tla` has an `MCX.tla` with its configurations, which give small
instances, and an `XProofs.tla` with its proofs; `OnboardingProofs.tla` also holds
the proof of the refinement.

`PendingClaim.tla` models the second half of a setup, between the display's claim and
its promotion. It has one transaction and the four programs that act on
it: the display, the pending claim listener with its request threads, the
installer's `main()`, and the bridge service, which takes over the listener's
port. The coordinator appears by what it does to the transaction under
its lock; its steps are those of `Onboarding`.

| state | code |
|---|---|
| `txn`, `device`, `up`, `expired` | the journal's phase in classes ("claimed" is the phases claimed and checking; "undoing" a journal whose rollback has failed; "gone" a removed one), the allowlist entry, the service on the port, the clock |
| `main`, `listening`, `known` | where `main()` is, `pending_running`, whether `set_pending` was called |
| `status`, `claimed` | `PendingClaimApplication.status`, `claimed_event` |
| `abortReq` | `_abort_requested` |
| `at`, `reply` | each request thread: before the lock, holding a result, about to answer |
| `disp`, `awaits` | the display's pending configuration, the answer it waits for |

| actions | code |
|---|---|
| `Start`, `Submit*`, `ClaimSeen`, `ClaimTimeout`, `TimeoutRollback`, `TellFailed`, `Final*`, `Exit` | `main()`; `Exit` also stands for a kill |
| `FinishEnter`, `Check*`, `AddDevice`, `StopListener`, `StartService`, `Commit`, `ReportReady`, `CleanupFails`, `Finish*` | `finish_pending`, with `status_callback` and `before_service_start` |
| `Claim*(h)`, `ThreadRollback*(h)`, `MarkRejected(h)`, `Unheard(h)` | `claim`, `abort`, `_mark_rejected`, `claim_pending`, `rollback_pending` in a request thread |
| `Save`, `SendClaim`, `ReceiveAnswer`, `GiveUp`, `AbortPending` | `/save`, `fetch_pending`, its time limit, `/abort-pending` |
| `ClaimAtService` | `_handle_active_claim` of `server.py` |

A request thread reads the status and the clock, asks the coordinator
and stores the outcome in three steps, because the code drops
`PendingClaimApplication._lock` between them. `LockFree` is the transaction lock,
which `finish_pending` holds from the check to the end of the activation.

`SetupSession.tla` models the first half, between the browser and `complete`: the
setup session, the loopback server and the installer's `main()`. Each request has a thread, and
one action is what a thread does under one lock (`SetupSession._lock`, the
connection lock, the coordinator's lock).

| state | code |
|---|---|
| `expired`, `inFlight`, `used`, `tokenLive`, `provisioning`, `finished` | the fields of `SetupSession`; `used` also stands for `provisioned_event` |
| `slots`, `active`, `full` | `_connection_slots`, `_active_connections`, `connections_at_capacity` |
| `at`, `reply` | each request: where its thread is, what it is answered |
| `journal`, `closed`, `abortReq` | the coordinator, as the steps of `Onboarding` leave it |
| `main`, `accepting`, `took` | where `main()` is, the accept loop, what `safe_provisioning` returned |
| `listening`, `listener`, `woken` | the pending claim listener, the device `set_pending` gave it, `claimed_event` |
| `overlap` | history: an attempt has begun while a failed one was being undone |

| actions | code |
|---|---|
| `Admit`, `TurnAway`, `CountIn`, `Spawn`, `SpawnFails`, `Leave`, `Release` | `process_request`, `process_request_thread` |
| `RefuseRequest`, `ServePage`, `Authorize` | `handle_one_request`, `do_GET`, the checks of `_handle_onboarding` |
| `BeginOnce`, `BodyRead`, `BodyRefused`, `BodyStalls`, `Complete*`, `SetProvisioning`, `Notify`, `UseOnce`, `UseRefused`, `FailAttempt`, `AskUndo`, `Undo*`, `AbortSession` | the rest of `_handle_onboarding` and `_rollback_after_failed_attempt` |
| `ClaimArrives`, `AbortArrives` | the listener's `claim` and `abort` |
| `Flashed`, `Interrupted`, `Provisioned`, ... `Exit` | `main()` with its `finally` clause |

`LocalState.tla` models the bridge's files outside the setup transaction, the
commands that change them, each in a process of its own, and the serving process's
`DeviceRegistry`. One action is one use of `ConfigStore` (lock, read, write, rename) or one
write of a secret file.

| state | code |
|---|---|
| `config`, `tokens` | the allowlist in `config.json`, the token files |
| `name`, `pem`, `credLock` | the two files of the key, `.credentials.lock` |
| `cmd`, `target`, `at` | the command of each process, the device it is about, its place |
| `orig`, `conf`, `oldName`, `backup`, `made` | what a command remembers for its undo |
| `reg`, `regAt`, `seen` | `_devices`, the place in `_reload`, does `_mtime_ns` match |
| `rewound`, `torn`, `missed` | history: the three exceptions of the properties, section 5 |

| actions | code |
|---|---|
| `Add*`, `SetEnabled*`, `Rotate*` | `DeviceManager.add`, `set_enabled`, `rotate`, with their undo |
| `InitializeConfig`, `SetSymbols`, `Save*`, `DropPointer*` | `initialize`, `_set_symbols`, `save_local_credentials` |
| `Quick*` | `command_quickstart`, `_existing_quickstart_device`, `command_doctor`, `_rollback_quickstart` |
| `Serve`, `Reload*` | `command_serve`, `DeviceRegistry` |
| `Kill` | a kill: the kernel drops the process's locks |

`Feed.tla` models `FeedService`. A component's value is the moment at which Coinbase
answered, which is all that ages and staleness depend on; the wall clock is the
true time less what it has been set back.

| state | code |
|---|---|
| `comp` | `_markets`, `_spot`, `_cfm`, `_intx`: value, `as_of`, error code |
| `priced` | the market values the holdings were valued with |
| `lock`, `at`, `now`, `todo` | `_lock`, each thread's place and the time it read first, the futures it waits for |
| `lastAttempt`, `nextRefresh` | the same fields |

`Call`, `Enter`, `Market`, `Accounts`, `OptionalPart`, `RefreshDone` and `Assemble` are
`get_feed` and `_refresh` in their steps; the answer is given by `Served`,
`ServedPrice`, `MarkedStale` and `MarkedDegraded`, as `_component_meta` and `_assemble` compute it.

`BridgeServer.tla` models the HTTP server around the feed: connection slots
(`slots`), request permits (`permits`), the token buckets by address (`bucket`,
`nextCleanup`), and the feed's lock (`lock`). `Connect`, `Disconnect`, `Begin`, `Malformed`, `Allow`,
`TakeFeed`, `Upstream` and `Send` are the steps of `process_request`,
`process_request_thread` and `_handle_read`. `credit` is a history variable: an ideal
bucket per address, which starts full, refills with the clock and pays for each
granted request.

`RuntimeConfig.tla` models the display's NVS keys and the tasks that change them. Every
NVS write is an action, because each is durable by itself and the power may go
between two.

| state | code |
|---|---|
| `flash`, `meta` | namespace "terminal", the one-time setup metadata |
| `on`, `config`, `staged` | has `Initialize` returned; `config_`, `staged_pending_` |
| `job` | the operation that holds the mutex, its setup, which of its writes is `next`, has one failed; `Plan` lists the writes |
| `portal`, `fetch`, `restart`, `reset` | the request task, the feed task with its snapshot, `RestartTask`, `FactoryResetTask` |
| `late` | the setups whose `expires_at` has passed. `Expired` is what the code makes of it: nothing in the firmware sets the wall clock, so `ClockIsSet` is FALSE and no setup is ever found expired |
| `answered`, `dropped`, `bare` | history: setups whose `/save` was answered; those a key of which was erased; those whose promotion failed in the erasure |

| actions | code |
|---|---|
| `NvsWrite`, `NvsWriteFails`, `NvsOpenFails`, `*Ends` | the writes of an operation and its return |
| `Boot*`, `PowerCut`, `EspRestart`, `Flashed` | `Initialize`, restarts, the installer |
| `SaveSetup`, `CloseSetup`, `Answer*`, `Commit`, `UndoSetup`, `SaveDirect`, `Abort`, `FactoryReset`, `ResetClears`, `Wipe` | the portal's handlers and `FactoryResetTask` |
| `ClaimStarts`, `ClaimAnswered`, `Promote`, `Drop` | `fetch_pending` |

`Standby.tla` models the display's tasks around standby. `at` says where each task is: the
main loop, the feed and touch tasks, the automatic updater, the web server's thread, the
timer task, the event task and `ClosePortalTask`. A call that may wait (`httpd_stop`, the
gate, the event bits) ends an action; what stands between two of them is one action.

| state | code |
|---|---|
| `asked`, `idle` | `STANDBY_REQUEST`; `FEED_IDLE`, `TOUCH_IDLE` |
| `gate` | who holds `ota_gate` |
| `armed`, `window` | `ota_armed_`, is `ota_timer` running |
| `portal`, `server`, `fallback` | `portal_active_`, `http_server`, `connection_timer` |
| `connected`, `suspended`, `restore` | `connected_`, `suspended_`, `resume_portal_` |
| `slipped` | history: an upload that began when its window had closed |

| actions | code |
|---|---|
| `Power`, `Pause*`, `ClearIdle`, `Ask`, `AllIdle`, `GiveUp`, `Suspend`, `WifiStop`, `Wake`, `Release`, `GiveBack` | `enter_screen_off_standby`, `Suspend`, `Resume` and the two functions of the gate |
| `Arm`, `ArmTimer`, `WindowEnds`, `ClosePortalTask` | `ArmOta`, `OtaTimeout` |
| `See`, `SetIdle`, `Leave`, `ClearOwn`, `Work*`, `SetupDone` | `fetch_task`, `touch_task`, `CompletePendingSetup` |
| `TakeGate`, `Download`, `Install`, `GiveGate` | `AutomaticOtaTask`, `DownloadAndInstall` |
| `Request`, `Admit`, `Upload`, `RequestEnds` | the web server's thread, `OtaHandler` |
| `StopPortal`, `Stopped`, `StartPortal`, `Serve` | the functions of these names, from whichever task |
| `GotIp`, `Disconnected`, `ConnectionTimeout` | `EventHandler`, the fallback timer |
| `Reboot` | a planned restart, an `abort()`, a loss of power |

The models meet at the values they share: what `SetupSession` calls `journal` is the
transaction of `Onboarding`; what `PendingClaim` does in one step as `Save` is the
sequence of `RuntimeConfig`; what `BridgeServer` does in `Upstream` is the refresh of `Feed`.

Data abstraction in `Onboarding`: a transaction id stands for its slot, its staged token and its
device id; a key is its transaction and the set `ViewOnly` says what Coinbase
would answer for it; digests and tokens are *own* or *rotated*. Deadlines are
the flag `expired` and the freedom of `FinishFails` to end the permission loop.
In every module the definitions marked *Mutant* are plausible mistakes in that code; no
specification uses them; each shows that one property can fail.

## 3. Runs

| run | instance | shows |
|---|---|---|
| `transaction` | two transactions, one key refused, an aborting client, all four foreign programs | `TypeOK`, `ActiveHasBundle`, `JournalCoversEffects`, `OnlyViewOnlyActive`, `CommitIsFinal`, the inductive invariant `Inv` of the proofs, and that the coordinator implements `Activation` |
| `liveness` | two view-only transactions, faults that cease, no interference | `PreviousBundleKept`, `ActivationSettles`, `SecretsSettle` |
| `claim` | two request threads, one transaction | `ReadyMeansActive`, `RejectedStaysOut`, `RejectionEndsInstaller` |
| `session` | three requests, two connection slots | `SetPendingAccepted`, `AnsweredStaysStaged`, `InstallerEnds` |
| `local` | two processes, any commands, with or without a former installation | `RevokedStaysRevoked`, `SoleRotationAgrees`, `FailedLeavesNothing`, `PairIntact`, `RegistryFollows` |
| `feed` | two threads, two markets, one optional part, five moments | `AgesHonest`, `HealthyMeansLatest`, `RefreshesSpaced` |
| `server` | two threads, three addresses, a table for one | `NothingLeaks`, `GrantsPaidFor`, `BusyEnds` |
| `runtime` | two setups, one of them pending from before, one NVS failure, one power cut, two forms | `PendingWasAnswered`, `ErasedStaysErased`, `PromotionCanResume`, `PendingSettles` |
| `standby` | the whole of `Standby`, which has no parameters and no bounds | `StandbyIsQuiet`, `AliveOrAsleep` |
| `claim_receipt`, `stalled_upload`, `expired_price` | one request thread; as `session`; as `feed` | the findings of section 5 |

Bounds of `Onboarding`. The only unbounded quantity of the code is the number of
transactions; ids are fresh, one is pending at a time, and the only other one a journal
refers to is the previous selection. Two transactions show a switch from nothing, a
switch from a committed predecessor with its cleanup, and a discarded transaction
followed by another. Kills, retries, failures and foreign changes are not bounded.
`transaction` has one key that may be activated, twice as many programs that disturb it, and
a replacement of the credentials as the predecessor; `liveness` has two keys, the second
activated over the first. The safety properties and the refinement, which both leave to small
instances, are proved for all (section 4).

Bounds of `PendingClaim`. The display waits for one answer at a time, so a second request
thread is what an abandoned claim, or an abort, needs to overtake a claim; a third would
only repeat one of the two. One transaction is enough because `set_pending` refuses
another device in the same process. Kills, retries, lost answers and rounds of the
permission check are not bounded.

Bounds of `SetupSession`. Two requests interfere; the third meets a server whose slots are
taken, or submits after a failed attempt and a success. Two slots for three requests make
fullness come and go.

Bounds of `LocalState`. Each process runs one command. Two processes are what one command
needs to disturb another; a sequence of commands is a process that ended before the other
began. Failures and kills are not bounded.

Bounds of `Feed`. A market that fails beside one that does not, a thread that refreshes beside
one that waits, and time for a value to become stale, to expire and to be fetched again:
`StaleAfter` = 1, `MaxStale` = 2 and five moments. The clock is set back once, by one.

Bounds of `BridgeServer`. Two threads share two permits, so that one holds the feed while the
other waits and the server is busy; a table for one of three addresses overflows by one
before each cleanup; a rate above the burst makes buckets idle within the
four moments of the clock. Each quantity of the limiter is relative to the tick.

Bounds of `RuntimeConfig`. One failing NVS call and one power cut, at any place, with two
forms: enough for a staging over a former setup, an abort during a claim, a restart
inside a promotion. The next fault would meet a state that boot or the next operation
has put in order, or one of the exempted ones. Planned restarts (`EspRestart`) and answers of
the bridge are not bounded.

The runs but `standby` switch off the deadlock check because these systems may stop:
in `Onboarding`, when every id of the instance is used and nothing runs; in the others, when
the installer has exited, the commands have ended, or the clock has reached its bound. In
`Standby` a reboot is possible at any time, and it is `AliveOrAsleep` that excludes deadlocks.

Fairness.

- `PendingClaim`: request threads run and `main()` goes on whenever it does not wait for an
  event; the permission check ends by its deadline. The clock, the display and the user
  have none, so `RejectionEndsInstaller` says that the event alone wakes the installer.
- `Onboarding`: the holder of the lock goes on (`WF(Holder)`; it waits for nobody). The
  permission loop has a deadline, so its failure exit, which is disabled again at each turn of
  the loop, is taken eventually (`SF`). The installer's `main()` reaches its `finally` clause,
  which closes the coordinator, and the user runs it again (`WF(Close)`, `WF(Start)`);
  the clock moves on (`WF(Expire)`). Clients, the display and foreign programs have no
  fairness. The premise `FaultsCease` excludes only faults for ever: kills, undo steps that
  keep raising, recoveries that keep raising for reasons other than an incomplete rollback.
- `SetupSession`: `main()` goes on (its waits have time-outs), the deadline passes, and the
  accept loop hands on what it has accepted. Request threads have none: a stalled
  thread must not keep the installer, whose threads are daemons.
- `BridgeServer`: a request goes on (`WF(Serve)`); `CoinbaseClient` gives each call
  a timeout, and a lock that is released is taken by the only others that wait for it.
- `RuntimeConfig`: each task runs and no call of it lasts for ever. The user, the bridge's
  answers and the faults owe nothing, and time does not help: without a clock no setup expires
  on the display. Hence the premise of `PendingSettles`, `BridgeDecides`: again and again no setup
  is pending, or the bridge's word (ready or refused) has reached the feed task. Without it the
  property is false.
- `Standby`: main, the feed and the touch task run, and each wait of theirs has a timeout but
  for `httpd_stop`. Buttons, the network, timers, the updater and the clients of
  the web server owe nothing; above all, a request need never end: `ReadRequestBody` and
  `OtaHandler` go on reading after each time-out.

## 4. Proofs

Every safety and action property of the passing runs is a theorem, for any number of
transactions, clients, request threads, processes, markets, addresses and setups, any limits,
and whatever the bounds on failures, kills and time that the runs need. So is the refinement
of `Activation`.

| module | theorem | property |
|---|---|---|
| `OnboardingProofs` | `Invariance` | `Inv`, the inductive invariant |
| | `TypeCorrect` | `TypeOK` |
| | `WriteAhead` | `JournalCoversEffects` |
| | `GateHolds` | `OnlyViewOnlyActive` |
| | `BundleThere` | `ActiveHasBundle` |
| | `WayBack` | `PreviousBundleKept` |
| | `CommitLasts` | `CommitIsFinal` |
| | `AllOrNothing` | `ImplementsActivation` |
| `PendingClaimProofs` | `TypeCorrect`, `ReadyIsActive`, `OutIsOut` | `TypeOK`, `ReadyMeansActive`, `RejectedStaysOut` |
| `SetupSessionProofs` | `TypeCorrect`, `ListenerAccepts`, `AnsweredIsStaged` | `TypeOK`, `SetPendingAccepted`, `AnsweredStaysStaged` |
| `LocalStateProofs` | `TypeCorrect`, `RevocationLasts`, `RotationAgrees` | `TypeOK`, `RevokedStaysRevoked`, `SoleRotationAgrees` |
| | `FailureLeavesNothing`, `PairIsIntact`, `RegistryIsCurrent` | `FailedLeavesNothing`, `PairIntact`, `RegistryFollows` |
| `FeedProofs` | `TypeCorrect`, `AgesAreHonest`, `HealthyIsLatest`, `Spaced` | `TypeOK`, `AgesHonest`, `HealthyMeansLatest`, `RefreshesSpaced` |
| `BridgeServerProofs` | `TypeCorrect`, `NoLeak`, `GrantsArePaid` | `TypeOK`, `NothingLeaks`, `GrantsPaidFor` |
| `RuntimeConfigProofs` | `TypeCorrect`, `PendingIsAnswered` | `TypeOK`, `PendingWasAnswered` |
| | `ErasedIsGone`, `PromotionResumes` | `ErasedStaysErased`, `PromotionCanResume` |
| `StandbyProofs` | `TypeCorrect`, `SleepIsQuiet` | `TypeOK`, `StandbyIsQuiet` |

Every proof module is laid out alike: the parts of the inductive invariant `Inv`; lemmas about
the operators that several actions use; one lemma per part, or per group of parts that need
one another, that every step preserves it, with a step for each action; `InitInv`,
`Invariance`, and the theorems. An action that neither reads nor writes what a part is about
is a leaf that only names what it leaves unchanged.

### Assumptions

They are the `ASSUME`s of the modules and say two things only. Constants that stand for
different things are different: `None` is no transaction, journal, request, process, thread,
setup, bucket or time, `Old` no process, `Direct` no setup; a market, a product and the
account (`spot`) are components of different names; `ViewOnly` is a set of transactions,
`External` one of known programs. And limits are numbers, those that the code divides or
counts by positive. `StaleAfter <= MaxStale` is what `config.py` requires.

### The arguments

`Onboarding`. None of the safety properties is inductive. `JournalCoversEffects`, for one,
does not say why a journal may be dropped: that takes `UndoInv` (what an error-free rollback
has undone at each step), which takes `SwitchInv` (a selector that has moved was recorded as
moved before, and goes back to committed credentials), which takes `PhaseInv` (the phase on
disk tells whether the transaction is committed and bounds where the holder is) and
`HolderInv` (the journal in memory and the one on disk are the same during an activation and
belong to the same transaction during a rollback). `KeyInv` carries the view-only gate:
*verified* is a record of a check that passed, past the gate it is set, and only what was
active is gone back to. The edits of journal records have lemmas of their own, so that the
preservation lemmas never look into the record type.

The refinement. `LifeIs` and `SelectedIs` read the mapping off the state; a step that changes
no life and no selection, or that only sweeps away strays, needs only `QuietSweeps`. What is
left is one lemma per step of `Activation`: `StageDraws`, `JournalPrepares`,
`CommitActivates`, `RollbackDiscards`, `ReplaceReplaces`. `SwitchHidden` and `RestoreHidden`
show that moving the selector before the commit, and moving it back, do not show: an
uncommitted selection stands for the one its journal goes back to. `StepSimulates` rests on
`UndoInv`: without it a rollback could drop a journal that still has an effect.

`PendingClaim`. `ReadyMeansActive` is nearly inductive; `RejectedStaysOut` is not. A refusal
is right when it is sent because the transaction is *settled* (active, gone, or with a journal
whose rollback is under way), or because `main()` is past the last place that leads to
`finish_pending`; `RefusalInv` says so of each thread between the coordinator and its answer,
`OutInv` of the display that has received it. The delicate case is a kill between refusal and
rollback: the next process resumes the transaction, and it is out because nobody is left to
claim it (`DownInv`, `KnownInv`).

`SetupSession`. The count of connections is an invariant about cardinalities (`SlotsInv`: each
slot that is not free has a holder), from which "no slot is returned twice" follows.
`AttemptInv` says that at most one attempt is under way, and none after success;
`SetPendingAccepted` takes `ListenerInv` in addition: whoever gave the listener its device was
the last attempt. `AnsweredStaysStaged` rests on `UndoneFirst`: without the overlap of section
5 no undo runs beside an attempt or after a success, so nobody removes what was staged.

`LocalState`. Its properties compare what a command remembers with files that others may have
written since. `DevicesInv` says that no allowlist, remembered ones included, knows a device
that was never added, so that a rollback cannot bring up a foreign one; `RotationInv` follows
the token file through the two writes of a rotation and its undo, `OwnInv` the token and the
record that a command leaves when it fails, `PairInv` the two files of the key under the
credential lock, `RegistryInv` the registry between its read and its stat.

`Feed`. `AttemptInv`: whoever refreshes does so with the time of the last attempt, so attempts
are spaced although threads read the clock before they wait for the lock. `PastInv`: a value
was asked for before it was answered, so its age is understated by no more than what the clock
was set back (`TrueAge`). `LatestInv`: during a refresh a component is of this attempt, in
error, or still awaited, so after it nothing older is shown as healthy.

`BridgeServer`. `HeldInv` counts slots and permits by their holders. `CreditInv` compares each
bucket, with what it would gain by now, with an ideal one that never overflows or forgets. Its
case that is not arithmetic alone is the cleanup: a forgotten bucket starts again full, and
`IdleFills` shows that after `IdleTime` ticks it would have been full anyhow.

`RuntimeConfig`. `Plan` gives each operation its NVS writes in order, and the invariant says
how far flash has come when a job is at write `next`. `MarkerInv`: staging takes the commit
marker away before it writes the first key, so the marker stands beside keys of an answered
setup only (`PendingWasAnswered`). `DroppedInv`: a setup that has lost a key is not whole and
is not staged again (`ErasedStaysErased`). `WholeInv`: until the erasure of a promotion the
setup is whole and committed in flash, and each active key that has been written is of this
setup (`PromotionCanResume`). The proof of the last one corrected its exemption: with four
failures a promotion can lose the marker and keep the keys, so `bare` asks for both, which a
run with one failure cannot tell.

`Standby`. `WorkersInv`: an idle bit that is set stands for a worker that has parked or is
just leaving, and the request stays up while main counts on the bits, so no worker can begin.
`NetInv`: portal and Wi-Fi stay down until `Resume`, whatever events arrive. `UploadInv`: only
the main loop arms the upload window, and it has looked for an upload as it left.

### What stays with TLC

The liveness properties `ActivationSettles`, `SecretsSettle`, `RejectionEndsInstaller`,
`InstallerEnds`, `BusyEnds`, `PendingSettles` and `AliveOrAsleep`: their proofs need ENABLED,
of which the prover has no rules, in each use of fairness. The runs of section 5 show that
something is false, for which a small instance is enough.

## 5. Findings

Each is a run that ends in a counterexample.

- `claim_receipt` (`server.py`:188): a claim that waits for the transaction lock during
  the activation finds no journal after the commit and is answered 410; the
  display erases the token of a device that is active. The display repeats its claim
  every two seconds and waits twelve, so an activation that ends within
  that time is enough.
- `stalled_upload` (ON:2060): a body whose read times out raises an `OSError` that
  passes both handlers of `_handle_onboarding`; nobody calls `fail_attempt`, and every later
  submission is answered 410, though the page says to try again.
- `expired_price` (bridge/README.md:306-309): holdings are valued with the price of any
  market that has a value, however old, so a fresh account component carries a price that
  has itself been removed from the payload.

Other behaviour in the models that a reader of the code may not expect. It is either
visible only in the actions or exempted by name from a property:

- A rollback of the coordinator restarts the service although restoring the selector has
  failed, so it restarts on the key that was to be discarded (ON:1107 against US:87-89).
- A baseline probe without an answer counts as *inactive*, and the rollback stops a
  service that was running all along (US:118).
- The key is stored before the view-only check that CHANGELOG:57 puts before storage. It is
  not *used* before: that is `OnlyViewOnlyActive`.
- A service restarted by its manager between the switch and the recorded baseline is not
  restored by the rollback and keeps serving with the discarded key (ON:926).
- Credentials replaced during an activation make its rollback fail at every start; the
  installer cannot be started again until the journal is removed by hand (ON:1079).
- The service tells the display *ready* before the commit; a failure or a kill between the
  two takes back what the display has already promoted (ON:960).
- A failed attempt frees the session before its setup is rolled back; a submission in
  between is staged and then removed by that rollback (ON:1459; `overlap` in
  `AnsweredStaysStaged`).
- The undo of a failed rotation puts the whole former record back, and with it a flag that
  was changed meanwhile: a revoked device may be enabled again (AU:658; `MayEnable`). The
  rollback of a quickstart does the same to the whole file (`cli.py`:311; `rewound`).
- A key replacement that is killed between its two files leaves a name and a private key of
  two keys; so does one whose last step, removing the pointer, fails: its handler puts the
  old name back next to the new private key (AU:778-790). A quickstart's rollback unlinks the
  files without the lock (`cli.py`:326). All three set `torn`.
- The registry misses an update between its read and its stat until the next one
  (AU:719; `missed`).
- A call of the limiter that waits for the lock charges a bucket at the time it read before; the
  ticks in between are granted twice. A full table forgets addresses (RL:53, RL:74;
  both credited in `GrantsPaidFor`).
- The display promotes the setup that is pending when the answer arrives, which need not be
  the one the bridge answered for (FW/main.cc:697), contrary to `runtime_config.h`:43-44.
- A promotion that fails in the erasure and is repeated from RAM has nothing complete in flash to
  resume from, be it that only the commit marker is gone (`bare`). A clear that fails entirely in flash leaves a committed setup, which
  comes back at the next boot (FW/runtime_config.cc:356).
- No setup ever expires on the display. Both tests (FW/runtime_config.cc:47, FW/main.cc:626) ask first
  whether the wall clock is set, and nothing in the firmware sets it. Boot takes up a
  committed setup however old it is, against the comment at FW/runtime_config.cc:357-358, and
  without the bridge's word the setup stays pending until the user ends it (`ClockIsSet`;
  the premise of `PendingSettles`).
- The factory reset erases the namespace without the mutex; a write after it survives
  (FW/network_portal.cc:366; `reset` in `PromotionCanResume`).
- Main can be held in `httpd_stop` with the screen off by a request whose body stalls, for as
  long as its client likes; POWER does not wake it then, contrary to `firmware/README.md`:30.
  The feed task can be held there in the same way after a claim (FW/network_portal.cc:251, 577,
  946; the last disjunct of `AliveOrAsleep`).
- An upload admitted while its window was open, which marks itself busy only after main has
  looked, can lose its network to standby (FW/network_portal.cc:552-559 against
  FW/main.cc:951; `slipped`). The running slot stays selected.
- BOOT held for ten seconds while `ClosePortalTask` still waits for a request starts a second
  server on the port of the first; `ESP_ERROR_CHECK` aborts and the display reboots
  (FW/network_portal.cc:900, 963; `Serve`). A portal closed while another task is
  opening it leaves a server that nobody stops until then.
- A touch task without a controller ends (FW/main.cc:570, 578), and then every standby is given
  up after twenty seconds.
- The fallback portal (`firmware/README.md`:122) has no timer in a boot that began with the
  portal open, and none after a standby until the next connection is lost
  (FW/network_portal.cc:791-803, 987; `fallback`).

(RL = `ratelimit.py`.)

## 6. Plan

Done, in this order: `Onboarding` with `Activation` and its safety theorems, `PendingClaim`,
`SetupSession`, `LocalState`, `Feed`, `BridgeServer`, `RuntimeConfig`, `Standby`.

Theorems done: every safety and action property of the runs and the refinement of `Activation`
(section 4).

Theorems next:

1. `PendingClaim` and `SetupSession` use the coordinator's steps in a coarser form. State the
   lifecycle they assume (`txn`; `journal`) as steps of `Activation`, and prove that they take
   no other.
2. The safety cores of liveness: that a waiting `main()` always has an event or a deadline
   that is still to come (`InstallerEnds`, `RejectionEndsInstaller`), and that whoever holds
   the feed's lock, the gate or the NVS mutex is at a place from which it gives it back.
3. Bounds as lemmas where an invariant implies them: at most one pending transaction, at most
   one attempt, at most one promotion.

Modules that could follow: the two updaters of the display writing to one slot; migration in
`config.py`; `write_secret_atomic` in its own steps; pure algorithms (version comparison,
candle aggregation, paging) against reference definitions.

## 7. Not modelled

Key parsing and validation, HTTP and TLS, page rendering and drawing, Wi-Fi and
flashing, packaging and shell scripts: sequential code or pure I/O. In `Standby`: drawing,
taps, the choice of a saved network, and the update slot itself, which the manual and the
automatic updater may write at once, because a window opened during a download does not
stop it before its end (FW/auto_ota_v2.cc:479). In `Onboarding`: enablement of the service next to its
activity, the directory permissions, and the temporary files of `write_secret_atomic`. In
`PendingClaim`: expiry on the display, which never happens (section 5), malformed requests, the status request, which changes nothing, a claim that
reaches a closed coordinator in the last moments of the process, and a promotion that fails on
the display (that is in `RuntimeConfig`). In `SetupSession`: setups recovered from an earlier
process. In `LocalState`: schema migration, bundles and slots (`Onboarding` has them), sample
mode, the removal of the lock file and failing unlinks in a quickstart's rollback, a write that
raises after its rename. In `Feed`: what a value says, warnings, the sample feed. In
`BridgeServer`: the second limiter, headers and routes. In `RuntimeConfig`: device id and
access-point password, brightness, a token left empty in the form, and the call that tells the
bridge of an abort.
