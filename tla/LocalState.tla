----------------------------- MODULE LocalState -----------------------------
(***************************************************************************)
(* The bridge's files outside the setup transaction: config.json with the  *)
(* device allowlist (ConfigStore, DeviceManager), the device token files   *)
(* and the two files of the Coinbase key (save_local_credentials), the     *)
(* commands of cli.py that change them, each in a process of its own, and  *)
(* the service's DeviceRegistry, which reloads the allowlist.              *)
(*                                                                         *)
(* ConfigStore.update, load and replace hold the file lock over the whole  *)
(* read and write, and write through a rename: each is one step.  Devices, *)
(* tokens and keys are named by the process that made them; Old names the  *)
(* ones that were there before.                                            *)
(***************************************************************************)
EXTENDS FiniteSets

CONSTANTS Procs, Old, None

ASSUME NamesAssumption == Old \notin Procs /\ None \notin Procs /\ Old # None

VARIABLES
  config,   \* the allowlist in config.json, or None without the file
  tokens,   \* the device token files
  name,     \* coinbase_api_key_name: whose key
  pem,      \* coinbase_api_private_key: whose key
  credLock, \* the process that holds .credentials.lock
  cmd,      \* the command of each process
  target,   \* the device it is about
  at,       \* where it is
  orig,     \* the config it loaded first
  oldName,  \* save_local_credentials: the key name it replaces
  backup,   \* rotate: the token file it found
  conf,     \* quickstart: the config that initialize() returned
  made,     \* quickstart: what it has changed (_QuickstartChanges)
  reg,      \* DeviceRegistry._devices, or None: no service
  regAt,    \* where its _reload is
  seen,     \* is its _mtime_ns that of config.json?
  missed,   \* history: was config.json written between its read and its stat?
  rewound,  \* history: has a quickstart put back or removed config.json?
  torn      \* history: was a key replacement cut off between the two files,
            \* or disturbed by a rollback that does not take the lock?

files == <<config, tokens, name, pem>>
process == <<cmd, target, at, orig, oldName, backup, conf, made>>
order == <<cmd, target>>
kept == <<orig, oldName, backup, conf>>
registry == <<reg, regAt, seen, missed>>
history == <<rewound, torn>>
vars == <<files, credLock, process, registry, history>>

Names == Procs \cup {Old}
Records == [enabled : BOOLEAN, digest : Names]
Allowlists == [Names -> Records \cup {None}]

Commands == {"add", "rotate", "revoke", "enable", "symbols", "setup", "quickstart"}
Ended == {"done", "failed", "stuck", "killed"}
Saving == {"name", "pem", "pointer"}
Places == {"idle", "token", "record", "untoken", "flag", "load", "digest",
           "token_file", "undo_record", "undo_token", "init", "symbols", "q_load",
           "q_keys", "q_prompt", "q_gate", "q_init", "q_pair", "q_device", "q_doctor",
           "q_undo_config", "q_undo_files"}
            \cup Saving \cup Ended
Changes == {"config", "keys", "device"}

\* Nothing is neither a record, nor a file, nor a command.
ASSUME NothingAssumption ==
  None \notin Records /\ None \notin Allowlists /\ None \notin Commands

PlacesOK ==
  /\ cmd \in [Procs -> Commands \cup {None}]
  /\ target \in [Procs -> Names \cup {None}]
  /\ at \in [Procs -> Places]
  /\ made \in [Procs -> SUBSET Changes]

ListsOK ==
  /\ config \in Allowlists \cup {None}
  /\ orig \in [Procs -> Allowlists \cup {None}]
  /\ conf \in [Procs -> Allowlists \cup {None}]
  /\ reg \in Allowlists \cup {None}

FilesOK ==
  /\ tokens \in [Names -> Names \cup {None}]
  /\ name \in Names \cup {None} /\ pem \in Names \cup {None}
  /\ credLock \in Procs \cup {None}
  /\ oldName \in [Procs -> Names \cup {None}]
  /\ backup \in [Procs -> Names \cup {None}]
  /\ regAt \in {"down", "idle", "load", "stat"}

FlagsOK ==
  seen \in BOOLEAN /\ missed \in BOOLEAN /\ rewound \in BOOLEAN /\ torn \in BOOLEAN

TypeOK == PlacesOK /\ ListsOK /\ FilesOK /\ FlagsOK

NoDevices == [n \in Names |-> None]
OldRecord == [enabled |-> TRUE, digest |-> Old]

\* A new installation, or one with a device; with or without a stored key.
Init ==
  /\ config \in {None, [NoDevices EXCEPT ![Old] = OldRecord]}
  /\ tokens = [n \in Names |-> IF config # None /\ n = Old THEN Old ELSE None]
  /\ name \in {None, Old} /\ pem = name /\ credLock = None
  /\ cmd = [p \in Procs |-> None] /\ target = [p \in Procs |-> None]
  /\ at = [p \in Procs |-> "idle"] /\ orig = [p \in Procs |-> None]
  /\ oldName = [p \in Procs |-> None] /\ backup = [p \in Procs |-> None]
  /\ conf = [p \in Procs |-> None] /\ made = [p \in Procs |-> {}]
  /\ reg = None /\ regAt = "down" /\ seen = FALSE /\ missed = FALSE
  /\ rewound = FALSE /\ torn = FALSE

-----------------------------------------------------------------------------
(* Helpers *)

Go(p, place) == at' = [at EXCEPT ![p] = place]
Has(d) == config # None /\ config[d] # None
EnabledIn(list) == {d \in Names : list[d] # None /\ list[d].enabled}

\* _write_unlocked: the file has another modification time.
Written(list) ==
  /\ config' = list
  /\ seen' = FALSE
  /\ missed' = (missed \/ regAt = "stat")
  /\ UNCHANGED <<reg, regAt>>
Unwritten == UNCHANGED <<config, registry>>

Record(p) == [enabled |-> TRUE, digest |-> p]
WithDevice(p) == [config EXCEPT ![p] = Record(p)]
WithFlag(d, b) == [config EXCEPT ![d].enabled = b]
WithDigest(d, t) == [config EXCEPT ![d].digest = t]

\* Where a command goes on after the part it shares with others.
\* setup stores keys and adds a device as its options say.
AfterSymbols(p) == IF cmd[p] = "setup" THEN {"name", "token", "done"} ELSE {"done"}
AfterKeys(p) == IF cmd[p] = "setup" THEN {"token", "done"} ELSE {"q_device"}
AfterAdd(p) == IF cmd[p] = "quickstart" THEN "q_doctor" ELSE "done"
\* An exception: only quickstart undoes anything, and only if it changed something.
Raise(p) == Go(p, IF cmd[p] = "quickstart" /\ made[p] # {} THEN "q_undo_config"
                                                         ELSE "failed")
Making(p, c) == made' = [made EXCEPT ![p] = @ \cup c]

-----------------------------------------------------------------------------
(* Starting a command *)

Start(p) ==
  /\ at[p] = "idle"
  /\ \E c \in Commands, d \in Names :
       /\ c \in {"add", "symbols", "setup", "quickstart"} => d = p
       /\ cmd' = [cmd EXCEPT ![p] = c] /\ target' = [target EXCEPT ![p] = d]
       /\ Go(p, CASE c = "add" -> "token"  [] c = "rotate" -> "load"
                  [] c = "symbols" -> "symbols"
                  [] c = "setup" -> "init" [] c = "quickstart" -> "q_load"
                  [] OTHER -> "flag")
  /\ UNCHANGED <<files, credLock, kept, made, registry, history>>

-----------------------------------------------------------------------------
(* DeviceManager.add: the token first, then the record *)

AddToken(p) ==
  /\ at[p] = "token"
  /\ \/ tokens' = [tokens EXCEPT ![p] = p] /\ Go(p, "record")
     \/ Raise(p) /\ UNCHANGED tokens
  /\ UNCHANGED <<config, name, pem, credLock, order, kept, made,
                 registry, history>>

AddRecord(p) ==
  /\ at[p] = "record" /\ config # None
  /\ Written(WithDevice(p)) /\ Making(p, {"device"})
  /\ Go(p, AfterAdd(p))
  /\ UNCHANGED <<tokens, name, pem, credLock, order, kept, history>>

\* There is no config, or it cannot be written.
AddRecordFails(p) ==
  /\ at[p] = "record"
  /\ Go(p, "untoken")
  /\ UNCHANGED <<files, credLock, order, kept, made, registry, history>>

AddUndo(p) ==
  /\ at[p] = "untoken"
  /\ tokens' = [tokens EXCEPT ![p] = None]
  /\ Raise(p)
  /\ UNCHANGED <<config, name, pem, credLock, order, kept, made,
                 registry, history>>

-----------------------------------------------------------------------------
(* DeviceManager.set_enabled *)

\* Mutant: a device that is not listed gets a record with the flag alone.
SetEnabledAnyway(p) ==
  /\ at[p] = "flag" /\ config # None
  /\ Written(IF Has(target[p]) THEN WithFlag(target[p], cmd[p] = "enable")
             ELSE [config EXCEPT ![target[p]] = [enabled |-> cmd[p] = "enable"]])
  /\ Go(p, "done")
  /\ UNCHANGED <<tokens, name, pem, credLock, order, kept, made, history>>

SetEnabled(p) ==
  /\ at[p] = "flag" /\ Has(target[p])
  /\ Written(WithFlag(target[p], cmd[p] = "enable"))
  /\ Go(p, "done")
  /\ UNCHANGED <<tokens, name, pem, credLock, order, kept, made, history>>

SetEnabledFails(p) ==
  /\ at[p] = "flag"
  /\ Go(p, "failed")
  /\ UNCHANGED <<files, credLock, order, kept, made, registry, history>>

-----------------------------------------------------------------------------
(* DeviceManager.rotate: the digest first, then the token file *)

RotateLoad(p) ==
  /\ at[p] = "load"
  /\ IF Has(target[p])
       THEN /\ orig' = [orig EXCEPT ![p] = config]
            /\ backup' = [backup EXCEPT ![p] = tokens[target[p]]]
            /\ Go(p, "digest")
       ELSE Go(p, "failed") /\ UNCHANGED <<orig, backup>>
  /\ UNCHANGED <<files, credLock, order, oldName, conf, made, registry, history>>

\* Mutant: the record that was loaded before is written back.
RotateDigestStale(p) ==
  /\ at[p] = "digest" /\ Has(target[p])
  /\ Written([orig[p] EXCEPT ![target[p]].digest = p])
  /\ Go(p, "token_file")
  /\ UNCHANGED <<tokens, name, pem, credLock, order, kept, made, history>>

RotateDigest(p) ==
  /\ at[p] = "digest" /\ Has(target[p])
  /\ Written(WithDigest(target[p], p))
  /\ Go(p, "token_file")
  /\ UNCHANGED <<tokens, name, pem, credLock, order, kept, made, history>>

RotateDigestFails(p) ==
  /\ at[p] = "digest"
  /\ Go(p, "failed")
  /\ UNCHANGED <<files, credLock, order, kept, made, registry, history>>

RotateToken(p) ==
  /\ at[p] = "token_file"
  /\ \/ tokens' = [tokens EXCEPT ![target[p]] = p] /\ Go(p, "done")
     \/ Go(p, "undo_record") /\ UNCHANGED tokens
  /\ UNCHANGED <<config, name, pem, credLock, order, kept, made,
                 registry, history>>

\* Mutant: a rotation whose token file cannot be written just fails.
RotateUndoNothing(p) ==
  /\ at[p] = "undo_record"
  /\ Unwritten /\ Go(p, "failed")
  /\ UNCHANGED <<tokens, name, pem, credLock, order, kept, made, history>>

\* The whole former record is put back, if the device is still there.
RotateUndo(p) ==
  /\ at[p] = "undo_record" /\ config # None
  /\ IF Has(target[p])
       THEN Written([config EXCEPT ![target[p]] = orig[p][target[p]]])
       ELSE Written(config)
  /\ Go(p, IF backup[p] = None THEN "failed" ELSE "undo_token")
  /\ UNCHANGED <<tokens, name, pem, credLock, order, kept, made, history>>

\* The token file as rotate found it; the write may fail too.
RotateUndoToken(p) ==
  /\ at[p] = "undo_token"
  /\ \/ tokens' = [tokens EXCEPT ![target[p]] = backup[p]]
     \/ UNCHANGED tokens
  /\ Go(p, "failed")
  /\ UNCHANGED <<config, name, pem, credLock, order, kept, made,
                 registry, history>>

RotateUndoFails(p) ==
  /\ at[p] = "undo_record"
  /\ Go(p, "stuck")
  /\ UNCHANGED <<files, credLock, order, kept, made, registry, history>>

-----------------------------------------------------------------------------
(* initialize() and save_local_credentials *)

InitializeConfig(p) ==
  /\ at[p] \in {"init", "q_init"}
  /\ IF config = None THEN Written(NoDevices) ELSE Unwritten
  /\ conf' = [conf EXCEPT ![p] = config']
  /\ Making(p, IF orig[p] = None THEN {"config"} ELSE {})
  /\ Go(p, IF cmd[p] = "setup" THEN "symbols" ELSE "q_pair")
  /\ UNCHANGED <<tokens, name, pem, credLock, order, orig, oldName, backup, history>>

InitializeFails(p) ==
  /\ at[p] \in {"init", "q_init"}
  /\ Raise(p)
  /\ UNCHANGED <<files, credLock, order, kept, made, registry, history>>

\* _set_symbols: an update of config.json that leaves the allowlist alone.
SetSymbols(p) ==
  /\ at[p] = "symbols" /\ config # None
  /\ Written(config)
  /\ \E place \in AfterSymbols(p) : Go(p, place)
  /\ UNCHANGED <<tokens, name, pem, credLock, order, kept, made, history>>

SetSymbolsFails(p) ==
  /\ at[p] = "symbols"
  /\ Go(p, "failed")
  /\ UNCHANGED <<files, credLock, order, kept, made, registry, history>>

\* replace is --replace-credentials of setup; quickstart never replaces.
SaveName(p) ==
  /\ at[p] = "name" /\ credLock = None
  /\ name = None \/ cmd[p] = "setup"
  /\ oldName' = [oldName EXCEPT ![p] = name]
  /\ name' = p /\ credLock' = p
  /\ Go(p, "pem")
  /\ UNCHANGED <<config, tokens, pem, order, orig, backup, conf, made, registry, history>>

SaveNameFails(p) ==
  /\ at[p] = "name" /\ credLock = None
  /\ Raise(p)
  /\ UNCHANGED <<files, credLock, order, kept, made, registry, history>>

SavePem(p) ==
  /\ at[p] = "pem"
  /\ pem = None \/ cmd[p] = "setup"
  /\ pem' = p
  /\ Go(p, "pointer")
  /\ UNCHANGED <<config, tokens, name, credLock, order, kept, made,
                 registry, history>>

\* Mutant: the former key name is not put back.
SavePemFailsOnly(p) ==
  /\ at[p] = "pem"
  /\ credLock' = None /\ Raise(p)
  /\ UNCHANGED <<files, order, kept, made, registry, history>>

SavePemFails(p) ==
  /\ at[p] = "pem"
  /\ name' = oldName[p] /\ credLock' = None
  /\ Raise(p)
  /\ UNCHANGED <<config, tokens, pem, order, kept, made, registry, history>>

DropPointer(p) ==
  /\ at[p] = "pointer"
  /\ credLock' = None /\ Making(p, {"keys"})
  /\ \E place \in AfterKeys(p) : Go(p, place)
  /\ UNCHANGED <<files, order, kept, registry, history>>

\* The same handler puts the key name back, but the private key is the new one.
DropPointerFails(p) ==
  /\ at[p] = "pointer"
  /\ name' = oldName[p] /\ credLock' = None /\ torn' = TRUE
  /\ Raise(p)
  /\ UNCHANGED <<config, tokens, pem, order, kept, made, registry, rewound>>

-----------------------------------------------------------------------------
(* command_quickstart *)

QuickLoad(p) ==
  /\ at[p] = "q_load"
  /\ orig' = [orig EXCEPT ![p] = config]
  /\ Go(p, "q_keys")
  /\ UNCHANGED <<files, credLock, order, oldName, backup, conf, made, registry, history>>

\* _local_credentials_if_present
QuickKeys(p) ==
  /\ at[p] = "q_keys"
  /\ \/ name = None /\ pem = None /\ Go(p, "q_prompt")
     \/ name # None /\ name = pem /\ credLock = None /\ Go(p, "q_gate")
     \/ name # pem /\ Go(p, "failed")
  /\ UNCHANGED <<files, credLock, order, kept, made, registry, history>>

\* prompt_for_cdp_key: what is pasted is a key, or is refused.
QuickPrompt(p) ==
  /\ at[p] = "q_prompt"
  /\ Go(p, "q_gate") \/ Go(p, "failed")
  /\ UNCHANGED <<files, credLock, order, kept, made, registry, history>>

\* assert_view_only, before anything has been written.
QuickGate(p) ==
  /\ at[p] = "q_gate"
  /\ Go(p, "q_init") \/ Go(p, "failed")
  /\ UNCHANGED <<files, credLock, order, kept, made, registry, history>>

\* The credentials are looked for again after the prompt.
QuickPair(p) ==
  /\ at[p] = "q_pair"
  /\ IF (name = None) # (pem = None) THEN Raise(p)
       ELSE Go(p, IF name = None THEN "name" ELSE "q_device")
  /\ UNCHANGED <<files, credLock, order, kept, made, registry, history>>

\* _existing_quickstart_device, or DeviceManager.add.
QuickDevice(p) ==
  /\ at[p] = "q_device"
  /\ Go(p, IF \E d \in EnabledIn(conf[p]) : tokens[d] # None THEN "q_doctor" ELSE "token")
  /\ UNCHANGED <<files, credLock, order, kept, made, registry, history>>

\* start_user_service and command_doctor
QuickDoctor(p) ==
  /\ at[p] = "q_doctor"
  /\ \/ config # None /\ EnabledIn(config) # {} /\ name # None /\ name = pem /\ Go(p, "done")
     \/ Raise(p)
  /\ UNCHANGED <<files, credLock, order, kept, made, registry, history>>

\* _rollback_quickstart: the config as it was loaded, or none.
QuickUndoConfig(p) ==
  /\ at[p] = "q_undo_config"
  /\ Written(orig[p])
  /\ rewound' = TRUE
  /\ Go(p, "q_undo_files")
  /\ UNCHANGED <<tokens, name, pem, credLock, order, kept, made, torn>>

QuickUndoConfigFails(p) ==
  /\ at[p] = "q_undo_config" /\ orig[p] # None
  /\ Go(p, "stuck")
  /\ UNCHANGED <<files, credLock, order, kept, made, registry, history>>

\* Mutant: the rollback forgets the token of the device it has added.
QuickUndoKeysOnly(p) ==
  /\ at[p] = "q_undo_files"
  /\ name' = IF "keys" \in made[p] THEN None ELSE name
  /\ pem' = IF "keys" \in made[p] THEN None ELSE pem
  /\ torn' = (torn \/ ("keys" \in made[p] /\ credLock # None))
  /\ Go(p, "failed")
  /\ UNCHANGED <<config, tokens, credLock, order, kept, made, registry, rewound>>

\* The paths are unlinked without the credentials lock.
QuickUndoFiles(p) ==
  /\ at[p] = "q_undo_files"
  /\ tokens' = IF "device" \in made[p] THEN [tokens EXCEPT ![p] = None] ELSE tokens
  /\ name' = IF "keys" \in made[p] THEN None ELSE name
  /\ pem' = IF "keys" \in made[p] THEN None ELSE pem
  /\ torn' = (torn \/ ("keys" \in made[p] /\ credLock # None))
  /\ Go(p, "failed")
  /\ UNCHANGED <<config, credLock, order, kept, made, registry, rewound>>

-----------------------------------------------------------------------------
(* A kill: the locks of the process go with it. *)

Kill(p) ==
  /\ at[p] \notin {"idle"} \cup Ended
  /\ Go(p, "killed")
  /\ credLock' = IF credLock = p THEN None ELSE credLock
  /\ torn' = (torn \/ at[p] = "pem")
  /\ UNCHANGED <<files, order, kept, made, registry, rewound>>

-----------------------------------------------------------------------------
(* command_serve and DeviceRegistry *)

\* Registry creation: a forced reload, of which this is the read.
Serve ==
  /\ regAt = "down" /\ config # None /\ EnabledIn(config) # {}
  /\ name # None /\ name = pem /\ credLock = None
  /\ reg' = config /\ regAt' = "stat" /\ missed' = FALSE
  /\ UNCHANGED <<files, credLock, process, seen, history>>

\* authenticate(): the interval has passed and the file's time differs.
ReloadCheck ==
  /\ regAt = "idle" /\ ~seen
  /\ regAt' = "load"
  /\ UNCHANGED <<files, credLock, process, reg, seen, missed, history>>

ReloadRead ==
  /\ regAt = "load" /\ config # None
  /\ reg' = config /\ missed' = FALSE /\ regAt' = "stat"
  /\ UNCHANGED <<files, credLock, process, seen, history>>

\* Mutant: the modification time is kept although the load failed.
ReloadFailsSeen ==
  /\ regAt = "load"
  /\ regAt' = "idle" /\ seen' = TRUE
  /\ UNCHANGED <<files, credLock, process, reg, missed, history>>

\* load() raised; the request ends in a 500 and the next one tries again.
ReloadFails ==
  /\ regAt = "load"
  /\ regAt' = "idle"
  /\ UNCHANGED <<files, credLock, process, reg, seen, missed, history>>

\* The modification time is taken after the read.
ReloadStat ==
  /\ regAt = "stat"
  /\ regAt' = "idle" /\ seen' = TRUE
  /\ UNCHANGED <<files, credLock, process, reg, missed, history>>

-----------------------------------------------------------------------------

Add(p) == AddToken(p) \/ AddRecord(p) \/ AddRecordFails(p) \/ AddUndo(p)
Flag(p) == SetEnabled(p) \/ SetEnabledFails(p)
Rotate(p) == RotateLoad(p) \/ RotateDigest(p) \/ RotateDigestFails(p) \/ RotateToken(p)
               \/ RotateUndo(p) \/ RotateUndoToken(p) \/ RotateUndoFails(p)
Save(p) == SaveName(p) \/ SaveNameFails(p) \/ SavePem(p) \/ SavePemFails(p)
             \/ DropPointer(p) \/ DropPointerFails(p)
Quick(p) == QuickLoad(p) \/ QuickKeys(p) \/ QuickPrompt(p) \/ QuickGate(p)
              \/ QuickPair(p) \/ QuickDevice(p) \/ QuickDoctor(p)
              \/ QuickUndoConfig(p) \/ QuickUndoConfigFails(p) \/ QuickUndoFiles(p)
Reload == Serve \/ ReloadCheck \/ ReloadRead \/ ReloadFails \/ ReloadStat

Next ==
  \/ \E p \in Procs : \/ Start(p) \/ Add(p) \/ Flag(p) \/ Rotate(p)
                      \/ InitializeConfig(p) \/ InitializeFails(p)
                      \/ SetSymbols(p) \/ SetSymbolsFails(p)
                      \/ Save(p) \/ Quick(p) \/ Kill(p)
  \/ Reload

Spec == Init /\ [][Next]_vars

-----------------------------------------------------------------------------
(* Properties *)

\* Commands that may enable d whatever a revocation says.
MayEnable(p, d) ==
  \/ cmd[p] = "enable" /\ target[p] = d
  \/ cmd[p] = "rotate" /\ target[p] = d /\ at[p] \in {"undo_token", "failed", "killed"}

\* A revoked device stays revoked, whatever other commands write to the same
\* file at the same time (ConfigStore.update re-reads under its lock).  Three
\* steps are known to enable it again: enable, the undo of a failed rotation,
\* which puts the whole former record back (auth.py:658), and the rollback of a
\* quickstart, which puts the whole former file back (cli.py:311).
RevokedStaysRevoked ==
  ~rewound =>
    \A d \in Names :
      (/\ \E p \in Procs : cmd[p] = "revoke" /\ target[p] = d /\ at[p] = "done"
       /\ \A p \in Procs : ~MayEnable(p, d)
       /\ Has(d)) => ~config[d].enabled

\* A rotation that nobody shares the device with ends with a token file that
\* the allowlist accepts, whether it succeeded or was undone (rotate).
SoleRotationAgrees ==
  ~rewound =>
    \A p \in Procs :
      (/\ cmd[p] = "rotate" /\ at[p] \in {"done", "failed"} /\ Has(target[p])
       /\ \A q \in Procs \ {p} : target[q] = target[p] => cmd[q] \in {"revoke", "enable"})
      => config[target[p]].digest = tokens[target[p]]

\* An add or a quickstart that failed leaves no record, no token and no key of
\* its own, at whichever step it failed (add, _rollback_quickstart); only a
\* rotation of that device, already under way, writes its token again.
FailedLeavesNothing ==
  \A p \in Procs :
    (at[p] = "failed" /\ cmd[p] \in {"add", "quickstart"}) =>
      /\ (\A q \in Procs \ {p} : ~(cmd[q] = "rotate" /\ target[q] = p)) => tokens[p] = None
      /\ ~torn => name # p /\ pem # p
      /\ Has(p) => \E q \in Procs \ {p} : cmd[q] = "quickstart"

\* Name and private key belong to one key whenever the lock is free, unless a
\* replacement was killed between the two files, failed after the second, or had
\* its files removed by a quickstart's rollback (auth.py:771-792, cli.py:326).
PairIntact == (credLock = None /\ ~torn) => name = pem

\* A registry that finds nothing new holds what config.json holds, unless the
\* file was written between its read and its stat (auth.py:719).
RegistryFollows == (regAt = "idle" /\ seen /\ ~missed) => reg = config
=============================================================================
