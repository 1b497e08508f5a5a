-------------------------- MODULE LocalStateProofs --------------------------
(***************************************************************************)
(* Proofs about LocalState: what any number of commands, one of them       *)
(* killed or failing at any step, can do to the allowlist, the device      *)
(* tokens and the key of one another.                                      *)
(***************************************************************************)
EXTENDS LocalState, TLAPS

-----------------------------------------------------------------------------
(* The inductive invariant *)

Adding == {"token", "record", "untoken"}
Rotating == {"load", "digest", "token_file", "undo_record", "undo_token"}
Rotated == {"digest", "token_file", "undo_record", "undo_token"}
Quickstarting == {"q_load", "q_keys", "q_prompt", "q_gate", "q_init", "q_pair",
                  "q_device", "q_doctor", "q_undo_config", "q_undo_files"}
\* Before a process has saved a key.
Before == {"idle", "init", "symbols", "q_load", "q_keys", "q_prompt", "q_gate", "q_init",
           "q_pair"}
\* Where a process may be that has added its device.
Added == {"q_doctor", "q_undo_config", "q_undo_files"} \cup Ended

\* Every place belongs to its commands.
CommandsInv ==
  \A p \in Procs :
    /\ at[p] = "idle" <=> cmd[p] = None
    /\ IF at[p] = "idle" THEN target[p] = None ELSE target[p] \in Names
    /\ cmd[p] \in {"add", "symbols", "setup", "quickstart"} => target[p] = p
    /\ at[p] \in Adding => cmd[p] \in {"add", "setup", "quickstart"}
    /\ at[p] \in Rotating => cmd[p] = "rotate"
    /\ at[p] = "flag" => cmd[p] \in {"revoke", "enable"}
    /\ at[p] \in Quickstarting => cmd[p] = "quickstart"
    /\ at[p] = "init" => cmd[p] = "setup"
    /\ at[p] = "symbols" => cmd[p] \in {"symbols", "setup"}
    /\ at[p] \in Saving => cmd[p] \in {"setup", "quickstart"}
    /\ at[p] \in Saving \cup Before => "keys" \notin made[p]
    /\ "keys" \in made[p] => cmd[p] \in {"setup", "quickstart"}
    /\ "device" \in made[p] => cmd[p] \in {"add", "setup", "quickstart"} /\ at[p] \in Added
    /\ cmd[p] = "add" /\ at[p] = "failed" => "device" \notin made[p]

\* A device that some allowlist has heard of was added, and a revocation that is
\* done was of such a device.
DevicesInv ==
  /\ \A d \in Procs :
       /\ Has(d) => "device" \in made[d]
       /\ \A p \in Procs : orig[p] # None /\ orig[p][d] # None => "device" \in made[d]
       /\ \A p \in Procs : cmd[p] = "revoke" /\ at[p] = "done" /\ target[p] = d
                             => "device" \in made[d]
  /\ \A p \in Procs :
       at[p] \in Rotated => orig[p] # None /\ orig[p][target[p]] # None

\* Between its read and its stat, and until the file is written, the registry
\* holds what it has read.
RegistryInv ==
  /\ regAt \in {"down", "load"} => ~seen
  /\ regAt = "stat" /\ ~missed => reg = config
  /\ regAt = "idle" /\ seen /\ ~missed => reg = config

\* The lock belongs to the process between the two files of the key, and what the
\* files name is known at each step.
PairInv ==
  /\ \A p \in Procs : credLock = p <=> at[p] \in {"pem", "pointer"}
  /\ ~torn =>
       /\ credLock = None => name = pem
       /\ \A p \in Procs :
            /\ at[p] = "pem" => name = p /\ pem = oldName[p] /\ oldName[p] # p
            /\ at[p] = "pointer" => name = p /\ pem = p
            /\ name = p \/ pem = p =>
                 \/ at[p] \in {"pem", "pointer", "killed"}
                 \/ "keys" \in made[p] /\ (cmd[p] = "quickstart" => at[p] # "failed")

\* Rotations of the device that was there before, and nobody else's.
NotOthers(p) ==
  \A q \in Procs \ {p} : target[q] = Old => cmd[q] \in {"revoke", "enable"}
Agrees == Has(Old) => config[Old].digest = tokens[Old]
Saved(p) == orig[p][Old].digest = tokens[Old] /\ backup[p] = tokens[Old]

\* A rotation knows the digest of the token file until it has replaced both.
RotationInv ==
  ~rewound =>
    /\ (\A q \in Procs : target[q] = Old => cmd[q] \in {"revoke", "enable"}) => Agrees
    /\ \A p \in Procs :
         cmd[p] = "rotate" /\ target[p] = Old /\ NotOthers(p) =>
           /\ at[p] \in {"load", "digest", "undo_token", "done", "failed"} => Agrees
           /\ at[p] \in Rotated => Saved(p)
           /\ at[p] = "token_file" /\ Has(Old) => config[Old].digest = p

NotRotatedByOthers(p) == \A q \in Procs \ {p} : ~(cmd[q] = "rotate" /\ target[q] = p)

\* A token of its own is there from add's first step until an undo takes it away,
\* and a record between its add and the rollback of a quickstart.
OwnInv ==
  \A p \in Procs :
    /\ NotRotatedByOthers(p) /\ tokens[p] # None =>
         at[p] \in {"record", "untoken", "killed"} \/ ("device" \in made[p] /\ at[p] #
               "failed")
    /\ cmd[p] = "quickstart" /\ orig[p] # None => orig[p][p] = None
    /\ cmd[p] = "quickstart" /\ Has(p) =>
         \/ \E q \in Procs \ {p} : cmd[q] = "quickstart"
         \/ at[p] \in {"q_doctor", "q_undo_config", "done", "killed", "stuck"}

\* What every step preserves.
Inv ==
  /\ TypeOK /\ CommandsInv /\ DevicesInv /\ RegistryInv /\ PairInv /\ RotationInv
  /\ OwnInv /\ RevokedStaysRevoked

-----------------------------------------------------------------------------
(* Every step preserves it *)

\* Every step keeps the flags in their types.
LEMMA FlagsPreserved ==
  ASSUME TypeOK, [Next]_vars
  PROVE  FlagsOK'
<1> USE DEF files, process, order, kept, registry, history, TypeOK, FlagsOK
<1>1. CASE UNCHANGED vars
  BY <1>1, Zenon DEF vars
<1>2. ASSUME NEW p \in Procs, Start(p)
      PROVE  FlagsOK'
  BY <1>2, Zenon DEF Start
<1>3. ASSUME NEW p \in Procs, Add(p)
      PROVE  FlagsOK'
  BY <1>3, Zenon DEF AddToken, Raise, AddRecord, Written, WithDevice, Record, AfterAdd,
         Making, AddRecordFails, AddUndo, Add
<1>4. ASSUME NEW p \in Procs, Flag(p)
      PROVE  FlagsOK'
  BY <1>4, Zenon DEF SetEnabled, Written, WithFlag, SetEnabledFails, Flag
<1>5. ASSUME NEW p \in Procs, Rotate(p)
      PROVE  FlagsOK'
  BY <1>5, Zenon DEF RotateLoad, RotateDigest, Written, WithDigest, RotateDigestFails,
         RotateToken, RotateUndo, RotateUndoToken, RotateUndoFails, Rotate
<1>6. ASSUME NEW p \in Procs, InitializeConfig(p) \/ InitializeFails(p)
      PROVE  FlagsOK'
  BY <1>6, Zenon DEF InitializeConfig, Written, Unwritten, NoDevices, Making,
         InitializeFails, Raise
<1>7. ASSUME NEW p \in Procs, SetSymbols(p) \/ SetSymbolsFails(p)
      PROVE  FlagsOK'
  BY <1>7, Zenon DEF SetSymbols, Written, AfterSymbols, SetSymbolsFails
<1>8. ASSUME NEW p \in Procs, Save(p)
      PROVE  FlagsOK'
  BY <1>8, Zenon DEF SaveName, SaveNameFails, Raise, SavePem, SavePemFails, DropPointer,
         Making, AfterKeys, DropPointerFails, Save
<1>9. ASSUME NEW p \in Procs, Quick(p)
      PROVE  FlagsOK'
  BY <1>9, Zenon DEF QuickLoad, QuickKeys, QuickPrompt, QuickGate, QuickPair, Raise,
         QuickDevice, QuickDoctor, QuickUndoConfig, Written, QuickUndoConfigFails,
         QuickUndoFiles, Quick
<1>10. ASSUME NEW p \in Procs, Kill(p)
       PROVE  FlagsOK'
  BY <1>10, Zenon DEF Kill
<1>11. CASE Reload
  BY <1>11, Zenon DEF Reload, Serve, ReloadCheck, ReloadRead, ReloadFails, ReloadStat
<1> QED
  BY <1>1, <1>2, <1>3, <1>4, <1>5, <1>6, <1>7, <1>8, <1>9, <1>10, <1>11 DEF Next

\* A command begins where it begins, for a device.
LEMMA Starts ==
  ASSUME TypeOK, CommandsInv, NEW p \in Procs, Start(p)
  PROVE  \E c \in Commands, d \in Names, place \in Places :
           /\ cmd[p] = None /\ at[p] = "idle"
           /\ cmd' = [cmd EXCEPT ![p] = c] /\ target' = [target EXCEPT ![p] = d]
           /\ Go(p, place)
           /\ c \in {"add", "symbols", "setup", "quickstart"} => d = p
           /\ <<c, place>> \in {<<"add", "token">>, <<"rotate", "load">>, <<"revoke",
              "flag">>,
                               <<"enable", "flag">>, <<"symbols", "symbols">>,
                               <<"setup", "init">>, <<"quickstart", "q_load">>}
<1>1. PICK c \in Commands, d \in Names :
        /\ c \in {"add", "symbols", "setup", "quickstart"} => d = p
        /\ cmd' = [cmd EXCEPT ![p] = c] /\ target' = [target EXCEPT ![p] = d]
        /\ Go(p, CASE c = "add" -> "token"  [] c = "rotate" -> "load"
                   [] c = "symbols" -> "symbols"
                   [] c = "setup" -> "init" [] c = "quickstart" -> "q_load"
                   [] OTHER -> "flag")
  BY DEF Start
<1>2. at[p] = "idle" /\ cmd[p] = None
  BY DEF Start, CommandsInv
<1>3. CASE c = "add"
  BY <1>1, <1>2, <1>3 DEF Places
<1>4. CASE c = "rotate"
  BY <1>1, <1>2, <1>4 DEF Places
<1>5. CASE c = "symbols"
  BY <1>1, <1>2, <1>5 DEF Places
<1>6. CASE c = "setup"
  BY <1>1, <1>2, <1>6 DEF Places
<1>7. CASE c = "quickstart"
  BY <1>1, <1>2, <1>7 DEF Places
<1>8. CASE c \in {"revoke", "enable"}
  BY <1>1, <1>2, <1>8 DEF Places
<1> QED
  BY <1>3, <1>4, <1>5, <1>6, <1>7, <1>8 DEF Commands

\* Every step keeps the processes in their places and the places with their
\* commands.
LEMMA PlacesPreserved ==
  ASSUME TypeOK, CommandsInv, [Next]_vars
  PROVE  PlacesOK' /\ CommandsInv'
<1> USE NamesAssumption, NothingAssumption
    DEF files, process, order, kept, registry, history, TypeOK, PlacesOK, Go, Places,
        Saving, Ended, Changes, Commands, CommandsInv, Adding, Rotating, Quickstarting,
        Added, Before
<1>1. CASE UNCHANGED vars
  BY <1>1 DEF vars
<1>2. ASSUME NEW p \in Procs, Start(p)
      PROVE  PlacesOK' /\ CommandsInv'
  <2>1. PICK c \in Commands, d \in Names, place \in Places :
          /\ cmd[p] = None /\ at[p] = "idle"
          /\ cmd' = [cmd EXCEPT ![p] = c] /\ target' = [target EXCEPT ![p] = d]
          /\ Go(p, place)
          /\ c \in {"add", "symbols", "setup", "quickstart"} => d = p
          /\ <<c, place>> \in {<<"add", "token">>, <<"rotate", "load">>, <<"revoke",
             "flag">>,
                              <<"enable", "flag">>, <<"symbols", "symbols">>,
                              <<"setup", "init">>, <<"quickstart", "q_load">>}
    BY <1>2, Starts
  <2>2. UNCHANGED made
    BY <1>2 DEF Start
  <2> QED
    BY <2>1, <2>2
<1>3. ASSUME NEW p \in Procs, Add(p)
      PROVE  PlacesOK' /\ CommandsInv'
  <2>1. CASE AddToken(p)
    BY <2>1 DEF AddToken, Raise
  <2>2. CASE AddRecord(p)
    BY <2>2 DEF AddRecord, Written, WithDevice, Record, AfterAdd, Making
  <2>3. CASE AddRecordFails(p)
    BY <2>3 DEF AddRecordFails
  <2>4. CASE AddUndo(p)
    BY <2>4 DEF AddUndo, Raise
  <2> QED
    BY <1>3, <2>1, <2>2, <2>3, <2>4 DEF Add
<1>4. ASSUME NEW p \in Procs, Flag(p)
      PROVE  PlacesOK' /\ CommandsInv'
  <2>1. CASE SetEnabled(p)
    BY <2>1 DEF SetEnabled, Written, WithFlag
  <2>2. CASE SetEnabledFails(p)
    BY <2>2 DEF SetEnabledFails
  <2> QED
    BY <1>4, <2>1, <2>2 DEF Flag
<1>5. ASSUME NEW p \in Procs, Rotate(p)
      PROVE  PlacesOK' /\ CommandsInv'
  <2>1. CASE RotateLoad(p)
    BY <2>1 DEF RotateLoad
  <2>2. CASE RotateDigest(p)
    BY <2>2 DEF RotateDigest, Written, WithDigest
  <2>3. CASE RotateDigestFails(p)
    BY <2>3 DEF RotateDigestFails
  <2>4. CASE RotateToken(p)
    BY <2>4 DEF RotateToken
  <2>5. CASE RotateUndo(p)
    BY <2>5 DEF RotateUndo, Written
  <2>6. CASE RotateUndoToken(p)
    BY <2>6 DEF RotateUndoToken
  <2>7. CASE RotateUndoFails(p)
    BY <2>7 DEF RotateUndoFails
  <2> QED
    BY <1>5, <2>1, <2>2, <2>3, <2>4, <2>5, <2>6, <2>7 DEF Rotate
<1>6. ASSUME NEW p \in Procs, InitializeConfig(p) \/ InitializeFails(p)
      PROVE  PlacesOK' /\ CommandsInv'
  <2>1. CASE InitializeConfig(p)
    BY <2>1 DEF InitializeConfig, Written, Unwritten, NoDevices, Making
  <2>2. CASE InitializeFails(p)
    BY <2>2 DEF InitializeFails, Raise
  <2> QED
    BY <1>6, <2>1, <2>2
<1>7. ASSUME NEW p \in Procs, SetSymbols(p) \/ SetSymbolsFails(p)
      PROVE  PlacesOK' /\ CommandsInv'
  <2>1. CASE SetSymbols(p)
    BY <2>1 DEF SetSymbols, Written, AfterSymbols
  <2>2. CASE SetSymbolsFails(p)
    BY <2>2 DEF SetSymbolsFails
  <2> QED
    BY <1>7, <2>1, <2>2
<1>8. ASSUME NEW p \in Procs, Save(p)
      PROVE  PlacesOK' /\ CommandsInv'
  <2>1. CASE SaveName(p)
    BY <2>1 DEF SaveName
  <2>2. CASE SaveNameFails(p)
    BY <2>2 DEF SaveNameFails, Raise
  <2>3. CASE SavePem(p)
    BY <2>3 DEF SavePem
  <2>4. CASE SavePemFails(p)
    BY <2>4 DEF SavePemFails, Raise
  <2>5. CASE DropPointer(p)
    BY <2>5 DEF DropPointer, Making, AfterKeys
  <2>6. CASE DropPointerFails(p)
    BY <2>6 DEF DropPointerFails, Raise
  <2> QED
    BY <1>8, <2>1, <2>2, <2>3, <2>4, <2>5, <2>6 DEF Save
<1>9. ASSUME NEW p \in Procs, Quick(p)
      PROVE  PlacesOK' /\ CommandsInv'
  <2>1. CASE QuickLoad(p)
    BY <2>1 DEF QuickLoad
  <2>2. CASE QuickKeys(p)
    BY <2>2 DEF QuickKeys
  <2>3. CASE QuickPrompt(p)
    BY <2>3 DEF QuickPrompt
  <2>4. CASE QuickGate(p)
    BY <2>4 DEF QuickGate
  <2>5. CASE QuickPair(p)
    BY <2>5 DEF QuickPair, Raise
  <2>6. CASE QuickDevice(p)
    BY <2>6 DEF QuickDevice
  <2>7. CASE QuickDoctor(p)
    BY <2>7 DEF QuickDoctor, Raise
  <2>8. CASE QuickUndoConfig(p)
    BY <2>8 DEF QuickUndoConfig, Written
  <2>9. CASE QuickUndoConfigFails(p)
    BY <2>9 DEF QuickUndoConfigFails
  <2>10. CASE QuickUndoFiles(p)
    BY <2>10 DEF QuickUndoFiles
  <2> QED
    BY <1>9, <2>1, <2>2, <2>3, <2>4, <2>5, <2>6, <2>7, <2>8, <2>9, <2>10 DEF Quick
<1>10. ASSUME NEW p \in Procs, Kill(p)
       PROVE  PlacesOK' /\ CommandsInv'
  BY <1>10 DEF Kill
<1>11. CASE Reload
  BY <1>11 DEF Reload, Serve, ReloadCheck, ReloadRead, ReloadFails, ReloadStat
<1> QED
  BY <1>1, <1>2, <1>3, <1>4, <1>5, <1>6, <1>7, <1>8, <1>9, <1>10, <1>11 DEF Next

\* What the commands write is an allowlist.
LEMMA Edits ==
  ASSUME config \in Allowlists, NEW d \in Names
  PROVE  /\ \A r \in Records : [config EXCEPT ![d] = r] \in Allowlists
         /\ config[d] # None =>
              /\ \A b \in BOOLEAN : WithFlag(d, b) \in Allowlists
              /\ \A n \in Names : WithDigest(d, n) \in Allowlists
<1>1. \A r \in Records : [config EXCEPT ![d] = r] \in Allowlists
  BY DEF Allowlists
<1>2. ASSUME config[d] # None, NEW b \in BOOLEAN PROVE WithFlag(d, b) \in Allowlists
  BY <1>2 DEF WithFlag, Allowlists, Records
<1>3. ASSUME config[d] # None, NEW n \in Names PROVE WithDigest(d, n) \in Allowlists
  BY <1>3 DEF WithDigest, Allowlists, Records
<1> QED
  BY <1>1, <1>2, <1>3

\* A flag or a digest is changed, and nothing else.
LEMMA EditsOnly ==
  ASSUME config \in Allowlists, NEW d \in Names, config[d] # None
  PROVE  /\ \A b \in BOOLEAN :
              /\ WithFlag(d, b)[d] \in Records
              /\ WithFlag(d, b)[d].enabled = b
              /\ WithFlag(d, b)[d].digest = config[d].digest
              /\ \A e \in Names \ {d} : WithFlag(d, b)[e] = config[e]
         /\ \A n \in Names :
              /\ WithDigest(d, n)[d] \in Records
              /\ WithDigest(d, n)[d].digest = n
              /\ WithDigest(d, n)[d].enabled = config[d].enabled
              /\ \A e \in Names \ {d} : WithDigest(d, n)[e] = config[e]
<1>1. config[d] \in Records /\ d \in DOMAIN config
  BY DEF Allowlists
<1>2. ASSUME NEW b \in BOOLEAN
      PROVE  /\ WithFlag(d, b)[d] \in Records
             /\ WithFlag(d, b)[d].enabled = b
             /\ WithFlag(d, b)[d].digest = config[d].digest
             /\ \A e \in Names \ {d} : WithFlag(d, b)[e] = config[e]
  <2> DEFINE r == [config[d] EXCEPT !.enabled = b]
  <2>1. WithFlag(d, b) = [config EXCEPT ![d] = r]
    BY DEF WithFlag
  <2>2. r \in Records /\ r.enabled = b /\ r.digest = config[d].digest
    BY <1>1, <1>2 DEF Records
  <2> HIDE DEF r
  <2> QED
    BY <1>1, <2>1, <2>2 DEF Allowlists
<1>3. ASSUME NEW n \in Names
      PROVE  /\ WithDigest(d, n)[d] \in Records
             /\ WithDigest(d, n)[d].digest = n
             /\ WithDigest(d, n)[d].enabled = config[d].enabled
             /\ \A e \in Names \ {d} : WithDigest(d, n)[e] = config[e]
  <2> DEFINE r == [config[d] EXCEPT !.digest = n]
  <2>1. WithDigest(d, n) = [config EXCEPT ![d] = r]
    BY DEF WithDigest
  <2>2. r \in Records /\ r.digest = n /\ r.enabled = config[d].enabled
    BY <1>1, <1>3 DEF Records
  <2> HIDE DEF r
  <2> QED
    BY <1>1, <2>1, <2>2 DEF Allowlists
<1> QED
  BY <1>2, <1>3

LEMMA NewLists ==
  /\ NoDevices \in Allowlists
  /\ [NoDevices EXCEPT ![Old] = OldRecord] \in Allowlists
  /\ \A p \in Procs : p \in Names /\ Record(p) \in Records
BY DEF NoDevices, OldRecord, Allowlists, Records, Names, Record

\* Every step keeps the allowlists typed.
LEMMA ListsPreserved ==
  ASSUME TypeOK, CommandsInv, DevicesInv, [Next]_vars
  PROVE  ListsOK'
<1> USE NamesAssumption, NothingAssumption, Edits, NewLists
    DEF files, process, order, kept, registry, history, TypeOK, PlacesOK, ListsOK, Has,
        CommandsInv, DevicesInv, Rotating, Rotated, Quickstarting
<1>1. CASE UNCHANGED vars
  BY <1>1 DEF vars
<1>2. ASSUME NEW p \in Procs, Start(p)
      PROVE  ListsOK'
  BY <1>2 DEF Start
<1>3. ASSUME NEW p \in Procs, Add(p)
      PROVE  ListsOK'
  <2>1. CASE AddToken(p)
    BY <2>1 DEF AddToken, Raise
  <2>2. CASE AddRecord(p)
    BY <2>2 DEF AddRecord, Written, WithDevice, Record, AfterAdd, Making
  <2>3. CASE AddRecordFails(p)
    BY <2>3 DEF AddRecordFails
  <2>4. CASE AddUndo(p)
    BY <2>4 DEF AddUndo, Raise
  <2> QED
    BY <1>3, <2>1, <2>2, <2>3, <2>4 DEF Add
<1>4. ASSUME NEW p \in Procs, Flag(p)
      PROVE  ListsOK'
  <2>1. CASE SetEnabled(p)
    BY <2>1 DEF SetEnabled, Written, WithFlag
  <2>2. CASE SetEnabledFails(p)
    BY <2>2 DEF SetEnabledFails
  <2> QED
    BY <1>4, <2>1, <2>2 DEF Flag
<1>5. ASSUME NEW p \in Procs, Rotate(p)
      PROVE  ListsOK'
  <2>1. CASE RotateLoad(p)
    BY <2>1 DEF RotateLoad
  <2>2. CASE RotateDigest(p)
    BY <2>2 DEF RotateDigest, Written, WithDigest
  <2>3. CASE RotateDigestFails(p)
    BY <2>3 DEF RotateDigestFails
  <2>4. CASE RotateToken(p)
    BY <2>4 DEF RotateToken
  <2>5. CASE RotateUndo(p)
    <3>1. target[p] \in Names /\ orig[p] \in Allowlists /\ orig[p][target[p]] # None
      BY <2>5 DEF RotateUndo
    <3>2. orig[p][target[p]] \in Records
      BY <3>1 DEF Allowlists
    <3>3. config \in Allowlists /\ UNCHANGED <<orig, conf, reg>>
      BY <2>5 DEF RotateUndo, Written
    <3>4. config' \in Allowlists
      BY <2>5, <3>1, <3>2, <3>3 DEF RotateUndo, Written
    <3> QED
      BY <3>3, <3>4
  <2>6. CASE RotateUndoToken(p)
    BY <2>6 DEF RotateUndoToken
  <2>7. CASE RotateUndoFails(p)
    BY <2>7 DEF RotateUndoFails
  <2> QED
    BY <1>5, <2>1, <2>2, <2>3, <2>4, <2>5, <2>6, <2>7 DEF Rotate
<1>6. ASSUME NEW p \in Procs, InitializeConfig(p) \/ InitializeFails(p)
      PROVE  ListsOK'
  <2>1. CASE InitializeConfig(p)
    BY <2>1 DEF InitializeConfig, Written, Unwritten, NoDevices, Making
  <2>2. CASE InitializeFails(p)
    BY <2>2 DEF InitializeFails, Raise
  <2> QED
    BY <1>6, <2>1, <2>2
<1>7. ASSUME NEW p \in Procs, SetSymbols(p) \/ SetSymbolsFails(p)
      PROVE  ListsOK'
  <2>1. CASE SetSymbols(p)
    BY <2>1 DEF SetSymbols, Written, AfterSymbols
  <2>2. CASE SetSymbolsFails(p)
    BY <2>2 DEF SetSymbolsFails
  <2> QED
    BY <1>7, <2>1, <2>2
<1>8. ASSUME NEW p \in Procs, Save(p)
      PROVE  ListsOK'
  <2>1. CASE SaveName(p)
    BY <2>1 DEF SaveName
  <2>2. CASE SaveNameFails(p)
    BY <2>2 DEF SaveNameFails, Raise
  <2>3. CASE SavePem(p)
    BY <2>3 DEF SavePem
  <2>4. CASE SavePemFails(p)
    BY <2>4 DEF SavePemFails, Raise
  <2>5. CASE DropPointer(p)
    BY <2>5 DEF DropPointer, Making, AfterKeys
  <2>6. CASE DropPointerFails(p)
    BY <2>6 DEF DropPointerFails, Raise
  <2> QED
    BY <1>8, <2>1, <2>2, <2>3, <2>4, <2>5, <2>6 DEF Save
<1>9. ASSUME NEW p \in Procs, Quick(p)
      PROVE  ListsOK'
  <2>1. CASE QuickLoad(p)
    BY <2>1 DEF QuickLoad
  <2>2. CASE QuickKeys(p)
    BY <2>2 DEF QuickKeys
  <2>3. CASE QuickPrompt(p)
    BY <2>3 DEF QuickPrompt
  <2>4. CASE QuickGate(p)
    BY <2>4 DEF QuickGate
  <2>5. CASE QuickPair(p)
    BY <2>5 DEF QuickPair, Raise
  <2>6. CASE QuickDevice(p)
    BY <2>6 DEF QuickDevice
  <2>7. CASE QuickDoctor(p)
    BY <2>7 DEF QuickDoctor, Raise
  <2>8. CASE QuickUndoConfig(p)
    BY <2>8 DEF QuickUndoConfig, Written
  <2>9. CASE QuickUndoConfigFails(p)
    BY <2>9 DEF QuickUndoConfigFails
  <2>10. CASE QuickUndoFiles(p)
    BY <2>10 DEF QuickUndoFiles
  <2> QED
    BY <1>9, <2>1, <2>2, <2>3, <2>4, <2>5, <2>6, <2>7, <2>8, <2>9, <2>10 DEF Quick
<1>10. ASSUME NEW p \in Procs, Kill(p)
       PROVE  ListsOK'
  BY <1>10 DEF Kill
<1>11. CASE Reload
  BY <1>11 DEF Reload, Serve, ReloadCheck, ReloadRead, ReloadFails, ReloadStat
<1> QED
  BY <1>1, <1>2, <1>3, <1>4, <1>5, <1>6, <1>7, <1>8, <1>9, <1>10, <1>11 DEF Next

\* Every step keeps the other files typed.
LEMMA FilesPreserved ==
  ASSUME TypeOK, CommandsInv, [Next]_vars
  PROVE  FilesOK'
<1> USE NamesAssumption
    DEF files, process, order, kept, registry, history, TypeOK, PlacesOK, FilesOK,
        Names, CommandsInv, Rotating, Rotated
<1>1. CASE UNCHANGED vars
  BY <1>1 DEF vars
<1>2. ASSUME NEW p \in Procs, Start(p)
      PROVE  FilesOK'
  BY <1>2 DEF Start
<1>3. ASSUME NEW p \in Procs, Add(p)
      PROVE  FilesOK'
  <2>1. CASE AddToken(p)
    BY <2>1 DEF AddToken, Raise
  <2>2. CASE AddRecord(p)
    BY <2>2 DEF AddRecord, Written, WithDevice, Record, AfterAdd, Making
  <2>3. CASE AddRecordFails(p)
    BY <2>3 DEF AddRecordFails
  <2>4. CASE AddUndo(p)
    BY <2>4 DEF AddUndo, Raise
  <2> QED
    BY <1>3, <2>1, <2>2, <2>3, <2>4 DEF Add
<1>4. ASSUME NEW p \in Procs, Flag(p)
      PROVE  FilesOK'
  <2>1. CASE SetEnabled(p)
    BY <2>1 DEF SetEnabled, Written, WithFlag
  <2>2. CASE SetEnabledFails(p)
    BY <2>2 DEF SetEnabledFails
  <2> QED
    BY <1>4, <2>1, <2>2 DEF Flag
<1>5. ASSUME NEW p \in Procs, Rotate(p)
      PROVE  FilesOK'
  <2>1. CASE RotateLoad(p)
    BY <2>1 DEF RotateLoad
  <2>2. CASE RotateDigest(p)
    BY <2>2 DEF RotateDigest, Written, WithDigest
  <2>3. CASE RotateDigestFails(p)
    BY <2>3 DEF RotateDigestFails
  <2>4. CASE RotateToken(p)
    BY <2>4 DEF RotateToken
  <2>5. CASE RotateUndo(p)
    BY <2>5 DEF RotateUndo, Written
  <2>6. CASE RotateUndoToken(p)
    BY <2>6 DEF RotateUndoToken
  <2>7. CASE RotateUndoFails(p)
    BY <2>7 DEF RotateUndoFails
  <2> QED
    BY <1>5, <2>1, <2>2, <2>3, <2>4, <2>5, <2>6, <2>7 DEF Rotate
<1>6. ASSUME NEW p \in Procs, InitializeConfig(p) \/ InitializeFails(p)
      PROVE  FilesOK'
  <2>1. CASE InitializeConfig(p)
    BY <2>1 DEF InitializeConfig, Written, Unwritten, NoDevices, Making
  <2>2. CASE InitializeFails(p)
    BY <2>2 DEF InitializeFails, Raise
  <2> QED
    BY <1>6, <2>1, <2>2
<1>7. ASSUME NEW p \in Procs, SetSymbols(p) \/ SetSymbolsFails(p)
      PROVE  FilesOK'
  <2>1. CASE SetSymbols(p)
    BY <2>1 DEF SetSymbols, Written, AfterSymbols
  <2>2. CASE SetSymbolsFails(p)
    BY <2>2 DEF SetSymbolsFails
  <2> QED
    BY <1>7, <2>1, <2>2
<1>8. ASSUME NEW p \in Procs, Save(p)
      PROVE  FilesOK'
  <2>1. CASE SaveName(p)
    BY <2>1 DEF SaveName
  <2>2. CASE SaveNameFails(p)
    BY <2>2 DEF SaveNameFails, Raise
  <2>3. CASE SavePem(p)
    BY <2>3 DEF SavePem
  <2>4. CASE SavePemFails(p)
    BY <2>4 DEF SavePemFails, Raise
  <2>5. CASE DropPointer(p)
    BY <2>5 DEF DropPointer, Making, AfterKeys
  <2>6. CASE DropPointerFails(p)
    BY <2>6 DEF DropPointerFails, Raise
  <2> QED
    BY <1>8, <2>1, <2>2, <2>3, <2>4, <2>5, <2>6 DEF Save
<1>9. ASSUME NEW p \in Procs, Quick(p)
      PROVE  FilesOK'
  <2>1. CASE QuickLoad(p)
    BY <2>1 DEF QuickLoad
  <2>2. CASE QuickKeys(p)
    BY <2>2 DEF QuickKeys
  <2>3. CASE QuickPrompt(p)
    BY <2>3 DEF QuickPrompt
  <2>4. CASE QuickGate(p)
    BY <2>4 DEF QuickGate
  <2>5. CASE QuickPair(p)
    BY <2>5 DEF QuickPair, Raise
  <2>6. CASE QuickDevice(p)
    BY <2>6 DEF QuickDevice
  <2>7. CASE QuickDoctor(p)
    BY <2>7 DEF QuickDoctor, Raise
  <2>8. CASE QuickUndoConfig(p)
    BY <2>8 DEF QuickUndoConfig, Written
  <2>9. CASE QuickUndoConfigFails(p)
    BY <2>9 DEF QuickUndoConfigFails
  <2>10. CASE QuickUndoFiles(p)
    BY <2>10 DEF QuickUndoFiles
  <2> QED
    BY <1>9, <2>1, <2>2, <2>3, <2>4, <2>5, <2>6, <2>7, <2>8, <2>9, <2>10 DEF Quick
<1>10. ASSUME NEW p \in Procs, Kill(p)
       PROVE  FilesOK'
  BY <1>10 DEF Kill
<1>11. CASE Reload
  BY <1>11 DEF Reload, Serve, ReloadCheck, ReloadRead, ReloadFails, ReloadStat
<1> QED
  BY <1>1, <1>2, <1>3, <1>4, <1>5, <1>6, <1>7, <1>8, <1>9, <1>10, <1>11 DEF Next

\* Every step keeps to the devices that were added.
LEMMA DevicesPreserved ==
  ASSUME TypeOK, CommandsInv, DevicesInv, [Next]_vars
  PROVE  DevicesInv'
<1> USE NamesAssumption, NothingAssumption
    DEF files, process, order, kept, registry, history, TypeOK, PlacesOK, ListsOK,
        FilesOK, Names, Records, Allowlists, Go, Has, CommandsInv, DevicesInv, Adding,
        Rotating, Rotated, Quickstarting, Saving, Ended, Added
<1>1. CASE UNCHANGED vars
  BY <1>1 DEF vars
<1>2. ASSUME NEW p \in Procs, Start(p)
      PROVE  DevicesInv'
  BY <1>2 DEF Start
<1>3. ASSUME NEW p \in Procs, Add(p)
      PROVE  DevicesInv'
  <2>1. CASE AddToken(p)
    BY <2>1 DEF AddToken, Raise
  <2>2. CASE AddRecord(p)
    BY <2>2 DEF AddRecord, Written, WithDevice, Record, AfterAdd, Making
  <2>3. CASE AddRecordFails(p)
    BY <2>3 DEF AddRecordFails
  <2>4. CASE AddUndo(p)
    BY <2>4 DEF AddUndo, Raise
  <2> QED
    BY <1>3, <2>1, <2>2, <2>3, <2>4 DEF Add
<1>4. ASSUME NEW p \in Procs, Flag(p)
      PROVE  DevicesInv'
  <2>1. CASE SetEnabled(p)
    BY <2>1 DEF SetEnabled, Written, WithFlag
  <2>2. CASE SetEnabledFails(p)
    BY <2>2 DEF SetEnabledFails
  <2> QED
    BY <1>4, <2>1, <2>2 DEF Flag
<1>5. ASSUME NEW p \in Procs, Rotate(p)
      PROVE  DevicesInv'
  <2>1. CASE RotateLoad(p)
    <3>1. CASE Has(target[p])
      <4>1. /\ orig' = [orig EXCEPT ![p] = config] /\ Go(p, "digest")
            /\ UNCHANGED <<files, order, made>>
        BY <2>1, <3>1 DEF RotateLoad
      <4>2. orig'[p] = config /\ \A q \in Procs \ {p} : orig'[q] = orig[q]
        BY <4>1
      <4> QED
        BY <3>1, <4>1, <4>2
    <3>2. CASE ~Has(target[p])
      BY <2>1, <3>2 DEF RotateLoad
    <3> QED
      BY <3>1, <3>2
  <2>2. CASE RotateDigest(p)
    BY <2>2 DEF RotateDigest, Written, WithDigest
  <2>3. CASE RotateDigestFails(p)
    BY <2>3 DEF RotateDigestFails
  <2>4. CASE RotateToken(p)
    BY <2>4 DEF RotateToken
  <2>5. CASE RotateUndo(p)
    BY <2>5 DEF RotateUndo, Written
  <2>6. CASE RotateUndoToken(p)
    BY <2>6 DEF RotateUndoToken
  <2>7. CASE RotateUndoFails(p)
    BY <2>7 DEF RotateUndoFails
  <2> QED
    BY <1>5, <2>1, <2>2, <2>3, <2>4, <2>5, <2>6, <2>7 DEF Rotate
<1>6. ASSUME NEW p \in Procs, InitializeConfig(p) \/ InitializeFails(p)
      PROVE  DevicesInv'
  <2>1. CASE InitializeConfig(p)
    BY <2>1 DEF InitializeConfig, Written, Unwritten, NoDevices, Making
  <2>2. CASE InitializeFails(p)
    BY <2>2 DEF InitializeFails, Raise
  <2> QED
    BY <1>6, <2>1, <2>2
<1>7. ASSUME NEW p \in Procs, SetSymbols(p) \/ SetSymbolsFails(p)
      PROVE  DevicesInv'
  <2>1. CASE SetSymbols(p)
    BY <2>1 DEF SetSymbols, Written, AfterSymbols
  <2>2. CASE SetSymbolsFails(p)
    BY <2>2 DEF SetSymbolsFails
  <2> QED
    BY <1>7, <2>1, <2>2
<1>8. ASSUME NEW p \in Procs, Save(p)
      PROVE  DevicesInv'
  <2>1. CASE SaveName(p)
    BY <2>1 DEF SaveName
  <2>2. CASE SaveNameFails(p)
    BY <2>2 DEF SaveNameFails, Raise
  <2>3. CASE SavePem(p)
    BY <2>3 DEF SavePem
  <2>4. CASE SavePemFails(p)
    BY <2>4 DEF SavePemFails, Raise
  <2>5. CASE DropPointer(p)
    BY <2>5 DEF DropPointer, Making, AfterKeys
  <2>6. CASE DropPointerFails(p)
    BY <2>6 DEF DropPointerFails, Raise
  <2> QED
    BY <1>8, <2>1, <2>2, <2>3, <2>4, <2>5, <2>6 DEF Save
<1>9. ASSUME NEW p \in Procs, Quick(p)
      PROVE  DevicesInv'
  <2>1. CASE QuickLoad(p)
    BY <2>1 DEF QuickLoad
  <2>2. CASE QuickKeys(p)
    BY <2>2 DEF QuickKeys
  <2>3. CASE QuickPrompt(p)
    BY <2>3 DEF QuickPrompt
  <2>4. CASE QuickGate(p)
    BY <2>4 DEF QuickGate
  <2>5. CASE QuickPair(p)
    BY <2>5 DEF QuickPair, Raise
  <2>6. CASE QuickDevice(p)
    BY <2>6 DEF QuickDevice
  <2>7. CASE QuickDoctor(p)
    BY <2>7 DEF QuickDoctor, Raise
  <2>8. CASE QuickUndoConfig(p)
    BY <2>8 DEF QuickUndoConfig, Written
  <2>9. CASE QuickUndoConfigFails(p)
    BY <2>9 DEF QuickUndoConfigFails
  <2>10. CASE QuickUndoFiles(p)
    BY <2>10 DEF QuickUndoFiles
  <2> QED
    BY <1>9, <2>1, <2>2, <2>3, <2>4, <2>5, <2>6, <2>7, <2>8, <2>9, <2>10 DEF Quick
<1>10. ASSUME NEW p \in Procs, Kill(p)
       PROVE  DevicesInv'
  BY <1>10 DEF Kill
<1>11. CASE Reload
  BY <1>11 DEF Reload, Serve, ReloadCheck, ReloadRead, ReloadFails, ReloadStat
<1> QED
  BY <1>1, <1>2, <1>3, <1>4, <1>5, <1>6, <1>7, <1>8, <1>9, <1>10, <1>11 DEF Next

\* A command writes config.json or leaves it alone, and never touches the registry.
LEMMA Writes ==
  ASSUME NEW p \in Procs,
         \/ Start(p) \/ Add(p) \/ Flag(p) \/ Rotate(p)
         \/ InitializeConfig(p) \/ InitializeFails(p)
         \/ SetSymbols(p) \/ SetSymbolsFails(p) \/ Save(p) \/ Quick(p) \/ Kill(p)
  PROVE  (\E list : Written(list)) \/ UNCHANGED <<config, registry>>
<1> USE DEF files
<1>1. CASE Start(p) \/ Add(p) \/ Flag(p) \/ Kill(p)
  BY <1>1 DEF Start, Add, AddToken, AddRecord, AddRecordFails, AddUndo, Flag, SetEnabled,
              SetEnabledFails, Kill
<1>2. CASE Rotate(p)
  BY <1>2 DEF Rotate, RotateLoad, RotateDigest, RotateDigestFails, RotateToken,
              RotateUndo, RotateUndoToken, RotateUndoFails
<1>3. CASE InitializeConfig(p) \/ InitializeFails(p) \/ SetSymbols(p) \/ SetSymbolsFails(p)
  BY <1>3 DEF InitializeConfig, Unwritten, InitializeFails, SetSymbols, SetSymbolsFails
<1>4. CASE Save(p)
  BY <1>4 DEF Save, SaveName, SaveNameFails, SavePem, SavePemFails, DropPointer,
              DropPointerFails
<1>5. CASE Quick(p)
  BY <1>5 DEF Quick, QuickLoad, QuickKeys, QuickPrompt, QuickGate, QuickPair, QuickDevice,
              QuickDoctor, QuickUndoConfig, QuickUndoConfigFails, QuickUndoFiles
<1> QED
  BY <1>1, <1>2, <1>3, <1>4, <1>5

\* Every step keeps the registry with what it has read.
LEMMA RegistryPreserved ==
  ASSUME TypeOK, RegistryInv, [Next]_vars
  PROVE  RegistryInv'
<1> USE DEF files, registry, TypeOK, FilesOK, FlagsOK, RegistryInv
<1>1. CASE UNCHANGED <<config, registry>>
  BY <1>1
<1>2. ASSUME NEW list, Written(list)
      PROVE  RegistryInv'
  <2>1. ~seen' /\ (regAt' = "stat" => missed') /\ regAt' = regAt
    BY <1>2, Zenon DEF Written
  <2> QED
    BY <2>1
<1>3. CASE Reload
  <2>1. CASE Serve
    BY <2>1 DEF Serve
  <2>2. CASE ReloadCheck
    BY <2>2 DEF ReloadCheck
  <2>3. CASE ReloadRead
    BY <2>3 DEF ReloadRead
  <2>4. CASE ReloadFails
    BY <2>4 DEF ReloadFails
  <2>5. CASE ReloadStat
    BY <2>5 DEF ReloadStat
  <2> QED
    BY <1>3, <2>1, <2>2, <2>3, <2>4, <2>5 DEF Reload
<1>4. CASE UNCHANGED vars
  BY <1>1, <1>4 DEF vars
<1> QED
  BY <1>1, <1>2, <1>3, <1>4, Writes DEF Next

\* Every step keeps the two files of the key together.
LEMMA PairPreserved ==
  ASSUME TypeOK, CommandsInv, PairInv, [Next]_vars
  PROVE  PairInv'
<1> USE NamesAssumption
    DEF files, process, order, kept, registry, history, TypeOK, PlacesOK, FilesOK,
        FlagsOK, Names, Go, CommandsInv, Saving, Ended, Added, Before, Rotating, Adding,
        Quickstarting, PairInv
<1>1. CASE UNCHANGED vars
  BY <1>1 DEF vars
<1>2. ASSUME NEW p \in Procs, Start(p)
      PROVE  PairInv'
  BY <1>2 DEF Start
<1>3. ASSUME NEW p \in Procs, Add(p)
      PROVE  PairInv'
  <2>1. CASE AddToken(p)
    BY <2>1 DEF AddToken, Raise
  <2>2. CASE AddRecord(p)
    BY <2>2 DEF AddRecord, Written, WithDevice, Record, AfterAdd, Making
  <2>3. CASE AddRecordFails(p)
    BY <2>3 DEF AddRecordFails
  <2>4. CASE AddUndo(p)
    BY <2>4 DEF AddUndo, Raise
  <2> QED
    BY <1>3, <2>1, <2>2, <2>3, <2>4 DEF Add
<1>4. ASSUME NEW p \in Procs, Flag(p)
      PROVE  PairInv'
  <2>1. CASE SetEnabled(p)
    BY <2>1 DEF SetEnabled, Written, WithFlag
  <2>2. CASE SetEnabledFails(p)
    BY <2>2 DEF SetEnabledFails
  <2> QED
    BY <1>4, <2>1, <2>2 DEF Flag
<1>5. ASSUME NEW p \in Procs, Rotate(p)
      PROVE  PairInv'
  <2>1. CASE RotateLoad(p)
    BY <2>1 DEF RotateLoad
  <2>2. CASE RotateDigest(p)
    BY <2>2 DEF RotateDigest, Written, WithDigest
  <2>3. CASE RotateDigestFails(p)
    BY <2>3 DEF RotateDigestFails
  <2>4. CASE RotateToken(p)
    BY <2>4 DEF RotateToken
  <2>5. CASE RotateUndo(p)
    BY <2>5 DEF RotateUndo, Written
  <2>6. CASE RotateUndoToken(p)
    BY <2>6 DEF RotateUndoToken
  <2>7. CASE RotateUndoFails(p)
    BY <2>7 DEF RotateUndoFails
  <2> QED
    BY <1>5, <2>1, <2>2, <2>3, <2>4, <2>5, <2>6, <2>7 DEF Rotate
<1>6. ASSUME NEW p \in Procs, InitializeConfig(p) \/ InitializeFails(p)
      PROVE  PairInv'
  <2>1. CASE InitializeConfig(p)
    BY <2>1 DEF InitializeConfig, Written, Unwritten, NoDevices, Making
  <2>2. CASE InitializeFails(p)
    BY <2>2 DEF InitializeFails, Raise
  <2> QED
    BY <1>6, <2>1, <2>2
<1>7. ASSUME NEW p \in Procs, SetSymbols(p) \/ SetSymbolsFails(p)
      PROVE  PairInv'
  <2>1. CASE SetSymbols(p)
    BY <2>1 DEF SetSymbols, Written, AfterSymbols
  <2>2. CASE SetSymbolsFails(p)
    BY <2>2 DEF SetSymbolsFails
  <2> QED
    BY <1>7, <2>1, <2>2
<1>8. ASSUME NEW p \in Procs, Save(p)
      PROVE  PairInv'
  <2>1. CASE SaveName(p)
    BY <2>1 DEF SaveName
  <2>2. CASE SaveNameFails(p)
    BY <2>2 DEF SaveNameFails, Raise
  <2>3. CASE SavePem(p)
    BY <2>3 DEF SavePem
  <2>4. CASE SavePemFails(p)
    BY <2>4 DEF SavePemFails, Raise
  <2>5. CASE DropPointer(p)
    BY <2>5 DEF DropPointer, Making, AfterKeys
  <2>6. CASE DropPointerFails(p)
    BY <2>6 DEF DropPointerFails, Raise
  <2> QED
    BY <1>8, <2>1, <2>2, <2>3, <2>4, <2>5, <2>6 DEF Save
<1>9. ASSUME NEW p \in Procs, Quick(p)
      PROVE  PairInv'
  <2>1. CASE QuickLoad(p)
    BY <2>1 DEF QuickLoad
  <2>2. CASE QuickKeys(p)
    BY <2>2 DEF QuickKeys
  <2>3. CASE QuickPrompt(p)
    BY <2>3 DEF QuickPrompt
  <2>4. CASE QuickGate(p)
    BY <2>4 DEF QuickGate
  <2>5. CASE QuickPair(p)
    BY <2>5 DEF QuickPair, Raise
  <2>6. CASE QuickDevice(p)
    BY <2>6 DEF QuickDevice
  <2>7. CASE QuickDoctor(p)
    BY <2>7 DEF QuickDoctor, Raise
  <2>8. CASE QuickUndoConfig(p)
    BY <2>8 DEF QuickUndoConfig, Written
  <2>9. CASE QuickUndoConfigFails(p)
    BY <2>9 DEF QuickUndoConfigFails
  <2>10. CASE QuickUndoFiles(p)
    <3>1. ~torn' => ~torn /\ ("keys" \in made[p] => credLock = None)
      BY <2>10, Zenon DEF QuickUndoFiles
    <3>2. /\ name' = IF "keys" \in made[p] THEN None ELSE name
          /\ pem' = IF "keys" \in made[p] THEN None ELSE pem
          /\ at[p] = "q_undo_files" /\ Go(p, "failed")
          /\ UNCHANGED <<credLock, cmd, target, oldName, made>>
      BY <2>10 DEF QuickUndoFiles
    <3> QED
      BY <3>1, <3>2
  <2> QED
    BY <1>9, <2>1, <2>2, <2>3, <2>4, <2>5, <2>6, <2>7, <2>8, <2>9, <2>10 DEF Quick
<1>10. ASSUME NEW p \in Procs, Kill(p)
       PROVE  PairInv'
  <2>1. ~torn' => ~torn /\ at[p] # "pem"
    BY <1>10, Zenon DEF Kill
  <2>2. /\ at[p] \notin {"idle"} \cup Ended /\ Go(p, "killed")
        /\ credLock' = IF credLock = p THEN None ELSE credLock
        /\ UNCHANGED <<files, order, kept, made>>
    BY <1>10 DEF Kill
  <2> QED
    BY <2>1, <2>2
<1>11. CASE Reload
  BY <1>11 DEF Reload, Serve, ReloadCheck, ReloadRead, ReloadFails, ReloadStat
<1> QED
  BY <1>1, <1>2, <1>3, <1>4, <1>5, <1>6, <1>7, <1>8, <1>9, <1>10, <1>11 DEF Next

\* Every step keeps what a rotation knows.
LEMMA RotationPreserved ==
  ASSUME TypeOK, CommandsInv, DevicesInv, RotationInv, [Next]_vars
  PROVE  RotationInv'
<1> USE NamesAssumption, NothingAssumption
    DEF files, process, order, kept, registry, history, TypeOK, PlacesOK, ListsOK,
        FilesOK, FlagsOK, Names, Records, Allowlists, Go, Has, CommandsInv, DevicesInv,
        Saving, Ended, Added, Rotating, Rotated, Adding, Quickstarting, Commands,
        NotOthers, Agrees, Saved, RotationInv
<1>1. CASE UNCHANGED vars
  BY <1>1 DEF vars
<1>2. ASSUME NEW p \in Procs, Start(p)
      PROVE  RotationInv'
  <2>1. PICK c \in Commands, d \in Names, place \in Places :
          /\ cmd[p] = None /\ at[p] = "idle"
          /\ cmd' = [cmd EXCEPT ![p] = c] /\ target' = [target EXCEPT ![p] = d]
          /\ Go(p, place)
          /\ c \in {"add", "symbols", "setup", "quickstart"} => d = p
          /\ <<c, place>> \in {<<"add", "token">>, <<"rotate", "load">>, <<"revoke",
             "flag">>,
                              <<"enable", "flag">>, <<"symbols", "symbols">>,
                              <<"setup", "init">>, <<"quickstart", "q_load">>}
    BY <1>2, Starts
  <2>2. UNCHANGED <<files, kept, made, history>>
    BY <1>2 DEF Start
  <2> QED
    BY <2>1, <2>2
<1>3. ASSUME NEW p \in Procs, Add(p)
      PROVE  RotationInv'
  <2>1. CASE AddToken(p)
    BY <2>1 DEF AddToken, Raise
  <2>2. CASE AddRecord(p)
    BY <2>2 DEF AddRecord, Written, WithDevice, Record, AfterAdd, Making
  <2>3. CASE AddRecordFails(p)
    BY <2>3 DEF AddRecordFails
  <2>4. CASE AddUndo(p)
    BY <2>4 DEF AddUndo, Raise
  <2> QED
    BY <1>3, <2>1, <2>2, <2>3, <2>4 DEF Add
<1>4. ASSUME NEW p \in Procs, Flag(p)
      PROVE  RotationInv'
  <2>1. CASE SetEnabled(p)
    BY <2>1 DEF SetEnabled, Written, WithFlag
  <2>2. CASE SetEnabledFails(p)
    BY <2>2 DEF SetEnabledFails
  <2> QED
    BY <1>4, <2>1, <2>2 DEF Flag
<1>5. ASSUME NEW p \in Procs, Rotate(p)
      PROVE  RotationInv'
  <2>1. CASE RotateLoad(p)
    <3>1. CASE Has(target[p])
      <4>1. /\ orig' = [orig EXCEPT ![p] = config] /\ Go(p, "digest") /\ at[p] = "load"
            /\ backup' = [backup EXCEPT ![p] = tokens[target[p]]]
            /\ UNCHANGED <<files, order, made, history>>
        BY <2>1, <3>1 DEF RotateLoad
      <4>2. /\ orig'[p] = config /\ \A q \in Procs \ {p} : orig'[q] = orig[q]
            /\ backup'[p] = tokens[target[p]] /\ \A q \in Procs \ {p} : backup'[q] =
               backup[q]
            /\ at'[p] = "digest" /\ \A q \in Procs \ {p} : at'[q] = at[q]
        BY <4>1
      <4> QED
        BY <3>1, <4>1, <4>2
    <3>2. CASE ~Has(target[p])
      BY <2>1, <3>2 DEF RotateLoad
    <3> QED
      BY <3>1, <3>2
  <2>2. CASE RotateDigest(p)
    <3>1. /\ Has(target[p]) /\ target[p] \in Names /\ config \in Allowlists
          /\ at[p] = "digest" /\ config' = WithDigest(target[p], p)
          /\ at'[p] = "token_file" /\ \A q \in Procs \ {p} : at'[q] = at[q]
          /\ UNCHANGED <<tokens, name, pem, credLock, order, kept, made, history>>
      BY <2>2 DEF RotateDigest, Written
    <3>2. /\ config'[target[p]] # None /\ config'[target[p]].digest = p
          /\ \A e \in Names \ {target[p]} : config'[e] = config[e]
      BY <3>1, EditsOnly
    <3> QED
      BY <3>1, <3>2
  <2>3. CASE RotateDigestFails(p)
    BY <2>3 DEF RotateDigestFails
  <2>4. CASE RotateToken(p)
    BY <2>4 DEF RotateToken
  <2>5. CASE RotateUndo(p)
    <3>1. /\ config # None /\ target[p] \in Names
          /\ orig[p] \in Allowlists /\ orig[p][target[p]] # None
          /\ at[p] = "undo_record" /\ cmd[p] = "rotate"
          /\ UNCHANGED <<tokens, name, pem, credLock, order, kept, made, history>>
      BY <2>5 DEF RotateUndo
    <3>2. /\ at'[p] \in {"failed", "undo_token"} /\ \A q \in Procs \ {p} : at'[q] = at[q]
      BY <2>5 DEF RotateUndo
    <3>3. CASE Has(target[p])
      <4>1. /\ config'[target[p]] = orig[p][target[p]]
            /\ \A d \in Names \ {target[p]} : config'[d] = config[d]
            /\ config' # None
        <5>1. config' = [config EXCEPT ![target[p]] = orig[p][target[p]]]
          BY <2>5, <3>3 DEF RotateUndo, Written
        <5>2. config' \in Allowlists
          BY <3>1, <5>1 DEF Allowlists
        <5> QED
          BY <3>1, <5>1, <5>2
      <4> QED
        BY <3>1, <3>2, <3>3, <4>1
    <3>4. CASE ~Has(target[p])
      <4>1. config' = config
        BY <2>5, <3>4 DEF RotateUndo, Written
      <4> QED
        BY <3>1, <3>2, <3>4, <4>1
    <3> QED
      BY <3>3, <3>4
  <2>6. CASE RotateUndoToken(p)
    BY <2>6 DEF RotateUndoToken
  <2>7. CASE RotateUndoFails(p)
    BY <2>7 DEF RotateUndoFails
  <2> QED
    BY <1>5, <2>1, <2>2, <2>3, <2>4, <2>5, <2>6, <2>7 DEF Rotate
<1>6. ASSUME NEW p \in Procs, InitializeConfig(p) \/ InitializeFails(p)
      PROVE  RotationInv'
  <2>1. CASE InitializeConfig(p)
    BY <2>1 DEF InitializeConfig, Written, Unwritten, NoDevices, Making
  <2>2. CASE InitializeFails(p)
    BY <2>2 DEF InitializeFails, Raise
  <2> QED
    BY <1>6, <2>1, <2>2
<1>7. ASSUME NEW p \in Procs, SetSymbols(p) \/ SetSymbolsFails(p)
      PROVE  RotationInv'
  <2>1. CASE SetSymbols(p)
    BY <2>1 DEF SetSymbols, Written, AfterSymbols
  <2>2. CASE SetSymbolsFails(p)
    BY <2>2 DEF SetSymbolsFails
  <2> QED
    BY <1>7, <2>1, <2>2
<1>8. ASSUME NEW p \in Procs, Save(p)
      PROVE  RotationInv'
  <2>1. CASE SaveName(p)
    BY <2>1 DEF SaveName
  <2>2. CASE SaveNameFails(p)
    BY <2>2 DEF SaveNameFails, Raise
  <2>3. CASE SavePem(p)
    BY <2>3 DEF SavePem
  <2>4. CASE SavePemFails(p)
    BY <2>4 DEF SavePemFails, Raise
  <2>5. CASE DropPointer(p)
    BY <2>5 DEF DropPointer, Making, AfterKeys
  <2>6. CASE DropPointerFails(p)
    BY <2>6 DEF DropPointerFails, Raise
  <2> QED
    BY <1>8, <2>1, <2>2, <2>3, <2>4, <2>5, <2>6 DEF Save
<1>9. ASSUME NEW p \in Procs, Quick(p)
      PROVE  RotationInv'
  <2>1. CASE QuickLoad(p)
    BY <2>1 DEF QuickLoad
  <2>2. CASE QuickKeys(p)
    BY <2>2 DEF QuickKeys
  <2>3. CASE QuickPrompt(p)
    BY <2>3 DEF QuickPrompt
  <2>4. CASE QuickGate(p)
    BY <2>4 DEF QuickGate
  <2>5. CASE QuickPair(p)
    BY <2>5 DEF QuickPair, Raise
  <2>6. CASE QuickDevice(p)
    BY <2>6 DEF QuickDevice
  <2>7. CASE QuickDoctor(p)
    BY <2>7 DEF QuickDoctor, Raise
  <2>8. CASE QuickUndoConfig(p)
    BY <2>8 DEF QuickUndoConfig, Written
  <2>9. CASE QuickUndoConfigFails(p)
    BY <2>9 DEF QuickUndoConfigFails
  <2>10. CASE QuickUndoFiles(p)
    BY <2>10 DEF QuickUndoFiles
  <2> QED
    BY <1>9, <2>1, <2>2, <2>3, <2>4, <2>5, <2>6, <2>7, <2>8, <2>9, <2>10 DEF Quick
<1>10. ASSUME NEW p \in Procs, Kill(p)
       PROVE  RotationInv'
  BY <1>10 DEF Kill
<1>11. CASE Reload
  BY <1>11 DEF Reload, Serve, ReloadCheck, ReloadRead, ReloadFails, ReloadStat
<1> QED
  BY <1>1, <1>2, <1>3, <1>4, <1>5, <1>6, <1>7, <1>8, <1>9, <1>10, <1>11 DEF Next

\* Every step leaves a device, its token and its record with the process that adds it.
LEMMA OwnPreserved ==
  ASSUME TypeOK, CommandsInv, DevicesInv, OwnInv, [Next]_vars
  PROVE  OwnInv'
<1> USE NamesAssumption, NothingAssumption
    DEF files, process, order, kept, registry, history, TypeOK, PlacesOK, ListsOK,
        FilesOK, FlagsOK, Names, Records, Allowlists, Go, Has, CommandsInv, DevicesInv,
        Saving, Ended, Added, Rotating, Rotated, Adding, Quickstarting, Commands,
        NotRotatedByOthers, OwnInv
<1>1. CASE UNCHANGED vars
  BY <1>1 DEF vars
<1>2. ASSUME NEW p \in Procs, Start(p)
      PROVE  OwnInv'
  BY <1>2 DEF Start
<1>3. ASSUME NEW p \in Procs, Add(p)
      PROVE  OwnInv'
  <2>1. CASE AddToken(p)
    BY <2>1 DEF AddToken, Raise
  <2>2. CASE AddRecord(p)
    BY <2>2 DEF AddRecord, Written, WithDevice, Record, AfterAdd, Making
  <2>3. CASE AddRecordFails(p)
    BY <2>3 DEF AddRecordFails
  <2>4. CASE AddUndo(p)
    BY <2>4 DEF AddUndo, Raise
  <2> QED
    BY <1>3, <2>1, <2>2, <2>3, <2>4 DEF Add
<1>4. ASSUME NEW p \in Procs, Flag(p)
      PROVE  OwnInv'
  <2>1. CASE SetEnabled(p)
    BY <2>1 DEF SetEnabled, Written, WithFlag
  <2>2. CASE SetEnabledFails(p)
    BY <2>2 DEF SetEnabledFails
  <2> QED
    BY <1>4, <2>1, <2>2 DEF Flag
<1>5. ASSUME NEW p \in Procs, Rotate(p)
      PROVE  OwnInv'
  <2>1. CASE RotateLoad(p)
    <3>1. CASE Has(target[p])
      <4>1. /\ orig' = [orig EXCEPT ![p] = config] /\ Go(p, "digest") /\ at[p] = "load"
            /\ backup' = [backup EXCEPT ![p] = tokens[target[p]]]
            /\ UNCHANGED <<files, order, made, history>>
        BY <2>1, <3>1 DEF RotateLoad
      <4>2. /\ orig'[p] = config /\ \A q \in Procs \ {p} : orig'[q] = orig[q]
            /\ backup'[p] = tokens[target[p]] /\ \A q \in Procs \ {p} : backup'[q] =
               backup[q]
            /\ at'[p] = "digest" /\ \A q \in Procs \ {p} : at'[q] = at[q]
        BY <4>1
      <4> QED
        BY <3>1, <4>1, <4>2
    <3>2. CASE ~Has(target[p])
      BY <2>1, <3>2 DEF RotateLoad
    <3> QED
      BY <3>1, <3>2
  <2>2. CASE RotateDigest(p)
    BY <2>2 DEF RotateDigest, Written, WithDigest
  <2>3. CASE RotateDigestFails(p)
    BY <2>3 DEF RotateDigestFails
  <2>4. CASE RotateToken(p)
    BY <2>4 DEF RotateToken
  <2>5. CASE RotateUndo(p)
    <3>1. /\ config # None /\ target[p] \in Names
          /\ orig[p] \in Allowlists /\ orig[p][target[p]] # None
          /\ at[p] = "undo_record" /\ cmd[p] = "rotate"
          /\ UNCHANGED <<tokens, name, pem, credLock, order, kept, made, history>>
      BY <2>5 DEF RotateUndo
    <3>2. /\ at'[p] \in {"failed", "undo_token"} /\ \A q \in Procs \ {p} : at'[q] = at[q]
      BY <2>5 DEF RotateUndo
    <3>3. CASE Has(target[p])
      <4>1. /\ config'[target[p]] = orig[p][target[p]]
            /\ \A d \in Names \ {target[p]} : config'[d] = config[d]
            /\ config' # None
        <5>1. config' = [config EXCEPT ![target[p]] = orig[p][target[p]]]
          BY <2>5, <3>3 DEF RotateUndo, Written
        <5>2. config' \in Allowlists
          BY <3>1, <5>1 DEF Allowlists
        <5> QED
          BY <3>1, <5>1, <5>2
      <4> QED
        BY <3>1, <3>2, <3>3, <4>1
    <3>4. CASE ~Has(target[p])
      <4>1. config' = config
        BY <2>5, <3>4 DEF RotateUndo, Written
      <4> QED
        BY <3>1, <3>2, <3>4, <4>1
    <3> QED
      BY <3>3, <3>4
  <2>6. CASE RotateUndoToken(p)
    BY <2>6 DEF RotateUndoToken
  <2>7. CASE RotateUndoFails(p)
    BY <2>7 DEF RotateUndoFails
  <2> QED
    BY <1>5, <2>1, <2>2, <2>3, <2>4, <2>5, <2>6, <2>7 DEF Rotate
<1>6. ASSUME NEW p \in Procs, InitializeConfig(p) \/ InitializeFails(p)
      PROVE  OwnInv'
  <2>1. CASE InitializeConfig(p)
    BY <2>1 DEF InitializeConfig, Written, Unwritten, NoDevices, Making
  <2>2. CASE InitializeFails(p)
    BY <2>2 DEF InitializeFails, Raise
  <2> QED
    BY <1>6, <2>1, <2>2
<1>7. ASSUME NEW p \in Procs, SetSymbols(p) \/ SetSymbolsFails(p)
      PROVE  OwnInv'
  <2>1. CASE SetSymbols(p)
    BY <2>1 DEF SetSymbols, Written, AfterSymbols
  <2>2. CASE SetSymbolsFails(p)
    BY <2>2 DEF SetSymbolsFails
  <2> QED
    BY <1>7, <2>1, <2>2
<1>8. ASSUME NEW p \in Procs, Save(p)
      PROVE  OwnInv'
  <2>1. CASE SaveName(p)
    BY <2>1 DEF SaveName
  <2>2. CASE SaveNameFails(p)
    BY <2>2 DEF SaveNameFails, Raise
  <2>3. CASE SavePem(p)
    BY <2>3 DEF SavePem
  <2>4. CASE SavePemFails(p)
    BY <2>4 DEF SavePemFails, Raise
  <2>5. CASE DropPointer(p)
    BY <2>5 DEF DropPointer, Making, AfterKeys
  <2>6. CASE DropPointerFails(p)
    BY <2>6 DEF DropPointerFails, Raise
  <2> QED
    BY <1>8, <2>1, <2>2, <2>3, <2>4, <2>5, <2>6 DEF Save
<1>9. ASSUME NEW p \in Procs, Quick(p)
      PROVE  OwnInv'
  <2>1. CASE QuickLoad(p)
    BY <2>1 DEF QuickLoad
  <2>2. CASE QuickKeys(p)
    BY <2>2 DEF QuickKeys
  <2>3. CASE QuickPrompt(p)
    BY <2>3 DEF QuickPrompt
  <2>4. CASE QuickGate(p)
    BY <2>4 DEF QuickGate
  <2>5. CASE QuickPair(p)
    BY <2>5 DEF QuickPair, Raise
  <2>6. CASE QuickDevice(p)
    BY <2>6 DEF QuickDevice
  <2>7. CASE QuickDoctor(p)
    BY <2>7 DEF QuickDoctor, Raise
  <2>8. CASE QuickUndoConfig(p)
    BY <2>8 DEF QuickUndoConfig, Written
  <2>9. CASE QuickUndoConfigFails(p)
    BY <2>9 DEF QuickUndoConfigFails
  <2>10. CASE QuickUndoFiles(p)
    BY <2>10 DEF QuickUndoFiles
  <2> QED
    BY <1>9, <2>1, <2>2, <2>3, <2>4, <2>5, <2>6, <2>7, <2>8, <2>9, <2>10 DEF Quick
<1>10. ASSUME NEW p \in Procs, Kill(p)
       PROVE  OwnInv'
  BY <1>10 DEF Kill
<1>11. CASE Reload
  BY <1>11 DEF Reload, Serve, ReloadCheck, ReloadRead, ReloadFails, ReloadStat
<1> QED
  BY <1>1, <1>2, <1>3, <1>4, <1>5, <1>6, <1>7, <1>8, <1>9, <1>10, <1>11 DEF Next

\* No step but the known ones enables a revoked device.
LEMMA RevokedPreserved ==
  ASSUME TypeOK, CommandsInv, DevicesInv, RevokedStaysRevoked, [Next]_vars
  PROVE  RevokedStaysRevoked'
<1> USE NamesAssumption, NothingAssumption
    DEF files, process, order, kept, registry, history, TypeOK, PlacesOK, ListsOK,
        FilesOK, FlagsOK, Names, Records, Allowlists, Go, Has, CommandsInv, DevicesInv,
        Saving, Ended, Added, Rotating, Rotated, Adding, Quickstarting, Commands,
        MayEnable, RevokedStaysRevoked
<1>1. CASE UNCHANGED vars
  BY <1>1 DEF vars
<1>2. ASSUME NEW p \in Procs, Start(p)
      PROVE  RevokedStaysRevoked'
  BY <1>2 DEF Start
<1>3. ASSUME NEW p \in Procs, Add(p)
      PROVE  RevokedStaysRevoked'
  <2>1. CASE AddToken(p)
    BY <2>1 DEF AddToken, Raise
  <2>2. CASE AddRecord(p)
    BY <2>2 DEF AddRecord, Written, WithDevice, Record, AfterAdd, Making
  <2>3. CASE AddRecordFails(p)
    BY <2>3 DEF AddRecordFails
  <2>4. CASE AddUndo(p)
    BY <2>4 DEF AddUndo, Raise
  <2> QED
    BY <1>3, <2>1, <2>2, <2>3, <2>4 DEF Add
<1>4. ASSUME NEW p \in Procs, Flag(p)
      PROVE  RevokedStaysRevoked'
  <2>1. CASE SetEnabled(p)
    <3> SUFFICES ASSUME ~rewound', NEW d \in Names, NEW r \in Procs,
                        cmd'[r] = "revoke", target'[r] = d, at'[r] = "done",
                        \A q \in Procs : ~MayEnable(q, d)', Has(d)'
                 PROVE  ~config'[d].enabled
      BY DEF RevokedStaysRevoked
    <3>1. /\ Has(target[p]) /\ target[p] \in Names /\ config \in Allowlists
          /\ at[p] = "flag" /\ cmd[p] \in {"revoke", "enable"}
          /\ config' = WithFlag(target[p], cmd[p] = "enable")
          /\ at'[p] = "done" /\ \A q \in Procs \ {p} : at'[q] = at[q]
          /\ UNCHANGED <<order, kept, made, history>>
      BY <2>1 DEF SetEnabled, Written
    <3> DEFINE b == cmd[p] = "enable"
    <3>2. b \in BOOLEAN /\ config' = WithFlag(target[p], b)
      BY <3>1, Zenon
    <3>3. cmd[p] # "enable" => ~b
      OBVIOUS
    <3> HIDE DEF b
    <3>4. /\ config'[target[p]].enabled = b
          /\ \A e \in Names \ {target[p]} : config'[e] = config[e]
          /\ config' # None
      BY <3>1, <3>2, Edits, EditsOnly
    <3>5. CASE d = target[p]
      <4>1. cmd[p] # "enable"
        BY <3>1, <3>5
      <4> QED
        BY <3>3, <3>4, <3>5, <4>1, Zenon
    <3>6. CASE d # target[p]
      BY <3>1, <3>4, <3>6
    <3> QED
      BY <3>5, <3>6
  <2>2. CASE SetEnabledFails(p)
    BY <2>2 DEF SetEnabledFails
  <2> QED
    BY <1>4, <2>1, <2>2 DEF Flag
<1>5. ASSUME NEW p \in Procs, Rotate(p)
      PROVE  RevokedStaysRevoked'
  <2>1. CASE RotateLoad(p)
    BY <2>1 DEF RotateLoad
  <2>2. CASE RotateDigest(p)
    BY <2>2 DEF RotateDigest, Written, WithDigest
  <2>3. CASE RotateDigestFails(p)
    BY <2>3 DEF RotateDigestFails
  <2>4. CASE RotateToken(p)
    BY <2>4 DEF RotateToken
  <2>5. CASE RotateUndo(p)
    <3> SUFFICES ASSUME ~rewound', NEW d \in Names, NEW r \in Procs,
                        cmd'[r] = "revoke", target'[r] = d, at'[r] = "done",
                        \A q \in Procs : ~MayEnable(q, d)', Has(d)'
                 PROVE  ~config'[d].enabled
      BY DEF RevokedStaysRevoked
    <3>1. /\ config # None /\ target[p] \in Names
          /\ orig[p] \in Allowlists /\ orig[p][target[p]] # None
          /\ at[p] = "undo_record" /\ cmd[p] = "rotate"
          /\ UNCHANGED <<order, kept, made, history>>
      BY <2>5 DEF RotateUndo
    <3>2. /\ at'[p] \in {"failed", "undo_token"} /\ \A q \in Procs \ {p} : at'[q] = at[q]
      BY <2>5 DEF RotateUndo
    <3>3. d # target[p] /\ \A q \in Procs : ~MayEnable(q, d)
      BY <3>1, <3>2
    <3>4. config'[d] = config[d]
      BY <2>5, <3>3 DEF RotateUndo, Written
    <3> QED
      BY <3>1, <3>2, <3>3, <3>4
  <2>6. CASE RotateUndoToken(p)
    BY <2>6 DEF RotateUndoToken
  <2>7. CASE RotateUndoFails(p)
    BY <2>7 DEF RotateUndoFails
  <2> QED
    BY <1>5, <2>1, <2>2, <2>3, <2>4, <2>5, <2>6, <2>7 DEF Rotate
<1>6. ASSUME NEW p \in Procs, InitializeConfig(p) \/ InitializeFails(p)
      PROVE  RevokedStaysRevoked'
  <2>1. CASE InitializeConfig(p)
    BY <2>1 DEF InitializeConfig, Written, Unwritten, NoDevices, Making
  <2>2. CASE InitializeFails(p)
    BY <2>2 DEF InitializeFails, Raise
  <2> QED
    BY <1>6, <2>1, <2>2
<1>7. ASSUME NEW p \in Procs, SetSymbols(p) \/ SetSymbolsFails(p)
      PROVE  RevokedStaysRevoked'
  <2>1. CASE SetSymbols(p)
    BY <2>1 DEF SetSymbols, Written, AfterSymbols
  <2>2. CASE SetSymbolsFails(p)
    BY <2>2 DEF SetSymbolsFails
  <2> QED
    BY <1>7, <2>1, <2>2
<1>8. ASSUME NEW p \in Procs, Save(p)
      PROVE  RevokedStaysRevoked'
  <2>1. CASE SaveName(p)
    BY <2>1 DEF SaveName
  <2>2. CASE SaveNameFails(p)
    BY <2>2 DEF SaveNameFails, Raise
  <2>3. CASE SavePem(p)
    BY <2>3 DEF SavePem
  <2>4. CASE SavePemFails(p)
    BY <2>4 DEF SavePemFails, Raise
  <2>5. CASE DropPointer(p)
    BY <2>5 DEF DropPointer, Making, AfterKeys
  <2>6. CASE DropPointerFails(p)
    BY <2>6 DEF DropPointerFails, Raise
  <2> QED
    BY <1>8, <2>1, <2>2, <2>3, <2>4, <2>5, <2>6 DEF Save
<1>9. ASSUME NEW p \in Procs, Quick(p)
      PROVE  RevokedStaysRevoked'
  <2>1. CASE QuickLoad(p)
    BY <2>1 DEF QuickLoad
  <2>2. CASE QuickKeys(p)
    BY <2>2 DEF QuickKeys
  <2>3. CASE QuickPrompt(p)
    BY <2>3 DEF QuickPrompt
  <2>4. CASE QuickGate(p)
    BY <2>4 DEF QuickGate
  <2>5. CASE QuickPair(p)
    BY <2>5 DEF QuickPair, Raise
  <2>6. CASE QuickDevice(p)
    BY <2>6 DEF QuickDevice
  <2>7. CASE QuickDoctor(p)
    BY <2>7 DEF QuickDoctor, Raise
  <2>8. CASE QuickUndoConfig(p)
    BY <2>8 DEF QuickUndoConfig, Written
  <2>9. CASE QuickUndoConfigFails(p)
    BY <2>9 DEF QuickUndoConfigFails
  <2>10. CASE QuickUndoFiles(p)
    BY <2>10 DEF QuickUndoFiles
  <2> QED
    BY <1>9, <2>1, <2>2, <2>3, <2>4, <2>5, <2>6, <2>7, <2>8, <2>9, <2>10 DEF Quick
<1>10. ASSUME NEW p \in Procs, Kill(p)
       PROVE  RevokedStaysRevoked'
  BY <1>10 DEF Kill
<1>11. CASE Reload
  BY <1>11 DEF Reload, Serve, ReloadCheck, ReloadRead, ReloadFails, ReloadStat
<1> QED
  BY <1>1, <1>2, <1>3, <1>4, <1>5, <1>6, <1>7, <1>8, <1>9, <1>10, <1>11 DEF Next

-----------------------------------------------------------------------------
(* The theorems *)

LEMMA InitInv == Init => Inv
<1> USE NamesAssumption, NothingAssumption
<1> SUFFICES ASSUME Init PROVE Inv
  OBVIOUS
<1>1. PlacesOK /\ CommandsInv
  BY DEF Init, PlacesOK, Places, CommandsInv, Adding, Rotating,
         Quickstarting, Saving, Commands, Changes
<1>2. ListsOK /\ FilesOK
  BY NewLists DEF Init, ListsOK, FilesOK, Names
<1>3. FlagsOK
  BY Zenon DEF Init, FlagsOK
<1>4. DevicesInv
  BY DEF Init, DevicesInv, Has, NoDevices, Names, Rotated, Commands
<1>5. RegistryInv /\ PairInv /\ RevokedStaysRevoked
  BY DEF Init, RegistryInv, PairInv, RevokedStaysRevoked, Names, Commands
<1>6. RotationInv
  BY DEF Init, RotationInv, Agrees, Has, NoDevices, OldRecord, Names, Commands
<1>7. OwnInv
  BY DEF Init, OwnInv, Has, Names, NoDevices, Commands
<1> QED
  BY <1>1, <1>2, <1>3, <1>4, <1>5, <1>6, <1>7 DEF Inv, TypeOK

\* The inductive invariant holds of every state of the bridge's files.
THEOREM Invariance == Spec => []Inv
<1>1. Inv /\ [Next]_vars => Inv'
  <2> SUFFICES ASSUME Inv, [Next]_vars PROVE Inv'
    OBVIOUS
  <2>1. TypeOK' /\ CommandsInv'
    BY FlagsPreserved, PlacesPreserved, ListsPreserved, FilesPreserved DEF Inv, TypeOK
  <2>2. DevicesInv' /\ RegistryInv' /\ PairInv'
    BY DevicesPreserved, RegistryPreserved, PairPreserved DEF Inv
  <2>3. RotationInv' /\ OwnInv' /\ RevokedStaysRevoked'
    BY RotationPreserved, OwnPreserved, RevokedPreserved DEF Inv
  <2> QED
    BY <2>1, <2>2, <2>3 DEF Inv
<1> QED
  BY <1>1, InitInv, PTL DEF Spec

\* Files, commands and the registry stay in their places.
THEOREM TypeCorrect == Spec => []TypeOK
<1>1. Inv => TypeOK
  BY DEF Inv
<1> QED
  BY <1>1, Invariance, PTL

\* A revocation lasts, whatever other commands write to config.json meanwhile: a
\* writer has read the file under the lock under which it writes
\* (ConfigStore.update).
THEOREM RevocationLasts == Spec => []RevokedStaysRevoked
<1>1. Inv => RevokedStaysRevoked
  BY DEF Inv
<1> QED
  BY <1>1, Invariance, PTL

\* DeviceManager.rotate ends with a token file that the allowlist accepts.
THEOREM RotationAgrees == Spec => []SoleRotationAgrees
<1>1. Inv => SoleRotationAgrees
  <2> SUFFICES ASSUME Inv, ~rewound, NEW p \in Procs,
                      cmd[p] = "rotate", at[p] \in {"done", "failed"}, Has(target[p]),
                      \A q \in Procs \ {p} :
                        target[q] = target[p] => cmd[q] \in {"revoke", "enable"}
               PROVE  config[target[p]].digest = tokens[target[p]]
    BY DEF SoleRotationAgrees
  <2>1. target[p] \in Names
    BY DEF Inv, CommandsInv
  <2>2. target[p] \notin Procs
    <3>1. SUFFICES ASSUME target[p] \in Procs PROVE FALSE
      OBVIOUS
    <3>2. "device" \in made[target[p]]
      BY <3>1 DEF Inv, DevicesInv
    <3>3. cmd[target[p]] \in {"add", "setup", "quickstart"} /\ target[target[p]] = target[p]
      BY <3>1, <3>2 DEF Inv, CommandsInv
    <3> QED
      BY <3>1, <3>3
  <2>3. target[p] = Old
    BY <2>1, <2>2 DEF Names
  <2> QED
    BY <2>3 DEF Inv, RotationInv, NotOthers, Agrees
<1> QED
  BY <1>1, Invariance, PTL

\* An add or a quickstart that failed leaves nothing of its own (DeviceManager.add,
\* _rollback_quickstart), at whichever step it failed.
THEOREM FailureLeavesNothing == Spec => []FailedLeavesNothing
<1>1. Inv => FailedLeavesNothing
  <2> SUFFICES ASSUME Inv, NEW p \in Procs,
                      at[p] = "failed", cmd[p] \in {"add", "quickstart"}
               PROVE  /\ NotRotatedByOthers(p) => tokens[p] = None
                      /\ ~torn => name # p /\ pem # p
                      /\ Has(p) => \E q \in Procs \ {p} : cmd[q] = "quickstart"
    BY DEF FailedLeavesNothing, NotRotatedByOthers
  <2>1. NotRotatedByOthers(p) => tokens[p] = None
    BY DEF Inv, OwnInv
  <2>2. ~torn => name # p /\ pem # p
    BY DEF Inv, CommandsInv, PairInv
  <2>3. Has(p) => \E q \in Procs \ {p} : cmd[q] = "quickstart"
    BY DEF Inv, OwnInv, DevicesInv, CommandsInv
  <2> QED
    BY <2>1, <2>2, <2>3
<1> QED
  BY <1>1, Invariance, PTL

\* Name and private key belong to one key whenever the lock is free
\* (save_local_credentials), but for the known exceptions.
THEOREM PairIsIntact == Spec => []PairIntact
<1>1. Inv => PairIntact
  BY DEF Inv, PairInv, PairIntact
<1> QED
  BY <1>1, Invariance, PTL

\* DeviceRegistry._reload: a registry that finds nothing new holds config.json.
THEOREM RegistryIsCurrent == Spec => []RegistryFollows
<1>1. Inv => RegistryFollows
  BY DEF Inv, RegistryInv, RegistryFollows
<1> QED
  BY <1>1, Invariance, PTL

=============================================================================
