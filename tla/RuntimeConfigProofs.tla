------------------------- MODULE RuntimeConfigProofs -------------------------
(***************************************************************************)
(* Proofs about RuntimeConfig: what the display shows as pending was       *)
(* submitted, what was erased does not come back, and a promotion that is  *)
(* cut short can be completed, for any number of setups, failing writes,   *)
(* power cuts and requests.                                                *)
(***************************************************************************)
EXTENDS RuntimeConfig, TLAPS

-----------------------------------------------------------------------------
(* The inductive invariant *)

\* A job belongs to the task that waits for its end; without one, or before
\* Initialize has returned, nobody waits.
JobInv ==
  /\ job.op = "none" => job = NoJob
  /\ job.op = "boot" => ~on
  /\ ~on => /\ job.op \in {"none", "boot"}
            /\ config = Blank /\ staged = None /\ portal = Idle /\ fetch = Idle
            /\ reset = "none"
  /\ job.op \in {"stage", "save"} => portal.pc = "saving"
  /\ job.op = "save" => job.for = Direct
  /\ job.op = "stage" => /\ job.for = portal.for /\ job.for \in Setups
                         /\ config.pending = None /\ staged = None
  /\ job.op = "commit" => /\ portal.pc = "commit"
                          /\ job.for = staged /\ staged # None
  /\ job.op = "promote" => job.for = config.pending /\ config.pending # None

\* A staged setup is the one of the form that the portal is busy with.
StagedInv ==
  /\ portal.pc \in {"close", "answer", "commit"} => portal.for \in Setups
  /\ portal.pc = "commit" => portal.for \in answered
  /\ staged # None =>
       /\ portal.pc \in {"close", "answer", "commit", "undo"}
       /\ staged = portal.for
       /\ config.pending = None

\* The commit marker stands beside keys of an answered setup only; staging takes
\* it away before it writes the first key.
MarkerInv ==
  /\ flash["pending_state"] = "committed"
       => \A k \in PendingKeys : flash[k] \in answered \cup {None}
  /\ job.op = "stage" /\ ~job.failed /\ job.next > 6
       => flash["pending_state"] # "committed"
  /\ staged # None => \A k \in PendingKeys : flash[k] \in {staged, None}
  /\ job.op = "stage" /\ ~job.failed =>
       /\ job.next > 1 => flash["pending_url"] \in {job.for, None}
       /\ job.next > 2 => flash["pending_token"] \in {job.for, None}
       /\ job.next > 3 => flash["pending_id"] \in {job.for, None}
       /\ job.next > 4 => flash["pending_exp"] \in {job.for, None}

\* A setup that has lost a key is not whole, and nobody stages it again.
DroppedInv ==
  /\ \A s \in dropped : ~Whole(s)
  /\ job.op = "stage" =>
       /\ job.for \notin dropped
       /\ job.next < 6 => \A k \in PendingKeys : flash[k] # job.for
  /\ staged # None => staged \notin dropped \/ job.op = "clear"

\* What RAM has staged or pending is whole in flash, too, unless it is being
\* erased or the factory reset has come first.
WholeInv ==
  reset # "wiped" =>
    /\ job.op = "stage" /\ ~job.failed =>
         /\ job.next > 7 => flash["pending_url"] = job.for
         /\ job.next > 8 => flash["pending_id"] = job.for
         /\ job.next > 9 => flash["pending_token"] = job.for
         /\ job.next > 10 => flash["pending_exp"] = job.for
    /\ staged # None /\ job.op # "clear" => Whole(staged)
    /\ job.op = "commit" /\ ~job.failed /\ job.next > 1
         => flash["pending_state"] = "committed"
    /\ config.pending \notin bare \cup {None} =>
         /\ job.op \notin {"clear", "promote"} => Committed(config.pending)
         /\ job.op = "promote" /\ Writing =>
              /\ job.next < 5 => Committed(job.for)
              /\ job.next > 1 => flash["bridge_url"] = job.for
              /\ job.next > 2 => flash["device_id"] = job.for
              /\ job.next > 3 => flash["bridge_token"] = job.for

\* What every step preserves.
Inv == TypeOK /\ JobInv /\ StagedInv /\ PendingWasAnswered /\ MarkerInv /\ DroppedInv
       /\ WholeInv

-----------------------------------------------------------------------------
(* What a job writes *)

\* The assumptions, value by value.
LEMMA Assumed ==
  /\ None \notin Setups \cup {Direct, Old, "staged", "committed"}
  /\ Direct \notin Setups /\ Old \notin Setups /\ Direct # Old
  /\ MaxFaults \in Nat /\ MaxCrashes \in Nat /\ MaxRequests \in Nat
  /\ Former \subseteq Setups \cup {None}
BY RuntimeAssumption

\* ErasePending goes through the five pending keys.
LEMMA Erasing ==
  /\ Len(Erase) = 5
  /\ \A n \in 1..5 : Erase[n].value = None /\ Erase[n].key \in Keys \ ActiveKeys
  /\ Erase[1].key = "pending_url" /\ Erase[2].key = "pending_token"
  /\ Erase[3].key = "pending_id" /\ Erase[4].key = "pending_exp"
  /\ Erase[5].key = "pending_state"
BY DEF Erase, Write, Keys, ActiveKeys, PendingKeys

\* The bridge is written key by key.
LEMMA Activating ==
  ASSUME NEW b
  PROVE  /\ Len(SetActive(b)) = 3
         /\ \A n \in 1..3 : SetActive(b)[n].value = b /\ SetActive(b)[n].key \in ActiveKeys
         /\ SetActive(b)[1].key = "bridge_url" /\ SetActive(b)[2].key = "device_id"
         /\ SetActive(b)[3].key = "bridge_token"
BY DEF SetActive, Write, ActiveKeys

\* StagePendingProvisioning writes the marker and then the setup.
LEMMA Staging ==
  ASSUME NEW s
  PROVE  /\ Len(SetPending(s)) = 5
         /\ SetPending(s)[1] = Write("pending_state", "staged")
         /\ SetPending(s)[2] = Write("pending_url", s)
         /\ SetPending(s)[3] = Write("pending_id", s)
         /\ SetPending(s)[4] = Write("pending_token", s)
         /\ SetPending(s)[5] = Write("pending_exp", s)
BY DEF SetPending

\* The plan of each operation.
LEMMA Plans ==
  ASSUME NEW b
  PROVE  /\ Plan("none", b) = <<>>
         /\ Plan("boot", b) = Erase /\ Plan("clear", b) = Erase
         /\ Plan("save", b) = SetActive(b)
         /\ Plan("stage", b) = Erase \o SetPending(b)
         /\ Plan("commit", b) = <<Write("pending_state", "committed")>>
         /\ Plan("promote", b) = SetActive(b) \o Erase
BY DEF Plan

\* Two sequences of writes, one after the other.
LEMMA Joined ==
  ASSUME NEW S, NEW e \in Seq(S), NEW f \in Seq(S), NEW p, p = e \o f
  PROVE  /\ Len(p) = Len(e) + Len(f)
         /\ \A i \in 1..Len(e) : p[i] = e[i]
         /\ \A i \in 1..Len(f) : p[Len(e) + i] = f[i]
<1>1. /\ Len(p) = Len(e) + Len(f)
      /\ Len(e) \in Nat /\ Len(f) \in Nat
  OBVIOUS
<1>2. ASSUME NEW i \in 1..Len(e) PROVE p[i] = e[i]
  OBVIOUS
<1>3. ASSUME NEW i \in 1..Len(f) PROVE p[Len(e) + i] = f[i]
  OBVIOUS
<1> QED
  BY <1>1, <1>2, <1>3

\* Staging erases five keys and writes five.
LEMMA StagePlan ==
  ASSUME NEW s
  PROVE  /\ Len(Plan("stage", s)) = 10
         /\ \A n \in 1..5 : Plan("stage", s)[n] = Erase[n]
         /\ Plan("stage", s)[6] = Write("pending_state", "staged")
         /\ Plan("stage", s)[7] = Write("pending_url", s)
         /\ Plan("stage", s)[8] = Write("pending_id", s)
         /\ Plan("stage", s)[9] = Write("pending_token", s)
         /\ Plan("stage", s)[10] = Write("pending_exp", s)
<1> DEFINE S == {Erase[n] : n \in 1..5} \cup {SetPending(s)[n] : n \in 1..5}
<1>1. Erase \in Seq(S) /\ SetPending(s) \in Seq(S)
  <2>1. Erase = [k \in 1..5 |-> Erase[k]]
    BY DEF Erase
  <2>2. SetPending(s) = [k \in 1..5 |-> SetPending(s)[k]]
    BY DEF SetPending
  <2>3. /\ \A k \in 1..5 : Erase[k] \in S
        /\ \A k \in 1..5 : SetPending(s)[k] \in S
    OBVIOUS
  <2> HIDE DEF S
  <2> QED
    BY <2>1, <2>2, <2>3
<1>2. Plan("stage", s) = Erase \o SetPending(s)
  BY Plans
<1> HIDE DEF S
<1>3. /\ Len(Plan("stage", s)) = 10
      /\ \A n \in 1..5 : Plan("stage", s)[n] = Erase[n]
      /\ \A n \in 1..5 : Plan("stage", s)[5 + n] = SetPending(s)[n]
  <2>1. Len(Erase) = 5 /\ Len(SetPending(s)) = 5
    BY Erasing, Staging
  <2>2. /\ Len(Plan("stage", s)) = Len(Erase) + Len(SetPending(s))
        /\ \A n \in 1..Len(Erase) : Plan("stage", s)[n] = Erase[n]
        /\ \A n \in 1..Len(SetPending(s)) : Plan("stage", s)[Len(Erase) + n] = SetPending(s)[n]
    BY <1>1, <1>2, Joined
  <2> QED
    BY <2>1, <2>2
<1> QED
  BY <1>3, Staging

\* A promotion writes three keys and erases five.
LEMMA PromotePlan ==
  ASSUME NEW s
  PROVE  /\ Len(Plan("promote", s)) = 8
         /\ \A n \in 1..3 : Plan("promote", s)[n] = SetActive(s)[n]
         /\ \A n \in 4..8 : Plan("promote", s)[n] = Erase[n - 3]
<1> DEFINE S == {Erase[n] : n \in 1..5} \cup {SetActive(s)[n] : n \in 1..3}
<1>1. Erase \in Seq(S) /\ SetActive(s) \in Seq(S)
  <2>1. Erase = [k \in 1..5 |-> Erase[k]]
    BY DEF Erase
  <2>2. SetActive(s) = [k \in 1..3 |-> SetActive(s)[k]]
    BY DEF SetActive
  <2>3. /\ \A k \in 1..5 : Erase[k] \in S
        /\ \A k \in 1..3 : SetActive(s)[k] \in S
    OBVIOUS
  <2> HIDE DEF S
  <2> QED
    BY <2>1, <2>2, <2>3
<1>2. Plan("promote", s) = SetActive(s) \o Erase
  BY Plans
<1> HIDE DEF S
<1>3. /\ Len(Plan("promote", s)) = 8
      /\ \A n \in 1..3 : Plan("promote", s)[n] = SetActive(s)[n]
      /\ \A n \in 1..5 : Plan("promote", s)[3 + n] = Erase[n]
  <2>1. Len(SetActive(s)) = 3 /\ Len(Erase) = 5
    BY Erasing, Activating
  <2>2. /\ Len(Plan("promote", s)) = Len(SetActive(s)) + Len(Erase)
        /\ \A n \in 1..Len(SetActive(s)) : Plan("promote", s)[n] = SetActive(s)[n]
        /\ \A n \in 1..Len(Erase) : Plan("promote", s)[Len(SetActive(s)) + n] = Erase[n]
    BY <1>1, <1>2, Joined
  <2> QED
    BY <2>1, <2>2
<1>4. ASSUME NEW n \in 4..8 PROVE Plan("promote", s)[n] = Erase[n - 3]
  <2>1. n - 3 \in 1..5 /\ 3 + (n - 3) = n
    OBVIOUS
  <2> QED
    BY <1>3, <2>1
<1> QED
  BY <1>3, <1>4

\* The write that comes next.
LEMMA WritesNow ==
  ASSUME PlacesOK, Writing
  PROVE  /\ job.op # "none"
         /\ job.op \in {"boot", "clear"}
              => This.value = None /\ This.key \in Keys \ ActiveKeys
         /\ job.op = "save" => This.value = job.for /\ This.key \in ActiveKeys
         /\ job.op = "commit"
              => job.next = 1 /\ This.key = "pending_state" /\ This.value = "committed"
         /\ job.op = "stage" =>
              /\ job.next < 11
              /\ job.next < 6 => This.value = None /\ This.key \in Keys \ ActiveKeys
              /\ job.next = 1 => This.key = "pending_url"
              /\ job.next = 2 => This.key = "pending_token"
              /\ job.next = 3 => This.key = "pending_id"
              /\ job.next = 4 => This.key = "pending_exp"
              /\ job.next = 5 => This.key = "pending_state"
              /\ job.next = 6 => This.key = "pending_state" /\ This.value = "staged"
              /\ job.next = 7 => This.key = "pending_url" /\ This.value = job.for
              /\ job.next = 8 => This.key = "pending_id" /\ This.value = job.for
              /\ job.next = 9 => This.key = "pending_token" /\ This.value = job.for
              /\ job.next = 10 => This.key = "pending_exp" /\ This.value = job.for
         /\ job.op = "promote" =>
              /\ job.next < 4 => This.value = job.for
              /\ job.next = 1 => This.key = "bridge_url"
              /\ job.next = 2 => This.key = "device_id"
              /\ job.next = 3 => This.key = "bridge_token"
              /\ job.next > 3 => This.value = None /\ This.key \in Keys \ ActiveKeys
<1>1. job.next \in 1..11 /\ job.next <= Len(Plan(job.op, job.for))
  BY DEF PlacesOK, Writing, Length
<1>2. This = Plan(job.op, job.for)[job.next]
  BY DEF This
<1>3. job.op # "none"
  BY <1>1, Plans
<1>4. CASE job.op \in {"boot", "clear"}
  <2>1. Plan(job.op, job.for) = Erase
    BY <1>4, Plans
  <2>2. job.next \in 1..5 /\ This = Erase[job.next]
    BY <1>1, <1>2, <2>1, Erasing
  <2> QED
    BY <1>4, <2>2, Erasing
<1>5. CASE job.op = "save"
  <2>1. Plan(job.op, job.for) = SetActive(job.for)
    BY <1>5, Plans
  <2>2. job.next \in 1..3 /\ This = SetActive(job.for)[job.next]
    BY <1>1, <1>2, <2>1, Activating
  <2> QED
    BY <1>5, <2>2, Activating
<1>6. CASE job.op = "commit"
  BY <1>1, <1>2, <1>6, Plans DEF Write
<1>7. CASE job.op = "stage"
  <2>1. /\ job.next \in 1..10
        /\ job.next \in 1..5 => This = Erase[job.next]
        /\ job.next = 6 => This = Write("pending_state", "staged")
        /\ job.next = 7 => This = Write("pending_url", job.for)
        /\ job.next = 8 => This = Write("pending_id", job.for)
        /\ job.next = 9 => This = Write("pending_token", job.for)
        /\ job.next = 10 => This = Write("pending_exp", job.for)
    BY <1>1, <1>2, <1>7, StagePlan
  <2>2. CASE job.next \in 1..5
    BY <1>7, <2>1, <2>2, Erasing
  <2>3. CASE job.next \in 6..10
    BY <1>7, <2>1, <2>3 DEF Write
  <2> QED
    BY <2>1, <2>2, <2>3
<1>8. CASE job.op = "promote"
  BY <1>1, <1>2, <1>8, PromotePlan, Activating, Erasing
<1> QED
  BY <1>3, <1>4, <1>5, <1>6, <1>7, <1>8

\* How long a job is, and that one without an error has got there in the end.
LEMMA Lengths ==
  ASSUME PlacesOK
  PROVE  /\ Length \in 0..10
         /\ job.op = "stage" => Length = 10
         /\ job.op = "commit" => Length = 1
         /\ job.op = "promote" => Length = 8
         /\ ~Writing /\ ~job.failed => job.next > Length
         /\ job.op # "none" /\ job.next = 1 /\ ~job.failed => Writing
<1>1. job.op \in Ops /\ job.next \in 1..11
  BY DEF PlacesOK
<1>2. /\ Length \in 0..10
      /\ job.op = "stage" => Length = 10
      /\ job.op = "commit" => Length = 1
      /\ job.op = "promote" => Length = 8
      /\ job.op # "none" => Length > 0
  <2>1. /\ Len(Plan("none", job.for)) = 0 /\ Len(Plan("commit", job.for)) = 1
        /\ Len(Plan("boot", job.for)) = 5 /\ Len(Plan("clear", job.for)) = 5
        /\ Len(Plan("save", job.for)) = 3
    BY Plans, Erasing, Activating
  <2>2. Len(Plan("stage", job.for)) = 10 /\ Len(Plan("promote", job.for)) = 8
    BY StagePlan, PromotePlan
  <2> QED
    <3>1. /\ job.op = "none" => Length = 0
          /\ job.op = "commit" => Length = 1
          /\ job.op = "save" => Length = 3
          /\ job.op = "boot" => Length = 5
          /\ job.op = "clear" => Length = 5
          /\ job.op = "promote" => Length = 8
          /\ job.op = "stage" => Length = 10
      BY <2>1, <2>2, Zenon DEF Length
    <3> QED
      BY <1>1, <3>1 DEF Ops
<1> QED
  BY <1>1, <1>2 DEF Writing

-----------------------------------------------------------------------------
(* Every step preserves the invariant *)

\* A write, and a failing one, moves the job on and leaves it the task's.
LEMMA WriteSteps ==
  ASSUME PlacesOK, NvsWrite \/ NvsWriteFails \/ NvsOpenFails
  PROVE  /\ job' \in [op : Ops, by : {"none", "boot", "portal", "fetch", "reset"},
                      for : Bridges \cup {None}, next : 1..11, failed : BOOLEAN]
         /\ job'.op = job.op /\ job'.by = job.by /\ job'.for = job.for
         /\ job.op # "none" /\ job'.next > job.next
         /\ NvsWrite => job'.next = job.next + 1 /\ job'.failed = job.failed
         /\ ~NvsWrite => job'.failed = TRUE
<1>1. Writing
  BY DEF NvsWrite, NvsWriteFails, NvsOpenFails
<1>2. job.op # "none" /\ Length \in 0..10 /\ job.next <= Length
  BY <1>1, WritesNow, Lengths DEF Writing
<1>3. ASSUME NvsWrite
      PROVE  /\ job' \in [op : Ops, by : {"none", "boot", "portal", "fetch", "reset"},
                  for : Bridges \cup {None}, next : 1..11, failed : BOOLEAN]
             /\ job'.op = job.op /\ job'.by = job.by /\ job'.for = job.for
             /\ job'.next > job.next
  BY <1>2, <1>3 DEF NvsWrite, PlacesOK
<1>4. ASSUME NvsWriteFails
      PROVE  /\ job' \in [op : Ops, by : {"none", "boot", "portal", "fetch", "reset"},
                  for : Bridges \cup {None}, next : 1..11, failed : BOOLEAN]
             /\ job'.op = job.op /\ job'.by = job.by /\ job'.for = job.for
             /\ job'.next > job.next
  <2> DEFINE n == IF This.value = None THEN job.next + 1 ELSE Length + 1
  <2>1. n \in 1..11 /\ n > job.next
    BY <1>2 DEF PlacesOK
  <2>2. job' = [job EXCEPT !.failed = TRUE, !.next = n]
    BY <1>4 DEF NvsWriteFails
  <2> HIDE DEF n
  <2> QED
    BY <1>2, <2>1, <2>2 DEF PlacesOK
<1>5. ASSUME NvsOpenFails
      PROVE  /\ job' \in [op : Ops, by : {"none", "boot", "portal", "fetch", "reset"},
                  for : Bridges \cup {None}, next : 1..11, failed : BOOLEAN]
             /\ job'.op = job.op /\ job'.by = job.by /\ job'.for = job.for
             /\ job'.next > job.next
  <2> DEFINE n == Length + 1
  <2>1. n \in 1..11 /\ n > job.next
    BY <1>2 DEF PlacesOK
  <2>2. job' = [job EXCEPT !.failed = TRUE, !.next = n]
    BY <1>5 DEF NvsOpenFails
  <2> HIDE DEF n
  <2> QED
    BY <1>2, <2>1, <2>2 DEF PlacesOK
<1>6. ASSUME ~NvsWrite PROVE job'.failed = TRUE
  BY <1>2, <1>6 DEF NvsWriteFails, NvsOpenFails, PlacesOK
<1>7. ASSUME NvsWrite PROVE job'.next = job.next + 1 /\ job'.failed = job.failed
  BY <1>2, <1>7 DEF NvsWrite, PlacesOK
<1> QED
  BY <1>2, <1>3, <1>4, <1>5, <1>6, <1>7

\* A job starts at its first write.
LEMMA TakeSteps ==
  ASSUME NEW op \in Ops, NEW by \in {"none", "boot", "portal", "fetch", "reset"},
         NEW b \in Bridges \cup {None}, Takes(op, by, b)
  PROVE  /\ job = NoJob
         /\ job'.op = op /\ job'.by = by /\ job'.for = b
         /\ job'.next = 1 /\ job'.failed = FALSE
         /\ job' \in [op : Ops, by : {"none", "boot", "portal", "fetch", "reset"},
                      for : Bridges \cup {None}, next : 1..11, failed : BOOLEAN]
BY DEF Takes

\* Every step keeps the keys typed.
LEMMA FlashPreserved ==
  ASSUME TypeOK, JobInv, [Next]_vars
  PROVE  FlashOK'
<1> USE Assumed DEF disk, held, ending, ram, history, bounds, env, TypeOK, FlashOK,
   PlacesOK, JobInv, Keys, ActiveKeys, PendingKeys, Bridges, States
<1>1. CASE UNCHANGED vars
  BY <1>1 DEF vars
<1>2. CASE NvsWrite
  <2>1. Writing
    BY <1>2 DEF NvsWrite
  <2>2. /\ This.key \in Keys
        /\ This.key \in ActiveKeys => This.value \in Bridges \cup {None}
        /\ This.key \in PendingKeys => This.value \in Setups \cup {None}
        /\ This.key = "pending_state" => This.value \in States \cup {None}
    <3> USE <2>1, WritesNow
    <3>1. CASE job.op \in {"boot", "clear", "commit"}
      BY <3>1
    <3>2. CASE job.op = "save"
      BY <3>2
    <3>3. CASE job.op = "promote"
      BY <3>3
    <3>4. CASE job.op = "stage"
      BY <3>4
    <3> QED
      BY <3>1, <3>2, <3>3, <3>4 DEF Ops
  <2>3. flash' = [flash EXCEPT ![This.key] = This.value]
    BY <1>2 DEF NvsWrite
  <2> QED
    BY <2>2, <2>3
<1>3. CASE NvsWriteFails
  BY <1>3 DEF NvsWriteFails
<1>4. CASE NvsOpenFails
  BY <1>4 DEF NvsOpenFails
<1>5. ASSUME NEW good \in BOOLEAN, BootErased(good)
      PROVE  FlashOK'
  BY <1>5 DEF BootErased, Ends, Loaded
<1>6. ASSUME NEW good \in BOOLEAN, StageEnds(good)
      PROVE  FlashOK'
  BY <1>6 DEF StageEnds, Ends, Goes
<1>7. ASSUME NEW good \in BOOLEAN, CommitEnds(good)
      PROVE  FlashOK'
  BY <1>7 DEF CommitEnds, Ends, Goes, Finishes
<1>8. ASSUME NEW good \in BOOLEAN, SaveEnds(good)
      PROVE  FlashOK'
  BY <1>8 DEF SaveEnds, Ends, Finishes
<1>9. ASSUME NEW good \in BOOLEAN, ClearEnds(good)
      PROVE  FlashOK'
  BY <1>9 DEF ClearEnds, Ends
<1>10. ASSUME NEW good \in BOOLEAN, PromoteEnds(good)
      PROVE  FlashOK'
  BY <1>10 DEF PromoteEnds, Ends
<1>11. CASE Boot
  BY <1>11 DEF Boot, Loaded
<1>12. CASE BootErases
  BY <1>12 DEF BootErases, Takes
<1>13. CASE PowerCut
  BY <1>13 DEF PowerCut, Stops
<1>14. CASE EspRestart
  BY <1>14 DEF EspRestart, Stops
<1>15. CASE Flashed
  BY <1>15 DEF Flashed
<1>16. ASSUME NEW s \in Setups, SaveSetup(s)
      PROVE  FlashOK'
  BY <1>16 DEF SaveSetup, RequestArrives, PortalAt, Takes
<1>17. ASSUME NEW s \in Setups, TimePasses(s)
      PROVE  FlashOK'
  BY <1>17 DEF TimePasses
<1>18. CASE CloseSetup
  BY <1>18 DEF CloseSetup, PortalAt, Goes
<1>19. CASE CloseFails
  BY <1>19 DEF CloseFails, PortalAt, Goes
<1>20. CASE Answer
  BY <1>20 DEF Answer, PortalAt, Goes
<1>21. CASE AnswerLost
  BY <1>21 DEF AnswerLost, PortalAt, Goes
<1>22. CASE Commit
  BY <1>22 DEF Commit, PortalAt, Takes, Goes
<1>23. CASE UndoSetup
  BY <1>23 DEF UndoSetup, PortalAt, Takes
<1>24. CASE SaveDirect
  BY <1>24 DEF SaveDirect, RequestArrives, PortalAt, Takes
<1>25. CASE Abort
  BY <1>25 DEF Abort, RequestArrives, PortalAt
<1>26. CASE FactoryReset
  BY <1>26 DEF FactoryReset, RequestArrives, PortalAt
<1>27. CASE ResetClears
  BY <1>27 DEF ResetClears, Takes
<1>28. CASE Wipe
  BY <1>28 DEF Wipe
<1>29. CASE ClaimStarts
  BY <1>29 DEF ClaimStarts
<1>30. CASE ClaimAnswered
  BY <1>30 DEF ClaimAnswered
<1>31. CASE Promote
  BY <1>31 DEF Promote, Takes
<1>32. CASE Drop
  BY <1>32 DEF Drop, Takes
<1> QED
  BY <1>1, <1>2, <1>3, <1>4, <1>5, <1>6, <1>7, <1>8, <1>9, <1>10, <1>11, <1>12, <1>13,
     <1>14, <1>15, <1>16, <1>17, <1>18, <1>19, <1>20, <1>21, <1>22, <1>23, <1>24,
     <1>25, <1>26, <1>27, <1>28, <1>29, <1>30, <1>31, <1>32 DEF Next, Ending, Starting,
     Saving, Claiming, Resetting

\* Every step keeps the tasks in their places.
LEMMA PlacesPreserved ==
  ASSUME TypeOK, JobInv, [Next]_vars
  PROVE  PlacesOK'
<1> USE Assumed DEF disk, held, ending, ram, history, bounds, env, TypeOK, FlashOK,
   PlacesOK, JobInv, Bridges, Ops, NoJob, Idle, Blank
<1>1. CASE UNCHANGED vars
  BY <1>1 DEF vars
<1>2. CASE NvsWrite
  BY <1>2, WriteSteps DEF NvsWrite
<1>3. CASE NvsWriteFails
  <2>1. /\ job' \in [op : Ops, by : {"none", "boot", "portal", "fetch", "reset"},
                  for : Bridges \cup {None}, next : 1..11, failed : BOOLEAN]
        /\ job'.by = job.by
    BY <1>3, WriteSteps
  <2>2. UNCHANGED <<held, portal, fetch, ending>>
    BY <1>3 DEF NvsWriteFails
  <2> QED
    BY <2>1, <2>2
<1>4. CASE NvsOpenFails
  <2>1. /\ job' \in [op : Ops, by : {"none", "boot", "portal", "fetch", "reset"},
                  for : Bridges \cup {None}, next : 1..11, failed : BOOLEAN]
        /\ job'.by = job.by
    BY <1>4, WriteSteps
  <2>2. UNCHANGED <<held, portal, fetch, ending>>
    BY <1>4 DEF NvsOpenFails
  <2> QED
    BY <2>1, <2>2
<1>5. ASSUME NEW good \in BOOLEAN, BootErased(good)
      PROVE  PlacesOK'
  BY <1>5 DEF BootErased, Ends, Loaded, ActiveKeys
<1>6. ASSUME NEW good \in BOOLEAN, StageEnds(good)
      PROVE  PlacesOK'
  BY <1>6 DEF StageEnds, Ends, Goes
<1>7. ASSUME NEW good \in BOOLEAN, CommitEnds(good)
      PROVE  PlacesOK'
  BY <1>7 DEF CommitEnds, Ends, Goes, Finishes
<1>8. ASSUME NEW good \in BOOLEAN, SaveEnds(good)
      PROVE  PlacesOK'
  BY <1>8 DEF SaveEnds, Ends, Finishes
<1>9. ASSUME NEW good \in BOOLEAN, ClearEnds(good)
      PROVE  PlacesOK'
  BY <1>9 DEF ClearEnds, Ends
<1>10. ASSUME NEW good \in BOOLEAN, PromoteEnds(good)
      PROVE  PlacesOK'
  BY <1>10 DEF PromoteEnds, Ends
<1>11. CASE Boot
  BY <1>11 DEF Boot, Loaded, ActiveKeys, PendingKeys
<1>12. CASE BootErases
  BY <1>12 DEF BootErases, Takes
<1>13. CASE PowerCut
  BY <1>13 DEF PowerCut, Stops
<1>14. CASE EspRestart
  BY <1>14 DEF EspRestart, Stops
<1>15. CASE Flashed
  BY <1>15 DEF Flashed
<1>16. ASSUME NEW s \in Setups, SaveSetup(s)
      PROVE  PlacesOK'
  <2>1. CASE config.pending = None /\ staged = None
    <3>1. Takes("stage", "portal", s)
      BY <1>16, <2>1 DEF SaveSetup
    <3>0. /\ s \in Bridges \cup {None} /\ "stage" \in Ops
          /\ "portal" \in {"none", "boot", "portal", "fetch", "reset"}
      BY <2>1
    <3>2. /\ job' \in [op : Ops, by : {"none", "boot", "portal", "fetch", "reset"},
                    for : Bridges \cup {None}, next : 1..11, failed : BOOLEAN]
          /\ job'.by = "portal"
      BY <3>0, <3>1, TakeSteps, Zenon
    <3>3. on /\ portal' = [pc |-> "saving", for |-> s] /\ UNCHANGED <<held, fetch, ending>>
      BY <1>16, <2>1 DEF SaveSetup, RequestArrives, PortalAt
    <3> QED
      BY <3>2, <3>3
  <2>2. CASE ~(config.pending = None /\ staged = None)
    <3>1. portal' = [pc |-> "undo", for |-> s] /\ UNCHANGED <<held, job, fetch, ending>>
      BY <1>16, <2>2 DEF SaveSetup
    <3> QED
      BY <3>1
  <2> QED
    BY <2>1, <2>2
<1>17. ASSUME NEW s \in Setups, TimePasses(s)
      PROVE  PlacesOK'
  BY <1>17 DEF TimePasses
<1>18. CASE CloseSetup
  BY <1>18 DEF CloseSetup, PortalAt, Goes
<1>19. CASE CloseFails
  BY <1>19 DEF CloseFails, PortalAt, Goes
<1>20. CASE Answer
  BY <1>20 DEF Answer, PortalAt, Goes
<1>21. CASE AnswerLost
  BY <1>21 DEF AnswerLost, PortalAt, Goes
<1>22. CASE Commit
  <2>1. CASE staged # None
    <3>1. Takes("commit", "portal", staged)
      BY <1>22, <2>1 DEF Commit
    <3>0. /\ staged \in Bridges \cup {None} /\ "commit" \in Ops
          /\ "portal" \in {"none", "boot", "portal", "fetch", "reset"}
      BY <2>1
    <3>2. /\ job' \in [op : Ops, by : {"none", "boot", "portal", "fetch", "reset"},
                    for : Bridges \cup {None}, next : 1..11, failed : BOOLEAN]
          /\ job'.by = "portal"
      BY <3>0, <3>1, TakeSteps, Zenon
    <3>3. on /\ UNCHANGED <<held, portal, fetch, ending>>
      BY <1>22, <2>1 DEF Commit, PortalAt, Goes
    <3> QED
      BY <3>2, <3>3
  <2>2. CASE ~(staged # None)
    BY <1>22, <2>2 DEF Commit, PortalAt, Goes
  <2> QED
    BY <2>1, <2>2
<1>23. CASE UndoSetup
  BY <1>23 DEF UndoSetup, PortalAt, Takes
<1>24. CASE SaveDirect
  BY <1>24 DEF SaveDirect, RequestArrives, PortalAt, Takes
<1>25. CASE Abort
  BY <1>25 DEF Abort, RequestArrives, PortalAt
<1>26. CASE FactoryReset
  BY <1>26 DEF FactoryReset, RequestArrives, PortalAt
<1>27. CASE ResetClears
  BY <1>27 DEF ResetClears, Takes
<1>28. CASE Wipe
  BY <1>28 DEF Wipe
<1>29. CASE ClaimStarts
  BY <1>29 DEF ClaimStarts
<1>30. CASE ClaimAnswered
  BY <1>30 DEF ClaimAnswered
<1>31. CASE Promote
  <2>1. CASE config.pending # None
    <3>1. Takes("promote", "fetch", config.pending)
      BY <1>31, <2>1 DEF Promote
    <3>0. /\ config.pending \in Bridges \cup {None} /\ "promote" \in Ops
          /\ "fetch" \in {"none", "boot", "portal", "fetch", "reset"}
      BY <2>1
    <3>2. /\ job' \in [op : Ops, by : {"none", "boot", "portal", "fetch", "reset"},
                    for : Bridges \cup {None}, next : 1..11, failed : BOOLEAN]
          /\ job'.by = "fetch"
      BY <3>0, <3>1, TakeSteps, Zenon
    <3>3. fetch.pc = "promote" /\ UNCHANGED <<held, portal, fetch, ending>>
      BY <1>31, <2>1 DEF Promote, Takes
    <3> QED
      BY <3>2, <3>3
  <2>2. CASE ~(config.pending # None)
    BY <1>31, <2>2 DEF Promote, Takes
  <2> QED
    BY <2>1, <2>2
<1>32. CASE Drop
  BY <1>32 DEF Drop, Takes
<1> QED
  BY <1>1, <1>2, <1>3, <1>4, <1>5, <1>6, <1>7, <1>8, <1>9, <1>10, <1>11, <1>12, <1>13,
     <1>14, <1>15, <1>16, <1>17, <1>18, <1>19, <1>20, <1>21, <1>22, <1>23, <1>24,
     <1>25, <1>26, <1>27, <1>28, <1>29, <1>30, <1>31, <1>32 DEF Next, Ending, Starting,
     Saving, Claiming, Resetting

\* Every step keeps the flags.
LEMMA FlagsPreserved ==
  ASSUME FlagsOK, [Next]_vars
  PROVE  FlagsOK'
<1> USE DEF disk, held, ending, ram, history, bounds, env, FlagsOK
<1>1. CASE UNCHANGED vars
  BY <1>1, Zenon DEF vars
<1>2. CASE NvsWrite
  BY <1>2, Zenon DEF NvsWrite
<1>3. CASE NvsWriteFails
  BY <1>3, Zenon DEF NvsWriteFails
<1>4. CASE NvsOpenFails
  BY <1>4, Zenon DEF NvsOpenFails
<1>5. ASSUME NEW good \in BOOLEAN, BootErased(good)
      PROVE  FlagsOK'
  BY <1>5, Zenon DEF BootErased, Ends, Loaded
<1>6. ASSUME NEW good \in BOOLEAN, StageEnds(good)
      PROVE  FlagsOK'
  BY <1>6, Zenon DEF StageEnds, Ends, Goes
<1>7. ASSUME NEW good \in BOOLEAN, CommitEnds(good)
      PROVE  FlagsOK'
  BY <1>7, Zenon DEF CommitEnds, Ends, Goes, Finishes
<1>8. ASSUME NEW good \in BOOLEAN, SaveEnds(good)
      PROVE  FlagsOK'
  BY <1>8, Zenon DEF SaveEnds, Ends, Finishes
<1>9. ASSUME NEW good \in BOOLEAN, ClearEnds(good)
      PROVE  FlagsOK'
  BY <1>9, Zenon DEF ClearEnds, Ends
<1>10. ASSUME NEW good \in BOOLEAN, PromoteEnds(good)
      PROVE  FlagsOK'
  BY <1>10, Zenon DEF PromoteEnds, Ends
<1>11. CASE Boot
  BY <1>11, Zenon DEF Boot, Loaded
<1>12. CASE BootErases
  BY <1>12, Zenon DEF BootErases, Takes
<1>13. CASE PowerCut
  BY <1>13, Zenon DEF PowerCut, Stops
<1>14. CASE EspRestart
  BY <1>14, Zenon DEF EspRestart, Stops
<1>15. CASE Flashed
  BY <1>15, Zenon DEF Flashed
<1>16. ASSUME NEW s \in Setups, SaveSetup(s)
      PROVE  FlagsOK'
  BY <1>16, Zenon DEF SaveSetup, RequestArrives, PortalAt, Takes
<1>17. ASSUME NEW s \in Setups, TimePasses(s)
      PROVE  FlagsOK'
  BY <1>17, Zenon DEF TimePasses
<1>18. CASE CloseSetup
  BY <1>18, Zenon DEF CloseSetup, PortalAt, Goes
<1>19. CASE CloseFails
  BY <1>19, Zenon DEF CloseFails, PortalAt, Goes
<1>20. CASE Answer
  BY <1>20, Zenon DEF Answer, PortalAt, Goes
<1>21. CASE AnswerLost
  BY <1>21, Zenon DEF AnswerLost, PortalAt, Goes
<1>22. CASE Commit
  BY <1>22, Zenon DEF Commit, PortalAt, Takes, Goes
<1>23. CASE UndoSetup
  BY <1>23, Zenon DEF UndoSetup, PortalAt, Takes
<1>24. CASE SaveDirect
  BY <1>24, Zenon DEF SaveDirect, RequestArrives, PortalAt, Takes
<1>25. CASE Abort
  BY <1>25, Zenon DEF Abort, RequestArrives, PortalAt
<1>26. CASE FactoryReset
  BY <1>26, Zenon DEF FactoryReset, RequestArrives, PortalAt
<1>27. CASE ResetClears
  BY <1>27, Zenon DEF ResetClears, Takes
<1>28. CASE Wipe
  BY <1>28, Zenon DEF Wipe
<1>29. CASE ClaimStarts
  BY <1>29, Zenon DEF ClaimStarts
<1>30. CASE ClaimAnswered
  BY <1>30, Zenon DEF ClaimAnswered
<1>31. CASE Promote
  BY <1>31, Zenon DEF Promote, Takes
<1>32. CASE Drop
  BY <1>32, Zenon DEF Drop, Takes
<1> QED
  BY <1>1, <1>2, <1>3, <1>4, <1>5, <1>6, <1>7, <1>8, <1>9, <1>10, <1>11, <1>12, <1>13,
     <1>14, <1>15, <1>16, <1>17, <1>18, <1>19, <1>20, <1>21, <1>22, <1>23, <1>24,
     <1>25, <1>26, <1>27, <1>28, <1>29, <1>30, <1>31, <1>32 DEF Next, Ending, Starting,
     Saving, Claiming, Resetting

\* Every step keeps the history typed and the bounds.
LEMMA HistoryPreserved ==
  ASSUME TypeOK, JobInv, StagedInv, [Next]_vars
  PROVE  HistoryOK'
<1> USE Assumed DEF disk, held, ending, ram, history, bounds, env, TypeOK,
   PlacesOK, HistoryOK, JobInv, StagedInv
<1>1. CASE UNCHANGED vars
  BY <1>1 DEF vars
<1>2. CASE NvsWrite
  BY <1>2 DEF NvsWrite
<1>3. CASE NvsWriteFails
  BY <1>3 DEF NvsWriteFails
<1>4. CASE NvsOpenFails
  BY <1>4 DEF NvsOpenFails
<1>5. ASSUME NEW good \in BOOLEAN, BootErased(good)
      PROVE  HistoryOK'
  BY <1>5 DEF BootErased, Ends, Loaded
<1>6. ASSUME NEW good \in BOOLEAN, StageEnds(good)
      PROVE  HistoryOK'
  BY <1>6 DEF StageEnds, Ends, Goes
<1>7. ASSUME NEW good \in BOOLEAN, CommitEnds(good)
      PROVE  HistoryOK'
  BY <1>7 DEF CommitEnds, Ends, Goes, Finishes
<1>8. ASSUME NEW good \in BOOLEAN, SaveEnds(good)
      PROVE  HistoryOK'
  BY <1>8 DEF SaveEnds, Ends, Finishes
<1>9. ASSUME NEW good \in BOOLEAN, ClearEnds(good)
      PROVE  HistoryOK'
  BY <1>9 DEF ClearEnds, Ends
<1>10. ASSUME NEW good \in BOOLEAN, PromoteEnds(good)
      PROVE  HistoryOK'
  BY <1>10 DEF PromoteEnds, Ends
<1>11. CASE Boot
  BY <1>11 DEF Boot, Loaded
<1>12. CASE BootErases
  BY <1>12 DEF BootErases, Takes
<1>13. CASE PowerCut
  BY <1>13 DEF PowerCut, Stops
<1>14. CASE EspRestart
  BY <1>14 DEF EspRestart, Stops
<1>15. CASE Flashed
  BY <1>15 DEF Flashed
<1>16. ASSUME NEW s \in Setups, SaveSetup(s)
      PROVE  HistoryOK'
  BY <1>16 DEF SaveSetup, RequestArrives, PortalAt, Takes
<1>17. ASSUME NEW s \in Setups, TimePasses(s)
      PROVE  HistoryOK'
  BY <1>17 DEF TimePasses
<1>18. CASE CloseSetup
  BY <1>18 DEF CloseSetup, PortalAt, Goes
<1>19. CASE CloseFails
  BY <1>19 DEF CloseFails, PortalAt, Goes
<1>20. CASE Answer
  BY <1>20 DEF Answer, PortalAt, Goes
<1>21. CASE AnswerLost
  BY <1>21 DEF AnswerLost, PortalAt, Goes
<1>22. CASE Commit
  BY <1>22 DEF Commit, PortalAt, Takes, Goes
<1>23. CASE UndoSetup
  BY <1>23 DEF UndoSetup, PortalAt, Takes
<1>24. CASE SaveDirect
  BY <1>24 DEF SaveDirect, RequestArrives, PortalAt, Takes
<1>25. CASE Abort
  BY <1>25 DEF Abort, RequestArrives, PortalAt
<1>26. CASE FactoryReset
  BY <1>26 DEF FactoryReset, RequestArrives, PortalAt
<1>27. CASE ResetClears
  BY <1>27 DEF ResetClears, Takes
<1>28. CASE Wipe
  BY <1>28 DEF Wipe
<1>29. CASE ClaimStarts
  BY <1>29 DEF ClaimStarts
<1>30. CASE ClaimAnswered
  BY <1>30 DEF ClaimAnswered
<1>31. CASE Promote
  BY <1>31 DEF Promote, Takes
<1>32. CASE Drop
  BY <1>32 DEF Drop, Takes
<1> QED
  BY <1>1, <1>2, <1>3, <1>4, <1>5, <1>6, <1>7, <1>8, <1>9, <1>10, <1>11, <1>12, <1>13,
     <1>14, <1>15, <1>16, <1>17, <1>18, <1>19, <1>20, <1>21, <1>22, <1>23, <1>24,
     <1>25, <1>26, <1>27, <1>28, <1>29, <1>30, <1>31, <1>32 DEF Next, Ending, Starting,
     Saving, Claiming, Resetting

\* Every step keeps a job to the task that waits for it.
LEMMA JobPreserved ==
  ASSUME TypeOK, JobInv, StagedInv, [Next]_vars
  PROVE  JobInv'
<1> USE Assumed DEF disk, held, ending, ram, history, bounds, env, TypeOK,
   PlacesOK, StagedInv, JobInv, Ops, NoJob, Idle, Blank
<1>1. CASE UNCHANGED vars
  BY <1>1 DEF vars
<1>2. CASE NvsWrite
  BY <1>2, WriteSteps DEF NvsWrite
<1>3. CASE NvsWriteFails
  BY <1>3, WriteSteps DEF NvsWriteFails
<1>4. CASE NvsOpenFails
  BY <1>4, WriteSteps DEF NvsOpenFails
<1>5. ASSUME NEW good \in BOOLEAN, BootErased(good)
      PROVE  JobInv'
  BY <1>5 DEF BootErased, Ends, Loaded
<1>6. ASSUME NEW good \in BOOLEAN, StageEnds(good)
      PROVE  JobInv'
  BY <1>6 DEF StageEnds, Ends, Goes
<1>7. ASSUME NEW good \in BOOLEAN, CommitEnds(good)
      PROVE  JobInv'
  BY <1>7 DEF CommitEnds, Ends, Goes, Finishes
<1>8. ASSUME NEW good \in BOOLEAN, SaveEnds(good)
      PROVE  JobInv'
  BY <1>8 DEF SaveEnds, Ends, Finishes
<1>9. ASSUME NEW good \in BOOLEAN, ClearEnds(good)
      PROVE  JobInv'
  BY <1>9 DEF ClearEnds, Ends
<1>10. ASSUME NEW good \in BOOLEAN, PromoteEnds(good)
      PROVE  JobInv'
  BY <1>10 DEF PromoteEnds, Ends
<1>11. CASE Boot
  BY <1>11 DEF Boot, Loaded
<1>12. CASE BootErases
  BY <1>12 DEF BootErases, Takes
<1>13. CASE PowerCut
  BY <1>13 DEF PowerCut, Stops
<1>14. CASE EspRestart
  BY <1>14 DEF EspRestart, Stops
<1>15. CASE Flashed
  BY <1>15 DEF Flashed
<1>16. ASSUME NEW s \in Setups, SaveSetup(s)
      PROVE  JobInv'
  BY <1>16 DEF SaveSetup, RequestArrives, PortalAt, Takes
<1>17. ASSUME NEW s \in Setups, TimePasses(s)
      PROVE  JobInv'
  BY <1>17 DEF TimePasses
<1>18. CASE CloseSetup
  BY <1>18 DEF CloseSetup, PortalAt, Goes
<1>19. CASE CloseFails
  BY <1>19 DEF CloseFails, PortalAt, Goes
<1>20. CASE Answer
  BY <1>20 DEF Answer, PortalAt, Goes
<1>21. CASE AnswerLost
  BY <1>21 DEF AnswerLost, PortalAt, Goes
<1>22. CASE Commit
  BY <1>22 DEF Commit, PortalAt, Takes, Goes
<1>23. CASE UndoSetup
  BY <1>23 DEF UndoSetup, PortalAt, Takes
<1>24. CASE SaveDirect
  BY <1>24 DEF SaveDirect, RequestArrives, PortalAt, Takes
<1>25. CASE Abort
  BY <1>25 DEF Abort, RequestArrives, PortalAt
<1>26. CASE FactoryReset
  BY <1>26 DEF FactoryReset, RequestArrives, PortalAt
<1>27. CASE ResetClears
  BY <1>27 DEF ResetClears, Takes
<1>28. CASE Wipe
  BY <1>28 DEF Wipe
<1>29. CASE ClaimStarts
  BY <1>29 DEF ClaimStarts
<1>30. CASE ClaimAnswered
  BY <1>30 DEF ClaimAnswered
<1>31. CASE Promote
  BY <1>31 DEF Promote, Takes
<1>32. CASE Drop
  BY <1>32 DEF Drop, Takes
<1> QED
  BY <1>1, <1>2, <1>3, <1>4, <1>5, <1>6, <1>7, <1>8, <1>9, <1>10, <1>11, <1>12, <1>13,
     <1>14, <1>15, <1>16, <1>17, <1>18, <1>19, <1>20, <1>21, <1>22, <1>23, <1>24,
     <1>25, <1>26, <1>27, <1>28, <1>29, <1>30, <1>31, <1>32 DEF Next, Ending, Starting,
     Saving, Claiming, Resetting

\* Every step keeps the staged setup to its form.
LEMMA StagedPreserved ==
  ASSUME TypeOK, JobInv, StagedInv, [Next]_vars
  PROVE  StagedInv'
<1> USE Assumed DEF disk, held, ending, ram, history, bounds, env, TypeOK,
   PlacesOK, StagedInv, JobInv, Idle, Blank
<1>1. CASE UNCHANGED vars
  BY <1>1 DEF vars
<1>2. CASE NvsWrite
  BY <1>2 DEF NvsWrite
<1>3. CASE NvsWriteFails
  BY <1>3 DEF NvsWriteFails
<1>4. CASE NvsOpenFails
  BY <1>4 DEF NvsOpenFails
<1>5. ASSUME NEW good \in BOOLEAN, BootErased(good)
      PROVE  StagedInv'
  BY <1>5 DEF BootErased, Ends, Loaded
<1>6. ASSUME NEW good \in BOOLEAN, StageEnds(good)
      PROVE  StagedInv'
  BY <1>6 DEF StageEnds, Ends, Goes
<1>7. ASSUME NEW good \in BOOLEAN, CommitEnds(good)
      PROVE  StagedInv'
  BY <1>7 DEF CommitEnds, Ends, Goes, Finishes
<1>8. ASSUME NEW good \in BOOLEAN, SaveEnds(good)
      PROVE  StagedInv'
  BY <1>8 DEF SaveEnds, Ends, Finishes
<1>9. ASSUME NEW good \in BOOLEAN, ClearEnds(good)
      PROVE  StagedInv'
  BY <1>9 DEF ClearEnds, Ends
<1>10. ASSUME NEW good \in BOOLEAN, PromoteEnds(good)
      PROVE  StagedInv'
  BY <1>10 DEF PromoteEnds, Ends
<1>11. CASE Boot
  BY <1>11 DEF Boot, Loaded
<1>12. CASE BootErases
  BY <1>12 DEF BootErases, Takes
<1>13. CASE PowerCut
  BY <1>13 DEF PowerCut, Stops
<1>14. CASE EspRestart
  BY <1>14 DEF EspRestart, Stops
<1>15. CASE Flashed
  BY <1>15 DEF Flashed
<1>16. ASSUME NEW s \in Setups, SaveSetup(s)
      PROVE  StagedInv'
  BY <1>16 DEF SaveSetup, RequestArrives, PortalAt, Takes
<1>17. ASSUME NEW s \in Setups, TimePasses(s)
      PROVE  StagedInv'
  BY <1>17 DEF TimePasses
<1>18. CASE CloseSetup
  BY <1>18 DEF CloseSetup, PortalAt, Goes
<1>19. CASE CloseFails
  BY <1>19 DEF CloseFails, PortalAt, Goes
<1>20. CASE Answer
  BY <1>20 DEF Answer, PortalAt, Goes
<1>21. CASE AnswerLost
  BY <1>21 DEF AnswerLost, PortalAt, Goes
<1>22. CASE Commit
  BY <1>22 DEF Commit, PortalAt, Takes, Goes
<1>23. CASE UndoSetup
  BY <1>23 DEF UndoSetup, PortalAt, Takes
<1>24. CASE SaveDirect
  BY <1>24 DEF SaveDirect, RequestArrives, PortalAt, Takes
<1>25. CASE Abort
  BY <1>25 DEF Abort, RequestArrives, PortalAt
<1>26. CASE FactoryReset
  BY <1>26 DEF FactoryReset, RequestArrives, PortalAt
<1>27. CASE ResetClears
  BY <1>27 DEF ResetClears, Takes
<1>28. CASE Wipe
  BY <1>28 DEF Wipe
<1>29. CASE ClaimStarts
  BY <1>29 DEF ClaimStarts
<1>30. CASE ClaimAnswered
  BY <1>30 DEF ClaimAnswered
<1>31. CASE Promote
  BY <1>31 DEF Promote, Takes
<1>32. CASE Drop
  BY <1>32 DEF Drop, Takes
<1> QED
  BY <1>1, <1>2, <1>3, <1>4, <1>5, <1>6, <1>7, <1>8, <1>9, <1>10, <1>11, <1>12, <1>13,
     <1>14, <1>15, <1>16, <1>17, <1>18, <1>19, <1>20, <1>21, <1>22, <1>23, <1>24,
     <1>25, <1>26, <1>27, <1>28, <1>29, <1>30, <1>31, <1>32 DEF Next, Ending, Starting,
     Saving, Claiming, Resetting

\* Every step keeps the pending setup among the answered ones.
LEMMA AnsweredPreserved ==
  ASSUME TypeOK, JobInv, StagedInv, MarkerInv, PendingWasAnswered, [Next]_vars
  PROVE  PendingWasAnswered'
<1> USE Assumed DEF disk, held, ending, ram, history, bounds, env, TypeOK,
   PlacesOK, JobInv, StagedInv, PendingWasAnswered, Blank
<1>1. CASE UNCHANGED vars
  BY <1>1 DEF vars
<1>2. CASE NvsWrite
  BY <1>2 DEF NvsWrite
<1>3. CASE NvsWriteFails
  BY <1>3 DEF NvsWriteFails
<1>4. CASE NvsOpenFails
  BY <1>4 DEF NvsOpenFails
<1>5. ASSUME NEW good \in BOOLEAN, BootErased(good)
      PROVE  PendingWasAnswered'
  BY <1>5 DEF BootErased, Ends, Loaded
<1>6. ASSUME NEW good \in BOOLEAN, StageEnds(good)
      PROVE  PendingWasAnswered'
  BY <1>6 DEF StageEnds, Ends, Goes
<1>7. ASSUME NEW good \in BOOLEAN, CommitEnds(good)
      PROVE  PendingWasAnswered'
  BY <1>7 DEF CommitEnds, Ends, Goes, Finishes
<1>8. ASSUME NEW good \in BOOLEAN, SaveEnds(good)
      PROVE  PendingWasAnswered'
  BY <1>8 DEF SaveEnds, Ends, Finishes
<1>9. ASSUME NEW good \in BOOLEAN, ClearEnds(good)
      PROVE  PendingWasAnswered'
  BY <1>9 DEF ClearEnds, Ends
<1>10. ASSUME NEW good \in BOOLEAN, PromoteEnds(good)
      PROVE  PendingWasAnswered'
  BY <1>10 DEF PromoteEnds, Ends
<1>11. CASE Boot
  BY <1>11 DEF Boot, Loaded, AnyPending, Usable, Committed, Whole, MarkerInv, PendingKeys
<1>12. CASE BootErases
  BY <1>12 DEF BootErases, Takes
<1>13. CASE PowerCut
  BY <1>13 DEF PowerCut, Stops
<1>14. CASE EspRestart
  BY <1>14 DEF EspRestart, Stops
<1>15. CASE Flashed
  BY <1>15 DEF Flashed
<1>16. ASSUME NEW s \in Setups, SaveSetup(s)
      PROVE  PendingWasAnswered'
  BY <1>16 DEF SaveSetup, RequestArrives, PortalAt, Takes
<1>17. ASSUME NEW s \in Setups, TimePasses(s)
      PROVE  PendingWasAnswered'
  BY <1>17 DEF TimePasses
<1>18. CASE CloseSetup
  BY <1>18 DEF CloseSetup, PortalAt, Goes
<1>19. CASE CloseFails
  BY <1>19 DEF CloseFails, PortalAt, Goes
<1>20. CASE Answer
  BY <1>20 DEF Answer, PortalAt, Goes
<1>21. CASE AnswerLost
  BY <1>21 DEF AnswerLost, PortalAt, Goes
<1>22. CASE Commit
  BY <1>22 DEF Commit, PortalAt, Takes, Goes
<1>23. CASE UndoSetup
  BY <1>23 DEF UndoSetup, PortalAt, Takes
<1>24. CASE SaveDirect
  BY <1>24 DEF SaveDirect, RequestArrives, PortalAt, Takes
<1>25. CASE Abort
  BY <1>25 DEF Abort, RequestArrives, PortalAt
<1>26. CASE FactoryReset
  BY <1>26 DEF FactoryReset, RequestArrives, PortalAt
<1>27. CASE ResetClears
  BY <1>27 DEF ResetClears, Takes
<1>28. CASE Wipe
  BY <1>28 DEF Wipe
<1>29. CASE ClaimStarts
  BY <1>29 DEF ClaimStarts
<1>30. CASE ClaimAnswered
  BY <1>30 DEF ClaimAnswered
<1>31. CASE Promote
  BY <1>31 DEF Promote, Takes
<1>32. CASE Drop
  BY <1>32 DEF Drop, Takes
<1> QED
  BY <1>1, <1>2, <1>3, <1>4, <1>5, <1>6, <1>7, <1>8, <1>9, <1>10, <1>11, <1>12, <1>13,
     <1>14, <1>15, <1>16, <1>17, <1>18, <1>19, <1>20, <1>21, <1>22, <1>23, <1>24,
     <1>25, <1>26, <1>27, <1>28, <1>29, <1>30, <1>31, <1>32 DEF Next, Ending, Starting,
     Saving, Claiming, Resetting

\* What NvsWrite does to the key that it writes, and to the others.
LEMMA Written ==
  ASSUME TypeOK, NvsWrite
  PROVE  /\ Writing /\ This.key \in Keys
         /\ flash'[This.key] = This.value
         /\ \A k \in Keys \ {This.key} : flash'[k] = flash[k]
         /\ job'.op = job.op /\ job'.for = job.for
         /\ job'.next = job.next + 1 /\ job'.failed = job.failed
         /\ UNCHANGED <<config, staged, portal, answered, bare, reset>>
<1> USE DEF TypeOK, PlacesOK, FlashOK
<1>1. Writing /\ flash' = [flash EXCEPT ![This.key] = This.value]
  BY DEF NvsWrite
<1>2. This.key \in Keys
  <2> USE <1>1, WritesNow DEF Keys, ActiveKeys, PendingKeys
  <2>1. CASE job.op = "stage"
    BY <2>1
  <2>2. CASE job.op # "stage"
    BY <2>2 DEF Ops
  <2> QED
    BY <2>1, <2>2
<1>3. /\ flash'[This.key] = This.value
      /\ \A k \in Keys \ {This.key} : flash'[k] = flash[k]
  BY <1>1, <1>2
<1>4. /\ job'.op = job.op /\ job'.for = job.for
      /\ job'.next = job.next + 1 /\ job'.failed = job.failed
  BY WriteSteps
<1>5. UNCHANGED <<config, staged, portal, answered, bare, reset>>
  BY DEF NvsWrite, held, ending
<1> QED
  BY <1>1, <1>2, <1>3, <1>4, <1>5

\* Every step keeps the commit marker to keys of answered setups.
LEMMA MarkerPreserved ==
  ASSUME TypeOK, JobInv, StagedInv, MarkerInv, [Next]_vars
  PROVE  MarkerInv'
<1> USE Assumed DEF disk, held, ending, ram, history, bounds, env, TypeOK,
   PlacesOK, FlashOK, JobInv, StagedInv, MarkerInv, NoJob
<1>1. CASE UNCHANGED vars
  BY <1>1 DEF vars
<1>2. CASE NvsWrite
  <2> USE <1>2, Written, WritesNow DEF Keys, ActiveKeys, PendingKeys, States
  <2>1. CASE job.op \in {"boot", "clear"}
    BY <2>1
  <2>2. CASE job.op = "save"
    BY <2>2
  <2>3. CASE job.op = "commit"
    BY <2>3
  <2>4. CASE job.op = "stage" /\ job.next < 6
    BY <2>4
  <2>5. CASE job.op = "stage" /\ job.next >= 6
    <3>1. job.next \in 6..10 /\ ~job.failed
      BY <2>5 DEF Writing
    <3>2. CASE job.next = 6
      BY <2>5, <3>1, <3>2
    <3>3. CASE job.next = 7
      BY <2>5, <3>1, <3>3
    <3>4. CASE job.next = 8
      BY <2>5, <3>1, <3>4
    <3>5. CASE job.next = 9
      BY <2>5, <3>1, <3>5
    <3>6. CASE job.next = 10
      BY <2>5, <3>1, <3>6
    <3> QED
      BY <3>1, <3>2, <3>3, <3>4, <3>5, <3>6
  <2>6. CASE job.op = "promote"
    BY <2>6
  <2> QED
    BY <2>1, <2>2, <2>3, <2>4, <2>5, <2>6 DEF Ops
<1>3. CASE NvsWriteFails
  BY <1>3, WriteSteps DEF NvsWriteFails
<1>4. CASE NvsOpenFails
  BY <1>4, WriteSteps DEF NvsOpenFails
<1>5. ASSUME NEW good \in BOOLEAN, BootErased(good)
      PROVE  MarkerInv'
  BY <1>5 DEF BootErased, Ends, Loaded
<1>6. ASSUME NEW good \in BOOLEAN, StageEnds(good)
      PROVE  MarkerInv'
  BY <1>6, Lengths DEF StageEnds, Ends, Goes, PendingKeys
<1>7. ASSUME NEW good \in BOOLEAN, CommitEnds(good)
      PROVE  MarkerInv'
  BY <1>7 DEF CommitEnds, Ends, Goes, Finishes
<1>8. ASSUME NEW good \in BOOLEAN, SaveEnds(good)
      PROVE  MarkerInv'
  BY <1>8 DEF SaveEnds, Ends, Finishes
<1>9. ASSUME NEW good \in BOOLEAN, ClearEnds(good)
      PROVE  MarkerInv'
  BY <1>9 DEF ClearEnds, Ends
<1>10. ASSUME NEW good \in BOOLEAN, PromoteEnds(good)
      PROVE  MarkerInv'
  BY <1>10 DEF PromoteEnds, Ends
<1>11. CASE Boot
  BY <1>11 DEF Boot, Loaded
<1>12. CASE BootErases
  BY <1>12 DEF BootErases, Takes
<1>13. CASE PowerCut
  BY <1>13 DEF PowerCut, Stops
<1>14. CASE EspRestart
  BY <1>14 DEF EspRestart, Stops
<1>15. CASE Flashed
  BY <1>15 DEF Flashed
<1>16. ASSUME NEW s \in Setups, SaveSetup(s)
      PROVE  MarkerInv'
  BY <1>16 DEF SaveSetup, RequestArrives, PortalAt, Takes
<1>17. ASSUME NEW s \in Setups, TimePasses(s)
      PROVE  MarkerInv'
  BY <1>17 DEF TimePasses
<1>18. CASE CloseSetup
  BY <1>18 DEF CloseSetup, PortalAt, Goes
<1>19. CASE CloseFails
  BY <1>19 DEF CloseFails, PortalAt, Goes
<1>20. CASE Answer
  BY <1>20 DEF Answer, PortalAt, Goes
<1>21. CASE AnswerLost
  BY <1>21 DEF AnswerLost, PortalAt, Goes
<1>22. CASE Commit
  BY <1>22 DEF Commit, PortalAt, Takes, Goes
<1>23. CASE UndoSetup
  BY <1>23 DEF UndoSetup, PortalAt, Takes
<1>24. CASE SaveDirect
  BY <1>24 DEF SaveDirect, RequestArrives, PortalAt, Takes
<1>25. CASE Abort
  BY <1>25 DEF Abort, RequestArrives, PortalAt
<1>26. CASE FactoryReset
  BY <1>26 DEF FactoryReset, RequestArrives, PortalAt
<1>27. CASE ResetClears
  BY <1>27 DEF ResetClears, Takes
<1>28. CASE Wipe
  BY <1>28 DEF Wipe, Keys, PendingKeys
<1>29. CASE ClaimStarts
  BY <1>29 DEF ClaimStarts
<1>30. CASE ClaimAnswered
  BY <1>30 DEF ClaimAnswered
<1>31. CASE Promote
  BY <1>31 DEF Promote, Takes
<1>32. CASE Drop
  BY <1>32 DEF Drop, Takes
<1> QED
  BY <1>1, <1>2, <1>3, <1>4, <1>5, <1>6, <1>7, <1>8, <1>9, <1>10, <1>11, <1>12, <1>13,
     <1>14, <1>15, <1>16, <1>17, <1>18, <1>19, <1>20, <1>21, <1>22, <1>23, <1>24,
     <1>25, <1>26, <1>27, <1>28, <1>29, <1>30, <1>31, <1>32 DEF Next, Ending, Starting,
     Saving, Claiming, Resetting

\* Every step keeps what has lost a key from being whole again.
LEMMA DroppedPreserved ==
  ASSUME TypeOK, JobInv, StagedInv, DroppedInv, [Next]_vars
  PROVE  DroppedInv'
<1> USE Assumed DEF disk, held, ending, ram, history, bounds, env, TypeOK,
   PlacesOK, FlashOK, JobInv, StagedInv, DroppedInv, HistoryOK, Whole, NoJob, PendingKeys
<1>1. CASE UNCHANGED vars
  BY <1>1 DEF vars
<1>2. CASE NvsWrite
  <2> USE <1>2, Written, WritesNow DEF NvsWrite, Keys, ActiveKeys
  <2>1. CASE job.op \in {"boot", "clear"}
    BY <2>1
  <2>2. CASE job.op = "save"
    BY <2>2
  <2>3. CASE job.op = "commit"
    BY <2>3
  <2>4. CASE job.op = "stage" /\ job.next < 6
    BY <2>4
  <2>5. CASE job.op = "stage" /\ job.next >= 6
    <3>1. job.next \in 6..10 /\ ~job.failed
      BY <2>5 DEF Writing
    <3>2. CASE job.next = 6
      BY <2>5, <3>1, <3>2
    <3>3. CASE job.next = 7
      BY <2>5, <3>1, <3>3
    <3>4. CASE job.next = 8
      BY <2>5, <3>1, <3>4
    <3>5. CASE job.next = 9
      BY <2>5, <3>1, <3>5
    <3>6. CASE job.next = 10
      BY <2>5, <3>1, <3>6
    <3> QED
      BY <3>1, <3>2, <3>3, <3>4, <3>5, <3>6
  <2>6. CASE job.op = "promote"
    BY <2>6
  <2> QED
    BY <2>1, <2>2, <2>3, <2>4, <2>5, <2>6 DEF Ops
<1>3. CASE NvsWriteFails
  <2>1. /\ job'.op = job.op /\ job'.for = job.for
        /\ job'.next > job.next /\ job'.next \in 1..11
    BY <1>3, WriteSteps
  <2>2. UNCHANGED <<flash, dropped, staged>>
    BY <1>3 DEF NvsWriteFails
  <2> QED
    BY <2>1, <2>2
<1>4. CASE NvsOpenFails
  BY <1>4, WriteSteps DEF NvsOpenFails
<1>5. ASSUME NEW good \in BOOLEAN, BootErased(good)
      PROVE  DroppedInv'
  BY <1>5 DEF BootErased, Ends, Loaded
<1>6. ASSUME NEW good \in BOOLEAN, StageEnds(good)
      PROVE  DroppedInv'
  BY <1>6 DEF StageEnds, Ends, Goes
<1>7. ASSUME NEW good \in BOOLEAN, CommitEnds(good)
      PROVE  DroppedInv'
  BY <1>7 DEF CommitEnds, Ends, Goes, Finishes
<1>8. ASSUME NEW good \in BOOLEAN, SaveEnds(good)
      PROVE  DroppedInv'
  BY <1>8 DEF SaveEnds, Ends, Finishes
<1>9. ASSUME NEW good \in BOOLEAN, ClearEnds(good)
      PROVE  DroppedInv'
  BY <1>9 DEF ClearEnds, Ends
<1>10. ASSUME NEW good \in BOOLEAN, PromoteEnds(good)
      PROVE  DroppedInv'
  BY <1>10 DEF PromoteEnds, Ends
<1>11. CASE Boot
  BY <1>11 DEF Boot, Loaded
<1>12. CASE BootErases
  BY <1>12 DEF BootErases, Takes
<1>13. CASE PowerCut
  BY <1>13 DEF PowerCut, Stops
<1>14. CASE EspRestart
  BY <1>14 DEF EspRestart, Stops
<1>15. CASE Flashed
  BY <1>15 DEF Flashed
<1>16. ASSUME NEW s \in Setups, SaveSetup(s)
      PROVE  DroppedInv'
  BY <1>16 DEF SaveSetup, RequestArrives, PortalAt, Takes, Fresh, Keys
<1>17. ASSUME NEW s \in Setups, TimePasses(s)
      PROVE  DroppedInv'
  BY <1>17 DEF TimePasses
<1>18. CASE CloseSetup
  BY <1>18 DEF CloseSetup, PortalAt, Goes
<1>19. CASE CloseFails
  BY <1>19 DEF CloseFails, PortalAt, Goes
<1>20. CASE Answer
  BY <1>20 DEF Answer, PortalAt, Goes
<1>21. CASE AnswerLost
  BY <1>21 DEF AnswerLost, PortalAt, Goes
<1>22. CASE Commit
  BY <1>22 DEF Commit, PortalAt, Takes, Goes
<1>23. CASE UndoSetup
  BY <1>23 DEF UndoSetup, PortalAt, Takes
<1>24. CASE SaveDirect
  BY <1>24 DEF SaveDirect, RequestArrives, PortalAt, Takes
<1>25. CASE Abort
  BY <1>25 DEF Abort, RequestArrives, PortalAt
<1>26. CASE FactoryReset
  BY <1>26 DEF FactoryReset, RequestArrives, PortalAt
<1>27. CASE ResetClears
  BY <1>27 DEF ResetClears, Takes
<1>28. CASE Wipe
  BY <1>28 DEF Wipe, Keys
<1>29. CASE ClaimStarts
  BY <1>29 DEF ClaimStarts
<1>30. CASE ClaimAnswered
  BY <1>30 DEF ClaimAnswered
<1>31. CASE Promote
  BY <1>31 DEF Promote, Takes
<1>32. CASE Drop
  BY <1>32 DEF Drop, Takes
<1> QED
  BY <1>1, <1>2, <1>3, <1>4, <1>5, <1>6, <1>7, <1>8, <1>9, <1>10, <1>11, <1>12, <1>13,
     <1>14, <1>15, <1>16, <1>17, <1>18, <1>19, <1>20, <1>21, <1>22, <1>23, <1>24,
     <1>25, <1>26, <1>27, <1>28, <1>29, <1>30, <1>31, <1>32 DEF Next, Ending, Starting,
     Saving, Claiming, Resetting

\* A job that has failed outside an erasure, or before it, writes no more.
LEMMA Given ==
  ASSUME PlacesOK, JobInv, NvsWriteFails \/ NvsOpenFails, job.op = "promote", Writing'
  PROVE  job.next > 3
<1>1. /\ job'.op = "promote" /\ job'.for = job.for
      /\ job'.next \in 1..11
  BY WriteSteps
<1>2. Length' = 8 /\ Length = 8
  BY <1>1, PromotePlan DEF Length
<1>3. job'.next <= 8
  BY <1>2 DEF Writing
<1>4. job'.next # Length + 1
  BY <1>2, <1>3
<1>5. CASE NvsOpenFails
  BY <1>4, <1>5 DEF NvsOpenFails, PlacesOK
<1>6. CASE NvsWriteFails
  <2>1. This.value = None /\ Writing
    BY <1>4, <1>6 DEF NvsWriteFails, PlacesOK
  <2> QED
    BY <2>1, WritesNow DEF PlacesOK, JobInv
<1> QED
  BY <1>5, <1>6

\* A job that nobody touches is at the same write.
LEMMA SameWriting ==
  ASSUME UNCHANGED job
  PROVE  Writing' = Writing
BY Zenon DEF Writing, Length, This

\* Every step keeps whole what RAM has staged or pending.
LEMMA WholePreserved ==
  ASSUME TypeOK, JobInv, StagedInv, WholeInv, [Next]_vars
  PROVE  WholeInv'
<1> USE Assumed, SameWriting DEF disk, held, ending, ram, history, bounds, env,
   TypeOK, PlacesOK, FlashOK, JobInv, StagedInv, WholeInv, Committed, Whole, NoJob, Blank,
   PendingKeys
<1>1. CASE UNCHANGED vars
  BY <1>1 DEF vars
<1>2. CASE NvsWrite
  <2> USE <1>2, Written, WritesNow DEF Keys, ActiveKeys
  <2>1. CASE job.op \in {"boot", "clear"}
    BY <2>1
  <2>2. CASE job.op = "save"
    BY <2>2
  <2>3. CASE job.op = "commit"
    BY <2>3
  <2>4. CASE job.op = "stage" /\ job.next < 6
    BY <2>4
  <2>5. CASE job.op = "stage" /\ job.next >= 6
    <3>1. job.next \in 6..10 /\ ~job.failed
      BY <2>5 DEF Writing
    <3>2. CASE job.next = 6
      BY <2>5, <3>1, <3>2
    <3>3. CASE job.next = 7
      BY <2>5, <3>1, <3>3
    <3>4. CASE job.next = 8
      BY <2>5, <3>1, <3>4
    <3>5. CASE job.next = 9
      BY <2>5, <3>1, <3>5
    <3>6. CASE job.next = 10
      BY <2>5, <3>1, <3>6
    <3> QED
      BY <3>1, <3>2, <3>3, <3>4, <3>5, <3>6
  <2>6. CASE job.op = "promote"
    BY <2>6
  <2> QED
    BY <2>1, <2>2, <2>3, <2>4, <2>5, <2>6 DEF Ops
<1>3. CASE NvsWriteFails
  <2>1. /\ job'.op = job.op /\ job'.for = job.for /\ job'.failed = TRUE
        /\ job'.next > job.next /\ job'.next \in 1..11
    BY <1>3, WriteSteps DEF NvsWriteFails, NvsWrite
  <2>2. UNCHANGED <<flash, config, staged, bare, reset>>
    BY <1>3 DEF NvsWriteFails
  <2>3. job.op = "promote" /\ Writing' => job.next > 3 /\ Writing
    BY <1>3, Given DEF NvsWriteFails
  <2> QED
    BY <2>1, <2>2, <2>3
<1>4. CASE NvsOpenFails
  <2>1. /\ job'.op = job.op /\ job'.for = job.for /\ job'.failed = TRUE
        /\ job'.next > job.next /\ job'.next \in 1..11
    BY <1>4, WriteSteps DEF NvsOpenFails, NvsWrite
  <2>2. UNCHANGED <<flash, config, staged, bare, reset>>
    BY <1>4 DEF NvsOpenFails
  <2>3. job.op = "promote" /\ Writing' => job.next > 3 /\ Writing
    BY <1>4, Given DEF NvsOpenFails
  <2> QED
    BY <2>1, <2>2, <2>3
<1>5. ASSUME NEW good \in BOOLEAN, BootErased(good)
      PROVE  WholeInv'
  BY <1>5 DEF BootErased, Ends, Loaded
<1>6. ASSUME NEW good \in BOOLEAN, StageEnds(good)
      PROVE  WholeInv'
  BY <1>6, Lengths DEF StageEnds, Ends, Goes
<1>7. ASSUME NEW good \in BOOLEAN, CommitEnds(good)
      PROVE  WholeInv'
  BY <1>7, Lengths DEF CommitEnds, Ends, Goes, Finishes
<1>8. ASSUME NEW good \in BOOLEAN, SaveEnds(good)
      PROVE  WholeInv'
  BY <1>8 DEF SaveEnds, Ends, Finishes
<1>9. ASSUME NEW good \in BOOLEAN, ClearEnds(good)
      PROVE  WholeInv'
  BY <1>9 DEF ClearEnds, Ends
<1>10. ASSUME NEW good \in BOOLEAN, PromoteEnds(good)
      PROVE  WholeInv'
  BY <1>10 DEF PromoteEnds, Ends
<1>11. CASE Boot
  BY <1>11 DEF Boot, Loaded, AnyPending, Usable
<1>12. CASE BootErases
  BY <1>12 DEF BootErases, Takes
<1>13. CASE PowerCut
  BY <1>13 DEF PowerCut, Stops
<1>14. CASE EspRestart
  BY <1>14 DEF EspRestart, Stops
<1>15. CASE Flashed
  BY <1>15 DEF Flashed
<1>16. ASSUME NEW s \in Setups, SaveSetup(s)
      PROVE  WholeInv'
  BY <1>16 DEF SaveSetup, RequestArrives, PortalAt, Takes
<1>17. ASSUME NEW s \in Setups, TimePasses(s)
      PROVE  WholeInv'
  BY <1>17 DEF TimePasses
<1>18. CASE CloseSetup
  BY <1>18 DEF CloseSetup, PortalAt, Goes
<1>19. CASE CloseFails
  BY <1>19 DEF CloseFails, PortalAt, Goes
<1>20. CASE Answer
  BY <1>20 DEF Answer, PortalAt, Goes
<1>21. CASE AnswerLost
  BY <1>21 DEF AnswerLost, PortalAt, Goes
<1>22. CASE Commit
  BY <1>22 DEF Commit, PortalAt, Takes, Goes
<1>23. CASE UndoSetup
  BY <1>23 DEF UndoSetup, PortalAt, Takes
<1>24. CASE SaveDirect
  BY <1>24 DEF SaveDirect, RequestArrives, PortalAt, Takes
<1>25. CASE Abort
  BY <1>25 DEF Abort, RequestArrives, PortalAt
<1>26. CASE FactoryReset
  BY <1>26 DEF FactoryReset, RequestArrives, PortalAt
<1>27. CASE ResetClears
  BY <1>27 DEF ResetClears, Takes
<1>28. CASE Wipe
  BY <1>28 DEF Wipe
<1>29. CASE ClaimStarts
  BY <1>29 DEF ClaimStarts
<1>30. CASE ClaimAnswered
  BY <1>30 DEF ClaimAnswered
<1>31. CASE Promote
  BY <1>31 DEF Promote, Takes
<1>32. CASE Drop
  BY <1>32 DEF Drop, Takes
<1> QED
  BY <1>1, <1>2, <1>3, <1>4, <1>5, <1>6, <1>7, <1>8, <1>9, <1>10, <1>11, <1>12, <1>13,
     <1>14, <1>15, <1>16, <1>17, <1>18, <1>19, <1>20, <1>21, <1>22, <1>23, <1>24,
     <1>25, <1>26, <1>27, <1>28, <1>29, <1>30, <1>31, <1>32 DEF Next, Ending, Starting,
     Saving, Claiming, Resetting

-----------------------------------------------------------------------------
(* Theorems *)

\* It holds at the beginning.
LEMMA InitInv ==
  Init => Inv
<1> SUFFICES ASSUME Init PROVE Inv
  OBVIOUS
<1> USE Assumed DEF Init
<1>1. FlashOK
  BY DEF FlashOK, Keys, ActiveKeys, PendingKeys, Bridges, States
<1>2. PlacesOK
  BY DEF PlacesOK, Blank, NoJob, Idle, Ops
<1>3. FlagsOK
  BY Zenon DEF FlagsOK
<1>4. HistoryOK
  BY DEF HistoryOK
<1>5. JobInv /\ StagedInv /\ PendingWasAnswered
  BY DEF JobInv, StagedInv, PendingWasAnswered, NoJob, Idle, Blank
<1>6. MarkerInv /\ DroppedInv /\ WholeInv
  BY DEF MarkerInv, DroppedInv, WholeInv, NoJob, Blank, PendingKeys, Keys
<1> QED
  BY <1>1, <1>2, <1>3, <1>4, <1>5, <1>6 DEF Inv, TypeOK

\* The inductive invariant holds of every state of the display's configuration.
THEOREM Invariance == Spec => []Inv
<1>1. Inv /\ [Next]_vars => Inv'
  <2> SUFFICES ASSUME Inv, [Next]_vars PROVE Inv'
    OBVIOUS
  <2>1. TypeOK'
    BY FlashPreserved, PlacesPreserved, FlagsPreserved, HistoryPreserved DEF Inv, TypeOK
  <2>2. JobInv' /\ StagedInv' /\ PendingWasAnswered'
    BY JobPreserved, StagedPreserved, AnsweredPreserved DEF Inv
  <2>3. MarkerInv' /\ DroppedInv' /\ WholeInv'
    BY MarkerPreserved, DroppedPreserved, WholePreserved DEF Inv
  <2> QED
    BY <2>1, <2>2, <2>3 DEF Inv
<1> QED
  BY <1>1, InitInv, PTL DEF Spec

\* Flash, RAM, the job and the tasks keep their types, and no job outlives the task
\* that waits for it.
THEOREM TypeCorrect == Spec => []TypeOK
<1>1. Inv => TypeOK
  BY DEF Inv
<1> QED
  BY <1>1, Invariance, PTL

\* The display claims no setup whose submission was not answered: a staged one stays
\* invisible until CommitPendingProvisioning, over any number of power cuts.
THEOREM PendingIsAnswered == Spec => []PendingWasAnswered
<1>1. Inv => PendingWasAnswered
  BY DEF Inv
<1> QED
  BY <1>1, Invariance, PTL

\* A setup that ErasePending has come to is gone for good, over restarts and failing
\* writes.
THEOREM ErasedIsGone == Spec => ErasedStaysErased
<1>1. Inv /\ [Next]_vars
        => [config'.pending \notin {config.pending, None}
              => config'.pending \notin dropped]_vars
  <2> SUFFICES ASSUME Inv, Next, config'.pending \notin {config.pending, None}
               PROVE  config'.pending \notin dropped
    BY DEF vars
  <2> USE DEF Inv, TypeOK, PlacesOK, JobInv, DroppedInv, held
  <2>1. CASE Boot
    BY <2>1 DEF Boot, Loaded, AnyPending, Usable, Committed, Whole, PendingKeys
  <2>2. ASSUME NEW good \in BOOLEAN, CommitEnds(good)
        PROVE  config'.pending \notin dropped
    BY <2>2 DEF CommitEnds, Ends
  <2>3. ASSUME NEW good \in BOOLEAN,
               \/ BootErased(good) \/ StageEnds(good) \/ SaveEnds(good)
               \/ ClearEnds(good) \/ PromoteEnds(good)
        PROVE  FALSE
    BY <2>3 DEF BootErased, StageEnds, SaveEnds, ClearEnds, PromoteEnds, Loaded, Blank
  <2>4. CASE PowerCut \/ EspRestart
    BY <2>4 DEF PowerCut, EspRestart, Stops, Blank
  <2>5. ASSUME UNCHANGED config
        PROVE  FALSE
    BY <2>5
  <2>6. ASSUME NEW s \in Setups, SaveSetup(s) \/ TimePasses(s)
        PROVE  UNCHANGED config
    BY <2>6 DEF SaveSetup, TimePasses, ram
  <2>7. NvsWrite \/ NvsWriteFails \/ NvsOpenFails \/ BootErases \/ Flashed \/ Saving
        \/ CloseFails \/ AnswerLost \/ SaveDirect \/ Abort \/ FactoryReset \/ Claiming
        \/ ResetClears \/ Wipe => UNCHANGED config
    BY DEF NvsWrite, NvsWriteFails, NvsOpenFails, BootErases, Flashed, Saving, CloseSetup,
           Answer, Commit, UndoSetup, CloseFails, AnswerLost, SaveDirect, Abort,
           FactoryReset, Claiming, ClaimStarts, ClaimAnswered, Promote, Drop, ResetClears,
           Wipe, ram
  <2> QED
    BY <2>1, <2>2, <2>3, <2>4, <2>5, <2>6, <2>7 DEF Next, Ending, Starting, Resetting
<1> QED
  BY <1>1, Invariance, PTL DEF Spec, ErasedStaysErased

\* PromotePendingProvisioning may be cut short at any write: the next claim finds
\* the setup that completes it.
THEOREM PromotionResumes == Spec => PromotionCanResume
<1>1. Inv /\ [Next]_vars
        => [job.op = "promote" /\ reset # "wiped" /\ job.for \notin bare =>
              (Mixed' => \E s \in Setups :
                 flash'["bridge_url"] = s /\ Committed(s)')]_flash
  <2> SUFFICES ASSUME Inv, Next, flash' # flash,
                      job.op = "promote", reset # "wiped", job.for \notin bare, Mixed'
               PROVE  \E s \in Setups : flash'["bridge_url"] = s /\ Committed(s)'
    BY DEF vars, disk
  <2>1. NvsWrite \/ Wipe
    BY DEF Next, Ending, Starting, Saving, Claiming, Resetting, NvsWriteFails, NvsOpenFails,
           BootErased, StageEnds, CommitEnds, SaveEnds, ClearEnds, PromoteEnds, Ends, Boot,
           BootErases, PowerCut, EspRestart, Stops, Flashed, SaveSetup, TimePasses,
           CloseSetup, Answer, Commit, UndoSetup, CloseFails, AnswerLost,
           SaveDirect, Abort, FactoryReset, ResetClears, ClaimStarts, ClaimAnswered,
           Promote, Drop, disk
  <2>2. CASE Wipe
    BY <2>2 DEF Wipe, Mixed, Keys, ActiveKeys
  <2>3. CASE NvsWrite
    <3> USE DEF Inv, TypeOK, PlacesOK, JobInv, WholeInv
    <3>1. job.for \in Setups /\ job.for = config.pending /\ job.for # None
      OBVIOUS
    <3>2. /\ Writing /\ This.key \in Keys /\ flash'[This.key] = This.value
          /\ \A k \in Keys \ {This.key} : flash'[k] = flash[k]
      BY <2>3, Written
    <3>3. /\ job.next < 5 => Committed(job.for)
          /\ job.next > 1 => flash["bridge_url"] = job.for
          /\ job.next > 2 => flash["device_id"] = job.for
          /\ job.next > 3 => flash["bridge_token"] = job.for
      BY <3>1, <3>2
    <3>4. CASE job.next < 4
      BY <3>1, <3>2, <3>3, <3>4, WritesNow
      DEF Committed, Whole, Keys, ActiveKeys, PendingKeys
    <3>5. CASE job.next > 3
      BY <3>2, <3>3, <3>5, WritesNow DEF Mixed, Keys, ActiveKeys
    <3> QED
      BY <3>4, <3>5
  <2> QED
    BY <2>1, <2>2, <2>3
<1> QED
  BY <1>1, Invariance, PTL DEF Spec, PromotionCanResume

=============================================================================
