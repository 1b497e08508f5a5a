----------------------------- MODULE FeedProofs -----------------------------
(***************************************************************************)
(* Proofs about Feed: refreshes are spaced, an answer is as young as it    *)
(* claims to be, and a healthy one is the last attempt's, for any number   *)
(* of threads and markets and any ages.                                    *)
(***************************************************************************)
EXTENDS Feed, TLAPS

-----------------------------------------------------------------------------
(* The inductive invariant *)

\* A thread has read the clock in the past; a value was asked for before it was
\* answered, and answered in the past.
PastInv ==
  /\ \A t \in Threads : now[t] <= real
  /\ \A c \in Components : comp[c].value # None =>
       /\ comp[c].asOf \in Int
       /\ comp[c].asOf <= comp[c].value
       /\ comp[c].value <= real

\* Whoever refreshes does so with the time of the last attempt, and the next
\* attempt is due a refresh later.
AttemptInv ==
  /\ \A t \in Threads : at[t] \in {"markets", "optional"} => now[t] = lastAttempt
  /\ \A t \in Threads : at[t] = "markets" => todo \subseteq Symbols
  /\ \A t \in Threads : at[t] = "optional" => todo \subseteq Optional
  /\ lastAttempt # None => nextRefresh = lastAttempt + Refresh

\* The refresh under way has not come to this component yet.
Awaited(c) == \E t \in Threads : at[t] = "markets" /\ c \in todo \cup {"spot"}

\* A required component is of the last attempt, in error, or still awaited.
LatestInv ==
  \A c \in Required : comp[c].error = "failed" \/ comp[c].asOf = lastAttempt \/ Awaited(c)

\* What every step preserves.
Inv == TypeOK /\ PastInv /\ AttemptInv /\ LatestInv

-----------------------------------------------------------------------------
(* Every step preserves it *)

\* Every step keeps the threads, the components and the lock typed.
LEMMA TypePreserved ==
  ASSUME TypeOK, AttemptInv, [Next]_vars
  PROVE  TypeOK'
<1> USE TimesAssumption, NamesAssumption
    DEF TypeOK, AttemptInv, Go, clock, Components, Required, Component, Moments, Times
<1>1. CASE UNCHANGED vars
  BY <1>1 DEF vars
<1>2. CASE Tick
  BY <1>2 DEF Tick
<1>3. CASE SetBack
  BY <1>3 DEF SetBack
<1>4. ASSUME NEW t \in Threads, Call(t)
      PROVE  TypeOK'
  BY <1>4 DEF Call
<1>5. ASSUME NEW t \in Threads, Enter(t)
      PROVE  TypeOK'
  BY <1>5 DEF Enter
<1>6. ASSUME NEW t \in Threads, Accounts(t)
      PROVE  TypeOK'
  BY <1>6 DEF Accounts, Fetched, Failed
<1>7. ASSUME NEW t \in Threads, RefreshDone(t)
      PROVE  TypeOK'
  BY <1>7 DEF RefreshDone
<1>8. ASSUME NEW t \in Threads, Assemble(t)
      PROVE  TypeOK'
  BY <1>8 DEF Assemble
<1>9. ASSUME NEW t \in Threads, NEW s \in Symbols, Market(t, s)
      PROVE  TypeOK'
  BY <1>9 DEF Market, Fetched, Failed
<1>10. ASSUME NEW t \in Threads, NEW c \in Optional, OptionalPart(t, c)
       PROVE  TypeOK'
  BY <1>10 DEF OptionalPart, Fetched, Failed
<1> QED
  BY <1>1, <1>2, <1>3, <1>4, <1>5, <1>6, <1>7, <1>8, <1>9, <1>10 DEF Next

\* Every step keeps times in their order.
LEMMA PastPreserved ==
  ASSUME TypeOK, PastInv, [Next]_vars
  PROVE  PastInv'
<1> USE TimesAssumption, NamesAssumption
    DEF TypeOK, PastInv, Go, clock, Components, Required, Component, Moments, Times
<1>1. CASE UNCHANGED vars
  BY <1>1 DEF vars
<1>2. CASE Tick
  BY <1>2 DEF Tick
<1>3. CASE SetBack
  BY <1>3 DEF SetBack
<1>4. ASSUME NEW t \in Threads, Call(t)
      PROVE  PastInv'
  BY <1>4 DEF Call
<1>5. ASSUME NEW t \in Threads, Enter(t)
      PROVE  PastInv'
  BY <1>5 DEF Enter
<1>6. ASSUME NEW t \in Threads, Accounts(t)
      PROVE  PastInv'
  BY <1>6 DEF Accounts, Fetched, Failed
<1>7. ASSUME NEW t \in Threads, RefreshDone(t)
      PROVE  PastInv'
  BY <1>7 DEF RefreshDone
<1>8. ASSUME NEW t \in Threads, Assemble(t)
      PROVE  PastInv'
  BY <1>8 DEF Assemble
<1>9. ASSUME NEW t \in Threads, NEW s \in Symbols, Market(t, s)
      PROVE  PastInv'
  BY <1>9 DEF Market, Fetched, Failed
<1>10. ASSUME NEW t \in Threads, NEW c \in Optional, OptionalPart(t, c)
       PROVE  PastInv'
  <2>1. CASE comp' = [comp EXCEPT ![c] = Fetched(t)]
    BY <1>10, <2>1 DEF OptionalPart, Fetched
  <2>2. CASE comp' = [comp EXCEPT ![c] = Failed(c)]
    BY <1>10, <2>2 DEF OptionalPart, Failed
  <2>3. CASE comp' = [comp EXCEPT ![c] = [value |-> None, asOf |-> None,
                                          error |-> "not_applicable"]]
    BY <1>10, <2>3 DEF OptionalPart
  <2> QED
    BY <1>10, <2>1, <2>2, <2>3 DEF OptionalPart
<1> QED
  BY <1>1, <1>2, <1>3, <1>4, <1>5, <1>6, <1>7, <1>8, <1>9, <1>10 DEF Next

\* Every step keeps the attempts and what they have brought.
LEMMA AttemptPreserved ==
  ASSUME TypeOK, AttemptInv, LatestInv, [Next]_vars
  PROVE  AttemptInv' /\ LatestInv'
<1> USE TimesAssumption, NamesAssumption
    DEF TypeOK, AttemptInv, LatestInv, Awaited, Go, clock, Components, Required,
        Component, Moments, Times
<1>1. CASE UNCHANGED vars
  BY <1>1 DEF vars
<1>2. CASE Tick
  BY <1>2 DEF Tick
<1>3. CASE SetBack
  BY <1>3 DEF SetBack
<1>4. ASSUME NEW t \in Threads, Call(t)
      PROVE  AttemptInv' /\ LatestInv'
  BY <1>4 DEF Call
<1>5. ASSUME NEW t \in Threads, Enter(t)
      PROVE  AttemptInv' /\ LatestInv'
  BY <1>5 DEF Enter
<1>6. ASSUME NEW t \in Threads, Accounts(t)
      PROVE  AttemptInv' /\ LatestInv'
  BY <1>6 DEF Accounts, Fetched, Failed
<1>7. ASSUME NEW t \in Threads, RefreshDone(t)
      PROVE  AttemptInv' /\ LatestInv'
  BY <1>7 DEF RefreshDone
<1>8. ASSUME NEW t \in Threads, Assemble(t)
      PROVE  AttemptInv' /\ LatestInv'
  BY <1>8 DEF Assemble
<1>9. ASSUME NEW t \in Threads, NEW s \in Symbols, Market(t, s)
      PROVE  AttemptInv' /\ LatestInv'
  BY <1>9 DEF Market, Fetched, Failed
<1>10. ASSUME NEW t \in Threads, NEW c \in Optional, OptionalPart(t, c)
       PROVE  AttemptInv' /\ LatestInv'
  BY <1>10 DEF OptionalPart, Fetched, Failed
<1> QED
  BY <1>1, <1>2, <1>3, <1>4, <1>5, <1>6, <1>7, <1>8, <1>9, <1>10 DEF Next

-----------------------------------------------------------------------------
(* The theorems *)

LEMMA InitInv == Init => Inv
<1> SUFFICES ASSUME Init PROVE Inv
  OBVIOUS
<1>1. TypeOK
  BY TimesAssumption
  DEF Init, TypeOK, NoValue, Components, Required, Component, Moments, Times
<1>2. PastInv /\ AttemptInv /\ LatestInv
  BY TimesAssumption
  DEF Init, PastInv, AttemptInv, LatestInv, NoValue, Components, Required
<1> QED
  BY <1>1, <1>2 DEF Inv

\* The inductive invariant holds of every state of the feed.
THEOREM Invariance == Spec => []Inv
<1>1. Inv /\ [Next]_vars => Inv'
  BY TypePreserved, PastPreserved, AttemptPreserved DEF Inv
<1> QED
  BY <1>1, InitInv, PTL DEF Spec

\* The threads, the components and the lock are in their places: whoever refreshes
\* or assembles holds the lock.
THEOREM TypeCorrect == Spec => []TypeOK
<1>1. Inv => TypeOK
  BY DEF Inv
<1> QED
  BY <1>1, Invariance, PTL

\* A value is no older than the age _component_meta computes for it, and what the
\* clock was set back.
LEMMA TrueAge ==
  ASSUME Inv, NEW c \in Components, comp[c].value # None
  PROVE  Age(c) \in Int /\ real - comp[c].value <= Age(c) + skew
<1>1. /\ comp[c].asOf \in Int /\ comp[c].asOf <= comp[c].value
      /\ comp[c].value \in Nat /\ real \in Nat /\ skew \in Int
  BY TimesAssumption DEF Inv, TypeOK, PastInv, Component, Moments, Times
<1> QED
  BY <1>1 DEF Age, clock

\* An answer of _assemble is as young as it says, however long the refresh took and
\* whatever the clock did (max_stale_seconds and stale_after_seconds).
THEOREM AgesAreHonest == Spec => []AgesHonest
<1>1. Inv => AgesHonest
  <2> SUFFICES ASSUME Inv, NEW c \in Components, Served(c) # None
               PROVE  /\ real - Served(c) <= MaxStale + skew
                      /\ (~MarkedStale /\ c \in Required)
                            => real - Served(c) <= StaleAfter + skew
    BY DEF AgesHonest
  <2>1. Served(c) = comp[c].value /\ comp[c].value # None /\ Age(c) <= MaxStale
    BY DEF Served, Available
  <2>2. Age(c) \in Int /\ real - comp[c].value <= Age(c) + skew
    BY <2>1, TrueAge
  <2>3. comp[c].value \in Int /\ real \in Int /\ skew \in Int
    BY <2>1, TimesAssumption DEF Inv, TypeOK, Component, Moments, Times
  <2>4. ~MarkedStale /\ c \in Required => Age(c) <= StaleAfter
    BY <2>2, TimesAssumption DEF MarkedStale, Stale
  <2> QED
    BY <2>1, <2>2, <2>3, <2>4, TimesAssumption
<1> QED
  BY <1>1, Invariance, PTL

\* An answer without staleness and errors is the last attempt's, part for part.
THEOREM HealthyIsLatest == Spec => []HealthyMeansLatest
<1>1. Inv => HealthyMeansLatest
  BY DEF Inv, TypeOK, LatestInv, Awaited, HealthyMeansLatest, MarkedDegraded, Components
<1> QED
  BY <1>1, Invariance, PTL

\* get_feed and _refresh: attempts are refresh_seconds apart on the clock, however
\* many threads find the feed due at once.
THEOREM Spaced == Spec => RefreshesSpaced
<1>1. Inv /\ [Next]_vars
        => [lastAttempt' # lastAttempt /\ lastAttempt # None
              => lastAttempt' >= lastAttempt + Refresh]_vars
  <2> SUFFICES ASSUME Inv, Next, lastAttempt' # lastAttempt, lastAttempt # None
               PROVE  lastAttempt' >= lastAttempt + Refresh
    BY DEF vars
  <2>1. PICK t \in Threads : Enter(t)
    BY DEF Next, Call, Accounts, RefreshDone, Assemble, Market, OptionalPart, Tick, SetBack
  <2>2. lastAttempt' = now[t] /\ now[t] >= nextRefresh
    BY <2>1 DEF Enter
  <2> QED
    BY <2>2 DEF Inv, AttemptInv
<1> QED
  BY <1>1, Invariance, PTL DEF Spec, RefreshesSpaced

=============================================================================
