-------------------------------- MODULE Feed --------------------------------
(***************************************************************************)
(* FeedService: the components of the device feed, refreshed by whichever  *)
(* request thread finds them due while it holds the lock, kept when their  *)
(* refresh fails, and marked stale or removed by their age when the answer *)
(* is assembled.                                                           *)
(*                                                                         *)
(* A component's value is the moment at which the exchange answered; what  *)
(* it says is left out.  Ages are whole seconds, as int() makes them.  The *)
(* clock is time.time(), which may be set back.                            *)
(***************************************************************************)
EXTENDS Integers, FiniteSets

CONSTANTS
  Threads,      \* request threads in get_feed
  Symbols,      \* the configured markets
  Optional,     \* cfm, intx
  None,
  Refresh,      \* refresh_seconds
  StaleAfter,   \* stale_after_seconds
  MaxStale,     \* max_stale_seconds
  Jump,         \* by how much the clock is set back
  MaxTime       \* bound: how long the model runs

ASSUME TimesAssumption ==
  /\ Refresh \in Nat \ {0} /\ StaleAfter \in Nat /\ MaxStale \in Nat /\ StaleAfter <= MaxStale
  /\ Jump \in Nat \ {0} /\ MaxTime \in Nat /\ None \notin Int \cup Threads

\* A market, a product and the account are components of different names.
ASSUME NamesAssumption ==
  /\ "spot" \notin Symbols \cup Optional
  /\ Symbols \cap Optional = {}

VARIABLES
  real,         \* true time
  skew,         \* by how much the clock is behind it
  lock,         \* the thread that holds _lock
  at,           \* where each thread is
  now,          \* get_feed: the time it read before it took the lock
  todo,         \* markets the refresh under way still waits for
  comp,         \* the components
  priced,       \* the market values that the value of spot was computed with
  lastAttempt, nextRefresh

vars == <<real, skew, lock, at, now, todo, comp, priced, lastAttempt, nextRefresh>>

Required == Symbols \cup {"spot"}
Components == Required \cup Optional
Times == 0 .. MaxTime
Moments == Times \cup {None}
Component == [value : Moments, asOf : Int \cup {None},
              error : {"none", "failed", "not_applicable"}]

TypeOK ==
  /\ real \in Times /\ skew \in {0, Jump}
  /\ lock \in Threads \cup {None}
  /\ at \in [Threads -> {"idle", "wait", "markets", "optional", "assemble"}]
  /\ now \in [Threads -> Int]
  /\ todo \subseteq Components
  /\ comp \in [Components -> Component]
  /\ priced \in [Symbols -> Moments]
  /\ lastAttempt \in Int \cup {None} /\ nextRefresh \in Int
  /\ \A t \in Threads : (at[t] \in {"markets", "optional", "assemble"}) = (lock = t)

NoValue == [value |-> None, asOf |-> None, error |-> "none"]

Init ==
  /\ real = 0 /\ skew = 0 /\ lock = None
  /\ at = [t \in Threads |-> "idle"] /\ now = [t \in Threads |-> 0]
  /\ todo = {} /\ comp = [c \in Components |-> NoValue]
  /\ priced = [s \in Symbols |-> None]
  /\ lastAttempt = None /\ nextRefresh = 0

-----------------------------------------------------------------------------

clock == real - skew
Go(t, place) == at' = [at EXCEPT ![t] = place]

Fetched(t) == [value |-> real, asOf |-> now[t], error |-> "none"]

\* Mutant: a failure is only logged while a former value is there.
FailedQuietly(c) == IF comp[c].value = None THEN [comp[c] EXCEPT !.error = "failed"]
                                            ELSE comp[c]

Failed(c) == [comp[c] EXCEPT !.error = "failed"]

-----------------------------------------------------------------------------
(* get_feed *)

Call(t) ==
  /\ at[t] = "idle"
  /\ now' = [now EXCEPT ![t] = clock]
  /\ Go(t, "wait")
  /\ UNCHANGED <<real, skew, lock, todo, comp, priced, lastAttempt, nextRefresh>>

\* Mutant: the next refresh is due when this one has brought every market.
EnterUnscheduled(t) ==
  /\ at[t] = "wait" /\ lock = None
  /\ lock' = t
  /\ IF now[t] >= nextRefresh
       THEN /\ lastAttempt' = now[t] /\ todo' = Symbols
            /\ nextRefresh' = IF \A s \in Symbols : comp[s].error = "none"
                                THEN now[t] + Refresh ELSE nextRefresh
            /\ Go(t, "markets")
       ELSE Go(t, "assemble") /\ UNCHANGED <<lastAttempt, nextRefresh, todo>>
  /\ UNCHANGED <<real, skew, now, comp, priced>>

\* The thread has waited for the lock with the time it read before.
Enter(t) ==
  /\ at[t] = "wait" /\ lock = None
  /\ lock' = t
  /\ IF now[t] >= nextRefresh
       THEN /\ lastAttempt' = now[t] /\ nextRefresh' = now[t] + Refresh
            /\ todo' = Symbols
            /\ Go(t, "markets")
       ELSE Go(t, "assemble") /\ UNCHANGED <<lastAttempt, nextRefresh, todo>>
  /\ UNCHANGED <<real, skew, now, comp, priced>>

\* The pool's futures complete in any order; each has a price or an error.
Market(t, s) ==
  /\ at[t] = "markets" /\ s \in todo
  /\ todo' = todo \ {s}
  /\ \E new \in {Fetched(t), Failed(s)} : comp' = [comp EXCEPT ![s] = new]
  /\ UNCHANGED <<real, skew, lock, at, now, priced, lastAttempt, nextRefresh>>

\* list_accounts; holdings are valued with the last price of every market.
Accounts(t) ==
  /\ at[t] = "markets" /\ todo = {}
  /\ \/ /\ comp' = [comp EXCEPT !["spot"] = Fetched(t)]
        /\ priced' = [s \in Symbols |-> comp[s].value]
     \/ /\ comp' = [comp EXCEPT !["spot"] = Failed("spot")]
        /\ UNCHANGED priced
  /\ todo' = Optional
  /\ Go(t, "optional")
  /\ UNCHANGED <<real, skew, lock, now, lastAttempt, nextRefresh>>

\* cfm and intx: 403 and 404 say that the account has no such product.
OptionalPart(t, c) ==
  /\ at[t] = "optional" /\ c \in todo
  /\ todo' = todo \ {c}
  /\ \/ comp' = [comp EXCEPT ![c] = Fetched(t)]
     \/ comp' = [comp EXCEPT ![c] = Failed(c)]
     \/ comp' = [comp EXCEPT ![c] = [value |-> None, asOf |-> None,
                                     error |-> "not_applicable"]]
  /\ UNCHANGED <<real, skew, lock, at, now, priced, lastAttempt, nextRefresh>>

\* Mutant: the lock is released when the refresh is done.
RefreshDoneUnlocking(t) ==
  /\ at[t] = "optional" /\ todo = {}
  /\ Go(t, "assemble") /\ lock' = None
  /\ UNCHANGED <<real, skew, now, todo, comp, priced, lastAttempt, nextRefresh>>

RefreshDone(t) ==
  /\ at[t] = "optional" /\ todo = {}
  /\ Go(t, "assemble")
  /\ UNCHANGED <<real, skew, lock, now, todo, comp, priced, lastAttempt, nextRefresh>>

-----------------------------------------------------------------------------
(* _component_meta and _assemble, with the clock as it is by then *)

Age(c) == IF clock < comp[c].asOf THEN 0 ELSE clock - comp[c].asOf

\* Mutant: an expired value is only marked.
AvailableAtAnyAge(c) == comp[c].value # None

Available(c) == comp[c].value # None /\ Age(c) <= MaxStale
Stale(c) == ~Available(c) \/ Age(c) > StaleAfter

\* What the answer holds: the values, the prices in the holdings, and its marks.
Served(c) == IF Available(c) THEN comp[c].value ELSE None
ServedPrice(s) == IF Available("spot") THEN priced[s] ELSE None
MarkedStale == \E c \in Required : Stale(c)
MarkedDegraded == \E c \in Components : comp[c].error = "failed"

\* The answer is what these say while a thread is here.
Assemble(t) ==
  /\ at[t] = "assemble"
  /\ lock' = None /\ now' = [now EXCEPT ![t] = 0]
  /\ Go(t, "idle")
  /\ UNCHANGED <<real, skew, todo, comp, priced, lastAttempt, nextRefresh>>

-----------------------------------------------------------------------------

Tick ==
  /\ real < MaxTime
  /\ real' = real + 1
  /\ UNCHANGED <<skew, lock, at, now, todo, comp, priced, lastAttempt, nextRefresh>>

\* The clock is set back, once.
SetBack ==
  /\ skew = 0 /\ real >= Jump
  /\ skew' = Jump
  /\ UNCHANGED <<real, lock, at, now, todo, comp, priced, lastAttempt, nextRefresh>>

Next ==
  \/ \E t \in Threads : \/ Call(t) \/ Enter(t) \/ Accounts(t) \/ RefreshDone(t)
                        \/ Assemble(t)
                        \/ \E s \in Symbols : Market(t, s)
                        \/ \E c \in Optional : OptionalPart(t, c)
  \/ Tick \/ SetBack

Spec == Init /\ [][Next]_vars

-----------------------------------------------------------------------------
(* Properties *)

\* However many threads find the feed due at once, and whatever the clock does,
\* attempts are refresh_seconds apart on the clock: a thread that has waited for
\* the lock does not refresh again (get_feed), nor does a failed attempt lead to
\* the next at once (_refresh).
RefreshesSpaced ==
  [][lastAttempt' # lastAttempt /\ lastAttempt # None
       => lastAttempt' >= lastAttempt + Refresh]_vars

\* An answer holds no component that the exchange answered longer than
\* max_stale_seconds ago, and one that is not marked stale none older than
\* stale_after_seconds, by the true time, however long the refresh took or the
\* thread waited; a clock that was set back adds no more than it was set back.
AgesHonest ==
  (\E t \in Threads : at[t] = "assemble") =>
    \A c \in Components : Served(c) # None =>
      /\ real - Served(c) <= MaxStale + skew
      /\ (~MarkedStale /\ c \in Required) => real - Served(c) <= StaleAfter + skew

\* An answer without staleness and errors is the last attempt's: every required
\* component of it was fetched then, none is a value kept from before.
HealthyMeansLatest ==
  (\E t \in Threads : at[t] = "assemble") /\ ~MarkedStale /\ ~MarkedDegraded =>
    \A c \in Required : comp[c].asOf = lastAttempt

\* "is removed from the device payload after expiry.  This avoids silently
\* presenting indefinitely old balances or prices": holdings in an answer are
\* valued with no market price older than max_stale_seconds.
PricesNotExpired ==
  (\E t \in Threads : at[t] = "assemble") /\ skew = 0 =>
    \A s \in Symbols : ServedPrice(s) # None => real - ServedPrice(s) <= MaxStale
=============================================================================
