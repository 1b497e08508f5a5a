---------------------------- MODULE BridgeServer ----------------------------
(***************************************************************************)
(* The bridge's HTTP server (BridgeHTTPServer, BridgeRequestHandler): a    *)
(* thread per connection up to the connection slots, a permit per request, *)
(* the token buckets of TokenBucketLimiter by client address, and the lock *)
(* of the feed, which one request holds while Coinbase answers.            *)
(*                                                                         *)
(* Each thread serves requests until its connection ends.  The device      *)
(* limiter is of the same class as the one by address; here it is one of   *)
(* the reasons for which a request is refused.  Rate is in tokens a tick.  *)
(***************************************************************************)
EXTENDS Integers, FiniteSets

CONSTANTS
  Threads, Keys, None,
  MaxConnections,   \* max_connections
  MaxConcurrent,    \* max_concurrent_requests
  Burst, Rate,      \* of the limiter
  MaxEntries,       \* max_entries
  IdleMin,          \* the 300 seconds of _cleanup
  CleanupEvery,     \* the 60 seconds of _cleanup
  MaxClock          \* bound: how long the model runs

ASSUME LimitsAssumption ==
  /\ MaxConnections \in Nat \ {0} /\ MaxConcurrent \in Nat \ {0}
  /\ Burst \in Nat \ {0} /\ Rate \in Nat \ {0} /\ MaxEntries \in Nat \ {0}
  /\ IdleMin \in Nat /\ CleanupEvery \in Nat \ {0} /\ MaxClock \in Nat
  /\ None \notin Threads \cup Keys

Bucket == [tokens : 0 .. Burst, updated : 0 .. MaxClock, seen : 0 .. MaxClock]

\* An address that is not in the table has no bucket.
ASSUME NoBucketAssumption == None \notin Bucket

VARIABLES
  clock,        \* time.monotonic()
  slots,        \* _connection_slots
  permits,      \* _semaphore
  at, addr,     \* where each connection's thread is, and who is at the other end
  now,          \* allow(): the time read before the limiter's lock
  bucket,       \* _buckets
  nextCleanup,  \* _next_cleanup
  lock,         \* the request that holds the feed's lock
  credit        \* history: what an ideal bucket holds for each address

limiter == <<bucket, nextCleanup, credit>>
vars == <<clock, slots, permits, at, addr, now, limiter, lock>>

Serving == {"allow", "feed", "upstream", "send"}

TypeOK ==
  /\ clock \in 0 .. MaxClock
  /\ slots \in 0 .. MaxConnections /\ permits \in 0 .. MaxConcurrent
  /\ at \in [Threads -> {"idle", "open", "closing"} \cup Serving]
  /\ addr \in [Threads -> Keys \cup {None}]
  /\ now \in [Threads -> 0 .. MaxClock]
  /\ bucket \in [Keys -> Bucket \cup {None}]
  /\ nextCleanup \in Nat
  /\ lock \in Threads \cup {None}
  /\ credit \in [Keys -> Int]

Init ==
  /\ clock = 0 /\ slots = MaxConnections /\ permits = MaxConcurrent
  /\ at = [t \in Threads |-> "idle"] /\ addr = [t \in Threads |-> None]
  /\ now = [t \in Threads |-> 0]
  /\ bucket = [k \in Keys |-> None] /\ nextCleanup = 0
  /\ lock = None
  /\ credit = [k \in Keys |-> Burst]

Go(t, place) == at' = [at EXCEPT ![t] = place]

-----------------------------------------------------------------------------
(* Connections: process_request and process_request_thread *)

Connect(t) ==
  /\ at[t] = "idle" /\ slots > 0
  /\ slots' = slots - 1
  /\ \E k \in Keys : addr' = [addr EXCEPT ![t] = k]
  /\ Go(t, "open")
  /\ UNCHANGED <<clock, permits, now, limiter, lock>>

\* The thread cannot be started, or the connection ends.
Disconnect(t) ==
  /\ at[t] \in {"open", "closing"}
  /\ slots' = slots + 1
  /\ addr' = [addr EXCEPT ![t] = None]
  /\ Go(t, "idle")
  /\ UNCHANGED <<clock, permits, now, limiter, lock>>

-----------------------------------------------------------------------------
(* Requests: _handle_read and _handle_active_claim.  Without a permit the   *)
(* answer is 503 and nothing changes.                                       *)

Begin(t) ==
  /\ at[t] = "open" /\ permits > 0
  /\ permits' = permits - 1
  /\ now' = [now EXCEPT ![t] = clock]
  /\ Go(t, "allow")
  /\ UNCHANGED <<clock, slots, addr, limiter, lock>>

\* A claim is looked at before the limiter is asked.
Malformed(t) ==
  /\ at[t] = "allow"
  /\ now' = [now EXCEPT ![t] = 0]
  /\ Go(t, "send")
  /\ UNCHANGED <<clock, slots, permits, addr, limiter, lock>>

-----------------------------------------------------------------------------
(* TokenBucketLimiter.allow, under its lock *)

Tracked(table) == {k \in Keys : table[k] # None}
Smaller(a, b) == IF a < b THEN a ELSE b
Larger(a, b) == IF a > b THEN a ELSE b

\* As many ticks as fill a bucket four times, at least IdleMin.
IdleTime == Larger(IdleMin, (4 * Burst) \div Rate)

WithoutIdle(n) ==
  [k \in Keys |-> IF bucket[k] # None /\ bucket[k].seen < n - IdleTime
                    THEN None ELSE bucket[k]]

\* The sets of addresses that _cleanup may drop: the ones seen longest ago.
Oldest(table) ==
  {S \in SUBSET Tracked(table) :
     /\ Cardinality(S) = Larger(0, Cardinality(Tracked(table)) - MaxEntries)
     /\ \A k \in S, l \in Tracked(table) \ S : table[k].seen <= table[l].seen}

Dropping(table, S) == [k \in Keys |-> IF k \in S THEN None ELSE table[k]]

CleanupDue(n) == n >= nextCleanup \/ Cardinality(Tracked(bucket)) > MaxEntries

\* Mutant: a bucket is filled beyond the burst.
FilledUncapped(b, n) ==
  IF b = None THEN [tokens |-> Burst, updated |-> n, seen |-> n]
  ELSE [tokens |-> b.tokens + Rate * Larger(0, n - b.updated), updated |-> n, seen |-> n]

\* Mutant: what has refilled is counted from the same time again.
FilledAgain(b, n) ==
  IF b = None THEN [tokens |-> Burst, updated |-> n, seen |-> n]
  ELSE [tokens |-> Smaller(Burst, b.tokens + Rate * Larger(0, n - b.updated)),
        updated |-> b.updated, seen |-> n]

\* The bucket of an address at time n, before it is charged.
Filled(b, n) ==
  IF b = None THEN [tokens |-> Burst, updated |-> n, seen |-> n]
  ELSE [tokens |-> Smaller(Burst, b.tokens + Rate * Larger(0, n - b.updated)),
        updated |-> n, seen |-> n]

\* An allowed request may be one for the feed, of a device that is allowed too.
After(allowed) == IF allowed THEN {"feed", "send"} ELSE {"send"}

\* The bucket of t's address is charged in table; the addresses in dropped have
\* been forgotten.  A call that comes late leaves the bucket at the time it read,
\* which may be before another call's, so that the ticks since then refill it
\* after the charge, or a second time; credit follows.
Charge(t, table, dropped) ==
  LET k == addr[t]
      b == Filled(table[k], now[t])
      cost == Smaller(1, b.tokens)
      owed == IF k \in dropped THEN Burst ELSE credit[k]
  IN /\ bucket' = [table EXCEPT ![k] = [b EXCEPT !.tokens = @ - cost]]
     /\ credit' = [l \in Keys |->
                     IF l = k THEN Smaller(Burst, owed - cost + Rate * (clock - now[t]))
                     ELSE IF l \in dropped THEN Burst ELSE credit[l]]
     /\ \E place \in After(cost = 1) : Go(t, place)

Allow(t) ==
  /\ at[t] = "allow"
  /\ IF CleanupDue(now[t])
       THEN \E S \in Oldest(WithoutIdle(now[t])) :
              /\ Charge(t, Dropping(WithoutIdle(now[t]), S), S)
              /\ nextCleanup' = now[t] + CleanupEvery
       ELSE Charge(t, bucket, {}) /\ UNCHANGED nextCleanup
  /\ now' = [now EXCEPT ![t] = 0]
  /\ UNCHANGED <<clock, slots, permits, addr, lock>>

-----------------------------------------------------------------------------
(* The rest of a request *)

\* get_feed: its request waits for the lock with its permit.
TakeFeed(t) ==
  /\ at[t] = "feed" /\ lock = None
  /\ lock' = t
  /\ Go(t, "upstream")
  /\ UNCHANGED <<clock, slots, permits, addr, now, limiter>>

\* Mutant: the lock is not released.
UpstreamKeepingLock(t) ==
  /\ at[t] = "upstream"
  /\ Go(t, "send")
  /\ UNCHANGED <<clock, slots, permits, addr, now, limiter, lock>>

\* Coinbase has answered or timed out; or get_feed has raised.
Upstream(t) ==
  /\ at[t] = "upstream"
  /\ lock' = None
  /\ Go(t, "send")
  /\ UNCHANGED <<clock, slots, permits, addr, now, limiter>>

\* Mutant: the permit is returned after an answer only.
SendOnly(t) ==
  /\ at[t] = "send"
  /\ \/ permits' = permits + 1 /\ Go(t, "open")
     \/ UNCHANGED permits /\ Go(t, "closing")
  /\ UNCHANGED <<clock, slots, addr, now, limiter, lock>>

\* The answer is sent, or the client is gone or to be closed.
Send(t) ==
  /\ at[t] = "send"
  /\ permits' = permits + 1
  /\ Go(t, "open") \/ Go(t, "closing")
  /\ UNCHANGED <<clock, slots, addr, now, limiter, lock>>

Tick ==
  /\ clock < MaxClock
  /\ clock' = clock + 1
  /\ credit' = [k \in Keys |-> Smaller(Burst, credit[k] + Rate)]
  /\ UNCHANGED <<slots, permits, at, addr, now, bucket, nextCleanup, lock>>

Serve(t) == Malformed(t) \/ Allow(t) \/ TakeFeed(t) \/ Upstream(t) \/ Send(t)

Next == Tick \/ \E t \in Threads : Connect(t) \/ Disconnect(t)
                                     \/ Begin(t) \/ Serve(t)

\* Threads run, and a call of Coinbase ends: CoinbaseClient gives it a timeout.
Spec == Init /\ [][Next]_vars /\ \A t \in Threads : WF_vars(Serve(t))

-----------------------------------------------------------------------------
(* Properties *)

\* Slots and permits are neither lost nor returned twice, on whichever path a
\* connection or a request ends (process_request, _handle_read).
NothingLeaks ==
  /\ slots + Cardinality({t \in Threads : at[t] # "idle"}) = MaxConnections
  /\ permits + Cardinality({t \in Threads : at[t] \in Serving}) = MaxConcurrent

\* An address is granted no more than an ideal bucket holds for it, however
\* calls interleave and buckets are disposed of for idleness.  Two steps are known
\* to grant more, and are credited: a call that waits for the limiter's lock with
\* the time it has read (ratelimit.py:53), by the ticks that it waits, and a full
\* table that forgets an address (ratelimit.py:74).
GrantsPaidFor == \A k \in Keys : credit[k] >= 0

\* A server that is busy, be it with requests that wait for one slow refresh,
\* is able to answer again.
BusyEnds == (permits = 0) ~> (permits > 0)
=============================================================================
