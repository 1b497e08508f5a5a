------------------------- MODULE BridgeServerProofs -------------------------
(***************************************************************************)
(* Proofs about BridgeServer: connection slots and permits are neither     *)
(* lost nor returned twice, and no address is granted more than its bucket *)
(* ever held, for any number of threads and addresses and any limits.      *)
(***************************************************************************)
EXTENDS BridgeServer, FiniteSetTheorems, TLAPS

-----------------------------------------------------------------------------
(* The inductive invariant *)

Connected == {t \in Threads : at[t] # "idle"}
Permitted == {t \in Threads : at[t] \in Serving}

\* Every slot and every permit that is not free is held by a thread that will
\* return it.
HeldInv ==
  /\ IsFiniteSet(Connected)
  /\ slots + Cardinality(Connected) = MaxConnections
  /\ permits + Cardinality(Permitted) = MaxConcurrent

\* A thread that serves somebody read the time before.
ThreadsInv ==
  \A t \in Threads : now[t] <= clock /\ (at[t] # "idle" => addr[t] \in Keys)

\* What the bucket of an address holds by now; a new one is full.
Holds(k) ==
  IF bucket[k] = None THEN Burst
  ELSE Smaller(Burst, bucket[k].tokens + Rate * (clock - bucket[k].updated))

\* The ideal bucket of an address holds as much as its own, or more.
CreditInv ==
  \A k \in Keys :
    /\ credit[k] >= Holds(k)
    /\ bucket[k] # None =>
         bucket[k].seen = bucket[k].updated /\ bucket[k].updated <= clock

\* What every step preserves.
Inv == TypeOK /\ HeldInv /\ ThreadsInv /\ CreditInv

-----------------------------------------------------------------------------
(* Arithmetic *)

LEMMA TimesGrows ==
  ASSUME NEW a \in Int, NEW b \in Int, a <= b
  PROVE  /\ Rate * a \in Int /\ Rate * b \in Int
         /\ Rate * a <= Rate * b
         /\ Rate * (a + 1) = Rate * a + Rate
<1>1. Rate \in Nat
  BY LimitsAssumption
<1>2. Rate * (b - a) >= 0
  BY <1>1
<1> QED
  BY <1>1, <1>2

\* A bucket that was left alone for longer than IdleTime is full again.
LEMMA IdleFills ==
  ASSUME NEW d \in Int, d > IdleTime
  PROVE  Rate * d \in Int /\ Rate * d >= Burst
<1> DEFINE q == (4 * Burst) \div Rate
<1>1. Rate \in Nat /\ Rate > 0 /\ Burst \in Nat /\ IdleMin \in Nat
  BY LimitsAssumption
<1>2. q \in Int /\ 4 * Burst < Rate * (q + 1)
  BY <1>1
<1>3. q + 1 <= d
  BY <1>1, <1>2 DEF IdleTime, Larger
<1> HIDE DEF q
<1>4. Rate * (q + 1) <= Rate * d /\ Rate * d \in Int /\ Rate * (q + 1) \in Int
  BY <1>2, <1>3, TimesGrows
<1> QED
  BY <1>1, <1>2, <1>4

-----------------------------------------------------------------------------
(* Slots and permits *)

LEMMA PermittedFinite ==
  ASSUME HeldInv
  PROVE  /\ IsFiniteSet(Permitted)
         /\ Cardinality(Permitted) \in Nat /\ Cardinality(Connected) \in Nat
<1>1. Permitted \in SUBSET Connected
  BY DEF Permitted, Connected, Serving
<1> QED
  BY <1>1, FS_Subset, FS_CardinalityType DEF HeldInv

\* On every path a connection and a request end with what they were given.
LEMMA HeldPreserved ==
  ASSUME TypeOK, HeldInv, [Next]_vars
  PROVE  HeldInv' /\ slots' \in 0 .. MaxConnections /\ permits' \in 0 .. MaxConcurrent
<1> DEFINE Goal == HeldInv' /\ slots' \in 0 .. MaxConnections
                            /\ permits' \in 0 .. MaxConcurrent
<1> USE LimitsAssumption, PermittedFinite
<1>1. /\ slots \in 0 .. MaxConnections /\ permits \in 0 .. MaxConcurrent
      /\ IsFiniteSet(Connected)
  BY DEF TypeOK, HeldInv
<1>2. CASE UNCHANGED <<slots, permits, Connected, Permitted>>
  BY <1>1, <1>2 DEF HeldInv
<1>3. ASSUME NEW t \in Threads, Connect(t)
      PROVE  Goal
  <2>1. /\ Connected' = Connected \cup {t} /\ t \notin Connected
        /\ Permitted' = Permitted
    BY <1>3 DEF Connect, Go, TypeOK, Connected, Permitted, Serving
  <2>2. slots > 0 /\ slots' = slots - 1 /\ permits' = permits
    BY <1>3 DEF Connect
  <2>3. IsFiniteSet(Connected') /\ Cardinality(Connected') = Cardinality(Connected) + 1
    BY <1>1, <2>1, FS_AddElement
  <2> QED
    BY <1>1, <2>1, <2>2, <2>3 DEF HeldInv
<1>4. ASSUME NEW t \in Threads, Disconnect(t)
      PROVE  Goal
  <2>1. /\ Connected' = Connected \ {t} /\ t \in Connected
        /\ Permitted' = Permitted
    BY <1>4 DEF Disconnect, Go, TypeOK, Connected, Permitted, Serving
  <2>2. slots' = slots + 1 /\ permits' = permits
    BY <1>4 DEF Disconnect
  <2>3. IsFiniteSet(Connected') /\ Cardinality(Connected') = Cardinality(Connected) - 1
    BY <1>1, <2>1, FS_RemoveElement
  <2>4. Cardinality(Connected') \in Nat
    BY <2>3, FS_CardinalityType
  <2> QED
    BY <1>1, <2>1, <2>2, <2>3, <2>4 DEF HeldInv
<1>5. ASSUME NEW t \in Threads, Begin(t)
      PROVE  Goal
  <2>1. /\ Permitted' = Permitted \cup {t} /\ t \notin Permitted
        /\ Connected' = Connected
    BY <1>5 DEF Begin, Go, TypeOK, Connected, Permitted, Serving
  <2>2. permits > 0 /\ permits' = permits - 1 /\ slots' = slots
    BY <1>5 DEF Begin
  <2>3. Cardinality(Permitted') = Cardinality(Permitted) + 1
    BY <1>1, <2>1, FS_AddElement
  <2> QED
    BY <1>1, <2>1, <2>2, <2>3 DEF HeldInv
<1>6. ASSUME NEW t \in Threads, Send(t)
      PROVE  Goal
  <2>1. /\ Permitted' = Permitted \ {t} /\ t \in Permitted
        /\ Connected' = Connected
    BY <1>6 DEF Send, Go, TypeOK, Connected, Permitted, Serving
  <2>2. permits' = permits + 1 /\ slots' = slots
    BY <1>6 DEF Send
  <2>3. IsFiniteSet(Permitted') /\ Cardinality(Permitted') = Cardinality(Permitted) - 1
    BY <1>1, <2>1, FS_RemoveElement
  <2>4. Cardinality(Permitted') \in Nat
    BY <2>3, FS_CardinalityType
  <2> QED
    BY <1>1, <2>1, <2>2, <2>3, <2>4 DEF HeldInv
<1>7. ASSUME NEW t \in Threads, Malformed(t) \/ Allow(t) \/ TakeFeed(t) \/ Upstream(t)
      PROVE  UNCHANGED <<slots, permits, Connected, Permitted>>
  <2>1. UNCHANGED <<slots, permits>> /\ at[t] \in Serving
    BY <1>7 DEF Malformed, Allow, TakeFeed, Upstream, Serving
  <2>2. PICK place \in Serving : Go(t, place)
    BY <1>7 DEF Malformed, Allow, Charge, After, TakeFeed, Upstream, Serving
  <2> QED
    BY <2>1, <2>2 DEF Go, TypeOK, Connected, Permitted, Serving
<1>8. CASE Tick \/ UNCHANGED vars
  BY <1>1, <1>2, <1>8 DEF Tick, vars, Connected, Permitted
<1> QED
  BY <1>2, <1>3, <1>4, <1>5, <1>6, <1>7, <1>8 DEF Next, Serve

-----------------------------------------------------------------------------
(* The limiter *)

\* The rest of the state, typed.
LimiterOK ==
  /\ clock \in 0 .. MaxClock
  /\ at \in [Threads -> {"idle", "open", "closing"} \cup Serving]
  /\ addr \in [Threads -> Keys \cup {None}]
  /\ now \in [Threads -> 0 .. MaxClock]
  /\ bucket \in [Keys -> Bucket \cup {None}]
  /\ nextCleanup \in Nat
  /\ lock \in Threads \cup {None}
  /\ credit \in [Keys -> Int]

\* What has been forgotten for idleness was full, and the rest is as it was.
LEMMA IdleForgotten ==
  ASSUME TypeOK, ThreadsInv, CreditInv, NEW t \in Threads
  PROVE  LET table == WithoutIdle(now[t]) IN
           /\ table \in [Keys -> Bucket \cup {None}]
           /\ \A k \in Keys : /\ table[k] # None => table[k] = bucket[k]
                              /\ table[k] = None => credit[k] >= Burst
<1> USE LimitsAssumption
<1> DEFINE table == WithoutIdle(now[t])
<1>1. table \in [Keys -> Bucket \cup {None}]
  BY DEF WithoutIdle, TypeOK
<1>2. ASSUME NEW k \in Keys PROVE table[k] # None => table[k] = bucket[k]
  BY DEF WithoutIdle
<1>3. ASSUME NEW k \in Keys, table[k] = None PROVE credit[k] >= Burst
  <2>1. CASE bucket[k] = None
    BY <2>1 DEF CreditInv, Holds
  <2>2. CASE bucket[k] # None
    <3>1. bucket[k] \in Bucket /\ bucket[k].seen < now[t] - IdleTime
      BY <1>3, <2>2 DEF WithoutIdle, TypeOK
    <3>2. bucket[k].updated = bucket[k].seen /\ now[t] <= clock
      BY <2>2 DEF CreditInv, ThreadsInv
    <3>3. /\ bucket[k].tokens \in Nat /\ bucket[k].updated \in Nat /\ clock \in Nat
          /\ now[t] \in Nat /\ credit[k] \in Int
      BY <3>1 DEF Bucket, TypeOK
    <3>4. IdleTime \in Int
      <4>1. (4 * Burst) \div Rate \in Int
        OBVIOUS
      <4> QED
        BY <4>1 DEF IdleTime, Larger
    <3> DEFINE d == clock - bucket[k].updated
    <3>5. d \in Int /\ d > IdleTime
      BY <3>1, <3>2, <3>3, <3>4
    <3>6. Rate * d \in Int /\ Rate * d >= Burst
      BY <3>5, IdleFills
    <3>7. credit[k] >= Smaller(Burst, bucket[k].tokens + Rate * d)
      BY <2>2 DEF CreditInv, Holds
    <3> HIDE DEF d
    <3> QED
      BY <3>3, <3>6, <3>7 DEF Smaller
  <2> QED
    BY <2>1, <2>2
<1> QED
  BY <1>1, <1>2, <1>3

\* A charge takes from the ideal bucket no more than there is in it.
LEMMA Charged ==
  ASSUME TypeOK, ThreadsInv, CreditInv, clock' = clock,
         NEW t \in Threads, addr[t] \in Keys,
         NEW table \in [Keys -> Bucket \cup {None}],
         NEW dropped \in SUBSET Keys,
         \A k \in Keys : table[k] # None => table[k] = bucket[k] /\ k \notin dropped,
         \A k \in Keys : table[k] = None => k \in dropped \/ credit[k] >= Burst,
         Charge(t, table, dropped)
  PROVE  /\ bucket' \in [Keys -> Bucket \cup {None}]
         /\ credit' \in [Keys -> Int]
         /\ CreditInv'
<1> USE LimitsAssumption, NoBucketAssumption
<1> DEFINE k == addr[t]
           b == Filled(table[k], now[t])
           cost == Smaller(1, b.tokens)
           owed == IF k \in dropped THEN Burst ELSE credit[k]
           wait == clock - now[t]
<1>1. /\ bucket' = [table EXCEPT ![k] = [b EXCEPT !.tokens = @ - cost]]
      /\ credit' = [l \in Keys |-> IF l = k THEN Smaller(Burst, owed - cost + Rate * wait)
                                   ELSE IF l \in dropped THEN Burst ELSE credit[l]]
  BY DEF Charge
<1>2. /\ clock \in Nat /\ now[t] \in 0 .. MaxClock /\ now[t] <= clock /\ credit[k] \in Int
      /\ Burst \in Nat /\ Burst > 0 /\ Rate \in Nat
  BY DEF TypeOK, ThreadsInv
<1>3. /\ b \in Bucket /\ b.updated = now[t] /\ b.seen = now[t]
      /\ owed >= b.tokens
  <2>1. CASE table[k] = None
    BY <1>2, <2>1 DEF Filled, Bucket
  <2>2. CASE table[k] # None
    <3> DEFINE u == bucket[k].updated
               tok == bucket[k].tokens
               gap == Larger(0, now[t] - u)
    <3>1. /\ table[k] = bucket[k] /\ k \notin dropped /\ bucket[k] # None
          /\ tok \in 0 .. Burst /\ u \in Nat /\ u <= clock
      BY <2>2 DEF TypeOK, Bucket, CreditInv
    <3>2. gap \in Nat /\ gap <= clock - u /\ clock - u \in Int
      BY <1>2, <3>1 DEF Larger
    <3>3. credit[k] >= Smaller(Burst, tok + Rate * (clock - u))
      BY <3>1 DEF CreditInv, Holds
    <3>4. b = [tokens |-> Smaller(Burst, tok + Rate * gap),
               updated |-> now[t], seen |-> now[t]]
      BY <2>2, <3>1 DEF Filled
    <3> HIDE DEF gap, u, tok
    <3>5. /\ Rate * gap \in Int /\ Rate * (clock - u) \in Int
          /\ Rate * gap <= Rate * (clock - u)
      BY <3>2, TimesGrows
    <3>6. Rate * gap >= 0
      BY <1>2, <3>2
    <3>7. /\ Smaller(Burst, tok + Rate * gap) \in 0 .. Burst
          /\ Smaller(Burst, tok + Rate * gap) <= credit[k]
      BY <1>2, <3>1, <3>3, <3>5, <3>6 DEF Smaller
    <3> QED
      BY <1>2, <3>1, <3>4, <3>7 DEF Bucket
  <2> QED
    BY <2>1, <2>2
<1> DEFINE left == [b EXCEPT !.tokens = @ - cost]
<1>4. /\ cost \in {0, 1} /\ cost <= b.tokens /\ b.tokens \in 0 .. Burst
      /\ left.tokens = b.tokens - cost /\ left.updated = now[t] /\ left.seen = now[t]
      /\ left \in Bucket
  BY <1>3 DEF Bucket, Smaller
<1>5. bucket'[k] = left /\ \A l \in Keys \ {k} : bucket'[l] = table[l]
  BY <1>1
<1>6. /\ credit'[k] = Smaller(Burst, owed - cost + Rate * wait)
      /\ \A l \in Keys \ {k} : credit'[l] = IF l \in dropped THEN Burst ELSE credit[l]
  BY <1>1
<1>7. Rate * wait \in Int /\ owed \in Int /\ cost \in Int
  BY <1>2, <1>4
<1>8. bucket' \in [Keys -> Bucket \cup {None}]
  BY <1>1, <1>4
<1> HIDE DEF b, cost, owed, left
<1>9. credit' \in [Keys -> Int]
  BY <1>1, <1>7 DEF Smaller, TypeOK
<1>10. ASSUME NEW l \in Keys
       PROVE  /\ credit'[l] >= Holds(l)'
              /\ bucket'[l] # None =>
                   bucket'[l].seen = bucket'[l].updated /\ bucket'[l].updated <= clock'
  <2>1. CASE l = k
    <3>1. Holds(l)' = Smaller(Burst, b.tokens - cost + Rate * wait)
      BY <1>4, <1>5, <2>1 DEF Holds
    <3>2. credit'[l] >= Smaller(Burst, b.tokens - cost + Rate * wait)
      BY <1>2, <1>3, <1>4, <1>6, <1>7, <2>1 DEF Smaller
    <3> QED
      BY <1>2, <1>4, <1>5, <2>1, <3>1, <3>2
  <2>2. CASE l # k /\ table[l] = None
    BY <1>2, <1>5, <1>6, <2>2 DEF Holds, TypeOK
  <2>3. CASE l # k /\ table[l] # None
    BY <1>5, <1>6, <2>3 DEF Holds, CreditInv
  <2> QED
    BY <2>1, <2>2, <2>3
<1> QED
  BY <1>8, <1>9, <1>10 DEF CreditInv

\* allow(): with or without its cleanup.
LEMMA AllowPays ==
  ASSUME TypeOK, ThreadsInv, CreditInv, NEW t \in Threads, Allow(t)
  PROVE  /\ bucket' \in [Keys -> Bucket \cup {None}]
         /\ credit' \in [Keys -> Int]
         /\ nextCleanup' \in Nat
         /\ CreditInv'
<1> USE LimitsAssumption
<1>1. addr[t] \in Keys /\ clock' = clock
  BY DEF Allow, ThreadsInv
<1>2. CASE CleanupDue(now[t])
  <2> DEFINE idle == WithoutIdle(now[t])
  <2>1. PICK S \in Oldest(idle) : /\ Charge(t, Dropping(idle, S), S)
                                  /\ nextCleanup' = now[t] + CleanupEvery
    BY <1>2 DEF Allow
  <2>2. S \in SUBSET Keys
    BY DEF Oldest, Tracked
  <2>3. /\ idle \in [Keys -> Bucket \cup {None}]
        /\ \A k \in Keys : /\ idle[k] # None => idle[k] = bucket[k]
                           /\ idle[k] = None => credit[k] >= Burst
    BY IdleForgotten
  <2> HIDE DEF idle
  <2> DEFINE table == Dropping(idle, S)
  <2>4. /\ table \in [Keys -> Bucket \cup {None}]
        /\ \A k \in Keys : table[k] # None => table[k] = bucket[k] /\ k \notin S
        /\ \A k \in Keys : table[k] = None => k \in S \/ credit[k] >= Burst
    BY <2>3 DEF Dropping
  <2>5. nextCleanup' \in Nat
    BY <2>1 DEF TypeOK
  <2>6. Charge(t, table, S)
    BY <2>1
  <2> HIDE DEF table
  <2> QED
    BY <1>1, <2>2, <2>4, <2>5, <2>6, Charged
<1>3. CASE ~CleanupDue(now[t])
  <2>1. Charge(t, bucket, {}) /\ nextCleanup' = nextCleanup
    BY <1>3 DEF Allow
  <2>2. \A k \in Keys : bucket[k] = None => credit[k] >= Burst
    BY DEF CreditInv, Holds
  <2>3. bucket \in [Keys -> Bucket \cup {None}] /\ nextCleanup \in Nat
    BY DEF TypeOK
  <2> QED
    BY <1>1, <2>1, <2>2, <2>3, Charged
<1> QED
  BY <1>2, <1>3

\* Time fills the ideal bucket as it does the other.
LEMMA TickFills ==
  ASSUME TypeOK, CreditInv, Tick
  PROVE  credit' \in [Keys -> Int] /\ CreditInv'
<1> USE LimitsAssumption
<1>1. /\ clock \in Nat /\ clock' = clock + 1 /\ bucket' = bucket
      /\ credit' = [k \in Keys |-> Smaller(Burst, credit[k] + Rate)]
  BY DEF Tick, TypeOK
<1>2. credit' \in [Keys -> Int]
  BY <1>1 DEF TypeOK, Smaller
<1>3. ASSUME NEW k \in Keys
      PROVE  /\ credit'[k] >= Holds(k)'
             /\ bucket'[k] # None =>
                  bucket'[k].seen = bucket'[k].updated /\ bucket'[k].updated <= clock'
  <2>1. credit[k] \in Int /\ credit'[k] = Smaller(Burst, credit[k] + Rate)
    BY <1>1 DEF TypeOK
  <2>2. CASE bucket[k] = None
    BY <1>1, <2>1, <2>2 DEF CreditInv, Holds, Smaller
  <2>3. CASE bucket[k] # None
    <3> DEFINE d == clock - bucket[k].updated
               tok == bucket[k].tokens
    <3>1. /\ tok \in Int /\ bucket[k].updated \in Nat /\ d \in Int
          /\ clock' - bucket[k].updated = d + 1
      BY <1>1, <2>3 DEF TypeOK, Bucket
    <3>2. credit[k] >= Smaller(Burst, tok + Rate * d)
      BY <2>3 DEF CreditInv, Holds
    <3>3. Holds(k)' = Smaller(Burst, tok + Rate * (d + 1))
      BY <1>1, <2>3, <3>1 DEF Holds
    <3>4. bucket[k].seen = bucket[k].updated /\ bucket[k].updated <= clock
      BY <2>3 DEF CreditInv
    <3> HIDE DEF d, tok
    <3>5. Rate * (d + 1) = Rate * d + Rate /\ Rate * d \in Int
      BY <3>1, TimesGrows
    <3>6. credit'[k] >= Smaller(Burst, tok + Rate * (d + 1))
      BY <2>1, <3>1, <3>2, <3>5 DEF Smaller
    <3> QED
      BY <1>1, <3>1, <3>3, <3>4, <3>6
  <2> QED
    BY <2>2, <2>3
<1> QED
  BY <1>2, <1>3 DEF CreditInv

\* Every step keeps threads and buckets typed and the ideal buckets ahead.
LEMMA LimiterPreserved ==
  ASSUME TypeOK, ThreadsInv, CreditInv, [Next]_vars
  PROVE  LimiterOK' /\ ThreadsInv' /\ CreditInv'
<1> USE LimitsAssumption DEF limiter, LimiterOK, ThreadsInv, TypeOK, Go, Serving
<1>1. CASE UNCHANGED vars
  BY <1>1 DEF vars, CreditInv, Holds
<1>2. CASE Tick
  BY <1>2, TickFills DEF Tick
<1>3. ASSUME NEW t \in Threads, Connect(t)
      PROVE  LimiterOK' /\ ThreadsInv' /\ CreditInv'
  BY <1>3 DEF Connect, CreditInv, Holds
<1>4. ASSUME NEW t \in Threads, Disconnect(t)
      PROVE  LimiterOK' /\ ThreadsInv' /\ CreditInv'
  BY <1>4 DEF Disconnect, CreditInv, Holds
<1>5. ASSUME NEW t \in Threads, Begin(t)
      PROVE  LimiterOK' /\ ThreadsInv' /\ CreditInv'
  BY <1>5 DEF Begin, CreditInv, Holds
<1>6. ASSUME NEW t \in Threads, Malformed(t)
      PROVE  LimiterOK' /\ ThreadsInv' /\ CreditInv'
  BY <1>6 DEF Malformed, CreditInv, Holds
<1>7. ASSUME NEW t \in Threads, Allow(t)
      PROVE  LimiterOK' /\ ThreadsInv' /\ CreditInv'
  <2>1. /\ bucket' \in [Keys -> Bucket \cup {None}] /\ credit' \in [Keys -> Int]
        /\ nextCleanup' \in Nat /\ CreditInv'
    BY <1>7, AllowPays
  <2>2. PICK place \in {"feed", "send"} : Go(t, place)
    BY <1>7 DEF Allow, Charge, After
  <2>3. /\ UNCHANGED <<clock, addr, lock>> /\ at[t] = "allow"
        /\ now' = [now EXCEPT ![t] = 0]
    BY <1>7 DEF Allow
  <2> QED
    BY <2>1, <2>2, <2>3
<1>8. ASSUME NEW t \in Threads, TakeFeed(t)
      PROVE  LimiterOK' /\ ThreadsInv' /\ CreditInv'
  BY <1>8 DEF TakeFeed, CreditInv, Holds
<1>9. ASSUME NEW t \in Threads, Upstream(t)
      PROVE  LimiterOK' /\ ThreadsInv' /\ CreditInv'
  BY <1>9 DEF Upstream, CreditInv, Holds
<1>10. ASSUME NEW t \in Threads, Send(t)
       PROVE  LimiterOK' /\ ThreadsInv' /\ CreditInv'
  BY <1>10 DEF Send, CreditInv, Holds
<1> QED
  BY <1>1, <1>2, <1>3, <1>4, <1>5, <1>6, <1>7, <1>8, <1>9, <1>10 DEF Next, Serve

-----------------------------------------------------------------------------
(* The theorems *)

LEMMA InitInv == Init => Inv
<1> USE LimitsAssumption
<1> SUFFICES ASSUME Init PROVE Inv
  OBVIOUS
<1>1. TypeOK
  BY DEF Init, TypeOK
<1>2. Connected = {} /\ Permitted = {}
  BY DEF Init, Connected, Permitted, Serving
<1>3. HeldInv
  BY <1>2, FS_EmptySet DEF Init, HeldInv
<1>4. ThreadsInv /\ CreditInv
  BY DEF Init, ThreadsInv, CreditInv, Holds
<1> QED
  BY <1>1, <1>3, <1>4 DEF Inv

\* The inductive invariant holds of every state of the server.
THEOREM Invariance == Spec => []Inv
<1>1. Inv /\ [Next]_vars => Inv'
  <2> SUFFICES ASSUME Inv, [Next]_vars PROVE Inv'
    OBVIOUS
  <2>1. HeldInv' /\ slots' \in 0 .. MaxConnections /\ permits' \in 0 .. MaxConcurrent
    BY HeldPreserved DEF Inv
  <2>2. LimiterOK' /\ ThreadsInv' /\ CreditInv'
    BY LimiterPreserved DEF Inv
  <2> QED
    BY <2>1, <2>2 DEF Inv, TypeOK, LimiterOK
<1> QED
  BY <1>1, InitInv, PTL DEF Spec

\* Threads and addresses are in their places, the limits are kept, and a bucket
\* holds between nothing and the burst.
THEOREM TypeCorrect == Spec => []TypeOK
<1>1. Inv => TypeOK
  BY DEF Inv
<1> QED
  BY <1>1, Invariance, PTL

\* Slots and permits are neither lost nor returned twice (process_request,
\* _handle_read), for any number of threads.
THEOREM NoLeak == Spec => []NothingLeaks
<1>1. Inv => NothingLeaks
  BY DEF Inv, HeldInv, NothingLeaks, Connected, Permitted
<1> QED
  BY <1>1, Invariance, PTL

\* TokenBucketLimiter.allow grants an address no more than an ideal bucket holds,
\* whatever the burst, the rate and the times at which buckets are forgotten.
THEOREM GrantsArePaid == Spec => []GrantsPaidFor
<1>1. Inv => GrantsPaidFor
  <2> SUFFICES ASSUME Inv, NEW k \in Keys PROVE credit[k] >= 0
    BY DEF GrantsPaidFor
  <2> USE LimitsAssumption
  <2>1. CASE bucket[k] = None
    BY <2>1 DEF Inv, TypeOK, CreditInv, Holds
  <2>2. CASE bucket[k] # None
    <3> DEFINE d == clock - bucket[k].updated
               tok == bucket[k].tokens
    <3>1. tok \in Nat /\ d \in Nat /\ credit[k] \in Int
      BY <2>2 DEF Inv, TypeOK, Bucket, CreditInv
    <3>2. credit[k] >= Smaller(Burst, tok + Rate * d)
      BY <2>2 DEF Inv, CreditInv, Holds
    <3> HIDE DEF d, tok
    <3>3. Rate * d \in Int /\ Rate * d >= 0
      BY <3>1
    <3> QED
      BY <3>1, <3>2, <3>3 DEF Smaller
  <2> QED
    BY <2>1, <2>2
<1> QED
  BY <1>1, Invariance, PTL

=============================================================================
