----------------------------- MODULE Activation -----------------------------
(***************************************************************************)
(* What OnboardingCoordinator promises: a setup transaction takes effect   *)
(* as a whole or leaves nothing behind, one at a time, and the credentials *)
(* in use are those of an activated transaction.                           *)
(***************************************************************************)

CONSTANTS Txns, None

VARIABLES
  life,     \* how far each transaction has come
  selected  \* the transaction whose credentials the bridge is committed to use

vars == <<life, selected>>

Lives == {"new", "stray", "pending", "activated", "gone"}

Init ==
  /\ life = [t \in Txns |-> "new"]
  /\ selected = None

\* A transaction leaves its first trace.
Draw(t) ==
  /\ life[t] = "new"
  /\ \A u \in Txns : life[u] # "pending"
  /\ life' = [life EXCEPT ![t] = "stray"]
  /\ UNCHANGED selected

\* It becomes the one pending transaction.
Prepare(t) ==
  /\ life[t] = "stray"
  /\ \A u \in Txns : life[u] # "pending"
  /\ life' = [life EXCEPT ![t] = "pending"]
  /\ UNCHANGED selected

\* It takes effect, its credentials with it unless the user has just chosen
\* others.
Activate(t) ==
  /\ life[t] = "pending"
  /\ life' = [life EXCEPT ![t] = "activated"]
  /\ selected' = t \/ (selected = None /\ selected' = None)

\* It is undone without a trace.
Discard(t) ==
  /\ life[t] = "pending"
  /\ life' = [life EXCEPT ![t] = "gone"]
  /\ UNCHANGED selected

\* Strays are swept away.
Sweep(strays) ==
  /\ strays # {}
  /\ \A t \in strays : life[t] = "stray"
  /\ life' = [t \in Txns |-> IF t \in strays THEN "gone" ELSE life[t]]
  /\ UNCHANGED selected

\* The user replaces the credentials outside any transaction.
Replace ==
  /\ selected' = None
  /\ UNCHANGED life

Next ==
  \/ \E t \in Txns : Draw(t) \/ Prepare(t) \/ Activate(t) \/ Discard(t)
  \/ \E strays \in SUBSET Txns : Sweep(strays)
  \/ Replace

Spec == Init /\ [][Next]_vars

=============================================================================
