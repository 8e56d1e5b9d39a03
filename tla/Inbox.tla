------------------------------- MODULE Inbox --------------------------------
(***************************************************************************)
(* What a webhook token promises, said without handlers, clocks, expiry or *)
(* SQL: an inbox that is opened once, takes at most `limit' requests at a  *)
(* time, each of them under an identity never seen before, loses requests  *)
(* only by being emptied, and, once closed, is empty and stays closed.     *)
(* TokenLifecycle implements it.                                           *)
(***************************************************************************)
EXTENDS Naturals, FiniteSets

CONSTANTS
  Token,    \* token UUIDs
  Request,  \* request UUIDs
  Quota     \* the limits an inbox may be given

VARIABLES
  phase,    \* phase[t]: "unborn", then "open", then "gone"
  limit,    \* limit[t]: requests an open inbox may hold when one is accepted
  inbox,    \* inbox[t]: the requests it holds
  seen      \* every request any inbox has ever accepted

inboxVars == <<phase, limit, inbox, seen>>

Init ==
  /\ phase = [t \in Token |-> "unborn"]
  /\ limit = [t \in Token |-> 0]
  /\ inbox = [t \in Token |-> {}]
  /\ seen  = {}

Open(t, n) ==
  /\ phase[t] = "unborn"
  /\ phase' = [phase EXCEPT ![t] = "open"]
  /\ limit' = [limit EXCEPT ![t] = n]
  /\ UNCHANGED <<inbox, seen>>

\* The owner changes how many requests the inbox may hold. Lowering the limit
\* below what is held discards nothing.
Relimit(t, n) ==
  /\ phase[t] = "open"
  /\ limit' = [limit EXCEPT ![t] = n]
  /\ UNCHANGED <<phase, inbox, seen>>

Accept(t, r) ==
  /\ phase[t] = "open"
  /\ r \notin seen
  /\ Cardinality(inbox[t]) < limit[t]
  /\ inbox' = [inbox EXCEPT ![t] = @ \cup {r}]
  /\ seen'  = seen \cup {r}
  /\ UNCHANGED <<phase, limit>>

Discard(t, S) ==
  /\ phase[t] = "open"
  /\ inbox' = [inbox EXCEPT ![t] = @ \ S]
  /\ UNCHANGED <<phase, limit, seen>>

\* Any number of inboxes may close at once: the cleanup is one statement.
Close(T) ==
  /\ \A t \in T : phase[t] = "open"
  /\ phase' = [t \in Token |-> IF t \in T THEN "gone" ELSE phase[t]]
  /\ limit' = [t \in Token |-> IF t \in T THEN 0 ELSE limit[t]]
  /\ inbox' = [t \in Token |-> IF t \in T THEN {} ELSE inbox[t]]
  /\ UNCHANGED seen

Next ==
  \/ \E t \in Token, n \in Quota : Open(t, n) \/ Relimit(t, n)
  \/ \E t \in Token, r \in Request : Accept(t, r)
  \/ \E t \in Token, S \in SUBSET Request : Discard(t, S)
  \/ \E T \in SUBSET Token : Close(T)

Spec == Init /\ [][Next]_inboxVars
=============================================================================
