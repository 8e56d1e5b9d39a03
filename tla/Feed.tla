--------------------------------- MODULE Feed ---------------------------------
(***************************************************************************)
(* What the live view of a token promises its reader: from the moment it   *)
(* opens until it closes, a bounded queue of the events of one topic, each *)
(* of them at most once, delivered in the order in which they entered. An  *)
(* event that finds the queue full is lost; nothing else is said about     *)
(* when, or whether, an event enters. Hub implements it.                   *)
(***************************************************************************)
EXTENDS Naturals, Sequences

CONSTANTS
  Topic,   \* token UUIDs
  Stream,  \* event streams, one for each time a client connects
  Event,   \* events; each belongs to a topic, event.topic
  Cap,     \* how many events wait for a slow reader
  None

VARIABLES
  phase,   \* phase[s]: "new", then "open", then "over"
  topic,   \* topic[s]: what a stream follows once it is open
  queue,   \* queue[s]: events waiting for the reader
  seen     \* seen[s]: events the reader was given, in order

feedVars == <<phase, topic, queue, seen>>

Init ==
  /\ phase = [s \in Stream |-> "new"]
  /\ topic = [s \in Stream |-> None]
  /\ queue = [s \in Stream |-> <<>>]
  /\ seen  = [s \in Stream |-> <<>>]

Open(s, t) ==
  /\ phase[s] = "new"
  /\ phase' = [phase EXCEPT ![s] = "open"]
  /\ topic' = [topic EXCEPT ![s] = t]
  /\ UNCHANGED <<queue, seen>>

\* No event enters a stream twice, not even after it was delivered.
Enter(s, e) ==
  /\ phase[s] = "open"
  /\ topic[s] = e.topic
  /\ \A i \in DOMAIN seen[s]  : seen[s][i] # e
  /\ \A i \in DOMAIN queue[s] : queue[s][i] # e
  /\ Len(queue[s]) < Cap
  /\ queue' = [queue EXCEPT ![s] = Append(queue[s], e)]
  /\ UNCHANGED <<phase, topic, seen>>

Deliver(s) ==
  /\ phase[s] = "open"
  /\ queue[s] # <<>>
  /\ queue' = [queue EXCEPT ![s] = Tail(queue[s])]
  /\ seen'  = [seen EXCEPT ![s] = Append(seen[s], Head(queue[s]))]
  /\ UNCHANGED <<phase, topic>>

\* Whatever still waits is never delivered.
Close(s) ==
  /\ phase[s] = "open"
  /\ phase' = [phase EXCEPT ![s] = "over"]
  /\ queue' = [queue EXCEPT ![s] = <<>>]
  /\ UNCHANGED <<topic, seen>>

Next ==
  \E s \in Stream :
    \/ \E t \in Topic : Open(s, t)
    \/ \E e \in Event : Enter(s, e)
    \/ Deliver(s)
    \/ Close(s)

Spec == Init /\ [][Next]_feedVars
=============================================================================
