---------------------------------- MODULE Hub ----------------------------------
(***************************************************************************)
(* The in-process hub, the goroutines that publish to it, and the event    *)
(* stream handlers that read from it.                                      *)
(*                                                                         *)
(* Publish copies the set of channels under the read lock and sends after  *)
(* releasing it, one channel at a time, never waiting: subscriptions come  *)
(* and go between two of its sends, and publications interleave. A channel *)
(* is never closed, so a late send to one whose stream has gone lands in a *)
(* buffer that nobody reads.                                               *)
(***************************************************************************)
EXTENDS Naturals, Sequences

CONSTANTS
  Topic,      \* token UUIDs
  Stream,     \* stream handlers, each with the channel Subscribe gave it
  Publisher,  \* goroutines that publish: handlers and action pipelines
  Cap,        \* capacity of a channel; 64 in Subscribe
  Events,     \* bound: events one publisher publishes
  None

ASSUME HubAssumption ==
  /\ Cap \in Nat \ {0}
  /\ Events \in Nat
  /\ None \notin Topic

\* The n-th event a goroutine publishes. Its type, its payload and the number
\* nextSSEEventID gave it are left out: nothing in the program reads them back.
Event == [src : Publisher, n : 1 .. Events, topic : Topic]

\* A Publish call: the event, and the channels of its copy not yet sent to.
Publication == [event : Event, rest : SUBSET Stream]

ASSUME PublicationAssumption == None \notin Publication

VARIABLES
  subscribers,  \* the hub's map: the channels subscribed to each topic
  buffer,       \* what each channel holds
  phase,        \* of a stream handler: "new", "open", "leaving", "gone"
  follows,      \* the topic it subscribed to
  publishing,   \* the Publish call a goroutine is in, or None
  sent,         \* how many Publish calls it has begun
  begun,        \* history: the events whose publication has begun
  before,       \* history: those begun before a stream subscribed
  received,     \* history: what a stream handler wrote to its client
  lagged        \* history: the streams whose channel has ever been full

streams == <<phase, follows, before, received>>
vars    == <<subscribers, buffer, publishing, sent, begun, lagged, streams>>

Init ==
  /\ subscribers = [t \in Topic |-> {}]
  /\ buffer      = [s \in Stream |-> <<>>]
  /\ phase       = [s \in Stream |-> "new"]
  /\ follows     = [s \in Stream |-> None]
  /\ publishing  = [p \in Publisher |-> None]
  /\ sent        = [p \in Publisher |-> 0]
  /\ begun       = {}
  /\ before      = [s \in Stream |-> {}]
  /\ received    = [s \in Stream |-> <<>>]
  /\ lagged      = {}

-----------------------------------------------------------------------------
Joined(t, s) == subscribers[t] \cup {s}

\* stream, once the token has been checked, subscribes under the lock.
Subscribe(s, t) ==
  /\ phase[s] = "new"
  /\ phase'       = [phase EXCEPT ![s] = "open"]
  /\ follows'     = [follows EXCEPT ![s] = t]
  /\ subscribers' = [subscribers EXCEPT ![t] = Joined(t, s)]
  /\ before'      = [before EXCEPT ![s] = begun]
  /\ UNCHANGED <<buffer, publishing, sent, begun, received, lagged>>

\* The loop of stream takes an event and writes it to the client.
Read(s) ==
  /\ phase[s] = "open"
  /\ buffer[s] # <<>>
  /\ buffer'   = [buffer EXCEPT ![s] = Tail(buffer[s])]
  /\ received' = [received EXCEPT ![s] = Append(received[s], Head(buffer[s]))]
  /\ UNCHANGED <<subscribers, publishing, sent, begun, lagged, phase, follows, before>>

\* The loop ends: the client has gone, or the write of an event failed.
Leave(s) ==
  /\ phase[s] = "open"
  /\ phase' = [phase EXCEPT ![s] = "leaving"]
  /\ \/ UNCHANGED buffer
     \/ buffer[s] # <<>> /\ buffer' = [buffer EXCEPT ![s] = Tail(buffer[s])]
  /\ UNCHANGED <<subscribers, publishing, sent, begun, lagged, follows, before, received>>

\* The deferred Unsubscribe, under the lock.
Unsubscribe(s) ==
  /\ phase[s] = "leaving"
  /\ phase'       = [phase EXCEPT ![s] = "gone"]
  /\ subscribers' = [subscribers EXCEPT ![follows[s]] = subscribers[follows[s]] \ {s}]
  /\ UNCHANGED <<buffer, publishing, sent, begun, lagged, follows, before, received>>

\* A mutant of Targets: the copy takes the channels of every topic.
AllTargets(t) == UNION {subscribers[u] : u \in Topic}

Targets(t) == subscribers[t]

\* Publish: the copy of the channels, under the read lock. Without any the
\* call returns.
Publish(p, t) ==
  /\ publishing[p] = None
  /\ sent[p] < Events
  /\ LET e == [src |-> p, n |-> sent[p] + 1, topic |-> t] IN
     /\ begun' = begun \cup {e}
     /\ publishing' = [publishing EXCEPT ![p] =
          IF Targets(t) = {} THEN None ELSE [event |-> e, rest |-> Targets(t)]]
  /\ sent' = [sent EXCEPT ![p] = sent[p] + 1]
  /\ UNCHANGED <<subscribers, buffer, lagged, streams>>

HasRoom(s) == Len(buffer[s]) < Cap

\* A mutant of Offer: the send waits until the channel has room.
OfferWaiting(s, e) ==
  /\ Len(buffer[s]) < Cap
  /\ buffer' = [buffer EXCEPT ![s] = Append(buffer[s], e)]
  /\ UNCHANGED lagged

\* The select with a default: a channel that is full is passed over.
Offer(s, e) ==
  IF HasRoom(s)
  THEN buffer' = [buffer EXCEPT ![s] = Append(buffer[s], e)] /\ UNCHANGED lagged
  ELSE lagged' = lagged \cup {s} /\ UNCHANGED buffer

\* A mutant of SentTo: the loop is left after its first send.
SentOnce(p, s) == publishing' = [publishing EXCEPT ![p] = None]

\* A mutant of SentTo: the channel stays among those to be sent to.
SentAgain(p, s) == UNCHANGED publishing

\* The loop of Publish goes on with the other channels, or the call returns.
SentTo(p, s) ==
  publishing' = [publishing EXCEPT ![p] =
    IF publishing[p].rest = {s} THEN None
    ELSE [publishing[p] EXCEPT !.rest = publishing[p].rest \ {s}]]

\* One send of Publish; the copy is in no particular order.
Send(p, s) ==
  /\ publishing[p] # None
  /\ s \in publishing[p].rest
  /\ Offer(s, publishing[p].event)
  /\ SentTo(p, s)
  /\ UNCHANGED <<subscribers, sent, begun, streams>>

-----------------------------------------------------------------------------
Next ==
  \/ \E s \in Stream :
       \/ \E t \in Topic : Subscribe(s, t)
       \/ Read(s)
       \/ Leave(s)
       \/ Unsubscribe(s)
  \/ \E p \in Publisher :
       \/ \E t \in Topic : Publish(p, t)
       \/ \E s \in Stream : Send(p, s)

Spec == Init /\ [][Next]_vars

\* A goroutine inside Publish is scheduled again. Nothing makes a client read
\* its stream.
Fairness == \A p \in Publisher : WF_vars(\E s \in Stream : Send(p, s))

FairSpec == Spec /\ Fairness

-----------------------------------------------------------------------------
\* Every variable has its type; a channel never holds more than its capacity.
TypeOK ==
  /\ subscribers \in [Topic -> SUBSET Stream]
  /\ buffer \in [Stream -> Seq(Event)]
  /\ \A s \in Stream : Len(buffer[s]) <= Cap
  /\ phase \in [Stream -> {"new", "open", "leaving", "gone"}]
  /\ follows \in [Stream -> Topic \cup {None}]
  /\ publishing \in [Publisher -> Publication \cup {None}]
  /\ sent \in [Publisher -> 0 .. Events]
  /\ begun \subseteq Event
  /\ before \in [Stream -> SUBSET begun]
  /\ received \in [Stream -> Seq(Event)]
  /\ lagged \subseteq Stream

\* A stream is in the hub's map under its own topic, from Subscribe until the
\* deferred Unsubscribe, and under no other.
Registered ==
  \A s \in Stream :
    /\ phase[s] # "new" => follows[s] \in Topic
    /\ \A t \in Topic :
         s \in subscribers[t] <=> phase[s] \in {"open", "leaving"} /\ follows[s] = t

\* What a stream has been sent, read or not.
Entries(s) == received[s] \o buffer[s]

\* The events one goroutine publishes reach every stream in the order it
\* published them, none of them twice, whatever other publications interleave:
\* the completed actions of a request appear in pipeline order.
InOrder ==
  \A s \in Stream : \A i, j \in 1 .. Len(Entries(s)) :
    i < j /\ Entries(s)[i].src = Entries(s)[j].src => Entries(s)[i].n < Entries(s)[j].n

\* A publication that has returned.
Returned(e) ==
  /\ e \in begun
  /\ publishing[e.src] # None => publishing[e.src].event # e

\* A stream whose channel no send found full misses nothing: each publication on
\* its topic that began after it subscribed and has returned is in the channel
\* or was written to the client.
NothingMissed ==
  \A s \in Stream \ lagged :
    phase[s] = "open" =>
      \A e \in begun \ before[s] :
        e.topic = follows[s] /\ Returned(e) =>
          \E i \in 1 .. Len(Entries(s)) : Entries(s)[i] = e

\* Publish returns although no client ever reads: a slow stream delays neither
\* the capture nor the pipeline that publishes.
PublishReturns == \A p \in Publisher : publishing[p] # None ~> publishing[p] = None

\* A goroutine is in the publication of its latest event, and sends it only to
\* streams of the event's topic.
Publishing ==
  \A p \in Publisher : publishing[p] # None =>
    /\ publishing[p].event.src = p
    /\ publishing[p].event.n = sent[p]
    /\ publishing[p].event \in begun
    /\ \A s \in publishing[p].rest :
         phase[s] # "new" /\ follows[s] = publishing[p].event.topic

\* What a stream was sent has been published, on its topic, and is older than
\* what it is still to be sent.
Sent ==
  \A s \in Stream : \A i \in 1 .. Len(Entries(s)) :
    LET e == Entries(s)[i] IN
    /\ phase[s] # "new"
    /\ e.topic = follows[s]
    /\ e.n <= sent[e.src]
    /\ publishing[e.src] # None /\ s \in publishing[e.src].rest
         => e.n < publishing[e.src].event.n

\* A stream whose channel no send found full has, or is about to be sent, each
\* publication on its topic since it subscribed.
Owed ==
  \A s \in Stream \ lagged :
    phase[s] = "open" =>
      \A e \in begun \ before[s] :
        e.topic = follows[s] =>
          \/ \E i \in 1 .. Len(Entries(s)) : Entries(s)[i] = e
          \/ /\ publishing[e.src] # None
             /\ publishing[e.src].event = e
             /\ s \in publishing[e.src].rest

\* The inductive invariant: Publishing and Sent carry InOrder, Owed carries
\* NothingMissed.
HubSafe ==
  /\ TypeOK
  /\ Registered
  /\ Publishing
  /\ Sent
  /\ InOrder
  /\ Owed

\* The hub implements a bounded feed for each stream: no event of another
\* topic, none twice, none after the stream has closed.
FeedOf ==
  INSTANCE Feed WITH
    phase <- [s \in Stream |-> IF phase[s] \in {"leaving", "gone"} THEN "over"
                               ELSE phase[s]],
    topic <- follows,
    queue <- [s \in Stream |-> IF phase[s] = "open" THEN buffer[s] ELSE <<>>],
    seen  <- received

ImplementsFeed == FeedOf!Spec
=============================================================================
