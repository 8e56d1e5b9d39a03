------------------------------ MODULE Hub_proofs ------------------------------
(***************************************************************************)
(* Proofs about Hub, for every set of topics, streams and publishers, every*)
(* capacity and every number of events.                                    *)
(***************************************************************************)
EXTENDS Hub, SequenceTheorems, TLAPS

-----------------------------------------------------------------------------
\* Reading the head of one sequence onto the end of another keeps the two,
\* taken together, as they were.
LEMMA ReadConcat ==
  ASSUME NEW S, NEW a \in Seq(S), NEW b \in Seq(S), b # <<>>
  PROVE  Append(a, Head(b)) \o Tail(b) = a \o b
<1>1. /\ Head(b) \in S /\ Tail(b) \in Seq(S) /\ Len(Tail(b)) = Len(b) - 1
      /\ \A i \in 1 .. Len(Tail(b)) : Tail(b)[i] = b[i + 1]
      /\ Head(b) = b[1] /\ Len(b) \in Nat \ {0} /\ Len(a) \in Nat
  OBVIOUS
<1>2. Append(a, Head(b)) \in Seq(S) /\ Len(Append(a, Head(b))) = Len(a) + 1
  BY <1>1
<1>3. Append(a, Head(b)) \o Tail(b) \in Seq(S) /\ a \o b \in Seq(S)
  BY <1>1, <1>2
<1>4. Len(Append(a, Head(b)) \o Tail(b)) = Len(a \o b)
  BY <1>1, <1>2
<1>5. \A i \in 1 .. Len(a \o b) : (Append(a, Head(b)) \o Tail(b))[i] = (a \o b)[i]
  BY <1>1, <1>2
<1>. QED BY <1>3, <1>4, <1>5, SeqEqual

\* Appending to the second appends to the two together.
LEMMA SendConcat ==
  ASSUME NEW S, NEW a \in Seq(S), NEW b \in Seq(S), NEW x \in S
  PROVE  /\ Len(a \o Append(b, x)) = Len(a \o b) + 1
         /\ (a \o Append(b, x))[Len(a \o b) + 1] = x
         /\ \A i \in 1 .. Len(a \o b) : (a \o Append(b, x))[i] = (a \o b)[i]
OBVIOUS

\* Losing the head of the second leaves each remaining element where it was or
\* one place further on, and all of them in order.
LEMMA LoseConcat ==
  ASSUME NEW S, NEW a \in Seq(S), NEW b \in Seq(S), b # <<>>
  PROVE  /\ Len(a \o Tail(b)) = Len(a \o b) - 1
         /\ \A i \in 1 .. Len(a \o Tail(b)) :
              (a \o Tail(b))[i] = (a \o b)[IF i <= Len(a) THEN i ELSE i + 1]
<1>1. /\ Tail(b) \in Seq(S) /\ Len(Tail(b)) = Len(b) - 1
      /\ \A i \in 1 .. Len(Tail(b)) : Tail(b)[i] = b[i + 1]
      /\ Len(b) \in Nat \ {0} /\ Len(a) \in Nat
  OBVIOUS
<1>. QED BY <1>1

\* The entries of a stream are events.
LEMMA EntriesType ==
  ASSUME TypeOK, NEW s \in Stream
  PROVE  /\ Entries(s) \in Seq(Event) /\ Len(Entries(s)) \in Nat
         /\ \A i \in 1 .. Len(Entries(s)) :
              /\ Entries(s)[i] \in Event
              /\ Entries(s)[i].src \in Publisher
              /\ Entries(s)[i].n \in Nat
<1>1. Entries(s) \in Seq(Event)
  BY DEF TypeOK, Entries
<1>2. \A i \in 1 .. Len(Entries(s)) : Entries(s)[i] \in Event
  BY <1>1
<1>3. \A e \in Event : e.src \in Publisher /\ e.n \in Nat
  BY HubAssumption DEF Event
<1>. QED BY <1>1, <1>2, <1>3

-----------------------------------------------------------------------------
\* An empty hub is safe.
LEMMA InitSafe == Init => HubSafe
<1>. SUFFICES ASSUME Init PROVE HubSafe
  OBVIOUS
<1>1. \A s \in Stream : Entries(s) = <<>>
  BY DEF Init, Entries
<1>2. TypeOK
  BY HubAssumption DEF Init, TypeOK
<1>3. Registered /\ Publishing
  BY DEF Init, Registered, Publishing
<1>4. Sent /\ InOrder /\ Owed
  BY <1>1 DEF Init, Sent, InOrder, Owed
<1>. QED BY <1>2, <1>3, <1>4 DEF HubSafe

\* A subscription keeps the hub safe: the new stream has been sent nothing.
LEMMA SubscribeSafe ==
  ASSUME HubSafe, NEW s \in Stream, NEW t \in Topic, Subscribe(s, t)
  PROVE  HubSafe'
<1>1. TypeOK'
  BY DEF Subscribe, HubSafe, TypeOK, Joined
<1>2. Registered'
  BY HubAssumption DEF Subscribe, HubSafe, TypeOK, Registered, Joined
<1>3. Publishing'
  BY DEF Subscribe, HubSafe, TypeOK, Publishing
<1>4. \A u \in Stream : Entries(u)' = Entries(u)
  BY DEF Subscribe, Entries
<1>5. Entries(s) = <<>>
  BY EntriesType DEF Subscribe, HubSafe, Sent
<1>6. Sent'
  BY <1>4, <1>5 DEF Subscribe, HubSafe, TypeOK, Sent
<1>7. InOrder'
  BY <1>4 DEF HubSafe, InOrder
<1>8. Owed'
  <2>. SUFFICES ASSUME NEW u \in Stream \ lagged, phase'[u] = "open",
                       NEW e \in begun \ before'[u], e.topic = follows'[u]
                PROVE  \/ \E i \in 1 .. Len(Entries(u)) : Entries(u)[i] = e
                       \/ /\ publishing[e.src] # None
                          /\ publishing[e.src].event = e
                          /\ u \in publishing[e.src].rest
    BY <1>4 DEF Subscribe, Owed
  <2>1. u # s /\ phase[u] = "open" /\ before'[u] = before[u] /\ follows'[u] = follows[u]
    BY DEF Subscribe, HubSafe, TypeOK
  <2>. QED BY <2>1 DEF HubSafe, Owed
<1>. QED BY <1>1, <1>2, <1>3, <1>6, <1>7, <1>8 DEF HubSafe

\* Reading keeps the hub safe: the event moves from the channel to what was received.
LEMMA ReadSafe ==
  ASSUME HubSafe, NEW s \in Stream, Read(s)
  PROVE  HubSafe'
<1>1. buffer[s] \in Seq(Event) /\ received[s] \in Seq(Event) /\ buffer[s] # <<>>
  BY DEF Read, HubSafe, TypeOK
<1>2. /\ Tail(buffer[s]) \in Seq(Event) /\ Append(received[s], Head(buffer[s])) \in Seq(Event)
      /\ Len(Tail(buffer[s])) <= Len(buffer[s])
  BY <1>1
<1>3. TypeOK'
  BY <1>2, HubAssumption DEF Read, HubSafe, TypeOK
<1>4. Registered' /\ Publishing'
  BY DEF Read, HubSafe, Registered, Publishing
<1>5. \A u \in Stream : Entries(u)' = Entries(u)
  <2>. SUFFICES ASSUME NEW u \in Stream PROVE Entries(u)' = Entries(u)
    OBVIOUS
  <2>1. CASE u = s
    BY <1>1, <2>1, ReadConcat DEF Read, HubSafe, TypeOK, Entries
  <2>2. CASE u # s
    BY <2>2 DEF Read, HubSafe, TypeOK, Entries
  <2>. QED BY <2>1, <2>2
<1>6. Sent' /\ InOrder' /\ Owed'
  BY <1>5 DEF Read, HubSafe, Sent, InOrder, Owed
<1>. QED BY <1>3, <1>4, <1>6 DEF HubSafe

\* A stream that leaves keeps its place in the hub, and loses at most one
\* event, the one it failed to write.
LEMMA LeaveSafe ==
  ASSUME HubSafe, NEW s \in Stream, Leave(s)
  PROVE  HubSafe'
<1>. DEFINE lost == buffer' # buffer
            kept(u, i) == IF lost /\ u = s /\ i > Len(received[s]) THEN i + 1 ELSE i
<1>1. buffer[s] \in Seq(Event) /\ received[s] \in Seq(Event) /\ Len(received[s]) \in Nat
  BY DEF HubSafe, TypeOK
<1>2. TypeOK'
  <2>1. CASE UNCHANGED buffer
    BY <2>1 DEF Leave, HubSafe, TypeOK
  <2>2. CASE buffer[s] # <<>> /\ buffer' = [buffer EXCEPT ![s] = Tail(buffer[s])]
    <3>1. Tail(buffer[s]) \in Seq(Event) /\ Len(Tail(buffer[s])) <= Len(buffer[s])
      BY <1>1, <2>2
    <3>. QED BY <2>2, <3>1, HubAssumption DEF Leave, HubSafe, TypeOK
  <2>. QED BY <2>1, <2>2 DEF Leave
<1>3. Registered' /\ Publishing'
  BY DEF Leave, HubSafe, TypeOK, Registered, Publishing
<1>4. \A u \in Stream : \A i \in 1 .. Len(Entries(u)') :
        kept(u, i) \in 1 .. Len(Entries(u)) /\ Entries(u)'[i] = Entries(u)[kept(u, i)]
  <2>. SUFFICES ASSUME NEW u \in Stream, NEW i \in 1 .. Len(Entries(u)')
                PROVE  kept(u, i) \in 1 .. Len(Entries(u)) /\ Entries(u)'[i] = Entries(u)[kept(u, i)]
    OBVIOUS
  <2>1. CASE ~lost \/ u # s
    BY <2>1 DEF Leave, HubSafe, TypeOK, Entries
  <2>2. CASE lost /\ u = s
    <3>1. /\ buffer[s] # <<>> /\ Entries(s)' = received[s] \o Tail(buffer[s])
          /\ Entries(s) = received[s] \o buffer[s]
      BY <2>2 DEF Leave, HubSafe, TypeOK, Entries
    <3>2. Len(Entries(s)) \in Nat
      BY EntriesType DEF HubSafe
    <3>3. /\ Len(Entries(s)') = Len(Entries(s)) - 1
          /\ \A k \in 1 .. Len(Entries(s)') :
               Entries(s)'[k] = Entries(s)[IF k <= Len(received[s]) THEN k ELSE k + 1]
      <4>. DEFINE a == received[s]
                  b == buffer[s]
      <4>1. a \in Seq(Event) /\ b \in Seq(Event) /\ b # <<>>
        BY <1>1, <3>1
      <4>2. Entries(s)' = a \o Tail(b) /\ Entries(s) = a \o b
        BY <3>1
      <4>. HIDE DEF a, b
      <4>3. /\ Len(a \o Tail(b)) = Len(a \o b) - 1
            /\ \A k \in 1 .. Len(a \o Tail(b)) :
                 (a \o Tail(b))[k] = (a \o b)[IF k <= Len(a) THEN k ELSE k + 1]
        BY <4>1, LoseConcat
      <4>4. Len(a) = Len(received[s])
        BY DEF a
      <4>. QED BY <4>2, <4>3, <4>4, Zenon
    <3>4. kept(s, i) = IF i <= Len(received[s]) THEN i ELSE i + 1
      BY <1>1, <2>2, <3>2, <3>3
    <3>. HIDE DEF kept
    <3>. QED BY <2>2, <3>2, <3>3, <3>4
  <2>. QED BY <2>1, <2>2
<1>5. /\ \A u \in Stream : Len(Entries(u)') \in Nat
      /\ \A u \in Stream, i, j \in Nat : i < j => kept(u, i) < kept(u, j)
  <2>1. \A u \in Stream : Len(Entries(u)') \in Nat
    BY <1>2 DEF TypeOK, Entries
  <2>. QED BY <1>1, <2>1
<1>6. \A u \in Stream : (phase[u]' = "new" <=> phase[u] = "new") /\ (u # s => Entries(u)' = Entries(u))
  BY DEF Leave, HubSafe, TypeOK, Entries
<1>. HIDE DEF kept
<1>7. Sent'
  BY <1>4, <1>6 DEF Leave, HubSafe, Sent
<1>8. InOrder'
  <2>. SUFFICES ASSUME NEW u \in Stream, NEW i \in 1 .. Len(Entries(u)'), NEW j \in 1 .. Len(Entries(u)'),
                       i < j, Entries(u)'[i].src = Entries(u)'[j].src
                PROVE  Entries(u)'[i].n < Entries(u)'[j].n
    BY DEF InOrder
  <2>1. kept(u, i) < kept(u, j)
    BY <1>5
  <2>. QED BY <1>4, <2>1 DEF HubSafe, InOrder
<1>9. Owed'
  BY <1>6 DEF Leave, HubSafe, TypeOK, Owed
<1>. QED BY <1>2, <1>3, <1>7, <1>8, <1>9 DEF HubSafe

\* Leaving keeps the hub safe.
LEMMA UnsubscribeSafe ==
  ASSUME HubSafe, NEW s \in Stream, Unsubscribe(s)
  PROVE  HubSafe'
<1>1. follows[s] \in Topic
  BY DEF Unsubscribe, HubSafe, Registered
<1>2. TypeOK'
  BY <1>1 DEF Unsubscribe, HubSafe, TypeOK
<1>3. Registered'
  BY <1>1 DEF Unsubscribe, HubSafe, TypeOK, Registered
<1>4. Publishing'
  BY DEF Unsubscribe, HubSafe, TypeOK, Publishing
<1>5. \A u \in Stream : Entries(u)' = Entries(u)
  BY DEF Unsubscribe, Entries
<1>6. \A u \in Stream : (phase'[u] = "new" => phase[u] = "new") /\ (phase'[u] = "open" => phase[u] = "open")
  BY DEF Unsubscribe, HubSafe, TypeOK
<1>7. Sent'
  BY <1>5, <1>6 DEF Unsubscribe, HubSafe, Sent
<1>8. InOrder'
  BY <1>5 DEF HubSafe, InOrder
<1>9. Owed'
  BY <1>5, <1>6 DEF Unsubscribe, HubSafe, Owed
<1>. QED BY <1>2, <1>3, <1>4, <1>7, <1>8, <1>9 DEF HubSafe

\* A goroutine that begins a publication owes it to the streams of its topic.
LEMMA PublishSafe ==
  ASSUME HubSafe, NEW p \in Publisher, NEW t \in Topic, Publish(p, t)
  PROVE  HubSafe'
<1>. DEFINE e == [src |-> p, n |-> sent[p] + 1, topic |-> t]
<1>1. /\ e \in Event /\ sent[p] \in Nat /\ sent[p] + 1 \in 0 .. Events
      /\ Targets(t) \in SUBSET Stream
      /\ e.src = p /\ e.n = sent[p] + 1 /\ e.topic = t
  BY HubAssumption DEF Publish, HubSafe, TypeOK, Event, Targets
<1>2. /\ begun' = begun \cup {e}
      /\ sent' = [sent EXCEPT ![p] = sent[p] + 1]
      /\ publishing[p] = None
      /\ UNCHANGED <<subscribers, buffer, lagged, phase, follows, before, received>>
      /\ publishing' = [publishing EXCEPT ![p] =
           IF Targets(t) = {} THEN None ELSE [event |-> e, rest |-> Targets(t)]]
  BY DEF Publish, streams
<1>. HIDE DEF e
<1>3. /\ publishing'[p] = None <=> Targets(t) = {}
      /\ Targets(t) # {} => publishing'[p] = [event |-> e, rest |-> Targets(t)]
      /\ \A q \in Publisher \ {p} : publishing'[q] = publishing[q] /\ sent'[q] = sent[q]
      /\ sent'[p] = sent[p] + 1
  <2>1. [event |-> e, rest |-> Targets(t)] \in Publication
    BY <1>1 DEF Publication
  <2>. QED BY <1>2, <2>1, PublicationAssumption DEF HubSafe, TypeOK
<1>4. TypeOK'
  <2>1. [event |-> e, rest |-> Targets(t)] \in Publication
    BY <1>1 DEF Publication
  <2>. QED BY <1>1, <1>2, <2>1 DEF HubSafe, TypeOK
<1>5. Registered'
  BY <1>2 DEF HubSafe, Registered
<1>6. \A u \in Stream : Entries(u)' = Entries(u)
  BY <1>2 DEF Entries
<1>7. \A u \in Targets(t) : phase[u] # "new" /\ follows[u] = t
  BY <1>1 DEF HubSafe, Registered, Targets
<1>8. Publishing'
  <2>. SUFFICES ASSUME NEW q \in Publisher, publishing'[q] # None
                PROVE  /\ publishing'[q].event.src = q
                       /\ publishing'[q].event.n = sent'[q]
                       /\ publishing'[q].event \in begun'
                       /\ \A u \in publishing'[q].rest :
                            phase'[u] # "new" /\ follows'[u] = publishing'[q].event.topic
    BY DEF Publishing
  <2>1. CASE q = p
    BY <1>1, <1>2, <1>3, <1>7, <2>1
  <2>2. CASE q # p
    BY <1>2, <1>3, <2>2 DEF HubSafe, Publishing
  <2>. QED BY <2>1, <2>2
<1>9. Sent'
  <2>. SUFFICES ASSUME NEW u \in Stream, NEW i \in 1 .. Len(Entries(u)), NEW x, x = Entries(u)[i]
                PROVE  /\ phase[u] # "new"
                       /\ x.topic = follows[u]
                       /\ x.n <= sent'[x.src]
                       /\ publishing'[x.src] # None /\ u \in publishing'[x.src].rest
                            => x.n < publishing'[x.src].event.n
    BY <1>2, <1>6 DEF Sent
  <2>1. /\ phase[u] # "new" /\ x.topic = follows[u] /\ x.n <= sent[x.src]
        /\ publishing[x.src] # None /\ u \in publishing[x.src].rest => x.n < publishing[x.src].event.n
    BY DEF HubSafe, Sent
  <2>2. x.src \in Publisher /\ x.n \in Nat
    BY EntriesType DEF HubSafe
  <2>3. CASE x.src = p
    BY <1>1, <1>3, <2>1, <2>2, <2>3
  <2>4. CASE x.src # p
    BY <1>3, <2>1, <2>2, <2>4
  <2>. QED BY <2>3, <2>4
<1>10. InOrder'
  BY <1>6 DEF HubSafe, InOrder
<1>11. Owed'
  <2>. SUFFICES ASSUME NEW u \in Stream \ lagged, phase[u] = "open",
                       NEW x \in begun' \ before[u], x.topic = follows[u]
                PROVE  \/ \E i \in 1 .. Len(Entries(u)) : Entries(u)[i] = x
                       \/ /\ publishing'[x.src] # None
                          /\ publishing'[x.src].event = x
                          /\ u \in publishing'[x.src].rest
    BY <1>2, <1>6 DEF Owed
  <2>1. CASE x = e
    <3>1. u \in Targets(t)
      BY <1>1, <2>1 DEF HubSafe, Registered, Targets
    <3>. QED BY <1>1, <1>3, <2>1, <3>1
  <2>2. CASE x # e
    <3>1. x \in begun /\ x.src \in Publisher
      BY <1>2, <2>2 DEF HubSafe, TypeOK, Event
    <3>2. \/ \E i \in 1 .. Len(Entries(u)) : Entries(u)[i] = x
          \/ publishing[x.src] # None /\ publishing[x.src].event = x /\ u \in publishing[x.src].rest
      BY <3>1 DEF HubSafe, Owed
    <3>. QED BY <1>2, <1>3, <3>1, <3>2
  <2>. QED BY <2>1, <2>2
<1>. QED BY <1>4, <1>5, <1>8, <1>9, <1>10, <1>11 DEF HubSafe

\* What one send does to the publication it belongs to.
LEMMA SentToEffect ==
  ASSUME HubSafe, NEW p \in Publisher, NEW s \in Stream,
         publishing[p] # None, s \in publishing[p].rest, SentTo(p, s)
  PROVE  /\ publishing' \in [Publisher -> Publication \cup {None}]
         /\ \A q \in Publisher \ {p} : publishing'[q] = publishing[q]
         /\ publishing'[p] # None => publishing'[p].event = publishing[p].event
         /\ publishing'[p] # None => publishing'[p].rest = publishing[p].rest \ {s}
         /\ publishing'[p] = None => publishing[p].rest = {s}
<1>1. publishing[p] \in Publication
  BY DEF HubSafe, TypeOK
<1>. DEFINE left == [publishing[p] EXCEPT !.rest = publishing[p].rest \ {s}]
<1>2. left \in Publication /\ left.event = publishing[p].event /\ left.rest = publishing[p].rest \ {s}
  BY <1>1 DEF Publication
<1>3. publishing' = [publishing EXCEPT ![p] = IF publishing[p].rest = {s} THEN None ELSE left]
  BY DEF SentTo
<1>. HIDE DEF left
<1>. QED BY <1>1, <1>2, <1>3, PublicationAssumption DEF HubSafe, TypeOK

\* Sending an event to a stream, or dropping it, keeps the hub safe.
LEMMA SendSafe ==
  ASSUME HubSafe, NEW p \in Publisher, NEW s \in Stream, Send(p, s)
  PROVE  HubSafe'
<1>. DEFINE e == publishing[p].event
            added == Len(Entries(s)) + 1
<1>1. /\ publishing[p] \in Publication /\ e \in Event /\ e.src = p /\ e.n = sent[p]
      /\ e \in begun /\ e.n \in Nat
      /\ phase[s] # "new" /\ follows[s] = e.topic /\ s \in publishing[p].rest
  BY HubAssumption DEF Send, HubSafe, TypeOK, Publishing, Publication, Event
<1>2. /\ publishing[p] # None
      /\ publishing' \in [Publisher -> Publication \cup {None}]
      /\ \A q \in Publisher \ {p} : publishing'[q] = publishing[q]
      /\ publishing'[p] # None => publishing'[p].event = e
      /\ publishing'[p] # None => publishing'[p].rest = publishing[p].rest \ {s}
      /\ publishing'[p] = None => publishing[p].rest = {s}
      /\ UNCHANGED <<subscribers, sent, begun, phase, follows, before, received>>
  BY SentToEffect DEF Send, streams
<1>3. buffer[s] \in Seq(Event) /\ received[s] \in Seq(Event) /\ Len(buffer[s]) <= Cap
      /\ Len(Entries(s)) \in Nat
  BY EntriesType DEF HubSafe, TypeOK
<1>. HIDE DEF e
<1>4. \/ /\ Len(buffer[s]) < Cap
         /\ buffer' = [buffer EXCEPT ![s] = Append(buffer[s], e)]
         /\ lagged' = lagged
      \/ UNCHANGED buffer /\ lagged' = lagged \cup {s}
  BY DEF Send, Offer, HasRoom, e
<1>5. TypeOK'
  <2>1. CASE UNCHANGED buffer /\ lagged' = lagged \cup {s}
    BY <1>2, <2>1 DEF HubSafe, TypeOK
  <2>2. CASE /\ Len(buffer[s]) < Cap
             /\ buffer' = [buffer EXCEPT ![s] = Append(buffer[s], e)]
             /\ lagged' = lagged
    <3>1. Append(buffer[s], e) \in Seq(Event) /\ Len(Append(buffer[s], e)) <= Cap
      BY <1>1, <1>3, <2>2, HubAssumption
    <3>. QED BY <1>2, <2>2, <3>1 DEF HubSafe, TypeOK
  <2>. QED BY <1>4, <2>1, <2>2
<1>6. Registered'
  BY <1>2 DEF HubSafe, Registered
<1>7. Publishing'
  <2>. SUFFICES ASSUME NEW q \in Publisher, publishing'[q] # None
                PROVE  /\ publishing'[q].event.src = q
                       /\ publishing'[q].event.n = sent[q]
                       /\ publishing'[q].event \in begun
                       /\ \A u \in publishing'[q].rest :
                            phase[u] # "new" /\ follows[u] = publishing'[q].event.topic
    BY <1>2 DEF Publishing
  <2>1. CASE q = p
    BY <1>1, <1>2, <2>1 DEF HubSafe, Publishing, e
  <2>2. CASE q # p
    BY <1>2, <2>2 DEF HubSafe, Publishing
  <2>. QED BY <2>1, <2>2
\* The entries of the stream sent to may grow by the event; no others change.
<1>8. /\ \A u \in Stream \ {s} : Entries(u)' = Entries(u)
      /\ \/ Entries(s)' = Entries(s) /\ lagged' = lagged \cup {s}
         \/ /\ lagged' = lagged
            /\ Len(Entries(s)') = added
            /\ Entries(s)'[added] = e
            /\ \A i \in 1 .. Len(Entries(s)) : Entries(s)'[i] = Entries(s)[i]
  <2>1. CASE UNCHANGED buffer /\ lagged' = lagged \cup {s}
    BY <1>2, <2>1 DEF Entries
  <2>2. CASE /\ buffer' = [buffer EXCEPT ![s] = Append(buffer[s], e)]
             /\ lagged' = lagged
    <3>1. \A u \in Stream \ {s} : Entries(u)' = Entries(u)
      BY <1>2, <2>2 DEF Entries, HubSafe, TypeOK
    <3>2. Entries(s)' = received[s] \o Append(buffer[s], e) /\ Entries(s) = received[s] \o buffer[s]
      BY <1>2, <2>2 DEF Entries, HubSafe, TypeOK
    <3>3. /\ Len(received[s] \o Append(buffer[s], e)) = Len(received[s] \o buffer[s]) + 1
          /\ (received[s] \o Append(buffer[s], e))[Len(received[s] \o buffer[s]) + 1] = e
          /\ \A i \in 1 .. Len(received[s] \o buffer[s]) :
               (received[s] \o Append(buffer[s], e))[i] = (received[s] \o buffer[s])[i]
      <4>. DEFINE a == received[s]
                  b == buffer[s]
      <4>1. a \in Seq(Event) /\ b \in Seq(Event)
        BY <1>3
      <4>. HIDE DEF a, b
      <4>2. /\ Len(a \o Append(b, e)) = Len(a \o b) + 1
            /\ (a \o Append(b, e))[Len(a \o b) + 1] = e
            /\ \A i \in 1 .. Len(a \o b) : (a \o Append(b, e))[i] = (a \o b)[i]
        BY <1>1, <4>1, SendConcat
      <4>. QED BY <4>2, Zenon DEF a, b
    <3>. QED BY <2>2, <3>1, <3>2, <3>3, Zenon
  <2>. QED BY <1>4, <2>1, <2>2
\* Everything it was sent before is older.
<1>9. \A i \in 1 .. Len(Entries(s)) : Entries(s)[i].src = p => Entries(s)[i].n < e.n
  BY <1>1, <1>2 DEF HubSafe, Sent, e
<1>10. Sent'
  <2>. SUFFICES ASSUME NEW u \in Stream, NEW i \in 1 .. Len(Entries(u)'), NEW x, x = Entries(u)'[i]
                PROVE  /\ phase[u] # "new"
                       /\ x.topic = follows[u]
                       /\ x.n <= sent[x.src]
                       /\ publishing'[x.src] # None /\ u \in publishing'[x.src].rest
                            => x.n < publishing'[x.src].event.n
    BY <1>2 DEF Sent
  <2>1. CASE i \in 1 .. Len(Entries(u)) /\ x = Entries(u)[i]
    <3>1. x.src \in Publisher
      BY <2>1, EntriesType DEF HubSafe
    <3>2. /\ phase[u] # "new" /\ x.topic = follows[u] /\ x.n <= sent[x.src]
          /\ publishing[x.src] # None /\ u \in publishing[x.src].rest => x.n < publishing[x.src].event.n
      BY <2>1 DEF HubSafe, Sent
    <3>3. CASE x.src = p
      BY <1>2, <3>2, <3>3 DEF e
    <3>4. CASE x.src # p
      BY <1>2, <3>1, <3>2, <3>4
    <3>. QED BY <3>3, <3>4
  <2>2. CASE u = s /\ x = e
    BY <1>1, <1>2, <2>2 DEF HubSafe, TypeOK
  <2>3. (i \in 1 .. Len(Entries(u)) /\ x = Entries(u)[i]) \/ (u = s /\ x = e)
    BY <1>3, <1>8
  <2>. QED BY <2>1, <2>2, <2>3
<1>11. InOrder'
  <2>. SUFFICES ASSUME NEW u \in Stream, NEW i \in 1 .. Len(Entries(u)'), NEW j \in 1 .. Len(Entries(u)'),
                       i < j, Entries(u)'[i].src = Entries(u)'[j].src
                PROVE  Entries(u)'[i].n < Entries(u)'[j].n
    BY DEF InOrder
  <2>1. CASE Entries(u)' = Entries(u)
    BY <2>1 DEF HubSafe, InOrder
  <2>2. CASE /\ u = s /\ Len(Entries(s)') = added /\ Entries(s)'[added] = e
             /\ \A k \in 1 .. Len(Entries(s)) : Entries(s)'[k] = Entries(s)[k]
    <3>1. CASE j = added
      BY <1>1, <1>3, <1>9, <2>2, <3>1
    <3>2. CASE j # added
      <4>1. i \in 1 .. Len(Entries(s)) /\ j \in 1 .. Len(Entries(s))
        BY <1>3, <2>2, <3>2
      <4>2. Entries(u)'[i] = Entries(s)[i] /\ Entries(u)'[j] = Entries(s)[j]
        BY <2>2, <4>1
      <4>. QED BY <4>1, <4>2 DEF HubSafe, InOrder
    <3>. QED BY <3>1, <3>2
  <2>. QED BY <1>8, <2>1, <2>2
<1>12. Owed'
  <2>. SUFFICES ASSUME NEW u \in Stream \ lagged', phase[u] = "open",
                       NEW x \in begun \ before[u], x.topic = follows[u]
                PROVE  \/ \E i \in 1 .. Len(Entries(u)') : Entries(u)'[i] = x
                       \/ /\ publishing'[x.src] # None
                          /\ publishing'[x.src].event = x
                          /\ u \in publishing'[x.src].rest
    BY <1>2 DEF Owed
  <2>1. u \notin lagged /\ x.src \in Publisher
    BY <1>8 DEF HubSafe, TypeOK, Event
  <2>2. CASE \E i \in 1 .. Len(Entries(u)) : Entries(u)[i] = x
    BY <1>3, <1>8, <2>1, <2>2
  <2>3. CASE /\ publishing[x.src] # None
             /\ publishing[x.src].event = x
             /\ u \in publishing[x.src].rest
    <3>1. CASE x.src # p
      BY <1>2, <2>1, <2>3, <3>1
    <3>2. CASE x.src = p /\ u # s
      BY <1>2, <2>1, <2>3, <3>2 DEF e
    <3>3. CASE x.src = p /\ u = s
      <4>1. x = e
        BY <2>3, <3>3 DEF e
      <4>2. Len(Entries(s)') = added /\ Entries(s)'[added] = e
        BY <1>8, <3>3
      <4>. QED BY <1>3, <3>3, <4>1, <4>2
    <3>. QED BY <3>1, <3>2, <3>3
  <2>4. \/ \E i \in 1 .. Len(Entries(u)) : Entries(u)[i] = x
        \/ publishing[x.src] # None /\ publishing[x.src].event = x /\ u \in publishing[x.src].rest
    BY <2>1 DEF HubSafe, Owed
  <2>. QED BY <2>2, <2>3, <2>4
<1>. QED BY <1>5, <1>6, <1>7, <1>10, <1>11, <1>12 DEF HubSafe

-----------------------------------------------------------------------------
\* Every step keeps the hub safe.
LEMMA NextSafe == HubSafe /\ [Next]_vars => HubSafe'
<1>. SUFFICES ASSUME HubSafe, [Next]_vars PROVE HubSafe'
  OBVIOUS
<1>1. CASE \E s \in Stream, t \in Topic : Subscribe(s, t)
  BY <1>1, SubscribeSafe
<1>2. CASE \E s \in Stream : Read(s)
  BY <1>2, ReadSafe
<1>3. CASE \E s \in Stream : Leave(s)
  BY <1>3, LeaveSafe
<1>4. CASE \E s \in Stream : Unsubscribe(s)
  BY <1>4, UnsubscribeSafe
<1>5. CASE \E p \in Publisher, t \in Topic : Publish(p, t)
  BY <1>5, PublishSafe
<1>6. CASE \E p \in Publisher, s \in Stream : Send(p, s)
  BY <1>6, SendSafe
<1>7. CASE UNCHANGED vars
  <2>1. \A u \in Stream : Entries(u)' = Entries(u)
    BY <1>7 DEF vars, streams, Entries
  <2>2. TypeOK' /\ Registered' /\ Publishing'
    BY <1>7 DEF vars, streams, HubSafe, TypeOK, Registered, Publishing
  <2>3. Sent' /\ InOrder'
    BY <1>7, <2>1 DEF vars, streams, HubSafe, Sent, InOrder
  <2>4. Owed'
    BY <1>7, <2>1 DEF vars, streams, HubSafe, Owed
  <2>. QED BY <2>2, <2>3, <2>4 DEF HubSafe
<1>. QED BY <1>1, <1>2, <1>3, <1>4, <1>5, <1>6, <1>7 DEF Next

\* The invariant of the hub holds in every behaviour.
THEOREM SafeHub == Spec => []HubSafe
BY InitSafe, NextSafe, PTL DEF Spec

\* Whatever publications interleave, each stream has the events of any one
\* goroutine in the order of its Publish calls, each at most once.
THEOREM Ordered == Spec => []InOrder
<1>1. HubSafe => InOrder
  BY DEF HubSafe
<1>. QED BY <1>1, SafeHub, PTL

\* A stream loses an event only when a send found its channel full.
THEOREM Complete == Spec => []NothingMissed
<1>1. HubSafe => NothingMissed
  BY DEF HubSafe, Owed, NothingMissed, Returned
<1>. QED BY <1>1, SafeHub, PTL

-----------------------------------------------------------------------------
\* The refinement mapping, by name.
phaseBar == [s \in Stream |-> IF phase[s] \in {"leaving", "gone"} THEN "over" ELSE phase[s]]
queueBar == [s \in Stream |-> IF phase[s] = "open" THEN buffer[s] ELSE <<>>]

\* An empty hub is a set of empty feeds.
LEMMA FeedInit == Init => FeedOf!Init
BY DEF Init, FeedOf!Init

\* What a goroutine is about to send a stream has not been sent to it before.
LEMMA NotYetSent ==
  ASSUME HubSafe, NEW p \in Publisher, NEW s \in Stream,
         publishing[p] # None, s \in publishing[p].rest
  PROVE  /\ publishing[p].event \in Event /\ publishing[p].event.topic = follows[s]
         /\ \A i \in DOMAIN received[s] : received[s][i] # publishing[p].event
         /\ \A i \in DOMAIN buffer[s] : buffer[s][i] # publishing[p].event
<1>. DEFINE e == publishing[p].event
            a == received[s]
            b == buffer[s]
<1>1. /\ e \in Event /\ e.src = p /\ e.topic = follows[s] /\ e.n \in Nat
  BY HubAssumption DEF HubSafe, TypeOK, Publishing, Publication, Event
<1>2. \A i \in 1 .. Len(Entries(s)) : Entries(s)[i] # e
  BY <1>1 DEF HubSafe, Sent
<1>3. a \in Seq(Event) /\ b \in Seq(Event) /\ Entries(s) = a \o b
  BY DEF HubSafe, TypeOK, Entries
<1>. HIDE DEF a, b, e
<1>4. /\ \A i \in DOMAIN a : i \in 1 .. Len(a \o b) /\ (a \o b)[i] = a[i]
      /\ \A i \in DOMAIN b : Len(a) + i \in 1 .. Len(a \o b) /\ (a \o b)[Len(a) + i] = b[i]
  BY <1>3
<1>5. /\ \A i \in DOMAIN a : a[i] # e
      /\ \A i \in DOMAIN b : b[i] # e
  BY <1>2, <1>3, <1>4
<1>. QED BY <1>1, <1>5 DEF a, b, e

\* Every step of the hub is one of the feeds, or leaves them alone.
LEMMA NextFeed ==
  HubSafe /\ [Next]_vars => [FeedOf!Next]_(FeedOf!feedVars)
<1>. SUFFICES ASSUME HubSafe, [Next]_vars
              PROVE  FeedOf!Next \/ UNCHANGED FeedOf!feedVars
  OBVIOUS
<1>0. /\ phase \in [Stream -> {"new", "open", "leaving", "gone"}]
      /\ buffer \in [Stream -> Seq(Event)]
      /\ received \in [Stream -> Seq(Event)]
  BY DEF HubSafe, TypeOK
\* It is enough to speak of the mapping by name.
<1>. DEFINE Same == phaseBar' = phaseBar /\ queueBar' = queueBar /\ UNCHANGED <<follows, received>>
<1>a. Same => UNCHANGED FeedOf!feedVars
  BY DEF phaseBar, queueBar, FeedOf!feedVars
<1>1. ASSUME NEW s \in Stream, NEW t \in Topic, Subscribe(s, t)
      PROVE  FeedOf!Next
  <2>1. Entries(s) = <<>>
    BY EntriesType, <1>1 DEF Subscribe, HubSafe, Sent
  <2>2. buffer[s] = <<>>
    BY <1>0, <2>1 DEF Entries
  <2>3. phaseBar[s] = "new" /\ phaseBar' = [phaseBar EXCEPT ![s] = "open"]
    BY <1>0, <1>1 DEF Subscribe, phaseBar
  <2>4. queueBar' = queueBar
    BY <1>0, <1>1, <2>2 DEF Subscribe, queueBar
  <2>5. FeedOf!Open(s, t)
    BY <1>1, <2>3, <2>4 DEF Subscribe, FeedOf!Open, phaseBar, queueBar
  <2>. QED BY <2>5 DEF FeedOf!Next
<1>2. ASSUME NEW s \in Stream, Read(s)
      PROVE  FeedOf!Next
  <2>1. phaseBar[s] = "open" /\ phaseBar' = phaseBar
    BY <1>0, <1>2 DEF Read, phaseBar
  <2>2. queueBar[s] = buffer[s] /\ queueBar' = [queueBar EXCEPT ![s] = Tail(queueBar[s])]
    BY <1>0, <1>2 DEF Read, queueBar
  <2>3. /\ queueBar[s] # <<>> /\ UNCHANGED follows
        /\ received' = [received EXCEPT ![s] = Append(received[s], Head(queueBar[s]))]
    BY <1>2, <2>2 DEF Read
  <2>4. FeedOf!Deliver(s)
    BY <2>1, <2>2, <2>3 DEF FeedOf!Deliver, phaseBar, queueBar
  <2>. QED BY <2>4 DEF FeedOf!Next
<1>3. ASSUME NEW s \in Stream, Leave(s)
      PROVE  FeedOf!Next
  <2>1. phaseBar[s] = "open" /\ phaseBar' = [phaseBar EXCEPT ![s] = "over"]
    BY <1>0, <1>3 DEF Leave, phaseBar
  <2>2. queueBar' = [queueBar EXCEPT ![s] = <<>>]
    BY <1>0, <1>3 DEF Leave, queueBar
  <2>3. FeedOf!Close(s)
    BY <1>3, <2>1, <2>2 DEF Leave, FeedOf!Close, phaseBar, queueBar
  <2>. QED BY <2>3 DEF FeedOf!Next
<1>4. ASSUME NEW s \in Stream, Unsubscribe(s)
      PROVE  Same
  BY <1>0, <1>4 DEF Unsubscribe, phaseBar, queueBar
<1>5. ASSUME NEW p \in Publisher, NEW t \in Topic, Publish(p, t)
      PROVE  Same
  BY <1>5 DEF Publish, streams, phaseBar, queueBar
<1>6. ASSUME NEW p \in Publisher, NEW s \in Stream, Send(p, s)
      PROVE  FeedOf!Next \/ Same
  <2>. DEFINE e == publishing[p].event
  <2>1. phaseBar' = phaseBar /\ UNCHANGED <<phase, follows, received>>
    BY <1>6 DEF Send, streams, phaseBar
  <2>2. CASE phase[s] = "open" /\ HasRoom(s)
    <3>1. /\ e \in Event /\ e.topic = follows[s]
          /\ \A i \in DOMAIN received[s] : received[s][i] # e
          /\ \A i \in DOMAIN buffer[s] : buffer[s][i] # e
      BY <1>6, NotYetSent DEF Send
    <3>. PICK x \in Event : x = e
      BY <3>1
    <3>2. buffer' = [buffer EXCEPT ![s] = Append(buffer[s], x)]
      BY <1>6, <2>2 DEF Send, Offer
    <3>0. /\ x.topic = follows[s]
          /\ \A i \in DOMAIN received[s] : received[s][i] # x
          /\ \A i \in DOMAIN buffer[s] : buffer[s][i] # x
      BY <3>1
    <3>. HIDE DEF e
    <3>3. /\ queueBar[s] = buffer[s] /\ phaseBar[s] = "open"
          /\ queueBar' = [queueBar EXCEPT ![s] = Append(queueBar[s], x)]
      BY <1>0, <2>1, <2>2, <3>2 DEF queueBar, phaseBar
    <3>4. Len(queueBar[s]) < Cap
      BY <2>2, <3>3 DEF HasRoom
    <3>5. FeedOf!Enter(s, x)
      BY <2>1, <3>0, <3>3, <3>4 DEF FeedOf!Enter, phaseBar, queueBar
    <3>. QED BY <3>5 DEF FeedOf!Next
  <2>3. CASE ~(phase[s] = "open" /\ HasRoom(s))
    <3>1. queueBar' = queueBar
      BY <1>0, <1>6, <2>1, <2>3 DEF Send, Offer, queueBar
    <3>. QED BY <2>1, <3>1
  <2>. QED BY <2>2, <2>3
<1>7. ASSUME UNCHANGED vars
      PROVE  Same
  BY <1>7 DEF vars, streams, phaseBar, queueBar
<1>. HIDE DEF Same
<1>. QED BY <1>a, <1>1, <1>2, <1>3, <1>4, <1>5, <1>6, <1>7 DEF Next

\* The hub implements the feed.
THEOREM Implementation == Spec => ImplementsFeed
BY SafeHub, FeedInit, NextFeed, PTL DEF Spec, ImplementsFeed, FeedOf!Spec
=============================================================================
