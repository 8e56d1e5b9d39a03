-------------------------------- MODULE LiveView --------------------------------
(***************************************************************************)
(* The page that shows one token in the browser, beside the database it    *)
(* shows. The page loads the token, then the number of requests, then one  *)
(* page of them, both as the filters in its address select them, and only  *)
(* then opens the event stream; from there on it follows the events, which *)
(* know nothing of filters. Captures and updates write first and publish   *)
(* later, some read the number of requests in between, and they overlap. A *)
(* connection may be lost and is taken up again without a replay.          *)
(***************************************************************************)
EXTENDS Integers, SequencesExt, FiniteSetsExt

CONSTANTS
  Handler,    \* HTTP handlers
  PerPage,    \* requests on a page
  Buffer,     \* capacity of a subscriber's channel
  Requests,   \* bound: requests that are ever captured
  Second,     \* created_at of each request, in whole seconds
  Filters,    \* the sets of requests that the filters of an address select
  Updates     \* bound: updates of the token

ASSUME LiveViewAssumption ==
  /\ PerPage \in Nat \ {0} /\ Buffer \in Nat
  /\ Requests \in Nat /\ Updates \in Nat

\* Requests are numbered as they are captured, before they are stored; several
\* of them may fall into one second. Settings are numbered by the updates that
\* saved them.
Id == 1 .. Requests
Version == 0 .. Updates

ASSUME RequestAssumption ==
  /\ Second \in [Id -> Nat]
  /\ \A q, r \in Id : q < r => Second[q] <= Second[r]
  /\ Filters \subseteq SUBSET Id

Event ==
  [type : {"request.created"}, id : Id, total : 0 .. Requests]
  \cup [type : {"token.updated"}, version : Version]

\* A handler between two statements. `overtaken' is history: an event newer
\* than the one it will publish has been published, or requests were deleted.
Call ==
  [stage : {"idle"}]
  \cup [stage : {"insert", "count"}, id : Id, overtaken : BOOLEAN]
  \cup [stage : {"publish"}, event : Event, overtaken : BOOLEAN]

Idle == [stage |-> "idle"]

VARIABLES
  stored,     \* the requests table
  version,    \* the token's settings
  captured,   \* how many requests have been stamped
  call,       \* the handlers
  phase,      \* what the page has loaded so far
  page,       \* the page of the list that is shown
  filter,     \* the requests that its filters select; all of them without any
  connected,  \* the stream is subscribed
  channel,    \* its channel, and what is on the way to the browser
  view,       \* what the page shows
  missed      \* history: what the page shows of these need not be so any more

vars == <<stored, version, captured, call, phase, page, filter, connected, channel, view, missed>>

\* What the page shows.
View == [version : Version, total : 0 .. Requests, list : Seq(Id), pending : 0 .. Requests]

Blank == [version |-> 0, total |-> 0, list |-> <<>>, pending |-> 0]

Init ==
  /\ stored = {} /\ version = 0 /\ captured = 0
  /\ call = [h \in Handler |-> Idle]
  /\ phase = "closed" /\ page = 1 /\ filter = Id /\ connected = FALSE /\ channel = <<>>
  /\ view = Blank
  /\ missed = {}

-----------------------------------------------------------------------------
At(h, stage) == call[h].stage = stage

Become(h, next) == call' = [call EXCEPT ![h] = next]

Database == <<stored, version, captured>>
Browser == <<phase, page, filter, connected, channel, view>>

\* What the page has read of requests and settings may differ from now on.
Counted == phase \in {"list", "loaded"}
Read == Counted \/ phase = "count"

Misses(what, happens) == missed' = IF happens THEN missed \cup {what} ELSE missed

\* capture: the time of the request.
Stamp(h) ==
  /\ At(h, "idle")
  /\ captured < Requests
  /\ captured' = captured + 1
  /\ Become(h, [stage |-> "insert", id |-> captured + 1, overtaken |-> FALSE])
  /\ UNCHANGED <<stored, version, Browser, missed>>

\* CreateRequest.
Insert(h) ==
  /\ At(h, "insert")
  /\ stored' = stored \cup {call[h].id}
  /\ Become(h, [call[h] EXCEPT !.stage = "count"])
  /\ UNCHANGED <<version, captured, Browser, missed>>

\* A mutant of Created: the number before this request.
CreatedBefore(id) ==
  [type |-> "request.created", id |-> id, total |-> Cardinality(stored \ {id})]

\* The event of a request: the request and the number of requests.
Created(id) == [type |-> "request.created", id |-> id, total |-> Cardinality(stored)]

\* CountRequestsByToken.
Count(h) ==
  /\ At(h, "count")
  /\ Become(h, [stage |-> "publish", event |-> Created(call[h].id),
                overtaken |-> call[h].overtaken])
  /\ UNCHANGED <<Database, Browser, missed>>

\* A mutant of Updated: the settings as they were loaded.
UpdatedBefore(saved) == [type |-> "token.updated", version |-> saved - 1]

\* The event of an update: the settings as it has saved them.
Updated(saved) == [type |-> "token.updated", version |-> saved]

\* updateToken up to UpdateToken.
Save(h) ==
  /\ At(h, "idle")
  /\ version < Updates
  /\ version' = version + 1
  /\ Become(h, [stage |-> "publish", event |-> Updated(version + 1), overtaken |-> FALSE])
  /\ UNCHANGED <<stored, captured, Browser, missed>>

\* The event of g is older than e.
Older(g, e) ==
  IF e.type = "token.updated"
  THEN At(g, "publish") /\ call[g].event.type = e.type /\ call[g].event.version < e.version
  ELSE \/ call[g].stage \in {"insert", "count"} /\ call[g].id < e.id
       \/ /\ At(g, "publish") /\ call[g].event.type = e.type
          /\ (call[g].event.id < e.id \/ call[g].event.total < e.total)

\* h is done with e: whatever is older comes too late.
Overtake(h, e) ==
  call' = [g \in Handler |-> IF g = h THEN Idle
             ELSE IF Older(g, e) THEN [call[g] EXCEPT !.overtaken = TRUE] ELSE call[g]]

Subject(e) == IF e.type = "token.updated" THEN "settings" ELSE "requests"

\* Publish: the page gets the event if it has subscribed and its channel has
\* room. It misses it if it has not and has read already.
Publish(h) ==
  LET e == call[h].event
      sent == connected /\ Len(channel) < Buffer
  IN  /\ At(h, "publish")
      /\ channel' = IF sent THEN Append(channel, e) ELSE channel
      /\ Misses(Subject(e), \/ call[h].overtaken
                            \/ ~sent /\ (IF Subject(e) = "settings" THEN Read ELSE Counted))
      /\ Overtake(h, e)
      /\ UNCHANGED <<Database, phase, page, filter, connected, view>>

\* A request is not stored: the quota, or the database fails.
Refuse(h) ==
  /\ At(h, "insert")
  /\ Become(h, Idle)
  /\ UNCHANGED <<Database, Browser, missed>>

\* It is stored, but counting fails: there will be no event.
FailToCount(h) ==
  /\ At(h, "count")
  /\ Misses("requests", Counted)
  /\ Overtake(h, Created(call[h].id))
  /\ UNCHANGED <<Database, Browser>>

\* A capture has stored its request, and perhaps counted.
Counts(h) ==
  At(h, "count") \/ (At(h, "publish") /\ call[h].event.type = "request.created")

\* deleteRequest and deleteAllRequests publish nothing.
Delete(ids) ==
  /\ ids # {} /\ ids \subseteq stored
  /\ stored' = stored \ ids
  /\ Misses("requests", Counted)
  /\ call' = [h \in Handler |-> IF Counts(h) THEN [call[h] EXCEPT !.overtaken = TRUE] ELSE call[h]]
  /\ UNCHANGED <<version, captured, Browser>>

-----------------------------------------------------------------------------
\* A set of requests, the newest first. ORDER BY created_at leaves the order
\* within a second to the database.
Newest(S) ==
  {all \in [1 .. Cardinality(S) -> S] :
     IsInjective(all) /\ \A i, j \in DOMAIN all : i < j => Second[all[i]] >= Second[all[j]]}

\* The WHERE clause that both statements of ListRequestsByToken share.
Matching == stored \cap filter

\* ListRequestsByToken, second statement: one page of what matches.
ListRequests(p) ==
  {SubSeq(all, (p - 1) * PerPage + 1, Min({p * PerPage, Len(all)})) : all \in Newest(Matching)}

\* load: the token, for an address with a page and filters.
LoadToken(p, f) ==
  /\ phase = "closed"
  /\ phase' = "count" /\ page' = p /\ filter' = f
  /\ view' = [Blank EXCEPT !.version = version]
  /\ missed' = {}
  /\ UNCHANGED <<Database, call, connected, channel>>

\* load: ListRequestsByToken, first statement.
LoadTotal ==
  /\ phase = "count"
  /\ phase' = "list"
  /\ view' = [view EXCEPT !.total = Cardinality(Matching)]
  /\ missed' = missed \ {"requests"}
  /\ UNCHANGED <<Database, call, page, filter, connected, channel>>

LoadList ==
  /\ phase = "list"
  /\ phase' = "loaded"
  /\ \E list \in ListRequests(page) : view' = [view EXCEPT !.list = list]
  /\ UNCHANGED <<Database, call, page, filter, connected, channel, missed>>

\* EventSource opens the stream, or opens it again; nothing is replayed.
Subscribe ==
  /\ phase = "loaded" /\ ~connected
  /\ connected' = TRUE
  /\ UNCHANGED <<Database, call, phase, page, filter, channel, view, missed>>

\* The connection is lost with all that is on its way.
Lose ==
  /\ connected
  /\ connected' = FALSE
  /\ channel' = <<>>
  /\ missed' = missed \cup {Subject(e) : e \in Range(channel)}
  /\ UNCHANGED <<Database, call, phase, page, filter, view>>

\* A mutant of Prepended: no request is looked for.
PrependedAgain(id, list) == SubSeq(<<id>> \o list, 1, Min({PerPage, Len(list) + 1}))

\* The members of a finite set of numbers, the smallest first.
Ascending(S) ==
  [n \in 1 .. Cardinality(S) |-> CHOOSE i \in S : Cardinality({k \in S : k < i}) = n - 1]

\* The list without a request (filter).
Others(id, list) ==
  LET kept == Ascending({i \in DOMAIN list : list[i] # id}) IN
  [n \in DOMAIN kept |-> list[kept[n]]]

\* A mutant of Prepended: nothing is cut off.
PrependedWhole(id, list) == <<id>> \o Others(id, list)

\* The list with a request in front, once, and no longer than a page.
Prepended(id, list) ==
  LET all == <<id>> \o Others(id, list) IN SubSeq(all, 1, Min({PerPage, Len(all)}))

\* applyRequestCreated: on a page behind the first the list stays.
Applied(e) ==
  IF page = 1 THEN [view EXCEPT !.total = e.total, !.list = Prepended(e.id, @)]
  ELSE [view EXCEPT !.total = e.total, !.pending = @ + 1]

\* The page handles an event.
Receive ==
  /\ channel # <<>>
  /\ LET e == Head(channel) IN
       view' = IF e.type = "token.updated" THEN [view EXCEPT !.version = e.version] ELSE Applied(e)
  /\ channel' = Tail(channel)
  /\ UNCHANGED <<Database, call, phase, page, filter, connected, missed>>

\* The page is left, loaded anew, or loaded with another page or other filters
\* (handleFilterChange, requestListHref).
Leave ==
  /\ phase # "closed"
  /\ phase' = "closed" /\ connected' = FALSE /\ channel' = <<>>
  /\ page' = 1 /\ filter' = Id
  /\ view' = Blank /\ missed' = {}
  /\ UNCHANGED <<Database, call>>

Next ==
  \/ \E h \in Handler :
       Stamp(h) \/ Insert(h) \/ Count(h) \/ Save(h) \/ Publish(h)
       \/ Refuse(h) \/ FailToCount(h)
  \/ \E ids \in SUBSET stored : Delete(ids)
  \/ \E p \in {1, 2}, f \in Filters : LoadToken(p, f)
  \/ LoadTotal \/ LoadList \/ Subscribe \/ Lose \/ Receive \/ Leave

Spec == Init /\ [][Next]_vars

-----------------------------------------------------------------------------
\* Every variable has its type; a list never outgrows its page.
TypeOK ==
  /\ stored \subseteq Id /\ version \in Version /\ captured \in 0 .. Requests
  /\ call \in [Handler -> Call]
  /\ phase \in {"closed", "count", "list", "loaded"} /\ page \in {1, 2}
  /\ filter \in SUBSET Id
  /\ connected \in BOOLEAN
  /\ channel \in Seq(Event) /\ Len(channel) <= Buffer
  /\ view \in View /\ Len(view.list) <= PerPage
  /\ missed \subseteq {"requests", "settings"}

\* No request is shown twice, although one may be both in the page that was
\* loaded and in an event that arrives later (applyRequestCreated).
NoDuplicates == IsInjective(view.list)

\* The page has seen all there is to see.
CaughtUp == connected /\ channel = <<>> /\ \A h \in Handler : At(h, "idle")

\* Without any reload a page that has caught up shows the settings that are
\* saved, unless an update was published before the page had subscribed, was
\* lost with its connection, or was published after a later one.
SettingsFaithful ==
  CaughtUp /\ "settings" \notin missed => view.version = version

\* A list is in order, and of these requests none is left out but for newer
\* ones that fill the page.
ShowsNewest(list, requests) ==
  /\ \A i, j \in DOMAIN list : i < j => Second[list[i]] >= Second[list[j]]
  /\ \A r \in requests \ Range(list) :
       Len(list) = PerPage /\ \A i \in DOMAIN list : Second[list[i]] >= Second[r]

\* Likewise it shows how many requests match, or how many there are at all once
\* an event has told it so; on page one stored requests, the newest first, of
\* which none that matches is left out but for newer ones; and on a later page
\* what belongs there, or that newer requests have come. Without filters that is
\* what a load would show. With filters the events of requests that do not match
\* are applied as well, to the list and to the number (applyRequestCreated).
\* Excused are requests that are deleted, and events missed or out of the order
\* of the captures, as above.
RequestsFaithful ==
  CaughtUp /\ "requests" \notin missed =>
    /\ view.total \in {Cardinality(Matching), Cardinality(stored)}
    /\ page = 1 => Range(view.list) \subseteq stored /\ ShowsNewest(view.list, Matching)
    /\ page # 1 => view.pending > 0 \/ view.list \in ListRequests(page)
=============================================================================
