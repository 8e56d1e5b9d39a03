------------------------------- MODULE RateLimit -------------------------------
(***************************************************************************)
(* The rate limit of one token. The middleware in front of the capture     *)
(* loads the token's limit, takes the current one-minute window, adds one  *)
(* to the counter of the client's address in that window and, in a second  *)
(* statement, reads the counter back; the value read decides. Webhooks     *)
(* arrive concurrently and stop between any two of these steps, users      *)
(* change the limit, the clock jumps, and old counters are swept away.     *)
(***************************************************************************)
EXTENDS Naturals, FiniteSets

CONSTANTS
  Request,   \* incoming webhooks
  Client,    \* the keys they are counted by: X-Real-Ip or RemoteAddr
  Limits,    \* limits the token may be given; 0 is `no limit'
  Windows    \* bound: one-minute windows, by number

ASSUME RateLimitAssumption ==
  /\ Limits \subseteq Nat
  /\ Windows \in Nat
  /\ IsFiniteSet(Request)

Window == 0 .. Windows

\* Counted requests have added one to a counter, and only they have.
Counted == {"read", "admitted", "refused", "failed"}

\* A webhook in the middleware. `limit' and `window' are what it has read so
\* far; `place' is history: its place among the requests its counter counts.
Passage ==
  [stage  : {"new", "stamp", "increment", "bypassed"} \cup Counted,
   client : Client,
   limit  : Limits,
   window : Window,
   place  : Nat]

VARIABLES
  now,      \* the clock, in windows
  limit,    \* the token's rate_limit
  count,    \* the rate_limits table; no row is 0
  request,  \* the webhooks
  swept     \* history: counters of windows before this one may be gone

vars == <<now, limit, count, request, swept>>

Init ==
  /\ now \in Window
  /\ limit \in Limits
  /\ count = [c \in Client |-> [w \in Window |-> 0]]
  /\ request \in [Request -> [stage : {"new"}, client : Client, limit : {limit},
                                     window : {now}, place : {0}]]
  /\ swept = 0

-----------------------------------------------------------------------------
At(r, stage) == request[r].stage = stage

Key(r) == <<request[r].client, request[r].window>>

\* GetToken. Without a limit, or without the token, the webhook passes.
Load(r) ==
  /\ At(r, "new")
  /\ request' = [request EXCEPT ![r].limit = limit,
                                ![r].stage = IF limit = 0 THEN "bypassed" ELSE "stamp"]
  /\ UNCHANGED <<now, limit, count, swept>>

\* time.Now().Truncate(rateLimitWindow)
Stamp(r) ==
  /\ At(r, "stamp")
  /\ request' = [request EXCEPT ![r].window = now, ![r].stage = "increment"]
  /\ UNCHANGED <<now, limit, count, swept>>

\* A mutant of Row: one counter for all clients.
RowOfAll(c, r) == TRUE

\* The row of rate_limits that counts a webhook, by address.
Row(c, r) == c = request[r].client

\* The UPSERT of IncrementRateLimit.
Increment(r) ==
  LET w == request[r].window IN
  /\ At(r, "increment")
  /\ count' = [c \in Client |-> [count[c] EXCEPT ![w] = IF Row(c, r) THEN @ + 1 ELSE @]]
  /\ request' = [request EXCEPT ![r].stage = "read",
                                ![r].place = count[request[r].client][w] + 1]
  /\ UNCHANGED <<now, limit, swept>>

\* A mutant of Verdict: the last place is taken twice.
VerdictOneMore(seen, r) == IF seen > request[r].limit + 1 THEN "refused" ELSE "admitted"

\* What the middleware makes of the count it has read.
Verdict(seen, r) == IF seen > request[r].limit THEN "refused" ELSE "admitted"

\* The SELECT of IncrementRateLimit, and the answer. By now the counter may
\* count later webhooks too, or be gone, which reads as 0.
Read(r) ==
  /\ At(r, "read")
  /\ request' = [request EXCEPT
       ![r].stage = Verdict(count[request[r].client][request[r].window], r)]
  /\ UNCHANGED <<now, limit, count, swept>>

\* A statement fails, usually because the client has left: the middleware lets
\* the webhook pass, counted or not.
FailOpen(r) ==
  /\ request[r].stage \in {"new", "increment", "read"}
  /\ request' = [request EXCEPT ![r].stage = IF @ = "read" THEN "failed" ELSE "bypassed"]
  /\ UNCHANGED <<now, limit, count, swept>>

-----------------------------------------------------------------------------
\* updateToken sets rate_limit.
SetLimit(l) ==
  /\ limit' = l
  /\ UNCHANGED <<now, count, request, swept>>

\* Wall-clock time, which may also be set back.
Tick(w) ==
  /\ now' = w
  /\ UNCHANGED <<limit, count, request, swept>>

\* A mutant of Old: the window that has just begun goes too.
OldOrEqual(w, before) == w <= before

Old(w, before) == w < before

\* CleanupRateLimits.
CleanupRateLimits(before) ==
  /\ count' = [c \in Client |-> [w \in Window |-> IF Old(w, before) THEN 0 ELSE count[c][w]]]
  /\ swept' = IF before > swept THEN before ELSE swept
  /\ UNCHANGED <<now, limit, request>>

Handle(r) == Load(r) \/ Stamp(r) \/ Increment(r) \/ Read(r)

Next ==
  \/ \E r \in Request : Handle(r) \/ FailOpen(r)
  \/ \E l \in Limits : SetLimit(l)
  \/ \E w \in Window : Tick(w) \/ CleanupRateLimits(w)

Spec == Init /\ [][Next]_vars

-----------------------------------------------------------------------------
TypeOK ==
  /\ now \in Window
  /\ limit \in Limits
  /\ count \in [Client -> [Window -> Nat]]
  /\ request \in [Request -> Passage]
  /\ swept \in Window

\* The requests a limit of at most l has let through in a window.
Admitted(c, w, l) ==
  {r \in Request : At(r, "admitted") /\ Key(r) = <<c, w>> /\ request[r].limit <= l}

\* However the statements of concurrent webhooks interleave, whatever the clock
\* does and however often the limit is changed: of the webhooks of one address
\* that are judged by a limit of l or less, at most l get through per window, as
\* long as its counter was not swept away (the middleware of ratelimit.go).
WithinLimit ==
  \A c \in Client, w \in Window, l \in Limits :
    w >= swept => Cardinality(Admitted(c, w, l)) <= l

\* The webhooks that have added one to a counter.
CountedIn(c, w) == {r \in Request : request[r].stage \in Counted /\ Key(r) = <<c, w>>}

\* A webhook is refused only if its own address has used up the limit it was
\* judged by: other addresses and earlier windows never count against it, even
\* if the limit or the clock changed while it was on its way (ratelimit.go:52).
RefusedForCause ==
  \A r \in Request : At(r, "refused") =>
    Cardinality(CountedIn(request[r].client, request[r].window)) > request[r].limit

\* The counters (IncrementRateLimit) give every webhook a place of its own in
\* its window as long as it is not swept, and nobody is let through at a place
\* beyond its limit; swept or not, a counter never counts more than there were.
CountersSafe ==
  /\ TypeOK
  /\ \A c \in Client, w \in Window : count[c][w] <= Cardinality(CountedIn(c, w))
  /\ \A r \in Request : request[r].stage \in Counted /\ request[r].window >= swept =>
       /\ request[r].place \in 1 .. count[request[r].client][request[r].window]
       /\ At(r, "admitted") => request[r].place <= request[r].limit
       /\ \A q \in CountedIn(request[r].client, request[r].window) :
            request[q].place = request[r].place => q = r
=============================================================================
