---------------------------- MODULE RateLimit_proofs ----------------------------
(***************************************************************************)
(* Proofs about RateLimit, for any webhooks, addresses, limits and number  *)
(* of windows.                                                             *)
(***************************************************************************)
EXTENDS RateLimit, FiniteSetTheorems, TLAPS

-----------------------------------------------------------------------------
\* What TypeOK says of one webhook.
LEMMA PassageType ==
  ASSUME TypeOK, NEW r \in Request
  PROVE  /\ request[r].client \in Client
         /\ request[r].limit \in Limits
         /\ request[r].window \in Window
         /\ request[r].place \in Nat
         /\ request[r].stage \in {"new", "stamp", "increment", "bypassed"} \cup Counted
         /\ count[request[r].client][request[r].window] \in Nat
BY DEF TypeOK, Passage

\* Any selection of the webhooks is finite.
LEMMA CountedFinite ==
  ASSUME NEW c, NEW w
  PROVE  IsFiniteSet(CountedIn(c, w)) /\ Cardinality(CountedIn(c, w)) \in Nat
<1>1. CountedIn(c, w) \in SUBSET Request
  BY DEF CountedIn
<1>. QED BY <1>1, FS_Subset, FS_CardinalityType, RateLimitAssumption

-----------------------------------------------------------------------------
\* Types are kept.
LEMMA TypeInit == Init => TypeOK
BY RateLimitAssumption DEF Init, TypeOK, Window, Passage

\* Every step keeps the types.
LEMMA TypeStep ==
  ASSUME TypeOK, [Next]_vars
  PROVE  TypeOK'
<1>. USE DEF TypeOK, At
<1>1. ASSUME NEW r \in Request, Load(r) PROVE TypeOK'
  BY <1>1 DEF Load, Passage, Window
<1>2. ASSUME NEW r \in Request, Stamp(r) PROVE TypeOK'
  BY <1>2 DEF Stamp, Passage
<1>3. ASSUME NEW r \in Request, Increment(r) PROVE TypeOK'
  <2>1. count' \in [Client -> [Window -> Nat]]
    <3>1. ASSUME NEW c \in Client
          PROVE  [count[c] EXCEPT ![request[r].window] = IF Row(c, r) THEN @ + 1 ELSE @]
                   \in [Window -> Nat]
      <4>1. count[c] \in [Window -> Nat] /\ request[r].window \in Window
        BY PassageType
      <4>. QED BY <4>1
    <3>. QED BY <1>3, <3>1 DEF Increment
  <2>2. request' \in [Request -> Passage]
    <3>1. count[request[r].client][request[r].window] + 1 \in Nat
      BY PassageType
    <3>. QED BY <1>3, <3>1 DEF Increment, Passage, Counted
  <2>. QED BY <1>3, <2>1, <2>2 DEF Increment
<1>4. ASSUME NEW r \in Request, Read(r) PROVE TypeOK'
  BY <1>4 DEF Read, Verdict, Passage, Counted
<1>5. ASSUME NEW r \in Request, FailOpen(r) PROVE TypeOK'
  BY <1>5 DEF FailOpen, Passage, Counted
<1>6. ASSUME NEW l \in Limits, SetLimit(l) PROVE TypeOK'
  BY <1>6 DEF SetLimit
<1>7. ASSUME NEW w \in Window, Tick(w) PROVE TypeOK'
  BY <1>7 DEF Tick
<1>8. ASSUME NEW w \in Window, CleanupRateLimits(w) PROVE TypeOK'
  BY <1>8 DEF CleanupRateLimits
<1>9. CASE UNCHANGED vars
  BY <1>9 DEF vars
<1>. QED BY <1>1, <1>2, <1>3, <1>4, <1>5, <1>6, <1>7, <1>8, <1>9 DEF Next, Handle

-----------------------------------------------------------------------------
\* Counted webhooks stay counted where they are: in no step does one leave its
\* counter, and a counter gains one only by Increment.
LEMMA CountedStays ==
  ASSUME TypeOK, [Next]_vars, NEW c \in Client, NEW w \in Window
  PROVE  CountedIn(c, w) \subseteq CountedIn(c, w)'
<1>. USE DEF TypeOK, At, CountedIn, Key, Counted, Passage
<1>1. ASSUME NEW r \in Request, Load(r) PROVE CountedIn(c, w) \subseteq CountedIn(c, w)'
  BY <1>1 DEF Load
<1>2. ASSUME NEW r \in Request, Stamp(r) PROVE CountedIn(c, w) \subseteq CountedIn(c, w)'
  BY <1>2 DEF Stamp
<1>3. ASSUME NEW r \in Request, Increment(r) PROVE CountedIn(c, w) \subseteq CountedIn(c, w)'
  BY <1>3 DEF Increment
<1>4. ASSUME NEW r \in Request, Read(r) PROVE CountedIn(c, w) \subseteq CountedIn(c, w)'
  BY <1>4 DEF Read, Verdict
<1>5. ASSUME NEW r \in Request, FailOpen(r) PROVE CountedIn(c, w) \subseteq CountedIn(c, w)'
  BY <1>5 DEF FailOpen
<1>6. ASSUME UNCHANGED request PROVE CountedIn(c, w) \subseteq CountedIn(c, w)'
  BY <1>6
<1>. QED
  BY <1>1, <1>2, <1>3, <1>4, <1>5, <1>6
  DEF Next, Handle, SetLimit, Tick, CleanupRateLimits, vars

\* Webhooks that are counted stay counted.
LEMMA CountedGrows ==
  ASSUME TypeOK, [Next]_vars, NEW c \in Client, NEW w \in Window
  PROVE  Cardinality(CountedIn(c, w)) <= Cardinality(CountedIn(c, w)')
<1>1. CountedIn(c, w)' \in SUBSET Request
  BY DEF CountedIn
<1>2. IsFiniteSet(CountedIn(c, w)')
  BY <1>1, FS_Subset, RateLimitAssumption
<1>. QED BY <1>2, CountedStays, FS_Subset

\* Increment adds one webhook to one counter.
LEMMA OneMoreCounted ==
  ASSUME TypeOK, NEW r \in Request, Increment(r), NEW c, NEW w,
         Key(r) = <<c, w>>
  PROVE  Cardinality(CountedIn(c, w)') = Cardinality(CountedIn(c, w)) + 1
<1>1. CountedIn(c, w)' = CountedIn(c, w) \cup {r}
  BY DEF TypeOK, Increment, At, CountedIn, Key, Counted, Passage
<1>2. r \notin CountedIn(c, w)
  BY DEF Increment, At, CountedIn, Counted
<1>. QED BY <1>1, <1>2, CountedFinite, FS_AddElement

-----------------------------------------------------------------------------
\* The conjuncts of CountersSafe about one webhook.
Placed(r) ==
  request[r].stage \in Counted /\ request[r].window >= swept =>
    /\ request[r].place \in 1 .. count[request[r].client][request[r].window]
    /\ At(r, "admitted") => request[r].place <= request[r].limit
    /\ \A q \in CountedIn(request[r].client, request[r].window) :
         request[q].place = request[r].place => q = r

\* The counters are right at the start.
LEMMA SafeInit == Init => CountersSafe
<1>. SUFFICES ASSUME Init PROVE CountersSafe
  OBVIOUS
<1>1. TypeOK
  BY TypeInit
<1>2. ASSUME NEW c \in Client, NEW w \in Window
      PROVE  count[c][w] <= Cardinality(CountedIn(c, w))
  BY CountedFinite DEF Init
<1>3. ASSUME NEW r \in Request PROVE request[r].stage \notin Counted
  BY DEF Init, Counted
<1>. QED BY <1>1, <1>2, <1>3 DEF CountersSafe

\* Counters are at most what they count.
LEMMA BoundStep ==
  ASSUME CountersSafe, [Next]_vars, NEW c \in Client, NEW w \in Window
  PROVE  count'[c][w] <= Cardinality(CountedIn(c, w)')
<1>. USE DEF CountersSafe
<1>1. /\ count[c][w] \in Nat /\ count[c][w] <= Cardinality(CountedIn(c, w))
      /\ Cardinality(CountedIn(c, w)) <= Cardinality(CountedIn(c, w)')
      /\ Cardinality(CountedIn(c, w)) \in Nat
  BY CountedGrows, CountedFinite DEF TypeOK
<1>2. Cardinality(CountedIn(c, w)') \in Nat
  <2>1. CountedIn(c, w)' \in SUBSET Request
    BY DEF CountedIn
  <2>. QED BY <2>1, FS_Subset, FS_CardinalityType, RateLimitAssumption
<1>3. ASSUME NEW r \in Request, Increment(r)
      PROVE  count'[c][w] <= Cardinality(CountedIn(c, w)')
  <2>1. CASE c = request[r].client /\ w = request[r].window
    <3>1. count'[c][w] = count[c][w] + 1
      BY <1>3, <2>1 DEF Increment, Row, TypeOK
    <3>. QED BY <1>1, <1>2, <1>3, <2>1, <3>1, OneMoreCounted DEF Key
  <2>2. CASE ~(c = request[r].client /\ w = request[r].window)
    <3>1. count'[c][w] = count[c][w]
      BY <1>3, <2>2 DEF Increment, Row, TypeOK
    <3>. QED BY <1>1, <1>2, <3>1
  <2>. QED BY <2>1, <2>2
<1>4. ASSUME NEW before \in Window, CleanupRateLimits(before)
      PROVE  count'[c][w] <= Cardinality(CountedIn(c, w)')
  <2>1. count'[c][w] = 0 \/ count'[c][w] = count[c][w]
    BY <1>4 DEF CleanupRateLimits
  <2>. QED BY <1>1, <1>2, <2>1
<1>5. ASSUME UNCHANGED count PROVE count'[c][w] <= Cardinality(CountedIn(c, w)')
  BY <1>1, <1>2, <1>5
<1>. QED
  BY <1>3, <1>4, <1>5
  DEF Next, Handle, Load, Stamp, Read, FailOpen, SetLimit, Tick, vars

\* A webhook that is not at Increment keeps its place to itself.
LEMMA PlacedStep ==
  ASSUME CountersSafe, [Next]_vars, NEW q \in Request
  PROVE  Placed(q)'
<1>. USE DEF CountersSafe, TypeOK
<1>0. \A r \in Request : Placed(r)
  BY DEF Placed
<1>1. ASSUME NEW r \in Request, Load(r) PROVE Placed(q)'
  BY <1>0, <1>1 DEF Load, Placed, CountedIn, Key, At, Counted, Passage
<1>2. ASSUME NEW r \in Request, Stamp(r) PROVE Placed(q)'
  BY <1>0, <1>2 DEF Stamp, Placed, CountedIn, Key, At, Counted, Passage
<1>3. ASSUME NEW r \in Request, Increment(r) PROVE Placed(q)'
  <2>. PICK c \in Client, w \in Window : c = request[r].client /\ w = request[r].window
    BY DEF Passage
  <2>1. /\ At(r, "increment") /\ c \in Client /\ w \in Window
        /\ request' = [request EXCEPT ![r].stage = "read", ![r].place = count[c][w] + 1]
        /\ \A d \in Client, v \in Window :
             count'[d][v] = IF d = c /\ v = w THEN count[d][v] + 1 ELSE count[d][v]
        /\ swept' = swept /\ count[c][w] \in Nat
    BY <1>3 DEF Increment, Row, Passage
  <2>2. \A p \in Request : p # r => request'[p] = request[p]
    BY <2>1
  <2>3. /\ request'[r].stage = "read" /\ request'[r].place = count[c][w] + 1
        /\ request'[r].client = c /\ request'[r].window = w
    BY <2>1 DEF Passage
  <2>4. CASE q = r
    <3>1. ASSUME NEW p \in CountedIn(c, w)', p # r, w >= swept
          PROVE  request'[p].place # count[c][w] + 1
      <4>1. p \in Request /\ request[p] = request'[p]
            /\ request[p].stage \in Counted /\ request[p].client = c /\ request[p].window = w
        BY <2>2, <3>1 DEF CountedIn, Key
      <4>2. request[p].place \in 1 .. count[c][w]
        BY <1>0, <3>1, <4>1 DEF Placed
      <4>. QED BY <2>1, <4>1, <4>2
    <3>2. count'[c][w] = count[c][w] + 1
      BY <2>1
    <3>3. count[c][w] + 1 \in 1 .. count'[c][w]
      BY <2>1, <3>2
    <3>4. ~At(r, "admitted")'
      BY <2>3 DEF At
    <3>5. ASSUME w >= swept PROVE \A p \in CountedIn(c, w)' :
            request'[p].place = request'[r].place => p = r
      BY <2>3, <3>1, <3>5
    <3>6. ASSUME NEW p \in Request, request'[p].stage \in Counted, w >= swept,
                 request'[p].client = c, request'[p].window = w,
                 request'[p].place = request'[r].place
          PROVE  p = r
      <4>1. p \in CountedIn(c, w)'
        BY <3>6 DEF CountedIn, Key
      <4>. QED BY <3>5, <3>6, <4>1
    <3>7. (\A p \in CountedIn(request[r].client, request[r].window) :
             /\ p \in Request /\ request[p].stage \in Counted
             /\ request[p].client = request[r].client
             /\ request[p].window = request[r].window)'
      BY DEF CountedIn, Key
    <3>8. (request[r].place \in 1 .. count[request[r].client][request[r].window])'
      BY <2>3, <3>3, Zenon
    <3>9. swept' = swept /\ request'[r].window = w /\ request'[r].client = c
      BY <2>1, <2>3
    <3>. HIDE DEF CountersSafe, TypeOK
    <3>10. (\A p \in CountedIn(request[r].client, request[r].window) :
              request[r].window >= swept /\ request[p].place = request[r].place => p = r)'
      BY <3>6, <3>7, <3>9
    <3>11. Placed(r)'
      BY <3>4, <3>8, <3>10, Zenon DEF Placed
    <3>. QED BY <2>4, <3>11, Zenon
  <2>5. CASE q # r
    <3>. PICK d \in Client, v \in Window : d = request[q].client /\ v = request[q].window
      BY DEF Passage
    <3>1. request'[q] = request[q]
      BY <2>2, <2>5
    <3>2. ASSUME request[q].stage \in Counted, v >= swept
          PROVE  /\ request[q].place \in 1 .. count'[d][v]
                 /\ request[q].stage = "admitted" => request[q].place <= request[q].limit
      <4>1. /\ request[q].place \in 1 .. count[d][v] /\ count[d][v] \in Nat
            /\ At(q, "admitted") => request[q].place <= request[q].limit
        BY <1>0, <3>2 DEF Placed
      <4>2. count'[d][v] = count[d][v] \/ count'[d][v] = count[d][v] + 1
        BY <2>1
      <4>. QED BY <4>1, <4>2 DEF At
    <3>3. ASSUME request[q].stage \in Counted, v >= swept,
                 NEW p \in CountedIn(d, v)', request'[p].place = request[q].place
          PROVE  p = q
      <4>1. CASE p = r
        <5>1. d = c /\ v = w
          BY <2>3, <3>3, <4>1 DEF CountedIn, Key
        <5>2. request[q].place \in 1 .. count[c][w]
          BY <1>0, <3>3, <5>1 DEF Placed
        <5>. QED BY <2>1, <2>3, <3>3, <4>1, <5>2
      <4>2. CASE p # r
        <5>1. p \in CountedIn(d, v) /\ request'[p] = request[p]
          BY <2>2, <3>3, <4>2 DEF CountedIn, Key
        <5>. QED BY <1>0, <3>3, <5>1 DEF Placed
      <4>. QED BY <4>1, <4>2
    <3>. QED BY <2>1, <3>1, <3>2, <3>3 DEF Placed, At
  <2>. QED BY <2>4, <2>5
<1>4. ASSUME NEW r \in Request, Read(r) PROVE Placed(q)'
  <2>. DEFINE c == request[r].client  w == request[r].window
  <2>1. /\ request' = [request EXCEPT ![r].stage = Verdict(count[c][w], r)]
        /\ count' = count /\ swept' = swept /\ request[r].stage = "read"
        /\ c \in Client /\ w \in Window /\ count[c][w] \in Nat
        /\ request[r].limit \in Nat /\ request[r].place \in Nat
    BY <1>4, RateLimitAssumption DEF Read, At, Passage
  <2>2. \A p \in Request :
          /\ request'[p].client = request[p].client /\ request'[p].window = request[p].window
          /\ request'[p].place = request[p].place /\ request'[p].limit = request[p].limit
          /\ request'[p].stage \in Counted <=> request[p].stage \in Counted
    BY <2>1 DEF Passage, Verdict, Counted
  <2>3. \A d, v : CountedIn(d, v)' = CountedIn(d, v)
    BY <2>2 DEF CountedIn, Key
  <2>4. ASSUME request[q].stage \in Counted, request[q].window >= swept, request'[q].stage = "admitted"
        PROVE  request[q].place <= request[q].limit
    <3>1. CASE q = r
      <4>1. count[c][w] <= request[r].limit
        BY <2>1, <2>4, <3>1 DEF Verdict
      <4>2. request[r].place \in 1 .. count[c][w]
        BY <1>0, <2>4, <3>1 DEF Placed
      <4>. QED BY <2>1, <3>1, <4>1, <4>2
    <3>2. CASE q # r
      BY <1>0, <2>1, <2>4, <3>2 DEF Placed, At
    <3>. QED BY <3>1, <3>2
  <2>. QED BY <1>0, <2>1, <2>2, <2>3, <2>4 DEF Placed, At
<1>5. ASSUME NEW r \in Request, FailOpen(r) PROVE Placed(q)'
  BY <1>0, <1>5 DEF FailOpen, Placed, CountedIn, Key, At, Counted, Passage
<1>6. ASSUME NEW before \in Window, CleanupRateLimits(before) PROVE Placed(q)'
  <2>1. /\ swept' \in Nat /\ swept' >= swept /\ swept' >= before
        /\ swept \in Nat /\ request' = request
    BY <1>6, RateLimitAssumption DEF CleanupRateLimits, Window
  <2>2. \A d \in Client, v \in Window : v >= swept' => count'[d][v] = count[d][v]
    BY <1>6, <2>1, RateLimitAssumption DEF CleanupRateLimits, Old, Window
  <2>3. request[q].client \in Client /\ request[q].window \in Window /\ request[q].window \in Nat
    BY RateLimitAssumption DEF Passage, Window
  <2>4. \A d, v : CountedIn(d, v)' = CountedIn(d, v)
    BY <2>1 DEF CountedIn, Key
  <2>. QED BY <1>0, <2>1, <2>2, <2>3, <2>4 DEF Placed, At
<1>7. ASSUME UNCHANGED <<count, request, swept>> PROVE Placed(q)'
  BY <1>0, <1>7 DEF Placed, CountedIn, Key, At
<1>. QED
  BY <1>1, <1>2, <1>3, <1>4, <1>5, <1>6, <1>7
  DEF Next, Handle, SetLimit, Tick, vars

\* The inductive invariant: for any webhooks, addresses, limits and windows, the
\* counters give each webhook a place of its own and nobody is let through at a
\* place beyond its limit (ratelimit.go, IncrementRateLimit).
THEOREM SafeCounters == Spec => []CountersSafe
<1>1. ASSUME CountersSafe, [Next]_vars PROVE CountersSafe'
  <2>1. TypeOK'
    BY <1>1, TypeStep DEF CountersSafe
  <2>2. \A c \in Client, w \in Window : count'[c][w] <= Cardinality(CountedIn(c, w)')
    BY <1>1, BoundStep
  <2>3. \A r \in Request : Placed(r)'
    BY <1>1, PlacedStep
  <2>. QED BY <2>1, <2>2, <2>3 DEF CountersSafe, Placed
<1>. QED BY <1>1, SafeInit, PTL DEF Spec

-----------------------------------------------------------------------------
\* Those let through in a window that is not swept have different places, none
\* beyond the limit, so there are no more of them than places.
LEMMA LimitFollows == CountersSafe => WithinLimit
<1>. SUFFICES ASSUME CountersSafe, NEW c \in Client, NEW w \in Window, NEW l \in Limits,
                     w >= swept
              PROVE  Cardinality(Admitted(c, w, l)) <= l
  BY DEF WithinLimit
<1>. DEFINE S == Admitted(c, w, l)
            f == [r \in S |-> request[r].place]
<1>1. \A r \in S : /\ r \in Request /\ r \in CountedIn(c, w)
                   /\ request[r].client = c /\ request[r].window = w
                   /\ request[r].limit \in Nat /\ request[r].limit <= l
  BY RateLimitAssumption, PassageType
  DEF Admitted, CountedIn, Key, At, Counted, CountersSafe
<1>2. \A r \in S : /\ request[r].place \in 1 .. count[c][w]
                   /\ request[r].place <= request[r].limit
                   /\ \A q \in S : request[q].place = request[r].place => q = r
  BY <1>1 DEF Admitted, CountersSafe, At, Counted
<1>3. l \in Nat /\ count[c][w] \in Nat
  BY RateLimitAssumption DEF CountersSafe, TypeOK
<1>4. \A r \in S : f[r] \in 1 .. l
  BY <1>1, <1>2, <1>3
<1>5. f \in Injection(S, 1 .. l)
  BY <1>2, <1>4 DEF Injection, IsInjective
<1>6. IsFiniteSet(1 .. l) /\ Cardinality(1 .. l) = l
  BY <1>3, FS_Interval
<1>. QED BY <1>5, <1>6, FS_Injection

\* At most l webhooks of one address, judged by a limit of at most l, get
\* through per window.
THEOREM LimitKept == Spec => []WithinLimit
BY SafeCounters, LimitFollows, PTL

\* A webhook is refused only if its own counter was beyond its limit.
THEOREM RefusalsJust == Spec => []RefusedForCause
<1>1. Init => RefusedForCause
  BY DEF Init, RefusedForCause, At
<1>2. ASSUME CountersSafe, RefusedForCause, [Next]_vars PROVE RefusedForCause'
  <2>0. TypeOK
    BY <1>2 DEF CountersSafe
  <2>. SUFFICES ASSUME NEW q \in Request, NEW c \in Client, NEW w \in Window,
                       c = request'[q].client, w = request'[q].window,
                       request'[q].stage = "refused"
                PROVE  Cardinality(CountedIn(c, w)') > request'[q].limit
    BY <1>2, TypeStep, <2>0 DEF RefusedForCause, At, TypeOK, Passage
  <2>1. /\ Cardinality(CountedIn(c, w)) \in Nat /\ Cardinality(CountedIn(c, w)') \in Nat
        /\ Cardinality(CountedIn(c, w)) <= Cardinality(CountedIn(c, w)')
    <3>1. CountedIn(c, w)' \in SUBSET Request
      BY DEF CountedIn
    <3>. QED BY <1>2, <2>0, <3>1, CountedGrows, CountedFinite, FS_Subset, FS_CardinalityType,
                RateLimitAssumption
  <2>2. request[q].limit \in Nat /\ count[c][w] \in Nat
    BY <2>0, PassageType, RateLimitAssumption DEF TypeOK
  <2>3. CASE request[q].stage = "refused"
    <3>1. request'[q] = request[q]
      BY <1>2, <2>0, <2>3
      DEF Next, Handle, Load, Stamp, Increment, Read, FailOpen, SetLimit, Tick,
          CleanupRateLimits, vars, At, TypeOK
    <3>2. Cardinality(CountedIn(c, w)) > request[q].limit
      BY <1>2, <2>3, <3>1 DEF RefusedForCause, At
    <3>. QED BY <2>1, <2>2, <3>1, <3>2
  <2>4. CASE request[q].stage # "refused"
    <3>1. Read(q)
      <4>1. ASSUME NEW r \in Request, Load(r) \/ Stamp(r) \/ Increment(r) \/ FailOpen(r)
            PROVE  FALSE
        BY <2>0, <2>4, <4>1 DEF Load, Stamp, Increment, FailOpen, At, TypeOK, Passage
      <4>2. ASSUME NEW r \in Request, Read(r), r # q
            PROVE  FALSE
        BY <2>0, <2>4, <4>2 DEF Read, TypeOK
      <4>3. ASSUME UNCHANGED request
            PROVE  FALSE
        BY <2>4, <4>3
      <4>. QED
        BY <1>2, <4>1, <4>2, <4>3 DEF Next, Handle, SetLimit, Tick, CleanupRateLimits, vars
    <3>2. /\ request[q].client = c /\ request[q].window = w /\ count' = count
          /\ request'[q].limit = request[q].limit /\ count[c][w] > request[q].limit
      BY <2>0, <2>2, <3>1 DEF Read, Verdict, TypeOK, Passage
    <3>3. count'[c][w] <= Cardinality(CountedIn(c, w)')
      BY <1>2, BoundStep
    <3>. QED BY <2>1, <2>2, <3>2, <3>3
  <2>. QED BY <2>3, <2>4
<1>. QED BY <1>1, <1>2, SafeCounters, PTL DEF Spec
=============================================================================
