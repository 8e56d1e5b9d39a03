-------------------------- MODULE ActionPipeline_proofs --------------------------
(***************************************************************************)
(* Proofs about ActionPipeline, for any requests, number of actions and    *)
(* edits, with any number of slots, with and without crashes.              *)
(*                                                                         *)
(* Every property follows from one predicate on what belongs to a single   *)
(* request: its pipeline, what has run, the events and the logs. It says   *)
(* which log a pipeline is working on and what may be in it at each stage, *)
(* and it survives whatever the users delete, because a log that goes away *)
(* is always admitted. FiltersSound adds, on top of it, what the last      *)
(* action is that a pipeline has run.                                      *)
(***************************************************************************)
EXTENDS ActionPipeline, FiniteSetTheorems, SequenceTheorems, TLAPS

\* An action has one place, and ids are given out in order.
ActionsSound ==
  /\ \A i, j \in 1 .. Len(actions) : actions[i].id = actions[j].id => i = j
  /\ \A i \in 1 .. Len(actions) : actions[i].id <= created

\* A plan has every action once, and only those that were enabled.
PlanSound(plan) ==
  /\ Len(plan) <= Actions
  /\ \A i \in 1 .. Len(plan) : plan[i].enabled
  /\ \A i, j \in 1 .. Len(plan) : plan[i].id = plan[j].id => i = j

\* How far a pipeline is: the actions that have run and the events are those of
\* the first places of the plan.
Counts(p, done, seen) ==
  /\ Len(done) <= Len(p.plan) /\ \A i \in 1 .. Len(done) : done[i] = i
  /\ Len(seen) <= Len(p.plan)
  /\ \A i \in 1 .. Len(seen) : /\ seen[i].id = p.plan[i].id
                               /\ seen[i].status = "skipped" => Len(done) <= i
  /\ p.stage \in {"idle", "queued", "load"} => p.plan = <<>> /\ p.next = 1
  /\ p.stage \in {"idle", "queued", "load", "log"} => done = <<>> /\ seen = <<>>
  /\ p.stage = "log" => p.next <= Len(p.plan)
  /\ p.stage \in {"begin", "execute", "save", "announce"} =>
       p.next = Len(seen) + 1 /\ p.next <= Len(p.plan)
  /\ p.stage \in {"begin", "execute"} => Len(done) = Len(seen)
  /\ p.stage \in {"save", "announce"} =>
       IF p.result = "skipped" THEN Len(done) \in 1 .. p.next ELSE Len(done) = p.next
  /\ \/ p.stage \in {"begin", "execute"}
     \/ p.stage \in {"save", "announce"} /\ p.result # "skipped"
     => \A i \in 1 .. Len(seen) : seen[i].status # "skipped"
  /\ p.stage = "done" /\ done # <<>> => Len(seen) = Len(p.plan)

\* What the log of an action may hold whose event is still to come.
Ahead(p, i) ==
  {NoLog} \cup IF i # p.next THEN {"pending"}
               ELSE CASE p.stage = "execute"  -> {"running"}
                      [] p.stage = "save"     -> {"running"} \cup
                                                 (IF p.result = "skipped" THEN {"pending"} ELSE {})
                      [] p.stage = "announce" -> {p.result}
                      [] p.stage = "lost"     -> Status
                      [] OTHER                -> {"pending"}

LogsSound(p, seen, log) ==
  p.alive =>
    /\ \A a \in 1 .. Actions :
         log[a] # NoLog => \E i \in 1 .. Len(p.plan) : p.plan[i].id = a
    /\ \A i \in 1 .. Len(p.plan) :
         log[p.plan[i].id] \in (IF i <= Len(seen) THEN {NoLog, seen[i].status} ELSE Ahead(p, i))

RequestSound(p, done, seen, log) ==
  PlanSound(p.plan) /\ Counts(p, done, seen) /\ LogsSound(p, seen, log)

RequestsSound ==
  \A r \in Request : RequestSound(pipeline[r], ran[r], published[r], logs[r])

Inv ==
  /\ TypeOK
  /\ IsFiniteSet(Running)
  /\ ActionsSound
  /\ RequestsSound
-----------------------------------------------------------------------------
\* The numbers up to n.
LEMMA UpTo ==
  ASSUME NEW n \in Nat
  PROVE  IsFiniteSet(1 .. n) /\ Cardinality(1 .. n) = n
BY FS_Interval

\* The places in a finite set of numbers are those from 1 to its size.
LEMMA Places ==
  ASSUME NEW S, S \subseteq Int, IsFiniteSet(S), NEW k \in 1 .. Cardinality(S)
  PROVE  \E i \in S : Cardinality({j \in S : j <= i}) = k
<1>. DEFINE n == Cardinality(S)
            below(i) == {j \in S : j <= i}
            place == [i \in S |-> Cardinality(below(i))]
            T == {place[i] : i \in S}
<1>1. \A i \in S : /\ IsFiniteSet(below(i)) /\ below(i) \subseteq S
                   /\ Cardinality(below(i)) \in Nat
  BY FS_Subset, FS_CardinalityType
<1>2. n \in Nat
  BY FS_CardinalityType
<1>3. \A i \in S : place[i] \in 1 .. n
  <2>1. ASSUME NEW i \in S PROVE place[i] \in 1 .. n
    <3>1. Cardinality(below(i)) <= n
      BY <1>1, FS_Subset
    <3>2. Cardinality(below(i)) # 0
      BY <1>1, FS_EmptySet
    <3>. QED BY <1>1, <1>2, <3>1, <3>2
  <2>. QED BY <2>1
<1>4. ASSUME NEW i \in S, NEW j \in S, i < j
      PROVE  place[i] # place[j]
  <2>0. \A x, y, z \in Int : (x <= y /\ y < z => x <= z) /\ (y < z => ~(z <= y)) /\ z <= z
    OBVIOUS
  <2>1. below(i) \subseteq below(j) /\ j \in below(j) /\ j \notin below(i)
    BY <1>4, <2>0
  <2>2. below(i) # below(j)
    BY <2>1
  <2>3. Cardinality(below(i)) = Cardinality(below(j)) => below(i) = below(j)
    BY <1>1, <2>1, FS_Subset
  <2>. QED BY <2>2, <2>3
<1>5. \A i, j \in S : place[i] = place[j] => i = j
  BY <1>4
<1>6. IsFiniteSet(1 .. n) /\ Cardinality(1 .. n) = n
  BY <1>2, UpTo
<1>7. T \subseteq 1 .. n
  BY <1>3
<1>8. place \in Surjection(S, T) /\ place \in Injection(S, T)
  BY <1>5 DEF Surjection, Injection, IsInjective
<1>9. Cardinality(T) = n
  BY <1>8, FS_Surjection, FS_Injection, FS_CardinalityType
<1>10. T = 1 .. n
  BY <1>6, <1>7, <1>9, FS_Subset
<1>. QED BY <1>10

\* The plan of a pipeline that finds the actions as they should be.
LEMMA Plan ==
  ASSUME TypeOK, ActionsSound
  PROVE  EnabledActions \in Seq(List!ActionRow) /\ PlanSound(EnabledActions)
<1>. DEFINE n == Cardinality(Enabled)
<1>. Len(actions) \in Nat /\ Len(actions) <= Actions /\ Actions \in Nat
  BY PipelineAssumption DEF TypeOK
<1>1. IsFiniteSet(1 .. Len(actions)) /\ Cardinality(1 .. Len(actions)) = Len(actions)
  BY UpTo
<1>2. Enabled \subseteq Int /\ Enabled \subseteq 1 .. Len(actions)
  BY DEF Enabled
<1>3. IsFiniteSet(Enabled) /\ n <= Len(actions) /\ n \in Nat
  BY <1>1, <1>2, FS_Subset, FS_CardinalityType
<1>4. \A k \in 1 .. n : Nth(k) \in Enabled /\ Cardinality({j \in Enabled : j <= Nth(k)}) = k
  <2>1. \A k \in 1 .. n : \E i \in Enabled : Cardinality({j \in Enabled : j <= i}) = k
    BY <1>2, <1>3, Places
  <2>. QED BY <2>1, Zenon DEF Nth
<1>5. \A k \in 1 .. n : EnabledActions[k] = actions[Nth(k)] /\ Nth(k) \in 1 .. Len(actions)
                        /\ actions[Nth(k)].enabled
  BY <1>4 DEF EnabledActions, Enabled
<1>6. EnabledActions \in Seq(List!ActionRow) /\ Len(EnabledActions) = n
  <2>1. \A k \in 1 .. n : actions[Nth(k)] \in List!ActionRow
    BY <1>5 DEF TypeOK
  <2>. QED BY <1>3, <2>1 DEF EnabledActions
<1>7. \A k, l \in 1 .. n : EnabledActions[k].id = EnabledActions[l].id => k = l
  <2>1. ASSUME NEW k \in 1 .. n, NEW l \in 1 .. n, EnabledActions[k].id = EnabledActions[l].id
        PROVE  k = l
    <3>1. Nth(k) = Nth(l)
      BY <1>5, <2>1 DEF ActionsSound
    <3>. QED BY <1>4, <3>1
  <2>. QED BY <2>1
<1>. QED BY <1>3, <1>5, <1>6, <1>7 DEF PlanSound

-----------------------------------------------------------------------------
\* What it is to insert an element, and to remove one.
LEMMA Inserted ==
  ASSUME NEW S, NEW s \in Seq(S), NEW e \in S, NEW i \in 1 .. Len(s) + 1
  PROVE  /\ List!InsertAt(s, i, e) \in Seq(S)
         /\ Len(List!InsertAt(s, i, e)) = Len(s) + 1
         /\ \A j \in 1 .. Len(s) + 1 :
              List!InsertAt(s, i, e)[j] = IF j < i THEN s[j] ELSE IF j = i THEN e ELSE s[j - 1]
<1>. DEFINE before == SubSeq(s, 1, i - 1)
            after == SubSeq(s, i, Len(s))
<1>. Len(s) \in Nat
  OBVIOUS
<1>1. before \in Seq(S) /\ Len(before) = i - 1 /\ \A j \in 1 .. i - 1 : before[j] = s[j]
  BY SubSeqProperties
<1>2. /\ after \in Seq(S) /\ Len(after) = Len(s) - i + 1
      /\ \A j \in 1 .. Len(s) - i + 1 : after[j] = s[i + j - 1]
  BY SubSeqProperties
<1>. HIDE DEF before, after
<1>3. /\ before \o <<e>> \in Seq(S) /\ Len(before \o <<e>>) = i
      /\ \A j \in 1 .. i : (before \o <<e>>)[j] = IF j < i THEN s[j] ELSE e
  BY <1>1
<1>. DEFINE start == before \o <<e>>
<1>. HIDE DEF start
<1>4. /\ start \o after \in Seq(S) /\ Len(start \o after) = Len(s) + 1
      /\ \A j \in 1 .. Len(s) + 1 : (start \o after)[j] = IF j <= i THEN start[j] ELSE after[j - i]
  <2>1. /\ start \in Seq(S) /\ Len(start) = i
    BY <1>3 DEF start
  <2>2. /\ start \o after \in Seq(S) /\ Len(start \o after) = Len(start) + Len(after)
        /\ \A j \in 1 .. Len(start) + Len(after) :
             (start \o after)[j] = IF j <= Len(start) THEN start[j] ELSE after[j - Len(start)]
    BY <1>2, <2>1, ConcatProperties
  <2>. QED BY <1>2, <2>1, <2>2
<1>5. \A j \in 1 .. Len(s) + 1 :
        (start \o after)[j] = IF j < i THEN s[j] ELSE IF j = i THEN e ELSE s[j - 1]
  BY <1>2, <1>3, <1>4 DEF start
<1>. QED BY <1>4, <1>5 DEF List!InsertAt, start, before, after

\* RemoveAt takes the i-th member out and closes the gap.
LEMMA Removed ==
  ASSUME NEW S, NEW s \in Seq(S), NEW i \in 1 .. Len(s)
  PROVE  /\ List!RemoveAt(s, i) \in Seq(S)
         /\ Len(List!RemoveAt(s, i)) = Len(s) - 1
         /\ \A j \in 1 .. Len(s) - 1 :
              List!RemoveAt(s, i)[j] = IF j < i THEN s[j] ELSE s[j + 1]
<1>. DEFINE before == SubSeq(s, 1, i - 1)
            after == SubSeq(s, i + 1, Len(s))
<1>. Len(s) \in Nat
  OBVIOUS
<1>1. before \in Seq(S) /\ Len(before) = i - 1 /\ \A j \in 1 .. i - 1 : before[j] = s[j]
  BY SubSeqProperties
<1>2. /\ after \in Seq(S) /\ Len(after) = Len(s) - i
      /\ \A j \in 1 .. Len(s) - i : after[j] = s[i + j]
  BY SubSeqProperties
<1>. HIDE DEF before, after
<1>3. /\ before \o after \in Seq(S) /\ Len(before \o after) = Len(s) - 1
      /\ \A j \in 1 .. Len(s) - 1 :
           (before \o after)[j] = IF j <= i - 1 THEN before[j] ELSE after[j - (i - 1)]
  <2>1. /\ before \o after \in Seq(S) /\ Len(before \o after) = Len(before) + Len(after)
        /\ \A j \in 1 .. Len(before) + Len(after) :
             (before \o after)[j] = IF j <= Len(before) THEN before[j] ELSE after[j - Len(before)]
    BY <1>1, <1>2, ConcatProperties
  <2>. QED BY <1>1, <1>2, <2>1
<1>4. ASSUME NEW j \in 1 .. Len(s) - 1
      PROVE  (before \o after)[j] = IF j < i THEN s[j] ELSE s[j + 1]
  <2>1. CASE j < i
    BY <1>1, <1>3, <2>1
  <2>2. CASE ~(j < i)
    <3>0. j - (i - 1) \in 1 .. Len(s) - i /\ ~(j <= i - 1)
      BY <2>2
    <3>1. (before \o after)[j] = after[j - (i - 1)] /\ j - (i - 1) \in 1 .. Len(s) - i
      BY <1>3, <3>0
    <3>2. after[j - (i - 1)] = s[i + (j - (i - 1))]
      BY <1>2, <3>1
    <3>3. i + (j - (i - 1)) = j + 1
      OBVIOUS
    <3>. QED BY <2>2, <3>1, <3>2, <3>3
  <2>. QED BY <2>1, <2>2
<1>. QED BY <1>3, <1>4 DEF List!RemoveAt, before, after

\* Whatever an edit of the actions does, ids stay in order and each action has
\* one place.
LEMMA EditSound ==
  ASSUME TypeOK, ActionsSound, List!Insert \/ List!Change \/ List!Drop \/ List!Arrange
  PROVE  /\ actions' \in Seq(List!ActionRow) /\ Len(actions') <= created'
         /\ created' \in 0 .. Actions
         /\ ActionsSound'
<1>. /\ actions \in Seq(List!ActionRow) /\ Len(actions) \in Nat /\ Len(actions) <= created
     /\ created \in Nat /\ created <= Actions /\ Actions \in Nat
  BY PipelineAssumption DEF TypeOK
<1>0. \A i \in 1 .. Len(actions) : actions[i].id \in Int /\ actions[i].id <= created
  <2>1. \A i \in 1 .. Len(actions) : actions[i] \in List!ActionRow
    BY ElementOfSeq
  <2>2. \A row \in List!ActionRow : row.id \in Int
    BY DEF List!ActionRow
  <2>. QED BY <2>1, <2>2 DEF ActionsSound
<1>1. CASE List!Insert
  <2>1. PICK i \in 1 .. Len(actions) + 1, kind \in Kind, enabled \in BOOLEAN :
          actions' = List!InsertAt(actions, i, [id |-> created + 1, kind |-> kind, enabled |-> enabled])
    BY <1>1 DEF List!Insert
  <2>. DEFINE row == [id |-> created + 1, kind |-> kind, enabled |-> enabled]
  <2>2. created' = created + 1 /\ created' <= Actions
    BY <1>1 DEF List!Insert
  <2>3. row \in List!ActionRow
    BY <2>2 DEF List!ActionRow
  <2>4. row.id = created + 1
    OBVIOUS
  <2>. HIDE DEF row
  <2>5. /\ actions' \in Seq(List!ActionRow) /\ Len(actions') = Len(actions) + 1
        /\ \A j \in 1 .. Len(actions) + 1 :
             actions'[j] = IF j < i THEN actions[j] ELSE IF j = i THEN row ELSE actions[j - 1]
    <3>1. actions' = List!InsertAt(actions, i, row)
      BY <2>1 DEF row
    <3>2. /\ List!InsertAt(actions, i, row) \in Seq(List!ActionRow)
          /\ Len(List!InsertAt(actions, i, row)) = Len(actions) + 1
          /\ \A j \in 1 .. Len(actions) + 1 :
               List!InsertAt(actions, i, row)[j] =
                 IF j < i THEN actions[j] ELSE IF j = i THEN row ELSE actions[j - 1]
      BY <2>3, Inserted
    <3>. QED BY <3>1, <3>2
  <2>. DEFINE from(j) == IF j < i THEN j ELSE j - 1
  <2>6. ASSUME NEW j \in 1 .. Len(actions) + 1
        PROVE  \/ j = i /\ actions'[j].id = created + 1
               \/ /\ j # i /\ from(j) \in 1 .. Len(actions) /\ actions'[j].id = actions[from(j)].id
                  /\ actions'[j].id \in Int /\ actions'[j].id <= created
    <3>1. CASE j = i
      BY <2>4, <2>5, <3>1
    <3>2. CASE j < i
      BY <1>0, <2>5, <3>2
    <3>3. CASE j > i
      <4>1. actions'[j] = actions[j - 1] /\ j - 1 \in 1 .. Len(actions)
        BY <2>5, <3>3
      <4>. QED BY <1>0, <3>3, <4>1
    <3>. QED BY <3>1, <3>2, <3>3
  <2>7. \A j \in 1 .. Len(actions') : actions'[j].id <= created'
    BY <2>2, <2>5, <2>6
  <2>8. ASSUME NEW j \in 1 .. Len(actions'), NEW k \in 1 .. Len(actions'),
               actions'[j].id = actions'[k].id
        PROVE  j = k
    <3>1. j \in 1 .. Len(actions) + 1 /\ k \in 1 .. Len(actions) + 1
      BY <2>5
    <3>2. CASE j # i /\ k # i
      <4>1. from(j) = from(k)
        BY <2>6, <2>8, <3>1, <3>2 DEF ActionsSound
      <4>. QED BY <3>1, <3>2, <4>1
    <3>3. CASE j = i \/ k = i
      BY <2>6, <2>8, <3>1, <3>3
    <3>. QED BY <3>2, <3>3
  <2>. QED BY <2>2, <2>5, <2>7, <2>8 DEF ActionsSound
<1>2. CASE List!Change
  <2>1. PICK i \in 1 .. Len(actions), kind \in Kind, enabled \in BOOLEAN :
          actions' = [actions EXCEPT ![i].kind = kind, ![i].enabled = enabled]
    BY <1>2 DEF List!Change, List!Changed
  <2>2. created' = created
    BY <1>2 DEF List!Change
  <2>3. /\ actions' \in Seq(List!ActionRow) /\ Len(actions') = Len(actions)
        /\ \A j \in 1 .. Len(actions) : actions'[j].id = actions[j].id
    <3>1. \A row \in List!ActionRow :
            /\ [row EXCEPT !.kind = kind, !.enabled = enabled] \in List!ActionRow
            /\ [row EXCEPT !.kind = kind, !.enabled = enabled].id = row.id
      BY DEF List!ActionRow
    <3>2. actions' = [actions EXCEPT ![i] = [actions[i] EXCEPT !.kind = kind, !.enabled = enabled]]
      BY <2>1
    <3>3. actions[i] \in List!ActionRow
      BY ElementOfSeq
    <3>. DEFINE new == [actions[i] EXCEPT !.kind = kind, !.enabled = enabled]
    <3>4. new \in List!ActionRow /\ new.id = actions[i].id
      BY <3>1, <3>3
    <3>5. actions' = [actions EXCEPT ![i] = new]
      BY <3>2
    <3>. HIDE DEF new
    <3>. QED BY <3>4, <3>5
  <2>. QED BY <2>2, <2>3 DEF ActionsSound
<1>3. CASE List!Drop
  <2>1. PICK i \in 1 .. Len(actions) : actions' = List!RemoveAt(actions, i)
    BY <1>3 DEF List!Drop
  <2>2. created' = created
    BY <1>3 DEF List!Drop
  <2>3. /\ actions' \in Seq(List!ActionRow) /\ Len(actions') = Len(actions) - 1
        /\ \A j \in 1 .. Len(actions) - 1 :
             actions'[j] = IF j < i THEN actions[j] ELSE actions[j + 1]
    BY <2>1, Removed
  <2>. DEFINE from(j) == IF j < i THEN j ELSE j + 1
  <2>4. \A j \in 1 .. Len(actions) - 1 :
          from(j) \in 1 .. Len(actions) /\ actions'[j] = actions[from(j)]
    BY <2>3
  <2>5. \A j \in 1 .. Len(actions') : actions'[j].id <= created'
    BY <1>0, <2>2, <2>3, <2>4
  <2>6. ASSUME NEW j \in 1 .. Len(actions'), NEW k \in 1 .. Len(actions'),
               actions'[j].id = actions'[k].id
        PROVE  j = k
    <3>1. /\ j \in 1 .. Len(actions) - 1 /\ k \in 1 .. Len(actions) - 1
      BY <2>3
    <3>2. actions[from(j)].id = actions[from(k)].id
      BY <2>4, <2>6, <3>1
    <3>3. from(j) = from(k)
      BY <2>4, <3>1, <3>2 DEF ActionsSound
    <3>. QED BY <3>1, <3>3
  <2>7. Len(actions') <= created'
    BY <2>2, <2>3
  <2>8. ActionsSound'
    BY <2>5, <2>6 DEF ActionsSound
  <2>. QED BY <2>2, <2>3, <2>7, <2>8
<1>4. CASE List!Arrange
  <2>1. PICK order \in List!Orders(Len(actions)) :
          actions' = [i \in 1 .. Len(actions) |-> actions[order[i]]]
    BY <1>4 DEF List!Arrange, List!Arranged
  <2>2. created' = created
    BY <1>4 DEF List!Arrange
  <2>3. /\ order \in [1 .. Len(actions) -> 1 .. Len(actions)]
        /\ \A i, j \in 1 .. Len(actions) : order[i] = order[j] => i = j
    BY DEF List!Orders
  <2>4. \A i \in 1 .. Len(actions) : actions[order[i]] \in List!ActionRow
    BY <2>3
  <2>5. /\ actions' \in Seq(List!ActionRow) /\ Len(actions') = Len(actions)
        /\ \A i \in 1 .. Len(actions) : actions'[i] = actions[order[i]]
    BY <2>1, <2>4
  <2>6. \A i, j \in 1 .. Len(actions) : actions'[i].id = actions'[j].id => i = j
    BY <2>3, <2>5 DEF ActionsSound
  <2>7. \A j \in 1 .. Len(actions') : actions'[j].id <= created'
    BY <1>0, <2>2, <2>3, <2>5
  <2>. QED BY <2>2, <2>5, <2>6, <2>7 DEF ActionsSound
<1>. QED BY <1>1, <1>2, <1>3, <1>4

-----------------------------------------------------------------------------
Event == [id : 1 .. Actions, status : Final]

Stage == {"idle", "queued", "load", "log", "begin", "execute", "save", "announce",
          "done", "lost"}

\* What belongs to a request has its types.
Typed(p, done, seen, log) ==
  /\ p \in Pipeline
  /\ done \in Seq(1 .. Actions)
  /\ seen \in Seq(Event)
  /\ log \in [1 .. Actions -> Status \cup {NoLog}]

\* A pipeline that has gone on to a stage, and nothing else.
Moved(p, q, stage) ==
  /\ q \in Pipeline
  /\ q.stage = stage /\ q.next = p.next /\ q.result = p.result
  /\ q.plan = p.plan /\ q.alive = p.alive

\* The fields of a pipeline.
LEMMA PipelineFields ==
  ASSUME NEW p \in Pipeline
  PROVE  /\ p.stage \in Stage /\ p.plan \in Seq(List!ActionRow) /\ Len(p.plan) \in Nat
         /\ p.next \in 1 .. Actions + 1 /\ p.next \in Int
         /\ p.alive \in BOOLEAN /\ p.result \in Final
         /\ \A i \in 1 .. Len(p.plan) : p.plan[i] \in List!ActionRow /\ p.plan[i].id \in 1 .. Actions
<1>1. /\ p.stage \in Stage /\ p.plan \in Seq(List!ActionRow) /\ p.next \in 1 .. Actions + 1
      /\ p.alive \in BOOLEAN /\ p.result \in Final
  BY DEF Pipeline, Stage
<1>2. \A i \in 1 .. Len(p.plan) : p.plan[i] \in List!ActionRow
  BY <1>1, ElementOfSeq
<1>3. \A row \in List!ActionRow : row.id \in 1 .. Actions
  BY DEF List!ActionRow
<1>. QED BY <1>1, <1>2, <1>3

\* Changing the stage of a pipeline changes nothing else of it.
LEMMA StageMoves ==
  ASSUME NEW p \in Pipeline, NEW stage \in Stage
  PROVE  Moved(p, [p EXCEPT !.stage = stage], stage)
BY DEF Pipeline, Moved, Stage

\* Logs may go away at any moment.
LEMMA ShrinkSound ==
  ASSUME NEW p, NEW done, NEW seen, NEW log, NEW log2,
         Typed(p, done, seen, log), RequestSound(p, done, seen, log),
         \A a \in 1 .. Actions : log2[a] \in {log[a], NoLog}
  PROVE  RequestSound(p, done, seen, log2)
<1>1. \A i \in 1 .. Len(p.plan) : p.plan[i].id \in 1 .. Actions
  BY PipelineFields DEF Typed
<1>2. \A i : NoLog \in Ahead(p, i)
  BY DEF Ahead
<1>3. ASSUME p.alive PROVE LogsSound(p, seen, log2)
  <2>1. \A a \in 1 .. Actions :
          log2[a] # NoLog => \E i \in 1 .. Len(p.plan) : p.plan[i].id = a
    BY <1>3 DEF RequestSound, LogsSound
  <2>2. ASSUME NEW i \in 1 .. Len(p.plan)
        PROVE  log2[p.plan[i].id] \in (IF i <= Len(seen) THEN {NoLog, seen[i].status} ELSE Ahead(p, i))
    <3>1. log[p.plan[i].id] \in (IF i <= Len(seen) THEN {NoLog, seen[i].status} ELSE Ahead(p, i))
      BY <1>3 DEF RequestSound, LogsSound
    <3>2. log2[p.plan[i].id] \in {log[p.plan[i].id], NoLog}
      BY <1>1
    <3>. QED BY <1>2, <3>1, <3>2
  <2>. QED BY <2>1, <2>2 DEF LogsSound
<1>. QED BY <1>3 DEF RequestSound, LogsSound

\* A dispatch, and the slot for it.
LEMMA WaitingSound ==
  ASSUME NEW p, NEW q, NEW done, NEW seen, NEW log,
         Typed(p, done, seen, log), RequestSound(p, done, seen, log),
         \/ p.stage = "idle" /\ Moved(p, q, "queued")
         \/ p.stage = "queued" /\ Moved(p, q, "load")
  PROVE  RequestSound(q, done, seen, log)
<1>1. p.plan = <<>> /\ q.plan = <<>> /\ q.alive = p.alive
  BY DEF RequestSound, Counts, Moved
<1>2. Counts(q, done, seen)
  BY DEF RequestSound, Counts, Moved
<1>3. LogsSound(q, seen, log)
  BY <1>1 DEF RequestSound, LogsSound
<1>. QED BY <1>1, <1>2, <1>3 DEF RequestSound

\* The time runs out.
LEMMA ExpiredSound ==
  ASSUME NEW p, NEW q, NEW done, NEW seen, NEW log,
         Typed(p, done, seen, log), RequestSound(p, done, seen, log),
         q = [p EXCEPT !.alive = FALSE]
  PROVE  q \in Pipeline /\ RequestSound(q, done, seen, log)
<1>1. /\ q \in Pipeline /\ q.stage = p.stage /\ q.next = p.next /\ q.result = p.result
      /\ q.plan = p.plan /\ ~q.alive
  BY DEF Typed, Pipeline
<1>2. Counts(q, done, seen) /\ PlanSound(q.plan)
  BY <1>1 DEF RequestSound, Counts
<1>. QED BY <1>1, <1>2 DEF RequestSound, LogsSound

\* A restart.
LEMMA LostSound ==
  ASSUME NEW p, NEW q, NEW done, NEW seen, NEW log,
         Typed(p, done, seen, log), RequestSound(p, done, seen, log),
         p.stage # "done", Moved(p, q, "lost")
  PROVE  RequestSound(q, done, seen, log)
<1>1. Counts(q, done, seen) /\ PlanSound(q.plan)
  BY DEF RequestSound, Counts, Moved
<1>2. \A i : Ahead(p, i) \subseteq Ahead(q, i)
  <2>1. p.result \in Final /\ q.next = p.next /\ q.stage = "lost"
    BY PipelineFields DEF Typed, Moved
  <2>. QED BY <2>1 DEF Ahead, Status, Final
<1>3. q.plan = p.plan /\ q.alive = p.alive
  BY DEF Moved
<1>4. LogsSound(q, seen, log)
  BY <1>2, <1>3 DEF RequestSound, LogsSound
<1>. QED BY <1>1, <1>4 DEF RequestSound

\* The plan is made.
LEMMA LoadSound ==
  ASSUME NEW p, NEW q, NEW done, NEW seen, NEW log, NEW plan \in Seq(List!ActionRow),
         Typed(p, done, seen, log), RequestSound(p, done, seen, log),
         p.stage = "load", PlanSound(plan),
         q = [p EXCEPT !.plan = plan, !.stage = IF plan = <<>> THEN "done" ELSE "log"]
  PROVE  q \in Pipeline /\ RequestSound(q, done, seen, log)
<1>1. /\ q \in Pipeline /\ q.stage = (IF plan = <<>> THEN "done" ELSE "log")
      /\ q.next = p.next /\ q.plan = plan /\ q.alive = p.alive
  BY DEF Typed, Pipeline
<1>2. p.plan = <<>> /\ p.next = 1 /\ done = <<>> /\ seen = <<>>
  BY DEF RequestSound, Counts
<1>3. plan # <<>> => 1 <= Len(plan)
  OBVIOUS
<1>4. Counts(q, done, seen)
  BY <1>1, <1>2, <1>3 DEF Counts
<1>5. LogsSound(q, seen, log)
  <2>1. p.alive => \A a \in 1 .. Actions : log[a] = NoLog
    BY <1>2 DEF RequestSound, LogsSound
  <2>2. q.alive => \A i \in 1 .. Len(q.plan) : log[q.plan[i].id] = NoLog
    BY <1>1, <2>1, PipelineFields
  <2>3. \A i : NoLog \in Ahead(q, i)
    BY DEF Ahead
  <2>4. Len(seen) = 0
    BY <1>2
  <2>5. \A i \in 1 .. Len(q.plan) : ~(i <= Len(seen))
    BY <2>4
  <2>. QED BY <1>1, <2>1, <2>2, <2>3, <2>5 DEF LogsSound
<1>. QED BY <1>1, <1>4, <1>5 DEF RequestSound

\* A pipeline after it has written a pending log, and the logs.
Logged(p) ==
  [p EXCEPT !.stage = IF p.next = Len(p.plan) THEN "begin" ELSE "log",
            !.next = IF p.next = Len(p.plan) THEN 1 ELSE @ + 1]

PendingLog(p, log) == [log EXCEPT ![p.plan[p.next].id] = "pending"]

\* A pending log is written, or cannot be.
LEMMA LoggedSound ==
  ASSUME NEW p, NEW q, NEW done, NEW seen, NEW log, NEW log2,
         Typed(p, done, seen, log), RequestSound(p, done, seen, log),
         p.stage = "log",
         log2 = PendingLog(p, log), q = Logged(p)
  PROVE  /\ q \in Pipeline /\ log2 \in [1 .. Actions -> Status \cup {NoLog}]
         /\ RequestSound(q, done, seen, log2)
<1>. DEFINE a == p.plan[p.next].id
            last == p.next = Len(p.plan)
<1>0. /\ done = <<>> /\ seen = <<>> /\ p.next <= Len(p.plan) /\ Len(p.plan) <= Actions
      /\ p.next \in Nat /\ p.next >= 1 /\ Len(p.plan) \in Nat /\ Actions \in Nat
      /\ p.next \in 1 .. Len(p.plan)
  BY PipelineFields, PipelineAssumption DEF RequestSound, PlanSound, Counts, Typed
<1>1. /\ q \in Pipeline /\ q.stage = (IF last THEN "begin" ELSE "log")
      /\ q.next = (IF last THEN 1 ELSE p.next + 1) /\ q.plan = p.plan /\ q.alive = p.alive
  <2>1. (IF last THEN 1 ELSE p.next + 1) \in 1 .. Actions + 1
    BY <1>0
  <2>. QED BY <2>1 DEF Typed, Pipeline, Logged
<1>2. a \in 1 .. Actions
  BY <1>0, PipelineFields DEF Typed
<1>3. log2 \in [1 .. Actions -> Status \cup {NoLog}]
      /\ \A b \in 1 .. Actions : log2[b] = IF b = a THEN "pending" ELSE log[b]
  BY <1>2 DEF Typed, Status, PendingLog
<1>4. Counts(q, done, seen)
  BY <1>0, <1>1 DEF RequestSound, Counts
<1>5. ASSUME p.alive PROVE LogsSound(q, seen, log2)
  <2>1. \A b \in 1 .. Actions :
          log2[b] # NoLog => \E i \in 1 .. Len(q.plan) : q.plan[i].id = b
    BY <1>0, <1>1, <1>3, <1>5 DEF RequestSound, LogsSound
  <2>2. ASSUME NEW i \in 1 .. Len(p.plan)
        PROVE  log2[p.plan[i].id] \in {NoLog, "pending"} /\ ~(i <= Len(seen))
    <3>1. ~(i <= Len(seen)) /\ p.plan[i].id \in 1 .. Actions
      BY <1>0, PipelineFields DEF Typed
    <3>2. log[p.plan[i].id] \in Ahead(p, i)
      BY <1>5, <3>1 DEF RequestSound, LogsSound
    <3>3. Ahead(p, i) = {NoLog, "pending"}
      BY DEF Ahead
    <3>. QED BY <1>3, <3>1, <3>2, <3>3
  <2>3. \A i : Ahead(q, i) = {NoLog, "pending"}
    BY <1>1 DEF Ahead
  <2>. QED BY <1>1, <2>1, <2>2, <2>3 DEF LogsSound
<1>. QED BY <1>1, <1>3, <1>4, <1>5 DEF RequestSound, LogsSound

\* A pipeline stays sound when its log cannot be written any more.
LEMMA UnloggedSound ==
  ASSUME NEW p, NEW q, NEW done, NEW seen, NEW log,
         Typed(p, done, seen, log), RequestSound(p, done, seen, log),
         p.stage = "log", Moved(p, q, "done")
  PROVE  RequestSound(q, done, seen, log)
<1>1. Counts(q, done, seen) /\ PlanSound(q.plan)
  BY DEF RequestSound, Counts, Moved
<1>2. \A i : Ahead(p, i) = Ahead(q, i)
  BY DEF Ahead, Moved
<1>3. q.plan = p.plan /\ q.alive = p.alive
  BY DEF Moved
<1>4. LogsSound(q, seen, log)
  BY <1>2, <1>3 DEF RequestSound, LogsSound
<1>. QED BY <1>1, <1>4 DEF RequestSound

\* What is written of a log: a new status, if the pipeline may and the row is there.
WrittenLog(p, log, status) ==
  IF p.alive /\ log[p.plan[p.next].id] # NoLog
  THEN [log EXCEPT ![p.plan[p.next].id] = status] ELSE log

\* A pipeline that writes the log of its current action, with a status that the
\* next stage admits.
LEMMA WriteSound ==
  ASSUME NEW p, NEW q, NEW done, NEW seen, NEW log, NEW status \in Status, NEW stage,
         Typed(p, done, seen, log), RequestSound(p, done, seen, log),
         p.stage \in {"begin", "save"}, Moved(p, q, stage), Counts(q, done, seen),
         status \in Ahead(q, p.next)
  PROVE  /\ WrittenLog(p, log, status) \in [1 .. Actions -> Status \cup {NoLog}]
         /\ RequestSound(q, done, seen, WrittenLog(p, log, status))
<1>. DEFINE a == p.plan[p.next].id
            log2 == WrittenLog(p, log, status)
<1>0. /\ p.next = Len(seen) + 1 /\ p.next <= Len(p.plan) /\ Len(p.plan) \in Nat /\ Len(seen) \in Nat
      /\ p.next \in 1 .. Len(p.plan)
  BY PipelineFields DEF RequestSound, Counts, Typed
<1>1. a \in 1 .. Actions
  BY <1>0, PipelineFields DEF Typed
<1>2. /\ log2 \in [1 .. Actions -> Status \cup {NoLog}]
      /\ p.alive => \A b \in 1 .. Actions :
           log2[b] = IF b = a /\ log[b] # NoLog THEN status ELSE log[b]
  BY <1>1 DEF WrittenLog, Typed
<1>. HIDE DEF log2
<1>3. q.plan = p.plan /\ q.alive = p.alive /\ q.next = p.next
  BY DEF Moved
<1>4. ASSUME p.alive PROVE LogsSound(q, seen, log2)
  <2>0. NoLog # status
    BY DEF Status, NoLog
  <2>1. \A b \in 1 .. Actions :
          log2[b] # NoLog => \E i \in 1 .. Len(p.plan) : p.plan[i].id = b
    BY <1>2, <1>4 DEF RequestSound, LogsSound
  <2>2. ASSUME NEW i \in 1 .. Len(p.plan)
        PROVE  log2[p.plan[i].id] \in (IF i <= Len(seen) THEN {NoLog, seen[i].status} ELSE Ahead(q, i))
    <3>0. p.plan[i].id \in 1 .. Actions /\ (p.plan[i].id = a => i = p.next)
      BY <1>0, PipelineFields DEF Typed, RequestSound, PlanSound
    <3>1. log[p.plan[i].id] \in (IF i <= Len(seen) THEN {NoLog, seen[i].status} ELSE Ahead(p, i))
      BY <1>4 DEF RequestSound, LogsSound
    <3>2. CASE i = p.next
      <4>1. ~(i <= Len(seen)) /\ NoLog \in Ahead(q, i)
        BY <1>0, <3>2 DEF Ahead
      <4>2. log2[p.plan[i].id] \in {NoLog, status}
        BY <1>2, <1>4, <3>0, <3>2
      <4>. QED BY <3>2, <4>1, <4>2
    <3>3. CASE i # p.next
      <4>1. Ahead(p, i) = Ahead(q, i)
        BY <1>3, <3>3 DEF Ahead
      <4>2. log2[p.plan[i].id] = log[p.plan[i].id]
        BY <1>2, <1>4, <3>0, <3>3
      <4>. QED BY <3>1, <4>1, <4>2
    <3>. QED BY <3>2, <3>3
  <2>. QED BY <1>3, <2>1, <2>2 DEF LogsSound
<1>5. RequestSound(q, done, seen, log2)
  BY <1>3, <1>4 DEF RequestSound, LogsSound
<1>. QED BY <1>2, <1>5 DEF log2

\* A pipeline after it has run an action, and after it has announced one.
Executed(p, result) == [p EXCEPT !.stage = "save", !.result = result]

Announced(p) ==
  [p EXCEPT !.stage = IF p.next = Len(p.plan) THEN "done"
                      ELSE IF p.result = "skipped" THEN "save" ELSE "begin",
            !.next = @ + 1]

Told(p, seen) == Append(seen, [id |-> p.plan[p.next].id, status |-> p.result])

\* An action runs.
LEMMA ExecuteSound ==
  ASSUME NEW p, NEW q, NEW done, NEW seen, NEW log, NEW result \in Final,
         Typed(p, done, seen, log), RequestSound(p, done, seen, log),
         p.stage = "execute", q = Executed(p, result)
  PROVE  /\ q \in Pipeline /\ Append(done, p.next) \in Seq(1 .. Actions)
         /\ RequestSound(q, Append(done, p.next), seen, log)
<1>. DEFINE done2 == Append(done, p.next)
<1>0. /\ p.next = Len(seen) + 1 /\ p.next <= Len(p.plan) /\ Len(p.plan) \in Nat /\ Len(seen) \in Nat
      /\ Len(p.plan) <= Actions /\ Actions \in Nat /\ p.next \in 1 .. Actions
      /\ Len(done) = Len(seen) /\ done \in Seq(1 .. Actions)
  BY PipelineFields, PipelineAssumption DEF RequestSound, PlanSound, Counts, Typed
<1>1. /\ q \in Pipeline /\ q.stage = "save" /\ q.result = result
      /\ q.next = p.next /\ q.plan = p.plan /\ q.alive = p.alive
  BY DEF Typed, Pipeline, Executed
<1>2. /\ done2 \in Seq(1 .. Actions) /\ Len(done2) = p.next /\ done2 # <<>>
      /\ \A i \in 1 .. Len(done2) : done2[i] = IF i = p.next THEN p.next ELSE done[i]
  BY <1>0
<1>. HIDE DEF done2
<1>3. \A i \in 1 .. Len(done2) : done2[i] = i
  <2>1. \A i \in 1 .. Len(done) : done[i] = i
    BY DEF RequestSound, Counts
  <2>. QED BY <1>0, <1>2, <2>1
<1>4. \A i \in 1 .. Len(seen) : seen[i].id = p.plan[i].id /\ seen[i].status # "skipped"
  BY DEF RequestSound, Counts
<1>5. Counts(q, done2, seen)
  BY <1>0, <1>1, <1>2, <1>3, <1>4 DEF Counts
<1>6. \A i : Ahead(p, i) \subseteq Ahead(q, i)
  BY <1>1 DEF Ahead
<1>7. LogsSound(q, seen, log)
  <2>1. LogsSound(p, seen, log)
    BY DEF RequestSound
  <2>2. q.plan = p.plan /\ q.alive = p.alive
    BY <1>1
  <2>. QED BY <1>6, <2>1, <2>2 DEF LogsSound
<1>8. RequestSound(q, done2, seen, log)
  BY <1>1, <1>5, <1>7 DEF RequestSound
<1>. QED BY <1>1, <1>2, <1>8 DEF done2

\* The event of an action, and on to the next.
LEMMA AnnounceSound ==
  ASSUME NEW p, NEW q, NEW done, NEW seen, NEW log, NEW seen2,
         Typed(p, done, seen, log), RequestSound(p, done, seen, log),
         p.stage = "announce",
         seen2 = Told(p, seen), q = Announced(p)
  PROVE  /\ q \in Pipeline /\ seen2 \in Seq(Event)
         /\ RequestSound(q, done, seen2, log)
<1>. DEFINE last == p.next = Len(p.plan)
            a == p.plan[p.next].id
<1>0. /\ p.next = Len(seen) + 1 /\ p.next <= Len(p.plan) /\ Len(p.plan) \in Nat /\ Len(seen) \in Nat
      /\ Len(p.plan) <= Actions /\ Actions \in Nat /\ p.next \in 1 .. Len(p.plan)
      /\ Len(done) \in Nat
  BY PipelineFields, PipelineAssumption DEF RequestSound, PlanSound, Counts, Typed
<1>1. /\ q \in Pipeline
      /\ q.stage = (IF last THEN "done" ELSE IF p.result = "skipped" THEN "save" ELSE "begin")
      /\ q.next = p.next + 1 /\ q.plan = p.plan /\ q.alive = p.alive /\ q.result = p.result
  <2>1. p.next + 1 \in 1 .. Actions + 1
    BY <1>0
  <2>. QED BY <2>1 DEF Typed, Pipeline, Announced
<1>2. [id |-> a, status |-> p.result] \in Event /\ seen \in Seq(Event)
  BY <1>0, PipelineFields DEF Typed, Event
<1>3. /\ seen2 \in Seq(Event) /\ Len(seen2) = p.next
      /\ \A i \in 1 .. Len(seen) : seen2[i] = seen[i]
      /\ seen2[p.next].id = a /\ seen2[p.next].status = p.result
  BY <1>0, <1>2 DEF Told
<1>4. IF p.result = "skipped" THEN Len(done) \in 1 .. p.next
      ELSE Len(done) = p.next /\ \A i \in 1 .. Len(seen) : seen[i].status # "skipped"
  BY DEF RequestSound, Counts
<1>5. \A i \in 1 .. Len(seen2) : /\ seen2[i].id = p.plan[i].id
                                 /\ seen2[i].status = "skipped" => Len(done) <= i
  <2>1. \A i \in 1 .. Len(seen) : /\ seen[i].id = p.plan[i].id
                                  /\ seen[i].status = "skipped" => Len(done) <= i
    BY DEF RequestSound, Counts
  <2>2. ASSUME NEW i \in 1 .. Len(seen2)
        PROVE  i \in 1 .. Len(seen) \/ i = p.next
    BY <1>0, <1>3
  <2>. QED BY <1>0, <1>3, <1>4, <2>1, <2>2
<1>6. p.result # "skipped" => \A i \in 1 .. Len(seen2) : seen2[i].status # "skipped"
  BY <1>0, <1>3, <1>4
<1>7. Len(done) <= Len(p.plan) /\ \A i \in 1 .. Len(done) : done[i] = i
  BY DEF RequestSound, Counts
<1>8. Counts(q, done, seen2)
  <2>0. q.plan = p.plan
    BY <1>1
  <2>1. /\ Len(done) <= Len(q.plan) /\ Len(seen2) <= Len(q.plan)
        /\ \A i \in 1 .. Len(done) : done[i] = i
        /\ \A i \in 1 .. Len(seen2) : /\ seen2[i].id = q.plan[i].id
                                      /\ seen2[i].status = "skipped" => Len(done) <= i
    BY <1>0, <1>3, <1>5, <1>7, <2>0
  <2>2. CASE last
    <3>1. q.stage = "done" /\ Len(seen2) = Len(q.plan)
      BY <1>1, <1>3, <2>2
    <3>. QED BY <2>1, <3>1 DEF Counts
  <2>3. CASE ~last /\ p.result = "skipped"
    <3>1. /\ q.stage = "save" /\ q.result = "skipped" /\ Len(done) \in 1 .. q.next
          /\ q.next = Len(seen2) + 1 /\ q.next <= Len(q.plan)
      BY <1>0, <1>1, <1>3, <1>4, <2>3
    <3>. QED BY <2>1, <3>1 DEF Counts
  <2>4. CASE ~last /\ p.result # "skipped"
    <3>1. /\ q.stage = "begin" /\ Len(done) = Len(seen2)
          /\ q.next = Len(seen2) + 1 /\ q.next <= Len(q.plan)
          /\ \A i \in 1 .. Len(seen2) : seen2[i].status # "skipped"
      BY <1>0, <1>1, <1>3, <1>4, <1>6, <2>4
    <3>. QED BY <2>1, <3>1 DEF Counts
  <2>. QED BY <2>2, <2>3, <2>4
<1>9. ASSUME p.alive PROVE LogsSound(q, seen2, log)
  <2>1. \A b \in 1 .. Actions :
          log[b] # NoLog => \E i \in 1 .. Len(p.plan) : p.plan[i].id = b
    BY <1>9 DEF RequestSound, LogsSound
  <2>2. ASSUME NEW i \in 1 .. Len(p.plan)
        PROVE  log[p.plan[i].id] \in (IF i <= Len(seen2) THEN {NoLog, seen2[i].status} ELSE Ahead(q, i))
    <3>1. log[p.plan[i].id] \in (IF i <= Len(seen) THEN {NoLog, seen[i].status} ELSE Ahead(p, i))
      BY <1>9 DEF RequestSound, LogsSound
    <3>2. CASE i <= Len(seen)
      BY <1>0, <1>3, <3>1, <3>2
    <3>3. CASE i = p.next
      <4>1. Ahead(p, i) = {NoLog, p.result}
        BY <3>3 DEF Ahead
      <4>. QED BY <1>0, <1>3, <3>1, <3>3, <4>1
    <3>4. CASE i > p.next
      <4>1. Ahead(p, i) = {NoLog, "pending"}
        BY <1>0, <3>4 DEF Ahead
      <4>2. ~last /\ ~(i <= Len(seen2)) /\ ~(i <= Len(seen))
        BY <1>0, <1>3, <3>4
      <4>3. "pending" \in Ahead(q, i) /\ NoLog \in Ahead(q, i)
        BY <1>1, <4>2 DEF Ahead
      <4>. QED BY <3>1, <4>1, <4>2, <4>3
    <3>. QED BY <1>0, <3>2, <3>3, <3>4
  <2>. QED BY <1>1, <2>1, <2>2 DEF LogsSound
<1>. QED BY <1>1, <1>3, <1>8, <1>9 DEF RequestSound, LogsSound

-----------------------------------------------------------------------------
\* Everything a request has.
LEMMA Values ==
  ASSUME Inv, NEW r \in Request
  PROVE  /\ Typed(pipeline[r], ran[r], published[r], logs[r])
         /\ RequestSound(pipeline[r], ran[r], published[r], logs[r])
BY DEF Inv, TypeOK, RequestsSound, Typed, Event

Tables ==
  /\ logs \in [Request -> [1 .. Actions -> Status \cup {NoLog}]]
  /\ pipeline \in [Request -> Pipeline]
  /\ ran \in [Request -> Seq(1 .. Actions)]
  /\ published \in [Request -> Seq([id : 1 .. Actions, status : Final])]

\* A request gets other values, or keeps some of its own.
Replaced(r, p, done, seen, log) ==
  /\ pipeline' = [pipeline EXCEPT ![r] = p] /\ ran' = [ran EXCEPT ![r] = done]
  /\ published' = [published EXCEPT ![r] = seen] /\ logs' = [logs EXCEPT ![r] = log]

\* A step for one request leaves the others alone.
LEMMA Only ==
  ASSUME Inv, NEW r \in Request, NEW p, NEW done, NEW seen, NEW log,
         Typed(p, done, seen, log), RequestSound(p, done, seen, log),
         Replaced(r, p, done, seen, log)
  PROVE  RequestsSound' /\ Tables'
<1>. USE DEF Replaced
<1>. Tables
  BY DEF Inv, TypeOK, Tables
<1>1. Tables'
  BY DEF Tables, Typed, Event
<1>2. /\ pipeline'[r] = p /\ ran'[r] = done /\ published'[r] = seen /\ logs'[r] = log
  BY DEF Tables
<1>3. \A q \in Request \ {r} : /\ pipeline'[q] = pipeline[q] /\ ran'[q] = ran[q]
                              /\ published'[q] = published[q] /\ logs'[q] = logs[q]
  BY DEF Tables
<1>4. RequestsSound
  BY DEF Inv
<1>5. ASSUME NEW q \in Request
      PROVE  RequestSound(pipeline'[q], ran'[q], published'[q], logs'[q])
  <2>1. CASE q = r
    BY <1>2, <2>1
  <2>2. CASE q # r
    BY <1>3, <1>4, <2>2 DEF RequestsSound
  <2>. QED BY <2>1, <2>2
<1>. QED BY <1>1, <1>5 DEF RequestsSound

\* A table that does not change is the same as one updated by what it holds.
LEMMA SameFunctions ==
  ASSUME Inv, NEW r \in Request
  PROVE  /\ UNCHANGED ran => ran' = [ran EXCEPT ![r] = ran[r]]
         /\ UNCHANGED published => published' = [published EXCEPT ![r] = published[r]]
         /\ UNCHANGED logs => logs' = [logs EXCEPT ![r] = logs[r]]
BY DEF Inv, TypeOK

\* A pipeline that only goes on to a stage.
LEMMA OnlyMoved ==
  ASSUME Inv, NEW r \in Request, NEW stage \in Stage, Become(r, stage),
         UNCHANGED <<ran, published, logs>>,
         RequestSound([pipeline[r] EXCEPT !.stage = stage], ran[r], published[r], logs[r])
  PROVE  RequestsSound' /\ Tables'
<1>1. pipeline' = [pipeline EXCEPT ![r] = [pipeline[r] EXCEPT !.stage = stage]]
  BY DEF Become
<1>2. Typed([pipeline[r] EXCEPT !.stage = stage], ran[r], published[r], logs[r])
  BY Values, StageMoves DEF Typed, Moved
<1>3. Replaced(r, [pipeline[r] EXCEPT !.stage = stage], ran[r], published[r], logs[r])
  BY <1>1, SameFunctions DEF Replaced
<1>. QED BY <1>2, <1>3, Only

\* What the goroutine of a request does keeps everything that belongs to it.
LEMMA GoroutineSound ==
  ASSUME Inv, NEW r \in Request, Dispatch(r) \/ Step(r) \/ Expire(r)
  PROVE  RequestsSound' /\ Tables'
<1>. DEFINE p == pipeline[r]
<1>0. /\ Typed(p, ran[r], published[r], logs[r])
      /\ RequestSound(p, ran[r], published[r], logs[r])
      /\ p \in Pipeline
  BY Values DEF Typed
<1>. HIDE DEF p
<1>1. ASSUME Dispatch(r) \/ Acquire(r) PROVE RequestsSound' /\ Tables'
  <2>1. PICK stage \in Stage : /\ Become(r, stage)
                               /\ \/ p.stage = "idle" /\ stage = "queued"
                                  \/ p.stage = "queued" /\ stage = "load"
    BY <1>1 DEF Dispatch, Acquire, At, Stage, p
  <2>2. UNCHANGED <<ran, published, logs>>
    BY <1>1 DEF Dispatch, Acquire, history
  <2>3. Moved(p, [p EXCEPT !.stage = stage], stage)
    BY <1>0, StageMoves
  <2>4. RequestSound([p EXCEPT !.stage = stage], ran[r], published[r], logs[r])
    BY <1>0, <2>1, <2>3, WaitingSound
  <2>. QED BY <2>1, <2>2, <2>4, OnlyMoved DEF p
<1>2. ASSUME Expire(r) PROVE RequestsSound' /\ Tables'
  <2>. DEFINE q == [p EXCEPT !.alive = FALSE]
  <2>1. pipeline' = [pipeline EXCEPT ![r] = q] /\ UNCHANGED <<ran, published, logs>>
    BY <1>2 DEF Expire, history, p
  <2>2. q \in Pipeline /\ RequestSound(q, ran[r], published[r], logs[r])
    BY <1>0, ExpiredSound
  <2>. HIDE DEF q
  <2>3. Typed(q, ran[r], published[r], logs[r])
    BY <1>0, <2>2 DEF Typed
  <2>4. Replaced(r, q, ran[r], published[r], logs[r])
    BY <2>1, SameFunctions DEF Replaced
  <2>. QED BY <2>2, <2>3, <2>4, Only
<1>3. ASSUME LoadActions(r) PROVE RequestsSound' /\ Tables'
  <2>. DEFINE plan == IF p.alive THEN EnabledActions ELSE <<>>
              q == [p EXCEPT !.plan = plan, !.stage = IF plan = <<>> THEN "done" ELSE "log"]
  <2>1. p.stage = "load" /\ pipeline' = [pipeline EXCEPT ![r] = q] /\ UNCHANGED <<ran, published, logs>>
    BY <1>3 DEF LoadActions, history, At, p
  <2>2. plan \in Seq(List!ActionRow) /\ PlanSound(plan)
    <3>1. EnabledActions \in Seq(List!ActionRow) /\ PlanSound(EnabledActions)
      BY Plan DEF Inv
    <3>2. <<>> \in Seq(List!ActionRow) /\ PlanSound(<<>>)
      BY PipelineAssumption DEF PlanSound
    <3>. QED BY <3>1, <3>2
  <2>. HIDE DEF plan
  <2>3. q \in Pipeline /\ RequestSound(q, ran[r], published[r], logs[r])
    BY <1>0, <2>1, <2>2, LoadSound
  <2>. HIDE DEF q
  <2>4. Typed(q, ran[r], published[r], logs[r])
    BY <1>0, <2>3 DEF Typed
  <2>5. Replaced(r, q, ran[r], published[r], logs[r])
    BY <2>1, SameFunctions DEF Replaced
  <2>. QED BY <2>3, <2>4, <2>5, Only
<1>4. ASSUME CreateLog(r) PROVE RequestsSound' /\ Tables'
  <2>0. p.stage = "log" /\ UNCHANGED <<ran, published>>
    BY <1>4 DEF CreateLog, history, At, p
  <2>1. CASE Become(r, "done") /\ UNCHANGED logs
    <3>1. Moved(p, [p EXCEPT !.stage = "done"], "done") /\ "done" \in Stage
      BY <1>0, StageMoves DEF Stage
    <3>2. RequestSound([p EXCEPT !.stage = "done"], ran[r], published[r], logs[r])
      BY <1>0, <2>0, <3>1, UnloggedSound
    <3>. QED BY <2>0, <2>1, <3>1, <3>2, OnlyMoved DEF p
  <2>2. CASE ~(Become(r, "done") /\ UNCHANGED logs)
    <3>. DEFINE log == PendingLog(p, logs[r])
                q == Logged(p)
    <3>1. pipeline' = [pipeline EXCEPT ![r] = q] /\ logs' = [logs EXCEPT ![r] = log]
      BY <1>4, <2>2 DEF CreateLog, Last, Current, p, PendingLog, Logged
    <3>2. /\ q \in Pipeline /\ log \in [1 .. Actions -> Status \cup {NoLog}]
          /\ RequestSound(q, ran[r], published[r], log)
      BY <1>0, <2>0, LoggedSound
    <3>. HIDE DEF q, log
    <3>3. Typed(q, ran[r], published[r], log)
      BY <1>0, <3>2 DEF Typed
    <3>4. Replaced(r, q, ran[r], published[r], log)
      BY <2>0, <3>1, SameFunctions DEF Replaced
    <3>. QED BY <3>2, <3>3, <3>4, Only
  <2>. QED BY <2>1, <2>2
<1>5. ASSUME Begin(r) \/ Save(r) PROVE RequestsSound' /\ Tables'
  <2>. DEFINE stage == IF p.stage = "begin" THEN "execute" ELSE "announce"
              status == IF p.stage = "begin" THEN "running" ELSE p.result
              q == [p EXCEPT !.stage = stage]
              log == WrittenLog(p, logs[r], status)
  <2>1. /\ p.stage \in {"begin", "save"} /\ Become(r, stage) /\ WriteLog(r, status)
        /\ UNCHANGED <<ran, published>>
    BY <1>5 DEF Begin, Save, history, At, p
  <2>2. status \in Status /\ stage \in Stage
    BY <1>0, PipelineFields DEF Status, Final, Stage
  <2>3. Moved(p, q, stage)
    BY <1>0, <2>2, StageMoves
  <2>4. logs' = [logs EXCEPT ![r] = log]
    <3>1. logs = [logs EXCEPT ![r] = logs[r]]
      BY DEF Inv, TypeOK
    <3>. QED BY <2>1, <3>1 DEF WriteLog, WrittenLog, Current, p
  <2>5. pipeline' = [pipeline EXCEPT ![r] = q]
    BY <2>1 DEF Become, p
  <2>6. \/ q.stage = "execute" /\ p.stage = "begin" /\ status = "running"
        \/ q.stage = "announce" /\ p.stage = "save" /\ status = p.result
    BY <2>1, <2>3 DEF Moved
  <2>7. Counts(q, ran[r], published[r])
    BY <1>0, <2>3, <2>6 DEF Moved, RequestSound, Counts
  <2>8. status \in Ahead(q, p.next)
    BY <2>3, <2>6 DEF Moved, Ahead
  <2>. HIDE DEF q, status, stage
  <2>9. /\ log \in [1 .. Actions -> Status \cup {NoLog}]
        /\ RequestSound(q, ran[r], published[r], log)
    BY <1>0, <2>1, <2>2, <2>3, <2>7, <2>8, WriteSound
  <2>. HIDE DEF log
  <2>10. Typed(q, ran[r], published[r], log)
    BY <1>0, <2>3, <2>9 DEF Typed, Moved
  <2>11. Replaced(r, q, ran[r], published[r], log)
    BY <2>1, <2>4, <2>5, SameFunctions DEF Replaced
  <2>. QED BY <2>9, <2>10, <2>11, Only
<1>6. ASSUME Execute(r) PROVE RequestsSound' /\ Tables'
  <2>1. p.stage = "execute" /\ ran' = [ran EXCEPT ![r] = Append(ran[r], p.next)]
        /\ UNCHANGED <<published, logs>>
    BY <1>6 DEF Execute, At, p
  <2>2. PICK result \in Final : pipeline' = [pipeline EXCEPT ![r] = Executed(p, result)]
    <3>1. Outcomes(r) \subseteq Final
      <4>1. p.next \in 1 .. Len(p.plan)
        BY <1>0, <2>1, PipelineFields DEF RequestSound, Counts
      <4>2. p.plan[p.next] \in List!ActionRow
        BY <1>0, <4>1, PipelineFields
      <4>3. p.plan[p.next].kind \in Kind
        BY <4>2 DEF List!ActionRow
      <4>. QED BY <4>3 DEF Outcomes, Current, Kind, Final, p
    <3>. QED BY <1>6, <3>1 DEF Execute, Executed, p
  <2>3. /\ Executed(p, result) \in Pipeline /\ Append(ran[r], p.next) \in Seq(1 .. Actions)
        /\ RequestSound(Executed(p, result), Append(ran[r], p.next), published[r], logs[r])
    BY <1>0, <2>1, ExecuteSound
  <2>4. Typed(Executed(p, result), Append(ran[r], p.next), published[r], logs[r])
    BY <1>0, <2>3 DEF Typed
  <2>5. Replaced(r, Executed(p, result), Append(ran[r], p.next), published[r], logs[r])
    BY <2>1, <2>2, SameFunctions DEF Replaced
  <2>. QED BY <2>3, <2>4, <2>5, Only
<1>7. ASSUME Announce(r) PROVE RequestsSound' /\ Tables'
  <2>1. /\ p.stage = "announce" /\ UNCHANGED <<ran, logs>>
        /\ published' = [published EXCEPT ![r] = Told(p, published[r])]
    BY <1>7 DEF Announce, PublishCompleted, Told, Current, At, p
  <2>2. pipeline' = [pipeline EXCEPT ![r] = Announced(p)]
    BY <1>7 DEF Announce, Advance, Announced, Last, Stops, p
  <2>3. /\ Announced(p) \in Pipeline /\ Told(p, published[r]) \in Seq(Event)
        /\ RequestSound(Announced(p), ran[r], Told(p, published[r]), logs[r])
    BY <1>0, <2>1, AnnounceSound
  <2>4. Typed(Announced(p), ran[r], Told(p, published[r]), logs[r])
    BY <1>0, <2>3 DEF Typed
  <2>5. Replaced(r, Announced(p), ran[r], Told(p, published[r]), logs[r])
    BY <2>1, <2>2, SameFunctions DEF Replaced
  <2>. QED BY <2>3, <2>4, <2>5, Only
<1>. QED BY <1>1, <1>2, <1>3, <1>4, <1>5, <1>6, <1>7 DEF Step

\* Logs that go away leave every pipeline as it should be.
LEMMA LogsShrink ==
  ASSUME Inv, UNCHANGED <<pipeline, ran, published>>,
         logs' \in [Request -> [1 .. Actions -> Status \cup {NoLog}]],
         \A r \in Request, a \in 1 .. Actions : logs'[r][a] \in {logs[r][a], NoLog}
  PROVE  RequestsSound' /\ Tables'
<1>1. ASSUME NEW r \in Request PROVE RequestSound(pipeline[r], ran[r], published[r], logs'[r])
  <2>1. /\ Typed(pipeline[r], ran[r], published[r], logs[r])
        /\ RequestSound(pipeline[r], ran[r], published[r], logs[r])
    BY Values
  <2>. QED BY <2>1, ShrinkSound
<1>. QED BY <1>1 DEF RequestsSound, Inv, TypeOK, Tables

\* The steps of everybody else.
Environment ==
  \/ CreateAction \/ UpdateAction \/ DeleteAction \/ ReorderActions
  \/ \E r \in Request : DeleteRequest(r)
  \/ UNCHANGED vars

\* Users edit actions and delete requests: of the logs they only remove some.
LEMMA EnvironmentLogs ==
  ASSUME Inv, Environment
  PROVE  /\ UNCHANGED <<pipeline, ran, published>>
         /\ logs' \in [Request -> [1 .. Actions -> Status \cup {NoLog}]]
         /\ \A r \in Request, a \in 1 .. Actions : logs'[r][a] \in {logs[r][a], NoLog}
<1>. logs \in [Request -> [1 .. Actions -> Status \cup {NoLog}]]
  BY DEF Inv, TypeOK
<1>1. CASE DeleteAction
  <2>1. logs' = [r \in Request |-> [a \in 1 .. Actions |->
                   IF a \in Ids \ Ids' THEN NoLog ELSE logs[r][a]]]
    BY <1>1 DEF DeleteAction
  <2>2. \A r \in Request, a \in 1 .. Actions : logs'[r][a] \in {logs[r][a], NoLog}
    BY <2>1
  <2>3. logs' \in [Request -> [1 .. Actions -> Status \cup {NoLog}]]
    BY <2>1
  <2>. QED BY <1>1, <2>2, <2>3 DEF DeleteAction, Edit, history
<1>2. CASE CreateAction \/ UpdateAction \/ ReorderActions
  BY <1>2 DEF CreateAction, UpdateAction, ReorderActions, Edit, history
<1>3. ASSUME NEW r \in Request, DeleteRequest(r)
      PROVE  /\ UNCHANGED <<pipeline, ran, published>>
             /\ logs' \in [Request -> [1 .. Actions -> Status \cup {NoLog}]]
             /\ \A q \in Request, a \in 1 .. Actions : logs'[q][a] \in {logs[q][a], NoLog}
  BY <1>3 DEF DeleteRequest, history
<1>4. CASE UNCHANGED vars
  BY <1>4 DEF vars, history
<1>. QED BY <1>1, <1>2, <1>3, <1>4 DEF Environment

\* A step is one of a goroutine, of the world around it, or a restart.
LEMMA NextSteps ==
  ASSUME [Next]_vars
  PROVE  \/ \E r \in Request : Dispatch(r) \/ Step(r) \/ Expire(r)
         \/ Environment \/ Restart
BY DEF Next, Environment

\* The tables of the actions keep their types.
LEMMA ActionsStep ==
  ASSUME Inv, [Next]_vars
  PROVE  /\ actions' \in Seq(List!ActionRow) /\ Len(actions') <= created'
         /\ created' \in 0 .. Actions /\ edits' \in 0 .. Edits /\ stored' \subseteq Request
         /\ ActionsSound'
<1>. TypeOK /\ ActionsSound /\ Edits \in Nat
  BY PipelineAssumption DEF Inv
<1>1. CASE UNCHANGED table
  <2>1. stored' \subseteq Request
    <3>1. \A r \in Request : Dispatch(r) => stored' = stored \cup {r}
      BY DEF Dispatch
    <3>2. \A r \in Request : Step(r) \/ Expire(r) => stored' = stored
      BY DEF Step, Expire, Acquire, LoadActions, CreateLog, Begin, Execute, Save, Announce
    <3>3. Restart => stored' = stored
      BY DEF Restart
    <3>4. Environment => stored' \subseteq stored
      BY DEF Environment, DeleteRequest, vars, CreateAction, UpdateAction, DeleteAction,
             ReorderActions, Edit
    <3>. QED BY <3>1, <3>2, <3>3, <3>4, NextSteps DEF TypeOK
  <2>2. UNCHANGED <<actions, created, edits>>
    BY <1>1 DEF table
  <2>. QED BY <2>1, <2>2 DEF TypeOK, ActionsSound
<1>2. CASE Edit /\ (List!Insert \/ List!Change \/ List!Drop \/ List!Arrange)
  <2>1. edits' \in 0 .. Edits /\ stored' = stored
    BY <1>2 DEF Edit, TypeOK
  <2>2. stored' \subseteq Request
    BY <2>1 DEF TypeOK
  <2>. QED BY <1>2, <2>1, <2>2, EditSound
<1>3. ASSUME NEW r \in Request, Dispatch(r) \/ Step(r) \/ Expire(r) PROVE UNCHANGED table
  BY <1>3 DEF Dispatch, Step, Expire, Acquire, LoadActions, CreateLog, Begin, Execute, Save, Announce
<1>4. CASE Restart
  BY <1>1, <1>4 DEF Restart
<1>5. CASE Environment
  BY <1>1, <1>2, <1>5 DEF Environment, CreateAction, UpdateAction, DeleteAction, ReorderActions,
     DeleteRequest, vars
<1>. QED BY <1>1, <1>3, <1>4, <1>5, NextSteps

\* A restart loses the pipelines that are not over.
LEMMA RestartSound ==
  ASSUME Inv, Restart
  PROVE  RequestsSound' /\ Tables'
<1>1. UNCHANGED <<ran, published, logs>>
  BY DEF Restart, history
<1>2. ASSUME NEW r \in Request
      PROVE  pipeline'[r] \in Pipeline /\ RequestSound(pipeline'[r], ran[r], published[r], logs[r])
  <2>1. /\ Typed(pipeline[r], ran[r], published[r], logs[r])
        /\ RequestSound(pipeline[r], ran[r], published[r], logs[r])
    BY Values
  <2>2. CASE pipeline'[r] = pipeline[r]
    BY <2>1, <2>2 DEF Typed
  <2>3. CASE pipeline'[r] = [pipeline[r] EXCEPT !.stage = "lost"] /\ pipeline[r].stage # "done"
    <3>1. Moved(pipeline[r], pipeline'[r], "lost")
      BY <2>1, <2>3, StageMoves DEF Typed, Stage
    <3>. QED BY <2>1, <2>3, <3>1, LostSound DEF Moved
  <2>. QED BY <2>2, <2>3 DEF Restart
<1>3. pipeline' \in [Request -> Pipeline]
  BY <1>2 DEF Restart
<1>. QED BY <1>1, <1>2, <1>3 DEF RequestsSound, Tables, Inv, TypeOK

\* Every step keeps the pipelines sound.
LEMMA RequestsStep ==
  ASSUME Inv, [Next]_vars
  PROVE  RequestsSound' /\ Tables'
BY NextSteps, GoroutineSound, EnvironmentLogs, LogsShrink, RestartSound

\* The slots.
LEMMA RunningStep ==
  ASSUME Inv, [Next]_vars
  PROVE  IsFiniteSet(Running') /\ Cardinality(Running') <= Concurrency
<1>. /\ pipeline \in [Request -> Pipeline] /\ IsFiniteSet(Running)
     /\ Cardinality(Running) <= Concurrency /\ Concurrency \in Nat
  BY PipelineAssumption DEF Inv, TypeOK
<1>1. CASE Running' \subseteq Running
  <2>1. Cardinality(Running') <= Cardinality(Running) /\ IsFiniteSet(Running')
    BY <1>1, FS_Subset
  <2>2. Cardinality(Running') \in Nat /\ Cardinality(Running) \in Nat
    BY <2>1, FS_CardinalityType
  <2>. QED BY <2>1, <2>2
<1>2. ASSUME NEW r \in Request, Acquire(r)
      PROVE  IsFiniteSet(Running') /\ Cardinality(Running') <= Concurrency
  <2>1. Running' \subseteq Running \cup {r}
    BY <1>2 DEF Acquire, Become, Running
  <2>2. /\ IsFiniteSet(Running \cup {r})
        /\ Cardinality(Running \cup {r}) <= Cardinality(Running) + 1
    BY FS_AddElement, FS_CardinalityType
  <2>3. /\ IsFiniteSet(Running')
        /\ Cardinality(Running') <= Cardinality(Running \cup {r})
    BY <2>1, <2>2, FS_Subset
  <2>4. Cardinality(Running) < Concurrency
    BY <1>2 DEF Acquire, FreeSlot
  <2>5. /\ Cardinality(Running') \in Nat /\ Cardinality(Running) \in Nat
        /\ Cardinality(Running \cup {r}) \in Nat
    BY <2>2, <2>3, FS_CardinalityType
  <2>. QED BY <2>2, <2>3, <2>4, <2>5
<1>3. ASSUME NEW r \in Request, Dispatch(r) \/ Step(r) \/ Expire(r), ~Acquire(r)
      PROVE  Running' \subseteq Running
  <2>1. \A q \in Request : q # r => pipeline'[q] = pipeline[q]
    BY <1>3 DEF Dispatch, Step, Expire, LoadActions, CreateLog, Begin, Execute, Save, Announce,
       Advance, Become
  <2>2. CASE Dispatch(r)
    <3>1. pipeline'[r].stage = "queued"
      <4>1. pipeline[r] \in Pipeline
        OBVIOUS
      <4>. QED BY <2>2, <4>1 DEF Dispatch, Become, Pipeline
    <3>. QED BY <2>1, <3>1 DEF Running
  <2>3. CASE r \in Running
    BY <2>1, <2>3 DEF Running
  <2>. QED BY <1>3, <2>2, <2>3 DEF Step, Expire, LoadActions, CreateLog, Begin, Execute, Save,
            Announce, At, Running
<1>4. CASE Restart
  <2>1. \A r \in Request : pipeline[r].stage \in {"idle", "done"} => pipeline'[r] = pipeline[r]
    BY <1>4 DEF Restart
  <2>2. \A r \in Request : pipeline[r].stage \notin {"idle", "done"} => pipeline'[r].stage = "lost"
    <3>1. \A p \in Pipeline : [p EXCEPT !.stage = "lost"].stage = "lost"
      BY DEF Pipeline
    <3>. QED BY <1>4, <3>1 DEF Restart
  <2>3. Running' \subseteq Running
    BY <2>1, <2>2 DEF Running
  <2>. QED BY <1>1, <2>3
<1>5. CASE Environment
  <2>1. Running' = Running
    BY <1>5, EnvironmentLogs DEF Running
  <2>. QED BY <1>1, <2>1
<1>. QED BY <1>1, <1>2, <1>3, <1>4, <1>5, NextSteps

\* Every step keeps the invariant.
LEMMA InvStep ==
  ASSUME Inv, [Next]_vars
  PROVE  Inv'
<1>1. TypeOK'
  BY ActionsStep, RequestsStep, RunningStep DEF TypeOK, Tables
<1>. QED BY <1>1, ActionsStep, RequestsStep, RunningStep DEF Inv

\* The invariant holds at the start.
LEMMA InvInit ==
  ASSUME Init
  PROVE  Inv
<1>. Actions \in Nat /\ Edits \in Nat /\ Concurrency \in Nat
  BY PipelineAssumption
<1>1. /\ created \in 0 .. Actions /\ actions \in [1 .. created -> List!ActionRow]
      /\ \A i \in 1 .. created : actions[i].id = i
  BY DEF Init, List!Init
<1>2. actions \in Seq(List!ActionRow) /\ Len(actions) = created
  BY <1>1
<1>3. ActionsSound
  BY <1>1, <1>2 DEF ActionsSound
<1>. DEFINE start == [stage |-> "idle", plan |-> <<>>, next |-> 1, alive |-> TRUE,
                      result |-> "success"]
<1>4. /\ pipeline = [r \in Request |-> start]
      /\ logs = [r \in Request |-> [a \in 1 .. Actions |-> NoLog]]
      /\ ran = [r \in Request |-> <<>>] /\ published = [r \in Request |-> <<>>]
      /\ edits = 0 /\ stored = {}
  BY DEF Init
<1>5. start \in Pipeline
  <2>1. <<>> \in Seq(List!ActionRow) /\ 1 \in 1 .. Actions + 1
    OBVIOUS
  <2>. QED BY <2>1 DEF Pipeline, Final
<1>6. Running = {}
  BY <1>4 DEF Running
<1>7. IsFiniteSet(Running) /\ Cardinality(Running) <= Concurrency
  BY <1>6, FS_EmptySet
<1>8. TypeOK
  <2>1. pipeline \in [Request -> Pipeline]
    BY <1>4, <1>5
  <2>2. /\ logs \in [Request -> [1 .. Actions -> Status \cup {NoLog}]]
        /\ ran \in [Request -> Seq(1 .. Actions)]
        /\ published \in [Request -> Seq([id : 1 .. Actions, status : Final])]
    BY <1>4
  <2>. QED BY <1>1, <1>2, <1>4, <1>7, <2>1, <2>2 DEF TypeOK
<1>9. RequestSound(start, <<>>, <<>>, [a \in 1 .. Actions |-> NoLog])
  BY DEF RequestSound, PlanSound, Counts, LogsSound
<1>10. RequestsSound
  BY <1>4, <1>9 DEF RequestsSound
<1>. QED BY <1>3, <1>7, <1>8, <1>10 DEF Inv

-----------------------------------------------------------------------------
\* Rows, events and what has run fit together at any moment, whatever users
\* edit and delete, whenever the time runs out and the process dies.
THEOREM SafePipelines == Spec => []Inv
<1>1. Inv /\ [Next]_vars => Inv'
  BY InvStep
<1>. QED BY <1>1, InvInit, PTL DEF Spec

\* Every variable has its type, and no more pipelines run than there are slots.
THEOREM TypeCorrect == Spec => []TypeOK
<1>1. Inv => TypeOK
  BY DEF Inv
<1>. QED BY <1>1, SafePipelines, PTL

\* A final status ahead of the events is that of the current action, whose
\* event is about to be published or was lost.
LEMMA FinalAhead ==
  ASSUME NEW p \in Pipeline, NEW i, NEW status \in Final, status \in Ahead(p, i)
  PROVE  i = p.next /\ p.stage \in {"announce", "lost"}
BY DEF Ahead, Final, NoLog

\* As long as a pipeline's time is not up, the rows and the events agree.
THEOREM RowsAndEvents == Spec => []LogsMatchEvents
<1>1. ASSUME Inv PROVE LogsMatchEvents
  <2>1. ASSUME NEW r \in Request, pipeline[r].alive
        PROVE  /\ \A i \in 1 .. Len(published[r]) :
                    logs[r][published[r][i].id] \in {published[r][i].status, NoLog}
               /\ \A a \in 1 .. Actions : logs[r][a] \in Final =>
                    \/ \E i \in 1 .. Len(published[r]) : published[r][i].id = a
                    \/ pipeline[r].stage \in {"announce", "lost"} /\ Current(r).id = a
    <3>. DEFINE p == pipeline[r]
                seen == published[r]
    <3>1. /\ p \in Pipeline /\ Len(p.plan) \in Nat /\ Len(seen) \in Nat
          /\ Len(seen) <= Len(p.plan)
          /\ \A i \in 1 .. Len(seen) : seen[i].id = p.plan[i].id
      BY <1>1, Values, PipelineFields DEF Typed, RequestSound, Counts
    <3>2. /\ \A a \in 1 .. Actions :
               logs[r][a] # NoLog => \E i \in 1 .. Len(p.plan) : p.plan[i].id = a
          /\ \A i \in 1 .. Len(p.plan) :
               logs[r][p.plan[i].id] \in
                 (IF i <= Len(seen) THEN {NoLog, seen[i].status} ELSE Ahead(p, i))
      BY <1>1, <2>1, Values DEF RequestSound, LogsSound
    <3>3. \A i \in 1 .. Len(seen) : logs[r][seen[i].id] \in {seen[i].status, NoLog}
      <4>1. ASSUME NEW i \in 1 .. Len(seen)
            PROVE  i \in 1 .. Len(p.plan) /\ i <= Len(seen)
        BY <3>1
      <4>. QED BY <3>1, <3>2, <4>1
    <3>4. ASSUME NEW a \in 1 .. Actions, logs[r][a] \in Final
          PROVE  \/ \E i \in 1 .. Len(seen) : seen[i].id = a
                 \/ p.stage \in {"announce", "lost"} /\ Current(r).id = a
      <4>1. PICK i \in 1 .. Len(p.plan) : p.plan[i].id = a
        BY <3>2, <3>4 DEF Final, NoLog
      <4>2. CASE i <= Len(seen)
        BY <3>1, <4>1, <4>2
      <4>3. CASE ~(i <= Len(seen))
        <5>1. logs[r][a] \in Ahead(p, i)
          BY <3>2, <4>1, <4>3
        <5>2. i = p.next /\ p.stage \in {"announce", "lost"}
          BY <3>1, <3>4, <5>1, FinalAhead
        <5>. QED BY <4>1, <5>2 DEF Current
      <4>. QED BY <4>2, <4>3
    <3>. QED BY <3>3, <3>4
  <2>. QED BY <2>1 DEF LogsMatchEvents
<1>. QED BY <1>1, SafePipelines, PTL

\* A pipeline that has run to its end in time leaves no log pending or running.
THEOREM LogsAreSettled == Spec => []LogsSettled
<1>1. ASSUME Inv PROVE LogsSettled
  <2>1. ASSUME NEW r \in Request, At(r, "done"), pipeline[r].alive, ran[r] # <<>>,
               NEW a \in 1 .. Actions, logs[r][a] # NoLog
        PROVE  logs[r][a] \in Final
    <3>. DEFINE p == pipeline[r]
                seen == published[r]
    <3>1. Len(seen) = Len(p.plan)
      BY <1>1, <2>1, Values DEF RequestSound, Counts, At
    <3>2. PICK i \in 1 .. Len(p.plan) : p.plan[i].id = a
      BY <1>1, <2>1, Values DEF RequestSound, LogsSound
    <3>3. logs[r][a] \in (IF i <= Len(seen) THEN {NoLog, seen[i].status} ELSE Ahead(p, i))
      BY <1>1, <2>1, <3>2, Values DEF RequestSound, LogsSound
    <3>4. seen \in Seq(Event) /\ i \in 1 .. Len(seen)
      BY <1>1, <3>1, Values DEF Typed
    <3>5. seen[i] \in Event
      BY <3>4, ElementOfSeq
    <3>6. seen[i].status \in Final
      BY <3>5 DEF Event
    <3>. QED BY <2>1, <3>3, <3>4, <3>6
  <2>. QED BY <2>1 DEF LogsSettled
<1>. QED BY <1>1, SafePipelines, PTL

\* A pipeline that has begun to run publishes one event for each action of its
\* plan, in the plan's order.
THEOREM EventsForAll == Spec => []EveryActionCompletes
<1>1. ASSUME Inv PROVE EveryActionCompletes
  <2>1. \A r \in Request : RequestSound(pipeline[r], ran[r], published[r], logs[r])
    BY <1>1 DEF Inv, RequestsSound
  <2>. QED BY <2>1 DEF EveryActionCompletes, RequestSound, Counts, At
<1>. QED BY <1>1, SafePipelines, PTL

\* The last action of a pipeline that has run is a filter that was not met, and
\* the event of that action, once it is published, says so.
StopsAt(p, done, seen) ==
  /\ p.plan[Len(done)].kind = "filter"
  /\ Len(done) <= Len(seen) => seen[Len(done)].status = "skipped"

\* So it is in a pipeline that skips, and in one that has skipped.
Stopped(p, done, seen) ==
  \/ p.stage \in {"save", "announce"} /\ p.result = "skipped"
  \/ p.stage = "done" /\ Len(done) \in 1 .. Len(p.plan) - 1
  => StopsAt(p, done, seen)

FiltersSound == \A r \in Request : Stopped(pipeline[r], ran[r], published[r])

\* Only a filter skips.
LEMMA ExecuteStops ==
  ASSUME Inv, NEW r \in Request, Execute(r)
  PROVE  Stopped(pipeline'[r], ran'[r], published'[r])
<1>. DEFINE p == pipeline[r]
            q == pipeline'[r]
<1>0. /\ Typed(p, ran[r], published[r], logs[r]) /\ p.stage = "execute"
      /\ RequestSound(p, ran[r], published[r], logs[r]) /\ p \in Pipeline
  BY Values DEF Typed, Execute, At
<1>. Tables
  BY DEF Inv, TypeOK, Tables
<1>1. /\ p.next = Len(published[r]) + 1 /\ Len(published[r]) \in Nat /\ ran[r] \in Seq(1 .. Actions)
      /\ Len(ran[r]) = Len(published[r])
  BY <1>0 DEF Typed, RequestSound, Counts
<1>2. /\ q.stage = "save" /\ q.plan = p.plan /\ published'[r] = published[r]
      /\ ran'[r] = Append(ran[r], p.next) /\ q.result \in Outcomes(r)
  <2>1. PICK result \in Outcomes(r) :
          pipeline' = [pipeline EXCEPT ![r].stage = "save", ![r].result = result]
    BY DEF Execute
  <2>2. pipeline \in [Request -> Pipeline]
    BY DEF Tables
  <2>3. q = [p EXCEPT !.stage = "save", !.result = result]
    BY <2>1, <2>2
  <2>4. q.stage = "save" /\ q.plan = p.plan /\ q.result = result
    BY <1>0, <2>3 DEF Pipeline
  <2>. QED BY <2>4 DEF Execute, Tables
<1>3. Len(ran'[r]) = p.next
  BY <1>1, <1>2
<1>4. q.result = "skipped" => p.plan[p.next].kind = "filter"
  BY <1>2 DEF Outcomes, Current
<1>5. ~(p.next <= Len(published[r]))
  BY <1>1
<1>. HIDE DEF p, q
<1>6. Stopped(q, ran'[r], published'[r])
  BY <1>2, <1>3, <1>4, <1>5 DEF Stopped, StopsAt
<1>. QED BY <1>6 DEF q

\* The event of the last action says that it skips; those after it change nothing.
LEMMA AnnounceStops ==
  ASSUME Inv, NEW r \in Request, Announce(r), Stopped(pipeline[r], ran[r], published[r])
  PROVE  Stopped(pipeline'[r], ran'[r], published'[r])
<1>. DEFINE p == pipeline[r]
            q == Announced(p)
            done == ran[r]
            seen == published[r]
            seen2 == Told(p, seen)
<1>0. /\ Typed(p, done, seen, logs[r]) /\ p.stage = "announce"
      /\ RequestSound(p, done, seen, logs[r]) /\ p \in Pipeline
  BY Values DEF Typed, Announce, At
<1>. Tables
  BY DEF Inv, TypeOK, Tables
<1>1. /\ p.next = Len(seen) + 1 /\ Len(seen) \in Nat /\ Len(done) \in Nat /\ Len(p.plan) \in Nat
      /\ IF p.result = "skipped" THEN Len(done) \in 1 .. p.next ELSE Len(done) = p.next
      /\ seen \in Seq(Event) /\ p.next \in 1 .. Len(p.plan)
  BY <1>0, PipelineFields DEF Typed, RequestSound, Counts
<1>2. pipeline'[r] = q /\ ran'[r] = done /\ published'[r] = seen2
  <2>1. pipeline' = [pipeline EXCEPT ![r] = q]
    BY DEF Announce, Advance, Announced, Last, Stops
  <2>2. published' = [published EXCEPT ![r] = seen2] /\ ran' = ran
    BY DEF Announce, PublishCompleted, Told, Current
  <2>. QED BY <2>1, <2>2 DEF Tables
<1>3. /\ q.plan = p.plan /\ q.result = p.result
      /\ q.stage = (IF p.next = Len(p.plan) THEN "done"
                    ELSE IF p.result = "skipped" THEN "save" ELSE "begin")
  BY <1>0 DEF Pipeline, Announced
<1>4. [id |-> p.plan[p.next].id, status |-> p.result] \in Event
  BY <1>0, <1>1, PipelineFields DEF Event
<1>5. /\ \A i \in 1 .. Len(seen) : seen2[i] = seen[i]
      /\ seen2[p.next].status = p.result
  BY <1>1, <1>4 DEF Told
<1>. HIDE DEF q, seen2
<1>6. CASE p.result = "skipped"
  <2>1. StopsAt(p, done, seen)
    BY <1>0, <1>6 DEF Stopped
  <2>2. seen2[Len(done)].status = "skipped"
    <3>1. CASE Len(done) = p.next
      BY <1>5, <1>6, <3>1
    <3>2. CASE Len(done) # p.next
      <4>1. Len(done) \in 1 .. Len(seen) /\ Len(done) <= Len(seen)
        BY <1>1, <1>6, <3>2
      <4>. QED BY <1>5, <2>1, <4>1 DEF StopsAt
    <3>. QED BY <3>1, <3>2
  <2>3. StopsAt(q, done, seen2)
    BY <1>3, <2>1, <2>2 DEF StopsAt
  <2>. QED BY <1>2, <2>3 DEF Stopped
<1>7. CASE p.result # "skipped"
  <2>1. q.stage = "done" => Len(done) \notin 1 .. Len(q.plan) - 1
    BY <1>1, <1>3, <1>7
  <2>2. q.stage \in {"save", "announce"} => q.result # "skipped"
    BY <1>3, <1>7
  <2>. QED BY <1>2, <2>1, <2>2 DEF Stopped
<1>. QED BY <1>6, <1>7

\* A pipeline that has begun to run ends before its last action only by a filter.
LEMMA FiltersStep ==
  ASSUME Inv, FiltersSound, [Next]_vars
  PROVE  FiltersSound'
<1>. Tables
  BY DEF Inv, TypeOK, Tables
<1>1. ASSUME UNCHANGED <<pipeline, history>> PROVE FiltersSound'
  BY <1>1 DEF FiltersSound, history
<1>2. ASSUME NEW r \in Request, Dispatch(r) \/ Step(r) \/ Expire(r)
      PROVE  FiltersSound'
  <2>. DEFINE p == pipeline[r]
              q == pipeline'[r]
  <2>0. /\ Typed(p, ran[r], published[r], logs[r])
        /\ RequestSound(p, ran[r], published[r], logs[r])
        /\ p \in Pipeline /\ Stopped(p, ran[r], published[r])
    BY Values DEF Typed, FiltersSound
  <2>1. \A s \in Request \ {r} :
          pipeline'[s] = pipeline[s] /\ ran'[s] = ran[s] /\ published'[s] = published[s]
    <3>1. CASE Dispatch(r) \/ Expire(r) \/ Acquire(r) \/ Begin(r) \/ Save(r)
      BY <3>1 DEF Tables, Dispatch, Expire, Acquire, Begin, Save, Become, history
    <3>2. CASE LoadActions(r)
      BY <3>2 DEF Tables, LoadActions, history
    <3>3. CASE CreateLog(r)
      BY <3>3 DEF Tables, CreateLog, Become, history
    <3>4. CASE Execute(r)
      BY <3>4 DEF Tables, Execute
    <3>5. CASE Announce(r)
      BY <3>5 DEF Tables, Announce, PublishCompleted, Advance
    <3>. QED BY <1>2, <3>1, <3>2, <3>3, <3>4, <3>5 DEF Step
  <2>2. Stopped(q, ran'[r], published'[r])
    <3>1. CASE Dispatch(r) \/ Acquire(r) \/ Begin(r)
      <4>1. PICK stage \in {"queued", "load", "execute"} : Become(r, stage)
        BY <3>1 DEF Dispatch, Acquire, Begin
      <4>2. q.stage = stage
        BY <2>0, <4>1 DEF Become, Tables, Pipeline
      <4>. QED BY <4>2 DEF Stopped
    <3>2. CASE LoadActions(r)
      <4>1. PICK plan : q = [p EXCEPT !.plan = plan, !.stage = IF plan = <<>> THEN "done" ELSE "log"]
        BY <3>2 DEF LoadActions, Tables
      <4>2. q.plan = plan /\ q.stage = IF plan = <<>> THEN "done" ELSE "log"
        BY <2>0, <4>1 DEF Pipeline
      <4>3. q.stage = "log" \/ (q.stage = "done" /\ Len(q.plan) = 0)
        BY <4>2
      <4>. QED BY <4>3 DEF Stopped
    <3>3. CASE CreateLog(r)
      <4>1. q.stage \in {"begin", "log", "done"}
        <5>1. CASE Become(r, "done")
          BY <2>0, <5>1 DEF Become, Tables, Pipeline
        <5>2. CASE ~Become(r, "done")
          <6>1. q = Logged(p)
            BY <3>3, <5>2 DEF CreateLog, Last, Logged, Tables
          <6>. QED BY <2>0, <6>1 DEF Logged, Pipeline
        <5>. QED BY <5>1, <5>2
      <4>2. ran[r] = <<>> /\ ran' = ran
        BY <2>0, <3>3 DEF CreateLog, At, RequestSound, Counts, history
      <4>. QED BY <4>1, <4>2 DEF Stopped
    <3>4. CASE Execute(r)
      BY <3>4, ExecuteStops
    <3>5. CASE Save(r)
      <4>1. /\ q = [p EXCEPT !.stage = "announce"] /\ p.stage = "save"
            /\ ran'[r] = ran[r] /\ published'[r] = published[r]
        BY <3>5 DEF Save, Become, At, Tables, history
      <4>2. q.stage = "announce" /\ q.plan = p.plan /\ q.result = p.result
        BY <2>0, <4>1 DEF Pipeline
      <4>. QED BY <2>0, <4>1, <4>2 DEF Stopped, StopsAt
    <3>6. CASE Announce(r)
      BY <2>0, <3>6, AnnounceStops
    <3>7. CASE Expire(r)
      <4>1. q = [p EXCEPT !.alive = FALSE] /\ ran'[r] = ran[r] /\ published'[r] = published[r]
        BY <3>7 DEF Expire, Tables, history
      <4>2. q.stage = p.stage /\ q.plan = p.plan /\ q.result = p.result
        BY <2>0, <4>1 DEF Pipeline
      <4>. QED BY <2>0, <4>1, <4>2 DEF Stopped, StopsAt
    <3>. QED BY <1>2, <3>1, <3>2, <3>3, <3>4, <3>5, <3>6, <3>7 DEF Step
  <2>. HIDE DEF p, q
  <2>. QED BY <2>1, <2>2 DEF FiltersSound, q
<1>3. CASE Restart
  <2>1. ran' = ran /\ published' = published
    BY <1>3 DEF Restart, history
  <2>2. ASSUME NEW r \in Request
        PROVE  pipeline'[r] = pipeline[r] \/ pipeline'[r].stage = "lost"
    <3>1. pipeline[r] \in Pipeline
      BY DEF Tables
    <3>. QED BY <1>3, <3>1 DEF Restart, Pipeline
  <2>. QED BY <2>1, <2>2 DEF FiltersSound, Stopped
<1>4. CASE Environment
  BY <1>1, <1>4 DEF Environment, CreateAction, UpdateAction, DeleteAction, ReorderActions, Edit,
     DeleteRequest, vars
<1>. QED BY <1>2, <1>3, <1>4, NextSteps

\* Actions run once each, in order, none after a filter that was not met, and
\* otherwise all of them, whatever fails.
THEOREM FiltersStop == Spec => []StoppedByFilter
<1>1. ASSUME Inv, FiltersSound PROVE StoppedByFilter
  <2>1. ASSUME NEW r \in Request
        PROVE  LET plan == pipeline[r].plan
                   last == Len(ran[r])
               IN  /\ \A i \in 1 .. last : ran[r][i] = i /\ plan[i].enabled
                   /\ \A i \in 1 .. Len(published[r]) :
                        published[r][i].status = "skipped" => last <= i
                   /\ At(r, "done") /\ last \in 1 .. Len(plan) - 1 =>
                        plan[last].kind = "filter" /\ published[r][last].status = "skipped"
    <3>1. /\ Counts(pipeline[r], ran[r], published[r]) /\ PlanSound(pipeline[r].plan)
          /\ Len(pipeline[r].plan) \in Nat /\ Len(ran[r]) \in Nat
      BY <1>1, Values, PipelineFields DEF RequestSound, Typed
    <3>2. \A i \in 1 .. Len(ran[r]) : ran[r][i] = i /\ i \in 1 .. Len(pipeline[r].plan)
      BY <3>1 DEF Counts
    <3>3. \A i \in 1 .. Len(ran[r]) : ran[r][i] = i /\ pipeline[r].plan[i].enabled
      BY <3>1, <3>2 DEF PlanSound
    <3>4. \A i \in 1 .. Len(published[r]) : published[r][i].status = "skipped" => Len(ran[r]) <= i
      BY <3>1 DEF Counts
    <3>5. ASSUME At(r, "done"), Len(ran[r]) \in 1 .. Len(pipeline[r].plan) - 1
          PROVE  /\ pipeline[r].plan[Len(ran[r])].kind = "filter"
                 /\ published[r][Len(ran[r])].status = "skipped"
      <4>1. StopsAt(pipeline[r], ran[r], published[r])
        BY <1>1, <3>5 DEF FiltersSound, Stopped, At
      <4>2. Len(published[r]) = Len(pipeline[r].plan)
        BY <3>1, <3>5 DEF Counts, At
      <4>3. Len(ran[r]) <= Len(published[r])
        BY <3>1, <3>5, <4>2
      <4>. QED BY <4>1, <4>3 DEF StopsAt
    <3>. QED BY <3>3, <3>4, <3>5
  <2>. QED BY <2>1 DEF StoppedByFilter
<1>2. Init => FiltersSound
  BY DEF Init, FiltersSound, Stopped
<1>3. Inv /\ FiltersSound /\ [Next]_vars => FiltersSound'
  BY FiltersStep
<1>4. Spec => []FiltersSound
  BY <1>2, <1>3, SafePipelines, PTL DEF Spec
<1>. QED BY <1>1, <1>4, SafePipelines, PTL

\* What a goroutine does to the logs of its request.
LEMMA GoroutineLogs ==
  ASSUME Inv, NEW q \in Request, Dispatch(q) \/ Step(q) \/ Expire(q),
         NEW r \in Request, NEW a \in 1 .. Actions, logs'[r][a] # logs[r][a]
  PROVE  <<logs[r][a], logs'[r][a]>> \in
           {<<NoLog, "pending">>, <<"pending", "running">>, <<"pending", "skipped">>}
           \cup ({"running"} \X Final)
<1>. DEFINE p == pipeline[q]
            b == p.plan[p.next].id
<1>0. /\ Typed(p, ran[q], published[q], logs[q])
      /\ RequestSound(p, ran[q], published[q], logs[q])
      /\ p \in Pipeline /\ p.result \in Final /\ Len(published[q]) \in Nat
  BY Values, PipelineFields DEF Typed
<1>. logs \in [Request -> [1 .. Actions -> Status \cup {NoLog}]]
  BY DEF Inv, TypeOK
<1>1. ASSUME p.alive, p.next \in 1 .. Len(p.plan), p.next > Len(published[q])
      PROVE  logs[q][b] \in Ahead(p, p.next)
  <2>1. LogsSound(p, published[q], logs[q])
    BY <1>0 DEF RequestSound
  <2>2. ~(p.next <= Len(published[q]))
    BY <1>0, <1>1, PipelineFields
  <2>3. \A i \in 1 .. Len(p.plan) : ~(i <= Len(published[q])) => logs[q][p.plan[i].id] \in Ahead(p, i)
    BY <1>1, <2>1 DEF LogsSound
  <2>. QED BY <1>1, <2>2, <2>3
<1>2. CreateLog(q) \/ Begin(q) \/ Save(q)
  BY DEF Dispatch, Step, Expire, Acquire, LoadActions, Execute, Announce, history
<1>3. p.next \in 1 .. Len(p.plan) /\ p.next > Len(published[q])
  <2>1. p.stage \in {"log", "begin", "save"}
    BY <1>2 DEF CreateLog, Begin, Save, At
  <2>2. p.next <= Len(p.plan) /\ (published[q] = <<>> \/ p.next = Len(published[q]) + 1)
    BY <1>0, <2>1 DEF RequestSound, Counts
  <2>. QED BY <1>0, <2>2, PipelineFields
<1>4. CASE CreateLog(q)
  <2>1. p.alive /\ logs' = [logs EXCEPT ![q][b] = "pending"] /\ p.stage = "log"
    BY <1>4 DEF CreateLog, Current, At
  <2>2. r = q /\ a = b /\ logs'[r][a] = "pending"
    BY <2>1
  <2>3. Ahead(p, p.next) = {NoLog, "pending"}
    BY <2>1 DEF Ahead
  <2>. QED BY <1>1, <1>3, <2>1, <2>2, <2>3
<1>5. ASSUME NEW status, WriteLog(q, status)
      PROVE  p.alive /\ r = q /\ a = b /\ logs'[r][a] = status /\ logs[q][b] # NoLog
  BY <1>5 DEF WriteLog, Current
<1>6. CASE Begin(q)
  <2>1. WriteLog(q, "running") /\ p.stage = "begin"
    BY <1>6 DEF Begin, At
  <2>2. Ahead(p, p.next) = {NoLog, "pending"}
    BY <2>1 DEF Ahead
  <2>. QED BY <1>1, <1>3, <1>5, <2>1, <2>2
<1>7. CASE Save(q)
  <2>1. WriteLog(q, p.result) /\ p.stage = "save"
    BY <1>7 DEF Save, At
  <2>2. Ahead(p, p.next) = {NoLog, "running"} \cup (IF p.result = "skipped" THEN {"pending"} ELSE {})
    BY <2>1 DEF Ahead
  <2>3. /\ logs[r][a] \in {NoLog, "running"} \cup (IF p.result = "skipped" THEN {"pending"} ELSE {})
        /\ logs[r][a] # NoLog /\ logs'[r][a] = p.result
    BY <1>1, <1>3, <1>5, <2>1, <2>2
  <2>. QED BY <1>0, <2>3
<1>. QED BY <1>2, <1>4, <1>6, <1>7

\* A log's status only moves forward, and a final one is never changed again.
THEOREM LogsForward == Spec => LogsMoveForward
<1>1. ASSUME Inv, [Next]_vars,
             NEW r \in Request, NEW a \in 1 .. Actions, logs'[r][a] # logs[r][a]
      PROVE  \/ logs'[r][a] = NoLog
             \/ <<logs[r][a], logs'[r][a]>> \in
                  {<<NoLog, "pending">>, <<"pending", "running">>, <<"pending", "skipped">>}
                  \cup ({"running"} \X Final)
  <2>1. CASE Environment
    BY <1>1, <2>1, EnvironmentLogs
  <2>2. CASE Restart
    BY <1>1, <2>2 DEF Restart
  <2>3. ASSUME NEW q \in Request, Dispatch(q) \/ Step(q) \/ Expire(q)
        PROVE  <<logs[r][a], logs'[r][a]>> \in
                 {<<NoLog, "pending">>, <<"pending", "running">>, <<"pending", "skipped">>}
                 \cup ({"running"} \X Final)
    BY <1>1, <2>3, GoroutineLogs
  <2>. QED BY <1>1, <2>1, <2>2, <2>3, NextSteps
<1>2. Inv /\ [Next]_vars =>
        [\A r \in Request, a \in 1 .. Actions :
           logs'[r][a] # logs[r][a] =>
             \/ logs'[r][a] = NoLog
             \/ <<logs[r][a], logs'[r][a]>> \in
                  {<<NoLog, "pending">>, <<"pending", "running">>, <<"pending", "skipped">>}
                  \cup ({"running"} \X Final)]_vars
  BY <1>1
<1>. QED BY <1>2, SafePipelines, PTL DEF Spec, LogsMoveForward

=============================================================================
