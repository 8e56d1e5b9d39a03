----------------------- MODULE TokenLifecycle_proofs ------------------------
(***************************************************************************)
(* Proofs about TokenLifecycle, for every set of tokens, requests, secrets *)
(* and handlers, every workload, TTL and horizon.                          *)
(***************************************************************************)
EXTENDS TokenLifecycle, TLAPS

-----------------------------------------------------------------------------
\* What scanToken reads and what a touch, the backfill and the defaults of a
\* save write are rows.
LEMMA RowTypes ==
  ASSUME NEW r \in Row, NEW at \in Nat
  PROVE  /\ Scan(r) \in Row
         /\ Touched(r, at) \in Row
         /\ Backfilled(r) \in Row
         /\ Defaulted(r) \in Row
BY TTLAssumption DEF Scan, Touched, Backfilled, Defaulted, Row, NoTime

\* So is what a save of the configuration writes,
LEMMA ConfiguredType ==
  ASSUME NEW r \in Row, NEW max \in Nat \ {0}, NEW persistent \in BOOLEAN,
         NEW private \in BOOLEAN, NEW fresh \in Secret \cup {None}, NEW at \in Nat
  PROVE  Configured(r, max, persistent, private, fresh, at) \in Row
<1>1. Reconciled(r, private, fresh) \in Secret \cup {None}
  BY DEF Reconciled, Row
<1>2. (IF persistent THEN NoTime ELSE at + TTL) \in Nat
  BY TTLAssumption DEF NoTime
<1>. QED BY <1>1, <1>2, RowTypes DEF Configured, Row

\* and what a rotation writes.
LEMMA RotatedType ==
  ASSUME NEW r \in Row, NEW fresh \in Secret \cup {None}, NEW at \in Nat
  PROVE  Rotated(r, fresh, at) \in Row
<1>. DEFINE later == IF r.persistent THEN r.expires ELSE at + TTL
<1>1. later \in Nat
  BY TTLAssumption DEF Row
<1>2. [r EXCEPT !.hash = fresh, !.updated = at, !.expires = later] \in Row
  <2>. HIDE DEF later
  <2>. QED BY <1>1 DEF Row
<1>. QED BY <1>2, RowTypes DEF Rotated

\* A fresh secret is a secret or none at all.
LEMMA FreshType == \A fresh \in Fresh : fresh \in Secret \cup {None}
BY DEF Fresh

\* What a handler holds, spelled out once.
LEMMA TaskType ==
  ASSUME TypeOK, NEW h \in Handler, ~Idle(h)
  PROVE  /\ task[h] \in Activation
         /\ task[h].tok \in Token /\ task[h].snap \in Row /\ task[h].at \in Nat
         /\ task[h].op \in Operation /\ task[h].role \in Role
         /\ task[h].req \in Request \cup {None}
BY DEF TypeOK, Idle, Activation

\* Finishing, or going on to another stage, leaves the tasks well-typed and
\* the snapshots that remain unchanged.
LEMMA FinishType ==
  ASSUME TypeOK, TasksSound, NEW h \in Handler, Finish(h)
  PROVE  /\ task' \in [Handler -> Activation \cup {None}]
         /\ \A g \in Handler : task'[g] # None => SoundTask(task'[g])
BY DEF TypeOK, TasksSound, Finish, Idle

\* A handler that moves on to another statement keeps what it has loaded.
LEMMA BecomeType ==
  ASSUME TypeOK, TasksSound, NEW h \in Handler, ~Idle(h),
         NEW stage \in {"refresh", "act", "write"} \cup Committed, Become(h, stage),
         stage \in Committed => task[h].req \in stored, UNCHANGED stored
  PROVE  /\ task' \in [Handler -> Activation \cup {None}]
         /\ \A g \in Handler : task'[g] # None => SoundTask(task'[g])
<1>1. [task[h] EXCEPT !.stage = stage] \in Activation
  BY TaskType DEF Activation, Committed
<1>2. SoundTask([task[h] EXCEPT !.stage = stage])
  BY TaskType DEF Activation, TasksSound, SoundTask
<1>3. task' = [task EXCEPT ![h] = [task[h] EXCEPT !.stage = stage]]
  BY DEF Become
<1>. QED BY <1>1, <1>2, <1>3 DEF TypeOK, TasksSound, Idle

\* Writing one row whose expiry is a TTL after `since' keeps every row aged.
LEMMA AgedOneRow ==
  ASSUME TypeOK, Aged, NEW t \in Token, NEW new \in Row, NEW since \in Nat,
         ~new.persistent => new.expires >= since + TTL,
         row' = [row EXCEPT ![t] = new],
         refreshed' = [refreshed EXCEPT ![t] = since]
  PROVE  Aged'
<1>. SUFFICES ASSUME NEW u \in Token, row'[u] # None, ~row'[u].persistent
              PROVE  row'[u].expires >= refreshed'[u] + TTL
  BY DEF Aged, Exists
<1>1. CASE u = t
  BY <1>1 DEF TypeOK
<1>2. CASE u # t
  BY <1>2 DEF TypeOK, Aged, Exists
<1>. QED BY <1>1, <1>2

\* An aged token that is not persistent has an expiry at all, since the TTL is
\* positive.
LEMMA AgedNotStranded == TypeOK /\ Aged => NeverStranded
<1>. SUFFICES ASSUME TypeOK, Aged, NEW t \in Token, Exists(t), ~row[t].persistent
              PROVE  row[t].expires # NoTime
  BY DEF NeverStranded
<1>1. row[t].expires \in Nat /\ refreshed[t] \in Nat
  BY DEF TypeOK, Exists, Row
<1>2. row[t].expires >= refreshed[t] + TTL
  BY DEF Aged
<1>. QED BY <1>1, <1>2, TTLAssumption DEF NoTime

-----------------------------------------------------------------------------
\* Empty tables are safe.
LEMMA InitSafe == Init => TablesSafe
BY DEF Init, TablesSafe, TypeOK, NoOrphans, Aged, FromQuota, TasksSound, Exists, Idle

\* Creating a token keeps the tables safe.
LEMMA CreateSafe ==
  ASSUME TablesSafe, NEW t \in Token, NEW role \in Role, NEW max \in Quota,
         NEW persistent \in BOOLEAN, NEW private \in BOOLEAN, NEW fresh \in Fresh,
         NEW at \in 1 .. now, CreateToken(t, role, max, persistent, private, fresh, at)
  PROVE  TablesSafe'
<1>. DEFINE new == [persistent |-> persistent, max |-> max, hash |-> fresh,
                    updated |-> at, expires |-> NoTime]
<1>1. new \in Row /\ at \in Nat \ {0} /\ TTL \in Nat \ {0} /\ fresh \in Secret \cup {None}
  BY FreshType, LifecycleAssumption, TTLAssumption DEF Row, NoTime, TablesSafe, TypeOK
<1>2. /\ Defaulted(new) \in Row
      /\ Defaulted(new).max = max
      /\ ~Defaulted(new).persistent => Defaulted(new).expires >= at + TTL
  BY <1>1, RowTypes DEF Defaulted, Row, NoTime
<1>3. row' = [row EXCEPT ![t] = Defaulted(new)]
  BY DEF CreateToken
<1>. HIDE DEF new
<1>4. TypeOK'
  BY <1>1, <1>2, <1>3 DEF CreateToken, TablesSafe, TypeOK, outbox
<1>5. Aged'
  BY <1>1, <1>2, <1>3, AgedOneRow DEF CreateToken, TablesSafe, TypeOK
<1>6. NoOrphans' /\ FromQuota' /\ TasksSound'
  BY <1>2, <1>3, NoneAssumption
  DEF CreateToken, TablesSafe, TypeOK, NoOrphans, FromQuota, TasksSound, SoundTask, Exists, Idle
<1>. QED BY <1>4, <1>5, <1>6 DEF TablesSafe

\* Loading a token keeps the tables safe.
LEMMA LoadSafe ==
  ASSUME TablesSafe, NEW h \in Handler, NEW op \in Operation, NEW t \in Token,
         NEW role \in Role, Load(h, op, t, role)
  PROVE  TablesSafe'
<1>. DEFINE new == [op |-> op, stage |-> IF op \in Refreshing THEN "refresh" ELSE "write",
                    tok |-> t, role |-> role,
                    snap |-> Scan(row[t]), at |-> now, req |-> None]
<1>1. row[t] \in Row /\ Scan(row[t]).max = row[t].max
  BY DEF Load, TablesSafe, TypeOK, Exists, Scan, Row
<1>2. new \in Activation
  BY <1>1, RowTypes DEF TablesSafe, TypeOK, Activation, Role, Load
<1>3. SoundTask(new)
  BY <1>1 DEF TablesSafe, FromQuota, SoundTask, Committed, Load
<1>4. task' = [task EXCEPT ![h] = new]
  BY DEF Load
<1>. HIDE DEF new
<1>5. TypeOK'
  BY <1>2, <1>4 DEF Load, TablesSafe, TypeOK, tables, secrets, outbox
<1>6. Aged' /\ NoOrphans'
  BY DEF Load, TablesSafe, Aged, NoOrphans, Exists, tables
<1>7. FromQuota' /\ TasksSound'
  BY <1>3, <1>4 DEF Load, TablesSafe, TypeOK, FromQuota, TasksSound, SoundTask, Exists, Idle, tables
<1>. QED BY <1>5, <1>6, <1>7 DEF TablesSafe

\* Refreshing a token keeps the tables safe.
LEMMA RefreshSafe ==
  ASSUME TablesSafe, NEW h \in Handler, NEW at \in Nat, Refresh(h, at)
  PROVE  TablesSafe'
<1>. DEFINE t == task[h].tok
<1>1. ~Idle(h) /\ t \in Token /\ task[h].at \in Nat /\ at >= task[h].at /\ TTL \in Nat
  BY TaskType, TTLAssumption DEF Refresh, TablesSafe, TypeOK
<1>2. /\ task' \in [Handler -> Activation \cup {None}]
      /\ \A g \in Handler : task'[g] # None => SoundTask(task'[g])
  <2>1. "act" \notin Committed /\ UNCHANGED stored
    BY DEF Refresh, Committed
  <2>2. CASE Finish(h)
    BY <2>2, FinishType DEF TablesSafe
  <2>3. CASE Become(h, "act")
    BY <1>1, <2>1, <2>3, BecomeType DEF TablesSafe
  <2>. QED BY <2>2, <2>3 DEF Refresh
<1>3. CASE task[h].snap.persistent
  <2>1. UNCHANGED <<now, tables, born, stored, secrets, refreshed, outbox>>
    BY <1>3 DEF Refresh, tables
  <2>. QED
    BY <1>2, <2>1
    DEF TablesSafe, TypeOK, NoOrphans, Aged, FromQuota, TasksSound, SoundTask, Exists, Idle,
        tables, secrets, outbox
<1>4. CASE ~task[h].snap.persistent
  <2>1. /\ row[t] \in Row
        /\ row' = [row EXCEPT ![t] = Touched(row[t], at)]
        /\ refreshed' = [refreshed EXCEPT ![t] = task[h].at]
        /\ UNCHANGED <<now, requests, born, stored, secrets, outbox>>
    BY <1>1, <1>4 DEF Refresh, TablesSafe, TypeOK, Exists
  <2>2. /\ Touched(row[t], at) \in Row
        /\ Touched(row[t], at).max = row[t].max
        /\ Touched(row[t], at).expires >= task[h].at + TTL
    BY <1>1, <2>1, RowTypes DEF Touched, Row
  <2>3. TypeOK'
    BY <1>1, <1>2, <2>1, <2>2 DEF TablesSafe, TypeOK, secrets, outbox
  <2>4. Aged'
    BY <1>1, <2>1, <2>2, AgedOneRow DEF TablesSafe
  <2>5. NoOrphans' /\ FromQuota' /\ TasksSound'
    BY <1>1, <1>2, <2>1, <2>2, NoneAssumption
    DEF TablesSafe, TypeOK, NoOrphans, FromQuota, TasksSound, SoundTask, Exists, Idle
  <2>. QED BY <2>3, <2>4, <2>5 DEF TablesSafe
<1>. QED BY <1>3, <1>4

\* Storing a request keeps the tables safe.
LEMMA InsertSafe ==
  ASSUME TablesSafe, NEW h \in Handler, NEW r \in Request, InsertRequest(h, r)
  PROVE  TablesSafe'
<1>. DEFINE new == [task[h] EXCEPT !.stage = "count", !.req = r]
<1>1. ~Idle(h) /\ task[h].tok \in Token /\ task[h] \in Activation
  BY TaskType DEF InsertRequest, In, TablesSafe
<1>2. new \in Activation /\ new.snap = task[h].snap /\ new.req = r
  BY <1>1 DEF Activation
<1>3. task' = [task EXCEPT ![h] = new]
  BY DEF InsertRequest
<1>. HIDE DEF new
<1>4. TypeOK'
  BY <1>1, <1>2, <1>3 DEF InsertRequest, TablesSafe, TypeOK, secrets, outbox
<1>5. NoOrphans' /\ Aged'
  BY <1>1 DEF InsertRequest, HasRoom, TablesSafe, TypeOK, NoOrphans, Aged, Exists
<1>6. FromQuota' /\ TasksSound'
  BY <1>1, <1>2, <1>3
  DEF InsertRequest, TablesSafe, TypeOK, FromQuota, TasksSound, SoundTask, Exists, Idle
<1>. QED BY <1>4, <1>5, <1>6 DEF TablesSafe

\* The steps that touch neither rows nor expiries and end a handler or let it go
\* on: what follows the insertion of a request, the two deletions of requests,
\* and giving up.
LEMMA QuietStepSafe ==
  ASSUME TablesSafe, NEW h \in Handler, ~Idle(h),
         \/ Finish(h)
         \/ \E stage \in Committed : Become(h, stage) /\ task[h].req \in stored,
         requests' \in [Token -> SUBSET stored],
         \A t \in Token : requests'[t] \subseteq requests[t],
         announced' \cup dispatched' \cup lost' \subseteq stored,
         UNCHANGED <<now, row, born, stored, secrets, refreshed>>
  PROVE  TablesSafe'
<1>1. /\ task' \in [Handler -> Activation \cup {None}]
      /\ \A g \in Handler : task'[g] # None => SoundTask(task'[g])
  BY FinishType, BecomeType DEF TablesSafe
<1>2. TypeOK'
  BY <1>1 DEF TablesSafe, TypeOK, secrets
<1>. QED BY <1>1, <1>2 DEF TablesSafe, NoOrphans, Aged, FromQuota, TasksSound, SoundTask, Exists, Idle

\* Saving the settings keeps the tables safe.
LEMMA UpdateSafe ==
  ASSUME TablesSafe, NEW h \in Handler, NEW max \in Quota,
         NEW persistent \in BOOLEAN, NEW private \in BOOLEAN, NEW fresh \in Fresh,
         NEW at \in Nat, UpdateToken(h, max, persistent, private, fresh, at)
  PROVE  TablesSafe'
<1>. DEFINE t    == task[h].tok
            snap == task[h].snap
            new  == Configured(snap, max, persistent, private, fresh, at)
<1>1. /\ ~Idle(h) /\ t \in Token /\ snap \in Row /\ task[h].at \in Nat
      /\ at >= task[h].at /\ TTL \in Nat \ {0} /\ max \in Nat \ {0}
      /\ fresh \in Secret \cup {None}
  BY TaskType, TTLAssumption, FreshType, LifecycleAssumption
  DEF UpdateToken, In, TablesSafe, TypeOK
<1>2. new \in Row
  BY <1>1, ConfiguredType
<1>3. new.max = max /\ (~new.persistent => new.expires >= task[h].at + TTL)
  BY <1>1 DEF Configured, Defaulted, NoTime
<1>4. /\ row' = [row EXCEPT ![t] = new]
      /\ refreshed' = [refreshed EXCEPT ![t] = task[h].at]
      /\ Exists(t)
      /\ UNCHANGED <<now, requests, born, stored, outbox>>
      /\ drawn' = drawn \cup ({fresh} \ {None})
      /\ told' = [told EXCEPT ![t] = IF private /\ Private(snap) THEN told[t] ELSE fresh]
  BY <1>1 DEF UpdateToken, TablesSafe, TypeOK
<1>5. /\ task' \in [Handler -> Activation \cup {None}]
      /\ \A g \in Handler : task'[g] # None => SoundTask(task'[g])
  BY <1>1, FinishType DEF UpdateToken, TablesSafe
<1>. HIDE DEF new
<1>6. TypeOK'
  BY <1>1, <1>2, <1>4, <1>5 DEF TablesSafe, TypeOK, outbox
<1>7. Aged'
  BY <1>1, <1>2, <1>3, <1>4, AgedOneRow DEF TablesSafe
<1>8. NoOrphans' /\ FromQuota' /\ TasksSound'
  BY <1>1, <1>2, <1>3, <1>4, <1>5, NoneAssumption
  DEF TablesSafe, TypeOK, NoOrphans, FromQuota, TasksSound, SoundTask, Exists, Idle
<1>. QED BY <1>6, <1>7, <1>8 DEF TablesSafe

\* Rotating the secret keeps the tables safe.
LEMMA RotateSafe ==
  ASSUME TablesSafe, NEW h \in Handler, NEW fresh \in Fresh \ {None},
         NEW at \in Nat, RotateSecret(h, fresh, at)
  PROVE  TablesSafe'
<1>. DEFINE t    == task[h].tok
            snap == task[h].snap
            new  == Rotated(snap, fresh, at)
<1>1. /\ ~Idle(h) /\ t \in Token /\ snap \in Row /\ task[h].at \in Nat
      /\ at >= task[h].at /\ TTL \in Nat \ {0} /\ fresh \in Secret
      /\ snap.max \in Quota
  BY TaskType, TTLAssumption, FreshType
  DEF RotateSecret, In, TablesSafe, TypeOK, TasksSound, SoundTask
<1>2. new \in Row
  BY <1>1, RotatedType
<1>3. new.max = snap.max /\ (~new.persistent => new.expires >= task[h].at + TTL)
  BY <1>1 DEF Rotated, Defaulted, NoTime, Row
<1>4. /\ row' = [row EXCEPT ![t] = new]
      /\ refreshed' = [refreshed EXCEPT ![t] = task[h].at]
      /\ Exists(t)
      /\ UNCHANGED <<now, requests, born, stored, outbox>>
      /\ drawn' = drawn \cup {fresh}
      /\ told' = [told EXCEPT ![t] = fresh]
  BY DEF RotateSecret
<1>5. /\ task' \in [Handler -> Activation \cup {None}]
      /\ \A g \in Handler : task'[g] # None => SoundTask(task'[g])
  BY <1>1, FinishType DEF RotateSecret, TablesSafe
<1>. HIDE DEF new
<1>6. TypeOK'
  BY <1>1, <1>2, <1>4, <1>5 DEF TablesSafe, TypeOK, outbox
<1>7. Aged'
  BY <1>1, <1>2, <1>3, <1>4, AgedOneRow DEF TablesSafe
<1>8. NoOrphans' /\ FromQuota' /\ TasksSound'
  BY <1>1, <1>2, <1>3, <1>4, <1>5, NoneAssumption
  DEF TablesSafe, TypeOK, NoOrphans, FromQuota, TasksSound, SoundTask, Exists, Idle
<1>. QED BY <1>6, <1>7, <1>8 DEF TablesSafe

\* Rows leave the table with their requests.
LEMMA DropSafe ==
  ASSUME TablesSafe, NEW T \in SUBSET Token, Drop(T),
         task' \in [Handler -> Activation \cup {None}],
         \A g \in Handler : task'[g] # None => SoundTask(task'[g]),
         UNCHANGED <<now, born, stored, secrets, refreshed, outbox>>
  PROVE  TablesSafe'
<1>1. TypeOK'
  BY DEF Drop, TablesSafe, TypeOK, secrets, outbox
<1>2. NoOrphans' /\ Aged'
  BY DEF Drop, TablesSafe, TypeOK, NoOrphans, Aged, Exists
<1>3. FromQuota' /\ TasksSound'
  BY DEF Drop, TablesSafe, TypeOK, FromQuota, TasksSound, SoundTask, Exists, Idle
<1>. QED BY <1>1, <1>2, <1>3 DEF TablesSafe

\* A restart, with its backfill of expiries, keeps the tables safe.
LEMMA RestartSafe == TablesSafe /\ Restart => TablesSafe'
<1>. SUFFICES ASSUME TablesSafe, Restart PROVE TablesSafe'
  OBVIOUS
<1>1. \A t \in Token : Exists(t) =>
        /\ row[t] \in Row /\ row'[t] \in Row /\ row'[t].max = row[t].max
        /\ \/ row'[t] = row[t]
           \/ row[t].expires = NoTime /\ row'[t].persistent = row[t].persistent
  <2>. SUFFICES ASSUME NEW t \in Token, Exists(t)
                PROVE  /\ row[t] \in Row /\ row'[t] \in Row /\ row'[t].max = row[t].max
                       /\ \/ row'[t] = row[t]
                          \/ row[t].expires = NoTime /\ row'[t].persistent = row[t].persistent
    OBVIOUS
  <2>1. row[t] \in Row /\ row'[t] = Backfilled(row[t])
    BY DEF Restart, Exists, TablesSafe, TypeOK
  <2>2. Backfilled(row[t]) \in Row
    BY <2>1, RowTypes, 0 \in Nat
  <2>. QED BY <2>1, <2>2 DEF Backfilled, Row
<1>2. \A t \in Token : ~Exists(t) => row'[t] = None
  BY DEF Restart
<1>3. \A t \in Token : row'[t] # None <=> Exists(t)
  BY <1>1, <1>2, NoneAssumption DEF Exists
<1>4. TypeOK'
  <2>1. lost' \subseteq stored
    BY DEF Restart, TablesSafe, TypeOK, TasksSound, SoundTask
  <2>. QED BY <1>1, <1>2, <2>1 DEF Restart, TablesSafe, TypeOK, secrets
<1>5. Aged'
  <2>. SUFFICES ASSUME NEW t \in Token, Exists(t), ~row'[t].persistent
                PROVE  row'[t].expires >= refreshed[t] + TTL
    BY <1>3 DEF Restart, Aged, Exists
  <2>1. ~row[t].persistent
    BY <1>1
  <2>2. row[t].expires # NoTime
    BY <2>1, AgedNotStranded DEF TablesSafe, NeverStranded
  <2>. QED BY <1>1, <2>1, <2>2 DEF TablesSafe, Aged
<1>6. NoOrphans' /\ FromQuota' /\ TasksSound'
  BY <1>1, <1>3 DEF Restart, TablesSafe, NoOrphans, FromQuota, TasksSound, Exists, Idle
<1>. QED BY <1>4, <1>5, <1>6 DEF TablesSafe

\* Every statement of a handler keeps the tables safe.
LEMMA StepSafe ==
  ASSUME TablesSafe, NEW h \in Handler, Step(h)
  PROVE  TablesSafe'
<1>0. now \in Nat /\ \A at \in 1 .. now : at \in Nat
  BY DEF TablesSafe, TypeOK
<1>1. CASE \E at \in 1 .. now : Refresh(h, at)
  BY <1>0, <1>1, RefreshSafe
<1>2. CASE \E r \in Request : InsertRequest(h, r)
  BY <1>2, InsertSafe
<1>3. CASE \E r \in Request : RemoveRequest(h, r)
  <2>1. /\ ~Idle(h) /\ task[h].tok \in Token
        /\ \E r \in Request : requests' = [requests EXCEPT ![task[h].tok] = @ \ {r}]
    BY <1>3, TaskType DEF RemoveRequest, In, TablesSafe
  <2>. QED BY <1>3, <2>1, QuietStepSafe
           DEF RemoveRequest, TablesSafe, TypeOK, secrets, outbox
<1>4. CASE (\E counted \in BOOLEAN : Count(h, counted)) \/ Announce(h) \/ Dispatch(h)
  <2>1. ~Idle(h) /\ task[h].stage \in Committed
    BY <1>4 DEF Count, Announce, Dispatch, In, Committed
  <2>2. task[h].req \in stored
    BY <2>1 DEF TablesSafe, TasksSound, SoundTask
  <2>3. Finish(h) \/ \E stage \in Committed : Become(h, stage)
    BY <1>4 DEF Count, Announce, Dispatch, Committed
  <2>4. /\ UNCHANGED <<now, tables, born, stored, secrets, refreshed>>
        /\ announced' \cup dispatched' \cup lost' \subseteq stored
    BY <1>4, <2>2 DEF Count, Announce, Dispatch, outbox, TablesSafe, TypeOK
  <2>. QED BY <2>1, <2>2, <2>3, <2>4, QuietStepSafe DEF TablesSafe, TypeOK, tables
<1>5. CASE ClearRequests(h)
  <2>1. ~Idle(h) /\ task[h].tok \in Token
    BY <1>5, TaskType DEF ClearRequests, In, TablesSafe
  <2>. QED BY <1>5, <2>1, QuietStepSafe
           DEF ClearRequests, TablesSafe, TypeOK, secrets, outbox
<1>6. CASE Configure(h)
  BY <1>0, <1>6, UpdateSafe DEF Configure
<1>7. CASE Rotate(h)
  BY <1>0, <1>7, RotateSafe DEF Rotate
<1>8. CASE DeleteToken(h)
  <2>1. ~Idle(h) /\ task[h].tok \in Token
    BY <1>8, TaskType DEF DeleteToken, In, TablesSafe
  <2>2. /\ task' \in [Handler -> Activation \cup {None}]
        /\ \A g \in Handler : task'[g] # None => SoundTask(task'[g])
    BY <1>8, FinishType DEF DeleteToken, TablesSafe
  <2>. QED BY <1>8, <2>1, <2>2, DropSafe DEF DeleteToken
<1>9. CASE GiveUp(h)
  BY <1>9, QuietStepSafe DEF GiveUp, TablesSafe, TypeOK, tables, outbox
<1>. QED BY <1>1, <1>2, <1>3, <1>4, <1>5, <1>6, <1>7, <1>8, <1>9 DEF Step

\* Every step keeps the tables safe.
LEMMA NextSafe == TablesSafe /\ [Next]_vars => TablesSafe'
<1>. SUFFICES ASSUME TablesSafe, [Next]_vars PROVE TablesSafe'
  OBVIOUS
<1>1. CASE Create
  BY <1>1, CreateSafe DEF Create
<1>2. CASE \E h \in Handler, op \in Operation, t \in Token, role \in Role : Load(h, op, t, role)
  BY <1>2, LoadSafe
<1>3. CASE \E h \in Handler : Step(h)
  BY <1>3, StepSafe
<1>4. CASE \E at \in 1 .. now : Cleanup(at)
  <2>1. PICK T \in SUBSET Token : Drop(T)
    BY <1>4 DEF Cleanup
  <2>2. UNCHANGED <<now, task, born, stored, secrets, refreshed, outbox>>
    BY <1>4 DEF Cleanup
  <2>. QED BY <2>1, <2>2, DropSafe DEF TablesSafe, TypeOK, TasksSound, Idle
<1>5. CASE Restart
  BY <1>5, RestartSafe
<1>6. CASE Tick
  BY <1>6
  DEF Tick, TablesSafe, TypeOK, NoOrphans, Aged, FromQuota, TasksSound, SoundTask, Exists, Idle,
      tables, secrets, outbox
<1>7. CASE UNCHANGED vars
  BY <1>7
  DEF vars, TablesSafe, TypeOK, NoOrphans, Aged, FromQuota, TasksSound, SoundTask, Exists, Idle
<1>. QED BY <1>1, <1>2, <1>3, <1>4, <1>5, <1>6, <1>7 DEF Next

\* The tables stay safe: whatever handlers, cleanup and restarts do, in any
\* order, the inductive invariant holds (store.go, expiry.go and the handlers
\* of capture.go, tokens.go and requests.go).
THEOREM SafeTables == Spec => []TablesSafe
BY InitSafe, NextSafe, PTL DEF Spec

\* Every reachable state of the token and request tables is well-typed.
THEOREM TypeCorrect == Spec => []TypeOK
<1>1. TablesSafe => TypeOK
  BY DEF TablesSafe
<1>. QED BY <1>1, SafeTables, PTL

\* No token that is not persistent is left without an expiry, out of the
\* cleanup's reach.
THEOREM NoneStranded == Spec => []NeverStranded
<1>1. TablesSafe => NeverStranded
  BY AgedNotStranded DEF TablesSafe
<1>. QED BY <1>1, SafeTables, PTL

\* Only a deletion and the cleanup take a row out of the tokens table: every
\* save, touch and backfill leaves a row where there was one.
LEMMA OnlyDropped ==
  ASSUME TablesSafe, Next, NEW t \in Token, Exists(t), row'[t] = None
  PROVE  \/ \E at \in 1 .. now : Cleanup(at)
         \/ \E h \in Handler : DeleteToken(h)
<1>0. /\ now \in Nat /\ row \in [Token -> Row \cup {None}]
      /\ \A at \in 1 .. now : at \in Nat
      /\ \A g \in Handler : ~Idle(g) => task[g].snap \in Row /\ task[g].tok \in Token
      /\ Quota \subseteq Nat \ {0}
      /\ \A fresh \in Fresh : fresh \in Secret \cup {None}
  BY TaskType, FreshType, LifecycleAssumption DEF TablesSafe, TypeOK
<1>1. ASSUME NEW u \in Token, NEW new \in Row, row' = [row EXCEPT ![u] = new]
      PROVE  FALSE
  BY <1>0, <1>1, NoneAssumption DEF Exists
<1>2. row' # row
  BY DEF Exists
<1>3. ~Create
  <2>. SUFFICES ASSUME NEW u \in Token, NEW role \in Role, NEW max \in Quota,
                       NEW persistent \in BOOLEAN, NEW private \in BOOLEAN, NEW fresh \in Fresh,
                       NEW at \in 1 .. now,
                       CreateToken(u, role, max, persistent, private, fresh, at)
                PROVE  FALSE
    BY DEF Create
  <2>. DEFINE new == [persistent |-> persistent, max |-> max, hash |-> fresh,
                      updated |-> at, expires |-> NoTime]
  <2>1. new \in Row
    BY <1>0 DEF Row, NoTime
  <2>2. Defaulted(new) \in Row
    BY <1>0, <2>1, RowTypes
  <2>. QED BY <1>1, <2>2 DEF CreateToken
<1>4. ~(\E h \in Handler, op \in Operation, u \in Token, role \in Role : Load(h, op, u, role))
  BY <1>2 DEF Load, tables
<1>5. ~Restart
  <2>. SUFFICES ASSUME Restart PROVE FALSE
    OBVIOUS
  <2>1. row[t] \in Row /\ row'[t] = Backfilled(row[t])
    BY <1>0 DEF Restart, Exists
  <2>2. Backfilled(row[t]) \in Row
    BY <2>1, RowTypes, 0 \in Nat
  <2>. QED BY <2>1, <2>2, NoneAssumption
<1>6. ~Tick
  BY <1>2 DEF Tick, tables
<1>7. ASSUME NEW h \in Handler, Step(h)
      PROVE  DeleteToken(h)
  <2>1. ~(\E at \in 1 .. now : Refresh(h, at))
    <3>. SUFFICES ASSUME NEW at \in 1 .. now, Refresh(h, at) PROVE FALSE
      OBVIOUS
    <3>1. /\ ~Idle(h) /\ task[h].tok \in Token /\ row[task[h].tok] \in Row
          /\ row' = [row EXCEPT ![task[h].tok] = Touched(row[task[h].tok], at)]
      BY <1>0, <1>2 DEF Refresh, Exists
    <3>2. Touched(row[task[h].tok], at) \in Row
      BY <1>0, <3>1, RowTypes
    <3>. QED BY <1>1, <3>1, <3>2
  <2>2. ~(\E r \in Request : InsertRequest(h, r) \/ RemoveRequest(h, r))
        /\ ~(\E counted \in BOOLEAN : Count(h, counted)) /\ ~Announce(h) /\ ~Dispatch(h)
        /\ ~ClearRequests(h) /\ ~GiveUp(h)
    BY <1>2 DEF InsertRequest, RemoveRequest, Count, Announce, Dispatch, ClearRequests, GiveUp, tables
  <2>3. ~Configure(h)
    <3>. SUFFICES ASSUME NEW max \in Quota, NEW persistent \in BOOLEAN, NEW private \in BOOLEAN,
                         NEW fresh \in Fresh, NEW at \in 1 .. now,
                         UpdateToken(h, max, persistent, private, fresh, at)
                  PROVE  FALSE
      BY DEF Configure
    <3>1. ~Idle(h) /\ task[h].tok \in Token /\ task[h].snap \in Row
      BY <1>0 DEF UpdateToken, In
    <3>2. Configured(task[h].snap, max, persistent, private, fresh, at) \in Row
      BY <1>0, <3>1, ConfiguredType
    <3>. QED BY <1>1, <3>1, <3>2 DEF UpdateToken
  <2>4. ~Rotate(h)
    <3>. SUFFICES ASSUME NEW fresh \in Fresh, NEW at \in 1 .. now, RotateSecret(h, fresh, at)
                  PROVE  FALSE
      BY DEF Rotate
    <3>1. ~Idle(h) /\ task[h].tok \in Token /\ task[h].snap \in Row
      BY <1>0 DEF RotateSecret, In
    <3>2. Rotated(task[h].snap, fresh, at) \in Row
      BY <1>0, <3>1, RotatedType
    <3>. QED BY <1>1, <3>1, <3>2 DEF RotateSecret
  <2>. QED BY <1>7, <2>1, <2>2, <2>3, <2>4 DEF Step
<1>. QED BY <1>3, <1>4, <1>5, <1>6, <1>7 DEF Next

\* The cleanup only takes tokens whose last refresh was begun a TTL ago.
THEOREM CollectsOnlyIdle == Spec => CollectedOnlyWhenIdle
<1>1. TablesSafe /\ [Next]_vars =>
        [\A t \in Token : Exists(t) /\ row'[t] = None /\ UNCHANGED task
           => ~row[t].persistent /\ now >= refreshed[t] + TTL]_vars
  <2>. SUFFICES ASSUME TablesSafe, Next, NEW t \in Token, Exists(t), row'[t] = None,
                       UNCHANGED task
                PROVE  ~row[t].persistent /\ now >= refreshed[t] + TTL
    OBVIOUS
  <2>1. ASSUME NEW h \in Handler, DeleteToken(h) PROVE FALSE
    BY <2>1 DEF DeleteToken, In, Idle, Finish, TablesSafe, TypeOK
  <2>2. PICK at \in 1 .. now : Cleanup(at)
    BY <2>1, OnlyDropped
  <2>3. Collectable(row[t], at)
    BY <2>2 DEF Cleanup, Drop, Exists
  <2>4. now \in Nat /\ refreshed[t] \in Nat /\ row[t].expires \in Nat /\ TTL \in Nat
    BY TTLAssumption DEF TablesSafe, TypeOK, Exists, Row
  <2>5. row[t].expires >= refreshed[t] + TTL
    BY <2>3 DEF Collectable, TablesSafe, Aged
  <2>. QED BY <2>2, <2>3, <2>4, <2>5 DEF Collectable
<1>. QED BY <1>1, SafeTables, PTL DEF Spec, CollectedOnlyWhenIdle

-----------------------------------------------------------------------------
(***************************************************************************)
(* TokenLifecycle implements Inbox. The barred variables are named, and    *)
(* the steps are grouped by what they do to the two tables.                *)
(***************************************************************************)
phaseBar == [t \in Token |-> IF t \notin born THEN "unborn"
                             ELSE IF Exists(t) THEN "open" ELSE "gone"]
limitBar == [t \in Token |-> IF Exists(t) THEN row[t].max ELSE 0]

\* A step that neither adds nor drops a row, changes no quota, no request and
\* no history of them is a stutter of the inbox.
LEMMA SameTables ==
  ASSUME UNCHANGED <<requests, stored, born>>,
         \A t \in Token : Exists(t)' <=> Exists(t),
         \A t \in Token : Exists(t) => row'[t].max = row[t].max
  PROVE  UNCHANGED Contract!inboxVars
<1>1. phaseBar' = phaseBar
  BY DEF phaseBar
<1>2. limitBar' = limitBar
  BY DEF limitBar
<1>. QED BY <1>1, <1>2 DEF phaseBar, limitBar, Contract!inboxVars

\* Saving one row with quota n is the inbox's change of limit.
LEMMA SavedRow ==
  ASSUME TypeOK, NEW t \in Token, Exists(t), FromQuota,
         NEW new \in Row, new.max \in Quota,
         row' = [row EXCEPT ![t] = new],
         UNCHANGED <<requests, stored, born>>
  PROVE  Contract!Next
<1>1. \A u \in Token : Exists(u)' <=> Exists(u)
  BY NoneAssumption DEF Exists, TypeOK
<1>2. phaseBar' = phaseBar
  BY <1>1 DEF phaseBar
<1>3. limitBar' = [limitBar EXCEPT ![t] = new.max]
  BY <1>1 DEF limitBar, Exists, TypeOK
<1>4. phaseBar[t] = "open"
  BY DEF phaseBar, FromQuota
<1>5. Contract!Relimit(t, new.max)
  BY <1>2, <1>3, <1>4 DEF Contract!Relimit, phaseBar, limitBar
<1>. QED BY <1>5 DEF Contract!Next

\* Dropping rows with their requests closes their inboxes.
LEMMA DroppedRows ==
  ASSUME TypeOK, FromQuota, NEW T \in SUBSET Token, \A t \in T : Exists(t),
         Drop(T), UNCHANGED <<stored, born>>
  PROVE  Contract!Next
<1>1. \A t \in Token : Exists(t)' <=> Exists(t) /\ t \notin T
  BY DEF Drop, Exists
<1>2. phaseBar' = [t \in Token |-> IF t \in T THEN "gone" ELSE phaseBar[t]]
  BY <1>1 DEF phaseBar, FromQuota
<1>3. limitBar' = [t \in Token |-> IF t \in T THEN 0 ELSE limitBar[t]]
  BY <1>1 DEF limitBar, Drop, Exists
<1>4. \A t \in T : phaseBar[t] = "open"
  BY DEF phaseBar, FromQuota
<1>5. Contract!Close(T)
  BY <1>2, <1>3, <1>4 DEF Contract!Close, Drop, phaseBar, limitBar
<1>. QED BY <1>5 DEF Contract!Next

\* Empty tables are empty inboxes.
LEMMA InboxInit == Init => Contract!Init
BY DEF Init, Contract!Init, Exists

\* Every step of a handler is a step of the inbox or leaves it alone.
LEMMA StepInbox ==
  ASSUME TablesSafe, NEW h \in Handler, Step(h)
  PROVE  Contract!Next \/ UNCHANGED Contract!inboxVars
<1>0. /\ TypeOK /\ FromQuota /\ TasksSound /\ now \in Nat
      /\ \A at \in 1 .. now : at \in Nat
      /\ Quota \subseteq Nat \ {0}
      /\ \A fresh \in Fresh : fresh \in Secret \cup {None}
      /\ ~Idle(h)
      /\ task[h].tok \in Token /\ task[h].snap \in Row /\ task[h].snap.max \in Quota
  <2>1. ~Idle(h)
    BY DEF Step, Refresh, InsertRequest, RemoveRequest, Count, Announce, Dispatch, ClearRequests, Configure,
           UpdateToken, Rotate, RotateSecret, DeleteToken, GiveUp, In
  <2>. QED BY <2>1, TaskType, FreshType, LifecycleAssumption
           DEF TablesSafe, TypeOK, TasksSound, SoundTask
<1>. DEFINE t == task[h].tok
<1>1. CASE \E at \in 1 .. now : Refresh(h, at)
  <2>. PICK at \in 1 .. now : Refresh(h, at)
    BY <1>1
  <2>1. CASE task[h].snap.persistent
    BY <2>1, SameTables DEF Refresh, Exists
  <2>2. CASE ~task[h].snap.persistent
    <3>1. Exists(t) /\ row[t] \in Row /\ row' = [row EXCEPT ![t] = Touched(row[t], at)]
      BY <1>0, <2>2 DEF Refresh, TypeOK, Exists
    <3>2. Touched(row[t], at) \in Row /\ Touched(row[t], at).max = row[t].max
      BY <1>0, <3>1, RowTypes DEF Touched, Row
    <3>3. row[t].max \in Quota
      BY <1>0, <3>1 DEF FromQuota
    <3>. QED BY <1>0, <3>1, <3>2, <3>3, SavedRow DEF Refresh
  <2>. QED BY <2>1, <2>2
<1>2. CASE \E r \in Request : InsertRequest(h, r)
  <2>. PICK r \in Request : InsertRequest(h, r)
    BY <1>2
  <2>0. Contract!Cardinality(requests[t]) = Cardinality(requests[t])
    BY DEF Contract!Cardinality, Cardinality
  <2>1. Contract!Accept(t, r)
    BY <1>0, <2>0 DEF InsertRequest, HasRoom, Contract!Accept, FromQuota, Exists
  <2>. QED BY <1>0, <2>1 DEF Contract!Next
<1>3. CASE \E r \in Request : RemoveRequest(h, r)
  <2>. PICK r \in Request : RemoveRequest(h, r)
    BY <1>3
  <2>1. Exists(t)
    BY <1>0 DEF RemoveRequest, TablesSafe, NoOrphans
  <2>2. Contract!Discard(t, {r})
    BY <1>0, <2>1 DEF RemoveRequest, Contract!Discard, FromQuota, Exists
  <2>. QED BY <1>0, <2>2 DEF Contract!Next
<1>4. CASE ClearRequests(h)
  <2>1. CASE Exists(t)
    <3>1. requests[t] \in SUBSET Request /\ requests' = [requests EXCEPT ![t] = requests[t] \ requests[t]]
      BY <1>0, <1>4 DEF ClearRequests, TypeOK
    <3>2. Contract!Discard(t, requests[t])
      BY <1>0, <1>4, <2>1, <3>1 DEF ClearRequests, Contract!Discard, FromQuota, Exists
    <3>. QED BY <1>0, <3>1, <3>2 DEF Contract!Next
  <2>2. CASE ~Exists(t)
    <3>1. requests' = requests
      BY <1>0, <1>4, <2>2 DEF ClearRequests, TablesSafe, NoOrphans, TypeOK
    <3>. QED BY <1>4, <3>1, SameTables DEF ClearRequests, Exists
  <2>. QED BY <2>1, <2>2
<1>5. CASE Configure(h)
  <2>. PICK max \in Quota, persistent \in BOOLEAN, private \in BOOLEAN, fresh \in Fresh,
            at \in 1 .. now : UpdateToken(h, max, persistent, private, fresh, at)
    BY <1>5 DEF Configure
  <2>. DEFINE new == Configured(task[h].snap, max, persistent, private, fresh, at)
  <2>1. new \in Row
    BY <1>0, ConfiguredType
  <2>2. new.max = max
    BY DEF Configured, Defaulted
  <2>3. Exists(t) /\ row' = [row EXCEPT ![t] = new] /\ UNCHANGED <<requests, stored, born>>
    BY DEF UpdateToken
  <2>. HIDE DEF new
  <2>. QED BY <1>0, <2>1, <2>2, <2>3, SavedRow
<1>6. CASE Rotate(h)
  <2>. PICK fresh \in Fresh \ {None}, at \in 1 .. now : RotateSecret(h, fresh, at)
    BY <1>6 DEF Rotate
  <2>. DEFINE new == Rotated(task[h].snap, fresh, at)
  <2>1. new \in Row
    BY <1>0, RotatedType
  <2>2. new.max = task[h].snap.max
    BY <1>0 DEF Rotated, Defaulted, Row
  <2>3. Exists(t) /\ row' = [row EXCEPT ![t] = new] /\ UNCHANGED <<requests, stored, born>>
    BY DEF RotateSecret
  <2>. HIDE DEF new
  <2>. QED BY <1>0, <2>1, <2>2, <2>3, SavedRow
<1>7. CASE DeleteToken(h)
  BY <1>0, <1>7, DroppedRows DEF DeleteToken
<1>8. CASE (\E counted \in BOOLEAN : Count(h, counted)) \/ Announce(h) \/ Dispatch(h) \/ GiveUp(h)
  BY <1>8, SameTables DEF Count, Announce, Dispatch, GiveUp, tables, Exists
<1>. QED BY <1>1, <1>2, <1>3, <1>4, <1>5, <1>6, <1>7, <1>8 DEF Step

\* Every step of the tables is one of the inbox, or leaves it alone.
LEMMA NextInbox ==
  TablesSafe /\ [Next]_vars => [Contract!Next]_(Contract!inboxVars)
<1>. SUFFICES ASSUME TablesSafe, [Next]_vars
              PROVE  Contract!Next \/ UNCHANGED Contract!inboxVars
  OBVIOUS
<1>0. TypeOK /\ FromQuota /\ now \in Nat /\ Quota \subseteq Nat \ {0}
      /\ \A fresh \in Fresh : fresh \in Secret \cup {None}
  BY FreshType, LifecycleAssumption DEF TablesSafe, TypeOK
<1>1. CASE Create
  <2>. PICK t \in Token, role \in Role, max \in Quota, persistent \in BOOLEAN,
            private \in BOOLEAN, fresh \in Fresh, at \in 1 .. now :
         CreateToken(t, role, max, persistent, private, fresh, at)
    BY <1>1 DEF Create
  <2>. DEFINE new == [persistent |-> persistent, max |-> max, hash |-> fresh,
                      updated |-> at, expires |-> NoTime]
  <2>1. new \in Row
    BY <1>0 DEF Row, NoTime
  <2>2. Defaulted(new) \in Row /\ Defaulted(new).max = max
    BY <1>0, <2>1, RowTypes DEF Defaulted, Row
  <2>3. /\ t \notin born /\ born' = born \cup {t}
        /\ row' = [row EXCEPT ![t] = Defaulted(new)]
        /\ UNCHANGED <<requests, stored>>
    BY DEF CreateToken
  <2>. HIDE DEF new
  <2>4. \A u \in Token : Exists(u)' <=> Exists(u) \/ u = t
    BY <1>0, <2>2, <2>3, NoneAssumption DEF Exists, TypeOK
  <2>5. phaseBar' = [phaseBar EXCEPT ![t] = "open"] /\ phaseBar[t] = "unborn"
    BY <2>3, <2>4 DEF phaseBar
  <2>6. limitBar' = [limitBar EXCEPT ![t] = max]
    BY <1>0, <2>2, <2>3, <2>4 DEF limitBar, Exists, TypeOK
  <2>7. Contract!Open(t, max)
    BY <2>3, <2>5, <2>6 DEF Contract!Open, phaseBar, limitBar
  <2>. QED BY <2>7 DEF Contract!Next
<1>2. CASE \E h \in Handler, op \in Operation, t \in Token, role \in Role : Load(h, op, t, role)
  BY <1>2, SameTables DEF Load, tables, Exists
<1>3. CASE \E h \in Handler : Step(h)
  BY <1>3, StepInbox
<1>4. CASE \E at \in 1 .. now : Cleanup(at)
  <2>. PICK at \in 1 .. now : Cleanup(at)
    BY <1>4
  <2>. DEFINE expired == {t \in Token : Exists(t) /\ Collectable(row[t], at)}
  <2>1. expired \in SUBSET Token /\ (\A t \in expired : Exists(t)) /\ Drop(expired)
        /\ UNCHANGED <<stored, born>>
    BY DEF Cleanup
  <2>. HIDE DEF expired
  <2>. QED BY <1>0, <2>1, DroppedRows
<1>5. CASE Restart
  <2>1. \A t \in Token : Exists(t) => row[t] \in Row /\ row'[t] = Backfilled(row[t])
    BY <1>0, <1>5 DEF Restart, Exists, TypeOK
  <2>2. \A t \in Token : Exists(t) => row'[t] \in Row /\ row'[t].max = row[t].max
    <3>. SUFFICES ASSUME NEW t \in Token, Exists(t)
                  PROVE  row'[t] \in Row /\ row'[t].max = row[t].max
      OBVIOUS
    <3>1. Backfilled(row[t]) \in Row
      BY <2>1, RowTypes, 0 \in Nat
    <3>. QED BY <2>1, <3>1 DEF Backfilled, Row
  <2>3. \A t \in Token : Exists(t)' <=> Exists(t)
    BY <1>5, <2>2, NoneAssumption DEF Restart, Exists
  <2>. QED BY <1>5, <2>2, <2>3, SameTables DEF Restart
<1>6. CASE Tick
  BY <1>6, SameTables DEF Tick, tables, Exists
<1>7. CASE UNCHANGED vars
  BY <1>7, SameTables DEF vars, Exists
<1>. QED BY <1>1, <1>2, <1>3, <1>4, <1>5, <1>6, <1>7 DEF Next

\* The token API implements the inbox: opened once, never over its limit when
\* it accepts, emptied when closed, and closed for good.
THEOREM Implementation == Spec => ImplementsInbox
<1>. QED BY InboxInit, NextInbox, SafeTables, PTL
         DEF Spec, ImplementsInbox, Contract!Spec

-----------------------------------------------------------------------------
(***************************************************************************)
(* Settings saved one at a time, whatever else is served in between. What  *)
(* the saving handler has loaded is then what is there when it writes, so  *)
(* neither a secret nor the persistence of a token is written back from an *)
(* older row.                                                              *)
(***************************************************************************)
OneAtATime == \A g, h \in Saver : g = h

\* The columns of the token as a handler has loaded them are still those of the row.
Current(a) ==
  /\ a.tok \in born
  /\ Exists(a.tok) => /\ row[a.tok].hash = a.snap.hash
                      /\ row[a.tok].persistent = a.snap.persistent

\* A handler that saves settings is a saver, and what it has loaded is current.
Serial ==
  /\ SecretHonoured
  /\ \A h \in Handler : ~Idle(h) /\ task[h].op \in Saving => h \in Saver /\ Current(task[h])

\* Reading, touching, backfilling and defaults leave secret and persistence alone;
\* a save writes what it is told, a rotation only the secret.
LEMMA Columns ==
  ASSUME NEW r \in Row, NEW at \in Nat
  PROVE  /\ Scan(r).hash = r.hash /\ Scan(r).persistent = r.persistent
         /\ Touched(r, at).hash = r.hash /\ Touched(r, at).persistent = r.persistent
         /\ Backfilled(r).hash = r.hash /\ Backfilled(r).persistent = r.persistent
         /\ Defaulted(r).hash = r.hash /\ Defaulted(r).persistent = r.persistent
BY DEF Scan, Touched, Backfilled, Defaulted, Row

\* A save writes the secret it has reconciled and the persistence it is told.
LEMMA ConfiguredColumns ==
  ASSUME NEW r \in Row, NEW max \in Nat \ {0}, NEW persistent \in BOOLEAN,
         NEW private \in BOOLEAN, NEW fresh \in Secret \cup {None}, NEW at \in Nat
  PROVE  /\ Configured(r, max, persistent, private, fresh, at).hash = Reconciled(r, private, fresh)
         /\ Configured(r, max, persistent, private, fresh, at).persistent = persistent
<1>. DEFINE hash == Reconciled(r, private, fresh)
            later == IF persistent THEN NoTime ELSE at + TTL
            new == [persistent |-> persistent, max |-> max, hash |-> hash,
                    updated |-> at, expires |-> later]
<1>1. hash \in Secret \cup {None}
  BY DEF Reconciled, Row
<1>2. later \in Nat
  BY TTLAssumption DEF NoTime
<1>3. new \in Row /\ new.hash = hash /\ new.persistent = persistent
  <2>. HIDE DEF hash, later
  <2>. QED BY <1>1, <1>2 DEF Row
<1>4. Configured(r, max, persistent, private, fresh, at) = Defaulted(new)
  BY DEF Configured
<1>. HIDE DEF new
<1>. QED BY <1>3, <1>4, Columns, 0 \in Nat DEF hash

\* A rotation writes the secret only.
LEMMA RotatedColumns ==
  ASSUME NEW r \in Row, NEW fresh \in Secret \cup {None}, NEW at \in Nat
  PROVE  /\ Rotated(r, fresh, at).hash = fresh
         /\ Rotated(r, fresh, at).persistent = r.persistent
<1>. DEFINE later == IF r.persistent THEN r.expires ELSE at + TTL
            new == [r EXCEPT !.hash = fresh, !.updated = at, !.expires = later]
<1>1. later \in Nat
  BY TTLAssumption DEF Row
<1>2. new \in Row /\ new.hash = fresh /\ new.persistent = r.persistent
  <2>. HIDE DEF later
  <2>. QED BY <1>1 DEF Row
<1>3. Rotated(r, fresh, at) = Defaulted(new)
  BY DEF Rotated
<1>. HIDE DEF new
<1>. QED BY <1>2, <1>3, Columns, 0 \in Nat

\* A handler that saves a row is the only one that saves, and has finished.
LEMMA SavedSerial ==
  ASSUME TypeOK, Serial, OneAtATime, NEW h \in Saver, Finish(h),
         NEW t \in Token, Exists(t), NEW new \in Row,
         row' = [row EXCEPT ![t] = new], told' = [told EXCEPT ![t] = new.hash]
  PROVE  Serial'
<1>1. \A g \in Handler : task'[g] # None => ~Idle(g) /\ task'[g].op \notin Saving
  BY LifecycleAssumption DEF OneAtATime, Serial, Finish, TypeOK, Idle
<1>2. \A u \in Token : row'[u] # None => row'[u].hash = told'[u]
  BY DEF TypeOK, Serial, SecretHonoured, Exists
<1>. QED BY <1>1, <1>2 DEF Serial, SecretHonoured, Exists, Idle

\* Rows go, or keep their secret and persistence, and handlers go on with what
\* they have loaded.
LEMMA KeptSerial ==
  ASSUME TypeOK, Serial, UNCHANGED <<told, born>>,
         \A t \in Token : row'[t] # None =>
           Exists(t) /\ row'[t].hash = row[t].hash /\ row'[t].persistent = row[t].persistent,
         \A h \in Handler : task'[h] # None =>
           ~Idle(h) /\ task'[h].op = task[h].op
           /\ task'[h].tok = task[h].tok /\ task'[h].snap = task[h].snap
  PROVE  Serial'
<1>1. \A h \in Handler : ~Idle(h) => task[h].tok \in Token
  BY TaskType
<1>2. ASSUME NEW h \in Handler, task'[h] # None, task'[h].op \in Saving
      PROVE  /\ h \in Saver
             /\ task'[h].tok \in born'
             /\ row'[task'[h].tok] # None =>
                  /\ row'[task'[h].tok].hash = task'[h].snap.hash
                  /\ row'[task'[h].tok].persistent = task'[h].snap.persistent
  BY <1>1, <1>2 DEF Serial, Current, Exists
<1>3. \A t \in Token : row'[t] # None => row'[t].hash = told'[t]
  BY DEF Serial, SecretHonoured, Exists
<1>. QED BY <1>2, <1>3 DEF Serial, SecretHonoured, Current, Exists, Idle

\* What handlers have loaded is current at the start.
LEMMA SerialInit == Init => Serial
BY DEF Init, Serial, SecretHonoured, Exists, Idle

\* What handlers have loaded stays current while there is one at a time.
LEMMA SerialStep ==
  ASSUME TablesSafe, Serial, OneAtATime, [Next]_vars
  PROVE  Serial'
<1>0. /\ now \in Nat /\ row \in [Token -> Row \cup {None}] /\ TypeOK /\ FromQuota
      /\ \A at \in 1 .. now : at \in Nat
      /\ \A t \in Token : Exists(t) => row[t] \in Row
      /\ \A g \in Handler : ~Idle(g) => /\ task[g].snap \in Row /\ task[g].tok \in Token
                                        /\ task[g].op \in Saving => g \in Saver /\ Current(task[g])
      /\ Quota \subseteq Nat \ {0}
      /\ \A fresh \in Fresh : fresh \in Secret \cup {None}
  BY TaskType, FreshType, LifecycleAssumption DEF TablesSafe, TypeOK, Serial, Exists
<1>1. ASSUME NEW t \in Token, NEW role \in Role, NEW max \in Quota,
             NEW persistent \in BOOLEAN, NEW private \in BOOLEAN, NEW fresh \in Fresh,
             NEW at \in 1 .. now,
             CreateToken(t, role, max, persistent, private, fresh, at)
      PROVE  Serial'
  <2>. DEFINE given == [persistent |-> persistent, max |-> max, hash |-> fresh,
                        updated |-> at, expires |-> NoTime]
              new == Defaulted(given)
  <2>1. given \in Row /\ given.hash = fresh
    BY <1>0 DEF Row, NoTime
  <2>2. new \in Row /\ new.hash = fresh
    <3>. HIDE DEF given
    <3>. QED BY <2>1, RowTypes, Columns, 0 \in Nat
  <2>3. /\ row' = [row EXCEPT ![t] = new] /\ told' = [told EXCEPT ![t] = fresh]
        /\ born' = born \cup {t} /\ t \notin born /\ task' = task
    BY <1>1 DEF CreateToken
  <2>. HIDE DEF new
  <2>4. \A u \in Token : row'[u] # None => row'[u].hash = told'[u]
    BY <1>0, <2>2, <2>3 DEF TypeOK, Serial, SecretHonoured, Exists
  <2>5. ASSUME NEW h \in Handler, ~Idle(h), task[h].op \in Saving
        PROVE  /\ task[h].tok \in born'
               /\ row'[task[h].tok] = row[task[h].tok]
    BY <1>0, <2>3, <2>5 DEF Current
  <2>. QED BY <1>0, <2>3, <2>4, <2>5 DEF Serial, SecretHonoured, Current, Exists, Idle
<1>2. ASSUME NEW h \in Handler, NEW op \in Operation, NEW t \in Token, NEW role \in Role,
             Load(h, op, t, role)
      PROVE  Serial'
  <2>1. row[t] \in Row /\ t \in born /\ Exists(t)
    BY <1>0, <1>2 DEF Load, FromQuota
  <2>2. /\ \A g \in Handler : g # h => task'[g] = task[g]
        /\ task'[h].tok = t /\ task'[h].snap = Scan(row[t])
        /\ task'[h].op \in Saving => h \in Saver
    BY <1>0, <1>2 DEF Load, TypeOK
  <2>3. UNCHANGED <<row, told, born>>
    BY <1>2 DEF Load, tables, secrets
  <2>4. Scan(row[t]).hash = row[t].hash /\ Scan(row[t]).persistent = row[t].persistent
    BY <2>1, Columns, 0 \in Nat
  <2>. QED BY <1>0, <2>1, <2>2, <2>3, <2>4 DEF Serial, SecretHonoured, Current, Exists, Idle
<1>3. ASSUME NEW h \in Handler, NEW at \in 1 .. now, Refresh(h, at)
      PROVE  Serial'
  <2>1. \A t \in Token : row'[t] # None =>
          Exists(t) /\ row'[t].hash = row[t].hash /\ row'[t].persistent = row[t].persistent
    <3>1. CASE task[h].snap.persistent
      BY <1>3, <3>1 DEF Refresh, Exists
    <3>2. CASE ~task[h].snap.persistent
      <4>1. /\ Exists(task[h].tok) /\ task[h].tok \in Token
            /\ row' = [row EXCEPT ![task[h].tok] = Touched(row[task[h].tok], at)]
        BY <1>0, <1>3, <3>2 DEF Refresh
      <4>2. /\ Touched(row[task[h].tok], at).hash = row[task[h].tok].hash
            /\ Touched(row[task[h].tok], at).persistent = row[task[h].tok].persistent
        BY <1>0, <4>1, Columns
      <4>. QED BY <1>0, <4>1, <4>2 DEF Exists
    <3>. QED BY <3>1, <3>2
  <2>2. ~Idle(h) /\ (Finish(h) \/ Become(h, "act")) /\ UNCHANGED <<told, born>>
    BY <1>3 DEF Refresh, secrets
  <2>3. \A g \in Handler : task'[g] # None =>
          ~Idle(g) /\ task'[g].op = task[g].op
          /\ task'[g].tok = task[g].tok /\ task'[g].snap = task[g].snap
    BY <1>0, <2>2, TaskType DEF Finish, Become, TypeOK, Idle, Activation
  <2>. QED BY <1>0, <2>1, <2>2, <2>3, KeptSerial
<1>4. ASSUME NEW h \in Handler,
             \/ \E r \in Request : InsertRequest(h, r) \/ RemoveRequest(h, r)
             \/ \E counted \in BOOLEAN : Count(h, counted)
             \/ Announce(h) \/ Dispatch(h)
             \/ ClearRequests(h) \/ GiveUp(h)
      PROVE  Serial'
  <2>1. UNCHANGED <<row, told, born>> /\ ~Idle(h)
    BY <1>4 DEF InsertRequest, RemoveRequest, Count, Announce, Dispatch, ClearRequests, GiveUp, In, tables, secrets
  <2>2. \/ Finish(h)
        \/ \E stage \in Committed : Become(h, stage)
        \/ \E r \in Request : task' = [task EXCEPT ![h].stage = "count", ![h].req = r]
    BY <1>4 DEF Committed, InsertRequest, RemoveRequest, Count, Announce, Dispatch, ClearRequests, GiveUp
  <2>3. \A g \in Handler : task'[g] # None =>
          ~Idle(g) /\ task'[g].op = task[g].op
          /\ task'[g].tok = task[g].tok /\ task'[g].snap = task[g].snap
    BY <1>0, <2>1, <2>2, TaskType DEF Finish, Become, TypeOK, Idle, Activation
  <2>4. \A t \in Token : row'[t] # None =>
          Exists(t) /\ row'[t].hash = row[t].hash /\ row'[t].persistent = row[t].persistent
    BY <2>1 DEF Exists
  <2>. QED BY <1>0, <2>1, <2>3, <2>4, KeptSerial
<1>5. ASSUME NEW h \in Handler, NEW max \in Quota, NEW persistent \in BOOLEAN,
             NEW private \in BOOLEAN, NEW fresh \in Fresh, NEW at \in 1 .. now,
             UpdateToken(h, max, persistent, private, fresh, at)
      PROVE  Serial'
  <2>. DEFINE t == task[h].tok
              snap == task[h].snap
              new == Configured(snap, max, persistent, private, fresh, at)
  <2>1. /\ ~Idle(h) /\ Exists(t) /\ t \in Token /\ snap \in Row
        /\ h \in Saver /\ Current(task[h])
        /\ (private /\ ~Private(snap)) <=> fresh # None
        /\ row' = [row EXCEPT ![t] = new] /\ Finish(h)
        /\ told' = [told EXCEPT ![t] = IF private /\ Private(snap) THEN @ ELSE fresh]
    BY <1>0, <1>5 DEF UpdateToken, In, Saving
  <2>2. new \in Row /\ new.hash = Reconciled(snap, private, fresh)
    BY <1>0, <2>1, ConfiguredType, ConfiguredColumns
  <2>3. told[t] = snap.hash
    BY <2>1 DEF Current, Serial, SecretHonoured
  <2>4. new.hash = IF private /\ Private(snap) THEN told[t] ELSE fresh
    BY <2>1, <2>2, <2>3 DEF Reconciled
  <2>. HIDE DEF new, t, snap
  <2>5. told' = [told EXCEPT ![t] = new.hash]
    BY <2>1, <2>4
  <2>. QED BY <1>0, <2>1, <2>2, <2>5, SavedSerial
<1>6. ASSUME NEW h \in Handler, NEW fresh \in Fresh \ {None}, NEW at \in 1 .. now,
             RotateSecret(h, fresh, at)
      PROVE  Serial'
  <2>. DEFINE t == task[h].tok
              new == Rotated(task[h].snap, fresh, at)
  <2>1. /\ ~Idle(h) /\ Exists(t) /\ t \in Token /\ task[h].snap \in Row /\ h \in Saver
        /\ row' = [row EXCEPT ![t] = new] /\ Finish(h) /\ told' = [told EXCEPT ![t] = fresh]
    BY <1>0, <1>6 DEF RotateSecret, In, Saving
  <2>2. new \in Row /\ new.hash = fresh
    BY <1>0, <2>1, RotatedType, RotatedColumns
  <2>. HIDE DEF new, t
  <2>. QED BY <1>0, <2>1, <2>2, SavedSerial
<1>7. ASSUME NEW T, Drop(T), UNCHANGED <<told, born>>,
             task' = task \/ \E h \in Handler : Finish(h)
      PROVE  Serial'
  <2>1. \A t \in Token : row'[t] # None => row'[t] = row[t] /\ Exists(t)
    BY <1>7 DEF Drop, Exists
  <2>2. \A g \in Handler : task'[g] # None => ~Idle(g) /\ task'[g] = task[g]
    BY <1>0, <1>7 DEF Finish, TypeOK, Idle
  <2>. QED BY <1>0, <1>7, <2>1, <2>2, KeptSerial
<1>8. CASE Restart
  <2>1. /\ \A h \in Handler : task'[h] = None
        /\ UNCHANGED <<told, born>>
        /\ \A t \in Token : row'[t] = IF Exists(t) THEN Backfilled(row[t]) ELSE None
    BY <1>8 DEF Restart, secrets
  <2>2. \A t \in Token : Exists(t) =>
          /\ Backfilled(row[t]).hash = row[t].hash
          /\ Backfilled(row[t]).persistent = row[t].persistent
    BY <1>0, Columns, 0 \in Nat
  <2>. QED BY <1>0, <2>1, <2>2, KeptSerial
<1>9. CASE UNCHANGED <<row, task, told, born>>
  BY <1>9 DEF Serial, SecretHonoured, Current, Exists, Idle
<1>10. CASE UNCHANGED vars \/ Tick
  BY <1>9, <1>10 DEF vars, Tick, tables, secrets
<1>11. ASSUME NEW h \in Handler, Step(h)
       PROVE  Serial'
  <2>1. CASE Configure(h)
    BY <1>5, <2>1 DEF Configure
  <2>2. CASE Rotate(h)
    BY <1>6, <2>2 DEF Rotate
  <2>3. CASE DeleteToken(h)
    BY <1>7, <2>3 DEF DeleteToken, secrets
  <2>. QED BY <1>3, <1>4, <1>11, <2>1, <2>2, <2>3 DEF Step
<1>12. ASSUME NEW at \in 1 .. now, Cleanup(at)
       PROVE  Serial'
  BY <1>7, <1>12 DEF Cleanup, secrets
<1>. QED BY <1>1, <1>2, <1>8, <1>10, <1>11, <1>12 DEF Next, Create

\* When settings are saved one at a time, with captures, deletions, the cleanup and
\* restarts between any two statements, the secret that captures are checked against is
\* the one the API returned last (createToken, updateToken, rotateReceiveSecret).
THEOREM SecretsHonoured ==
  ASSUME OneAtATime
  PROVE  Spec => []SecretHonoured
<1>1. Serial => SecretHonoured
  BY DEF Serial
<1>2. TablesSafe /\ Serial /\ [Next]_vars => Serial'
  BY SerialStep
<1>. QED BY <1>1, <1>2, SerialInit, SafeTables, PTL DEF Spec

\* When settings are saved one at a time, only a save whose caller was admitted
\* as the owner or an administrator changes whether a token is persistent
\* (validateAdvancedTokenConfig): no other save, touch, rotation or backfill does.
THEOREM PersistenceKept ==
  ASSUME OneAtATime
  PROVE  Spec => PersistenceByOwner
<1>. DEFINE By(t) == \E h \in Handler :
              /\ In(h, "update", "write")
              /\ task[h].tok = t
              /\ task[h].role = "owner"
              /\ task'[h] = None
<1>1. ASSUME TablesSafe, Serial, Next, NEW t \in Token, Exists(t), row'[t] # None,
             row'[t].persistent # row[t].persistent
      PROVE  By(t)
  <2>0. /\ row \in [Token -> Row \cup {None}] /\ FromQuota /\ row[t] \in Row
        /\ \A at \in 1 .. now : at \in Nat
        /\ \A g \in Handler : ~Idle(g) => /\ task[g].snap \in Row /\ task[g].tok \in Token
                                          /\ task[g].op \in Saving => Current(task[g])
        /\ Quota \subseteq Nat \ {0}
        /\ \A fresh \in Fresh : fresh \in Secret \cup {None}
    BY <1>1, TaskType, FreshType, LifecycleAssumption DEF TablesSafe, TypeOK, Serial, Exists
  <2>1. row'[t] # row[t] /\ t \in born
    BY <1>1, <2>0 DEF FromQuota
  <2>2. ~Create /\ ~(\E h \in Handler, op \in Operation, u \in Token, role \in Role : Load(h, op, u, role))
        /\ ~Tick
    BY <2>0, <2>1 DEF Create, CreateToken, Load, Tick, tables
  <2>3. ~Restart
    <3>1. Backfilled(row[t]).persistent = row[t].persistent
      BY <2>0, Columns, 0 \in Nat
    <3>. QED BY <1>1, <3>1 DEF Restart
  <2>4. \A at \in 1 .. now : ~Cleanup(at)
    BY <1>1, <2>1 DEF Cleanup, Drop
  <2>5. PICK h \in Handler : Step(h)
    BY <1>1, <2>2, <2>3, <2>4 DEF Next
  <2>6. ASSUME NEW at \in 1 .. now, Refresh(h, at) PROVE FALSE
    <3>1. /\ ~Idle(h) /\ Exists(task[h].tok)
          /\ row' = [row EXCEPT ![task[h].tok] = Touched(row[task[h].tok], at)]
      BY <2>1, <2>6 DEF Refresh
    <3>2. row'[t] = Touched(row[t], at)
      BY <2>0, <2>1, <3>1
    <3>. QED BY <1>1, <2>0, <3>2, Columns
  <2>7. ~(\E r \in Request : InsertRequest(h, r) \/ RemoveRequest(h, r))
        /\ ~(\E counted \in BOOLEAN : Count(h, counted)) /\ ~Announce(h) /\ ~Dispatch(h)
        /\ ~ClearRequests(h) /\ ~GiveUp(h)
    BY <2>1 DEF InsertRequest, RemoveRequest, Count, Announce, Dispatch, ClearRequests, GiveUp, tables
  <2>8. ~DeleteToken(h)
    BY <1>1, <2>1 DEF DeleteToken, Drop
  <2>9. ASSUME NEW fresh \in Fresh \ {None}, NEW at \in 1 .. now, RotateSecret(h, fresh, at)
        PROVE  FALSE
    <3>1. /\ ~Idle(h) /\ task[h].op \in Saving /\ Exists(task[h].tok)
          /\ row' = [row EXCEPT ![task[h].tok] = Rotated(task[h].snap, fresh, at)]
      BY <2>9 DEF RotateSecret, In, Saving
    <3>2. /\ task[h].tok = t /\ row'[t] = Rotated(task[h].snap, fresh, at)
          /\ task[h].snap \in Row /\ task[h].snap.persistent = row[t].persistent
      BY <2>0, <2>1, <3>1 DEF Current
    <3>. QED BY <1>1, <2>0, <3>2, RotatedColumns
  <2>10. PICK max \in Quota, persistent \in BOOLEAN, private \in BOOLEAN, fresh \in Fresh,
              at \in 1 .. now : UpdateToken(h, max, persistent, private, fresh, at)
    BY <2>5, <2>6, <2>7, <2>8, <2>9 DEF Step, Configure, Rotate
  <2>. DEFINE new == Configured(task[h].snap, max, persistent, private, fresh, at)
  <2>11. /\ ~Idle(h) /\ In(h, "update", "write") /\ Exists(task[h].tok)
         /\ row' = [row EXCEPT ![task[h].tok] = new] /\ Finish(h)
         /\ persistent = task[h].snap.persistent \/ task[h].role = "owner"
    BY <2>10 DEF UpdateToken, In, MaySetPersistence
  <2>12. task[h].snap \in Row /\ task[h].tok \in Token /\ Current(task[h])
    BY <2>0, <2>11 DEF In, Saving
  <2>13. new.persistent = persistent
    <3>1. max \in Nat \ {0} /\ fresh \in Secret \cup {None} /\ at \in Nat
      BY <2>0
    <3>. QED BY <2>12, <3>1, ConfiguredColumns
  <2>. HIDE DEF new
  <2>14. task[h].tok = t /\ row'[t] = new
    BY <2>0, <2>1, <2>11
  <2>15. task[h].role = "owner"
    BY <1>1, <2>11, <2>12, <2>13, <2>14 DEF Current
  <2>16. task'[h] = None
    BY <1>1, <2>11 DEF Finish, TablesSafe, TypeOK
  <2>. QED BY <2>11, <2>14, <2>15, <2>16
<1>2. TablesSafe /\ Serial /\ [Next]_vars =>
        [\A t \in Token :
           Exists(t) /\ row'[t] # None /\ row'[t].persistent # row[t].persistent
             => \E h \in Handler :
                  /\ In(h, "update", "write")
                  /\ task[h].tok = t
                  /\ task[h].role = "owner"
                  /\ task'[h] = None]_vars
  BY <1>1
<1>3. TablesSafe /\ Serial /\ [Next]_vars => Serial'
  BY SerialStep
<1>. QED BY <1>2, <1>3, SerialInit, SafeTables, PTL DEF Spec, PersistenceByOwner

=============================================================================
