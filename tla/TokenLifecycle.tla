--------------------------- MODULE TokenLifecycle ---------------------------
(***************************************************************************)
(* The tokens and requests tables and every HTTP handler that changes      *)
(* them, with the expired-token cleanup and process restarts.              *)
(*                                                                         *)
(* A handler is a goroutine. It loads the token in one SQL statement, then *)
(* works on that snapshot, and its later statements run against a database *)
(* that other handlers have changed since: each statement is an action of  *)
(* its own. The clock a handler hands to a statement was read somewhere    *)
(* between its load and that statement, so a slow handler writes an old    *)
(* time. A handler may give up between any two statements (the client went *)
(* away, the body was malformed, the statement failed).                    *)
(***************************************************************************)
EXTENDS TokenRow, FiniteSets

CONSTANTS
  Token,     \* token UUIDs
  Request,   \* request UUIDs
  Handler,   \* goroutines serving HTTP requests
  Saver,     \* those of them that may be asked to save a token's settings
  Quota,     \* max_requests values a payload may carry
  Workload,  \* the operations clients issue, a subset of Operation
  Crashes,   \* whether the process may die
  Horizon    \* bound: clients issue nothing from this time on

ASSUME LifecycleAssumption ==
  /\ Quota \subseteq Nat \ {0}
  /\ Horizon \in Nat \ {0}
  /\ Crashes \in BOOLEAN
  /\ None \notin Request
  /\ Saver \subseteq Handler

\* capture; the GET routes and the event stream; deleteRequest;
\* deleteAllRequests; updateToken; rotateReceiveSecret; deleteToken.
Operation == {"capture", "view", "remove", "clear", "update", "rotate", "delete"}

\* Who calls, as validateAdvancedTokenConfig tells them apart: the owner or an
\* administrator, and whoever else may edit the token (a user granted the editor
\* role; anybody when authentication is off).
Role == {"owner", "editor"}

Refreshing == {"capture", "view", "remove", "clear"}

\* The operations that load a token's row and save all of it.
Saving == {"update", "rotate"}

\* The stages of a capture that has inserted its request.
Committed == {"count", "publish", "dispatch"}

Activation ==
  [op    : Operation,
   stage : {"refresh", "act", "count", "publish", "dispatch", "write"},
   tok   : Token,
   role  : Role,
   snap  : Row,                     \* the row as GetToken returned it
   at    : Nat,                     \* when it did
   req   : Request \cup {None}]     \* the captured request, once inserted

ASSUME ActivationAssumption == None \notin Activation

VARIABLES
  now,         \* the clock, in seconds
  row,         \* the tokens table: a row, or None
  requests,    \* the requests table, by token
  task,        \* what each handler is doing: an activation, or None
  born,        \* history: the tokens ever created
  stored,      \* history: the requests ever inserted
  told,        \* history: the last secret the API returned for a token
  drawn,       \* history: the secrets ever generated
  refreshed,   \* history: when the handler that last refreshed a token began
  announced,   \* history: requests published as request.created
  dispatched,  \* history: requests handed to the action worker
  lost         \* history: requests whose capture died with the process

tables  == <<row, requests>>
secrets == <<told, drawn>>
outbox  == <<announced, dispatched, lost>>
vars    == <<now, row, requests, task, born, stored, told, drawn, refreshed,
             announced, dispatched, lost>>

Init ==
  /\ now = 1
  /\ row = [t \in Token |-> None]
  /\ requests = [t \in Token |-> {}]
  /\ task = [h \in Handler |-> None]
  /\ born = {}
  /\ stored = {}
  /\ told = [t \in Token |-> None]
  /\ drawn = {}
  /\ refreshed = [t \in Token |-> 0]
  /\ announced = {}
  /\ dispatched = {}
  /\ lost = {}

-----------------------------------------------------------------------------
Exists(t) == row[t] # None
Idle(h)   == task[h] = None
In(h, op, stage) == ~Idle(h) /\ task[h].op = op /\ task[h].stage = stage

Finish(h)       == task' = [task EXCEPT ![h] = None]
Become(h, stage) == task' = [task EXCEPT ![h].stage = stage]

\* createToken, which nothing can see before its INSERT; `at' is the clock it
\* read first. Only a signed-in creator, who becomes the owner, may ask for
\* persistence; a private token's secret is returned to its creator.
CreateToken(t, role, max, persistent, private, fresh, at) ==
  /\ now < Horizon
  /\ t \notin born
  /\ persistent => role = "owner"
  /\ private <=> fresh # None
  /\ row'   = [row EXCEPT ![t] =
                 Defaulted([persistent |-> persistent, max |-> max, hash |-> fresh,
                            updated |-> at, expires |-> NoTime])]
  /\ told'  = [told EXCEPT ![t] = fresh]
  /\ drawn' = drawn \cup ({fresh} \ {None})
  /\ born' = born \cup {t}
  /\ refreshed' = [refreshed EXCEPT ![t] = at]
  /\ UNCHANGED <<now, requests, task, stored, outbox>>

\* loadActiveToken and CanAccessToken, the start of every handler. A missing
\* or expired token and a refused caller end the handler where it began. Only
\* updateToken asks again who calls: the admitted callers of the others are
\* not told apart.
Load(h, op, t, role) ==
  /\ now < Horizon
  /\ Idle(h)
  /\ op \in Workload
  /\ Exists(t)
  /\ Active(Scan(row[t]), now)
  /\ op = "rotate" => Private(Scan(row[t]))
  /\ role = "editor" => op = "update"
  /\ op \in Saving => h \in Saver
  /\ task' = [task EXCEPT ![h] =
       [op |-> op, stage |-> IF op \in Refreshing THEN "refresh" ELSE "write",
        tok |-> t, role |-> role, snap |-> Scan(row[t]), at |-> now, req |-> None]]
  /\ UNCHANGED <<now, tables, born, stored, secrets, refreshed, outbox>>

\* refreshTokenExpiry: whether to touch is decided on the snapshot; the touch
\* itself changes whatever row is there by then.
Refresh(h, at) ==
  /\ ~Idle(h) /\ task[h].stage = "refresh"
  /\ at \in task[h].at .. now
  /\ LET t == task[h].tok IN
     IF task[h].snap.persistent
     THEN UNCHANGED <<row, refreshed>>
     ELSE /\ Exists(t)
          /\ row' = [row EXCEPT ![t] = Touched(@, at)]
          /\ refreshed' = [refreshed EXCEPT ![t] = task[h].at]
  /\ IF task[h].op = "view" THEN Finish(h) ELSE Become(h, "act")
  /\ UNCHANGED <<now, requests, born, stored, secrets, outbox>>

\* A mutant of HasRoom: the quota is the one the handler loaded.
HadRoom(h) ==
  /\ Exists(task[h].tok)
  /\ Cardinality(requests[task[h].tok]) < task[h].snap.max

\* The WHERE EXISTS of CreateRequest: the token is there, and below its quota.
HasRoom(h) ==
  /\ Exists(task[h].tok)
  /\ Cardinality(requests[task[h].tok]) < row[task[h].tok].max

\* CreateRequest: INSERT ... SELECT ... WHERE EXISTS, one statement. When it
\* inserts nothing the capture answers 410 or 500, having changed nothing.
InsertRequest(h, r) ==
  /\ In(h, "capture", "act")
  /\ r \notin stored
  /\ HasRoom(h)
  /\ requests' = [requests EXCEPT ![task[h].tok] = @ \cup {r}]
  /\ stored' = stored \cup {r}
  /\ task' = [task EXCEPT ![h].stage = "count", ![h].req = r]
  /\ UNCHANGED <<now, row, born, secrets, refreshed, outbox>>

\* A mutant of Count: a failed count ends the capture.
CountOrReturn(h, counted) ==
  /\ In(h, "capture", "count")
  /\ IF counted THEN Exists(task[h].tok) /\ Become(h, "publish") ELSE Finish(h)
  /\ UNCHANGED <<now, tables, born, stored, secrets, refreshed, outbox>>

\* CountRequestsByToken, which fails when the token is gone (or the client
\* is). The capture goes on in any case, but has nothing to publish then.
Count(h, counted) ==
  /\ In(h, "capture", "count")
  /\ counted => Exists(task[h].tok)
  /\ Become(h, IF counted THEN "publish" ELSE "dispatch")
  /\ UNCHANGED <<now, tables, born, stored, secrets, refreshed, outbox>>

\* publishRequestCreated.
Announce(h) ==
  /\ In(h, "capture", "publish")
  /\ announced' = announced \cup {task[h].req}
  /\ Become(h, "dispatch")
  /\ UNCHANGED <<now, tables, born, stored, secrets, refreshed, dispatched, lost>>

\* ExecuteActions: the worker starts a goroutine with the request.
Dispatch(h) ==
  /\ In(h, "capture", "dispatch")
  /\ dispatched' = dispatched \cup {task[h].req}
  /\ Finish(h)
  /\ UNCHANGED <<now, tables, born, stored, secrets, refreshed, announced, lost>>

\* DeleteRequest, scoped to the token.
RemoveRequest(h, r) ==
  /\ In(h, "remove", "act")
  /\ r \in requests[task[h].tok]
  /\ requests' = [requests EXCEPT ![task[h].tok] = @ \ {r}]
  /\ Finish(h)
  /\ UNCHANGED <<now, row, born, stored, secrets, refreshed, outbox>>

\* DeleteAllRequestsByToken. Its existence check only picks the reply: the
\* requests of a token that is gone are gone with it.
ClearRequests(h) ==
  /\ In(h, "clear", "act")
  /\ requests' = [requests EXCEPT ![task[h].tok] = {}]
  /\ Finish(h)
  /\ UNCHANGED <<now, row, born, stored, secrets, refreshed, outbox>>

\* A mutant of MaySetPersistence: any editor may.
AnyEditorMaySet(h, persistent) == TRUE

\* validateAdvancedTokenConfig: only the owner's payload may carry
\* `persistent'; without it the snapshot's value is saved again.
MaySetPersistence(h, persistent) ==
  persistent = task[h].snap.persistent \/ task[h].role = "owner"

\* updateToken. UpdateToken writes every column back: the payload's fields,
\* and for the rest the snapshot's.
UpdateToken(h, max, persistent, private, fresh, at) ==
  /\ In(h, "update", "write")
  /\ at \in task[h].at .. now
  /\ LET t    == task[h].tok
         snap == task[h].snap
     IN  /\ Exists(t)
         /\ MaySetPersistence(h, persistent)
         /\ (private /\ ~Private(snap)) <=> fresh # None
         /\ row' = [row EXCEPT ![t] = Configured(snap, max, persistent, private, fresh, at)]
         /\ told' = [told EXCEPT ![t] = IF private /\ Private(snap) THEN @ ELSE fresh]
         /\ refreshed' = [refreshed EXCEPT ![t] = task[h].at]
  /\ drawn' = drawn \cup ({fresh} \ {None})
  /\ Finish(h)
  /\ UNCHANGED <<now, requests, born, stored, outbox>>

RotateSecret(h, fresh, at) ==
  /\ In(h, "rotate", "write")
  /\ at \in task[h].at .. now
  /\ LET t == task[h].tok IN
     /\ Exists(t)
     /\ row'  = [row EXCEPT ![t] = Rotated(task[h].snap, fresh, at)]
     /\ told' = [told EXCEPT ![t] = fresh]
     /\ refreshed' = [refreshed EXCEPT ![t] = task[h].at]
  /\ drawn' = drawn \cup {fresh}
  /\ Finish(h)
  /\ UNCHANGED <<now, requests, born, stored, outbox>>

\* A mutant of Drop: foreign keys are not enforced on the connection.
DropRow(T) ==
  /\ row' = [t \in Token |-> IF t \in T THEN None ELSE row[t]]
  /\ UNCHANGED requests

\* A row leaves the tokens table, and ON DELETE CASCADE its requests.
Drop(T) ==
  /\ row' = [t \in Token |-> IF t \in T THEN None ELSE row[t]]
  /\ requests' = [t \in Token |-> IF t \in T THEN {} ELSE requests[t]]

DeleteToken(h) ==
  /\ In(h, "delete", "write")
  /\ Exists(task[h].tok)
  /\ Drop({task[h].tok})
  /\ Finish(h)
  /\ UNCHANGED <<now, born, stored, secrets, refreshed, outbox>>

\* Any early return: an error reply, a lost client, a failed statement, a row
\* that is no longer there. Once the request is inserted none is left.
GiveUp(h) ==
  /\ ~Idle(h)
  /\ task[h].stage \notin Committed
  /\ Finish(h)
  /\ UNCHANGED <<now, tables, born, stored, secrets, refreshed, outbox>>

\* DeleteExpiredTokens, by the cleanup goroutine, with a clock read before it
\* had a connection.
Cleanup(at) ==
  /\ LET expired == {t \in Token : Exists(t) /\ Collectable(row[t], at)} IN
     /\ expired # {}
     /\ Drop(expired)
  /\ UNCHANGED <<now, task, born, stored, secrets, refreshed, outbox>>

\* The process dies, at any point, and store.Open migrates the database
\* before it serves again. Statements that returned are durable.
Restart ==
  /\ Crashes
  /\ task' = [h \in Handler |-> None]
  /\ row' = [t \in Token |-> IF Exists(t) THEN Backfilled(row[t]) ELSE None]
  /\ lost' = lost \cup {task[h].req : h \in {g \in Handler : ~Idle(g) /\ task[g].stage \in Committed}}
  /\ UNCHANGED <<now, requests, born, stored, secrets, refreshed, announced, dispatched>>

\* Time passes. Bound: the clock stops TTL after the horizon, and the last
\* TTL seconds are reserved for a system at rest, so that every expiry a
\* handler wrote lies within the modelled time.
Tick ==
  /\ \/ now < Horizon
     \/ now < Horizon + TTL /\ \A h \in Handler : Idle(h)
  /\ now' = now + 1
  /\ UNCHANGED <<tables, task, born, stored, secrets, refreshed, outbox>>

-----------------------------------------------------------------------------
\* generateReceiveSecret never repeats itself; None where no secret is drawn.
Fresh == (Secret \ drawn) \cup {None}

Configure(h) ==
  \E max \in Quota, persistent, private \in BOOLEAN, fresh \in Fresh, at \in 1 .. now :
    UpdateToken(h, max, persistent, private, fresh, at)

Rotate(h) == \E fresh \in Fresh \ {None}, at \in 1 .. now : RotateSecret(h, fresh, at)

Create ==
  \E t \in Token, role \in Role, max \in Quota, persistent, private \in BOOLEAN,
     fresh \in Fresh, at \in 1 .. now :
    CreateToken(t, role, max, persistent, private, fresh, at)

\* What a handler does once it has loaded its token.
Step(h) ==
  \/ \E at \in 1 .. now : Refresh(h, at)
  \/ \E r \in Request : InsertRequest(h, r) \/ RemoveRequest(h, r)
  \/ \E counted \in BOOLEAN : Count(h, counted)
  \/ Announce(h) \/ Dispatch(h)
  \/ ClearRequests(h)
  \/ Configure(h)
  \/ Rotate(h)
  \/ DeleteToken(h)
  \/ GiveUp(h)

Next ==
  \/ Create
  \/ \E h \in Handler, op \in Operation, t \in Token, role \in Role : Load(h, op, t, role)
  \/ \E h \in Handler : Step(h)
  \/ \E at \in 1 .. now : Cleanup(at)
  \/ Restart
  \/ Tick

Spec == Init /\ [][Next]_vars

\* Goroutines are scheduled, the clock runs, and the cleanup ticker fires
\* again and again. Nothing makes clients arrive or the process crash.
Fairness ==
  /\ \A h \in Handler : WF_vars(Step(h))
  /\ WF_vars(Tick)
  /\ WF_vars(Cleanup(now))

FairSpec == Spec /\ Fairness

-----------------------------------------------------------------------------
\* Every variable has its type; the histories bound the tables they are about.
TypeOK ==
  /\ now \in Nat \ {0}
  /\ row \in [Token -> Row \cup {None}]
  /\ requests \in [Token -> SUBSET stored]
  /\ task \in [Handler -> Activation \cup {None}]
  /\ born \subseteq Token
  /\ stored \subseteq Request
  /\ told \in [Token -> Secret \cup {None}]
  /\ drawn \subseteq Secret
  /\ refreshed \in [Token -> Nat]
  /\ announced \cup dispatched \cup lost \subseteq stored

\* A token that is not persistent always has an expiry in the database: with
\* a NULL there, the cleanup's comparison would never take it, while every
\* reader would see the default expiry (scanToken) and call it expired.
NeverStranded ==
  \A t \in Token :
    Exists(t) /\ ~row[t].persistent => row[t].expires # NoTime

\* No request outlives its token, whichever of a capture and a deletion,
\* explicit or by the cleanup, comes first.
NoOrphans == \A t \in Token : requests[t] # {} => Exists(t)

\* The expiry of a token is a TTL after the handler that refreshed it began,
\* or later: a slow handler's clock is never older than its own load.
Aged ==
  \A t \in Token :
    Exists(t) /\ ~row[t].persistent => row[t].expires >= refreshed[t] + TTL

\* A token in the table was created, with a quota that some payload carried.
FromQuota ==
  \A t \in Token : Exists(t) => t \in born /\ row[t].max \in Quota

\* So does the snapshot a save may write back; and what a capture announces
\* it has stored.
SoundTask(a) ==
  /\ a.snap.max \in Quota
  /\ a.stage \in Committed => a.req \in stored

TasksSound == \A h \in Handler : ~Idle(h) => SoundTask(task[h])

\* The inductive invariant behind the safety properties of the tables.
TablesSafe == TypeOK /\ NoOrphans /\ Aged /\ FromQuota /\ TasksSound

\* The cleanup takes only a token that is not persistent and whose last
\* refresh was made by a handler that began at least TTL ago, however the
\* touches, updates and restarts before it were interleaved. A touch that comes
\* late replaces a newer one (TouchTokenExpiry), and is the last then.
CollectedOnlyWhenIdle ==
  [][\A t \in Token :
       Exists(t) /\ row'[t] = None /\ UNCHANGED task
         => ~row[t].persistent /\ now >= refreshed[t] + TTL]_vars

\* The secret the API returned last for a token is the one captures are
\* checked against: `new stored hash does not validate rotated secret' is what
\* the rotation test reports otherwise. As long as no two handlers at a time save
\* a token's settings it stays so, whatever else is served in between.
SecretHonoured ==
  \A t \in Token : Exists(t) => row[t].hash = told[t]

\* Only a save by the owner or an administrator changes a token's persistence.
PersistenceByOwner ==
  [][\A t \in Token :
       Exists(t) /\ row'[t] # None /\ row'[t].persistent # row[t].persistent
         => \E h \in Handler :
              /\ In(h, "update", "write")
              /\ task[h].tok = t
              /\ task[h].role = "owner"
              /\ task'[h] = None]_vars

\* After the last client has gone, only persistent tokens remain.
EventuallyDrained ==
  <>[](\A t \in Token : Exists(t) => row[t].persistent)

\* A request that was stored reaches the action worker, whatever becomes of
\* its token, its client or the event in between, unless the process dies.
StoredIsDispatched ==
  \A r \in Request : r \in stored ~> r \in dispatched \cup lost

\* The token API implements the inbox.
Contract ==
  INSTANCE Inbox WITH
    phase <- [t \in Token |-> IF t \notin born THEN "unborn"
                              ELSE IF Exists(t) THEN "open" ELSE "gone"],
    limit <- [t \in Token |-> IF Exists(t) THEN row[t].max ELSE 0],
    inbox <- requests,
    seen  <- stored

ImplementsInbox == Contract!Spec
=============================================================================
