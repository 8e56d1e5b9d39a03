# HookWatch in TLA+

HookWatch captures webhooks. A *token* is an endpoint; requests sent to it are
stored, shown live in a browser through server-sent events, and passed through
the token's pipeline of *actions*. The program is one Go process over a SQLite
database, with a Svelte frontend. This directory models its core, checks it with
TLC and proves the main results with TLAPS.

## 1. Inventory

| Component | State | Operations | What makes it correct |
|---|---|---|---|
| Token API, `tokens` table (`api/tokens.go`, `api/expiry.go`, `api/secret.go`, `store/store.go`, `store/expiry.go`) | a row per token: persistence, quota, secret hash, expiry, settings | create, update, rotate secret, delete, touch expiry, periodic cleanup, backfill at start | a token in use is never collected, an idle one always is; what the API returned stays true; only owners change persistence |
| Capture and stored requests (`api/capture.go`, `api/requests.go`) | `requests` table | capture, list/show, delete one, delete all | quota never exceeded by a capture, no request without its token, every stored request starts its pipeline |
| Event hub (`hub/hub.go`) | map of topics to sets of channels, under a lock | Subscribe, Unsubscribe, Publish | per-publisher order, no duplicates, nothing lost except to a full channel, publishers never wait |
| Event stream (`api/events.go`) | one goroutine and channel per client | open, forward an event, close | events of its own token only, from subscription to departure |
| Action worker (`worker/*.go`, `store/action_logs.go`) | a semaphore, a goroutine per captured request, `action_logs` | load plan, write logs, execute, publish | order, one outcome per action, rows and events agree, every pipeline ends |
| Action API (`api/actions.go`, `store/actions.go`) | `actions` table with positions | create, update, delete, reorder | a reorder stands, a new action comes last, and no edit drops, doubles or revives another action |
| Rate limiting (`api/ratelimit.go`, `store/rate_limits.go`) | a counter per address, token and minute | load limit, increment, read, clean up | never admits more than the limit per window, refuses nobody for others' webhooks; fails open on errors |
| Accounts and sessions (`auth/*.go`, `api/auth.go`, `store/users.go`) | `users`, `sessions` | register, login, logout, validate, clean up, OIDC resolution | later accounts are no administrators by registering, unique identities, a session is valid until it ends and no longer, nobody reaches another's account |
| Access policy, grants, administration (`authz/authz.go`, `api/access.go`, `api/grants.go`, `api/admin.go`) | `hook_grants`, roles | check, grant, revoke, change role, delete user | nobody acts by a right that never held; no row outlives what it names; a role or view mode changes only when asked for |
| Schema and migrations (`store/store.go`) | the database | start-up backfills | restart changes nothing it should not |
| Signature validation, replay, diff, OpenAPI, export | none | pure or read-only | — |
| Frontend (`frontend/`) | the token page's request list, its filters, totals, action logs | load, apply an event, reconnect, change filters | having seen every event, the page shows what is stored, or with filters at least all that matches |
| Entry point (`cmd/hookwatch`, absent from the repository snapshot), deployment | — | starts the goroutines | — |

**How they interact.** HTTP handlers are goroutines; each takes a pooled SQLite
connection per statement, so a handler's statements interleave with everybody
else's. `capture` stores a row, publishes to the hub and starts a worker
goroutine, which writes logs and publishes as well. The cleanup goroutine deletes
expired tokens, and foreign keys cascade to requests, actions and logs. Streams
read from the hub. Nothing is shared but the database, the hub's map and the
semaphore; handlers hold no lock over two statements and open no transaction
(except for the reordering of actions).

**What is hard.** Load-modify-save without a transaction; clocks read before the
statement they parametrise; expiry racing use; deletion under a running capture
or pipeline; subscription racing publication; full channels; a pipeline that
outlives its two minutes; a crash between a row and its event;
decisions taken on a user, a token and a grant read at different times; counters
read after they were incremented by others. `PROJECT.json` lists each hazard at its
line with the properties that cover it, and notes what they leave open.

## 2. Plan

Done, in this order:

1. **TokenLifecycle** (with TokenRow) and its abstract contract **Inbox**; proofs.
2. **Hub** and its abstract contract **Feed**; proofs.
3. **ActionPipeline**; proofs.
4. **RateLimit**; proofs.
5. **ActionOrder** and its abstract contract **ActionList**, on which
   ActionPipeline now rests; proofs.
6. **Accounts**; proofs.
7. **Access**; proofs.
8. **LiveView**, which puts captures and updates, the hub's channel and the token
   page together; proofs.

Left: `token.deleted` and the action logs in LiveView; filter evaluation as a pure
operator against a reference definition.

The project keeps to a dozen runs, one for each question. So properties that ask
the same instance share a run, and of the places where the code differs from its
documents (section 4) one has a run that shows it; the others are described.

## 3. The modules

### TokenRow, TokenLifecycle, Inbox

`TokenRow` holds the columns that decide a token's life and the pure functions
the code applies to them: `Scan` (`scanToken`), `Defaulted`
(`applyDefaultTokenDefaults`), `Touched` (`TouchTokenExpiry`), `Collectable`
(`DeleteExpiredTokens`), `Backfilled`, `Reconciled` (`reconcileReceiveSecret`),
`Configured` and `Rotated` (what the two handlers save). Times are whole seconds,
as stored; a NULL time is 0.

`TokenLifecycle` is the concurrent system. `task[h]` is what a handler goroutine
knows between two statements: the operation, the token, the caller's role and
`snap`, the row as loaded. `Load` is `loadActiveToken`; `Refresh` the touch, decided
on the snapshot and applied to whatever row is there; `InsertRequest` the single
`INSERT ... WHERE EXISTS`; then `Count` (`CountRequestsByToken`, which may fail),
`Announce` (the event, only after a count) and `Dispatch` (the start of the pipeline, in
any case); `UpdateToken` and `RotateSecret` write every column of the snapshot back.
A clock `at` handed to a statement is any value between the load and now. `GiveUp`
is any early return; a capture that has inserted has none left. `Cleanup` is one
DELETE with cascades; `Restart` kills every handler and runs the expiry backfill, and
`lost` remembers the requests whose capture died with it. Only the handlers in `Saver`
are asked to save settings (`update`, `rotate`): with `Saver = Handler` saves overlap, with
one saver they come one at a time beside whatever else is served.

`Inbox` is the contract without handlers, clocks or SQL: an inbox opens once,
accepts fresh requests up to its present limit, loses requests only by being
emptied, and once closed stays closed and empty.

### Hub, Feed

One action per critical section or channel operation: `Subscribe`, `Unsubscribe`,
`Publish` (the copy of the channels under the read lock), `Send` (one non-blocking
send), `Read` and `Leave` (the stream's loop). Events carry only their publisher, its
sequence number and topic. `Feed` is the contract per stream: a bounded queue of
events of one topic, each at most once, in the order in which they entered.

### ActionPipeline

One token's `actions` table (as a sequence in sort order), `action_logs`, and for
each captured request a goroutine whose `stage` is its place in `ExecuteActions`:
`queued` (semaphore), `load`, `log` (one `CreateActionLog` per step), `begin`, `execute`,
`save`, `announce`, `done`. Each database statement and each event is a step of its own.
`alive` says whether the two minutes still run; afterwards statements write nothing
but the loop goes on. Executors are choices over the outcomes they can give
(`Outcomes`); each may fail, since `updateAction` can change an action's type and leave a
configuration that the new type cannot parse. Edits of actions, deletion of the request (with its logs) and crashes may come at
any point. An edit of the actions is one step, taken from `ActionList`; `ActionOrder`
shows that the statements of overlapping edits amount to those steps. `LogsSettled`
holds what a document promises of the logs as far as the code keeps it: a pipeline
that has begun to run its actions and ends in time leaves no log unsettled.

### ActionOrder, ActionList

The handlers of `api/actions.go` between their statements. `BeginCreate` reads the
highest position and `CreateAction` inserts; `BeginUpdate` loads a row and
`UpdateAction` writes all its columns back, `sort_order` included; `ReorderActions` is
the one transaction, whose loop stops at the first id it does not find (`Found`) and
commits what it has done, because `endFn` sees another `err`. The history variable
`asked` is the order that the latest reorder gave, less the actions that an overtaken
update has moved since. Ties in `Listed` fall to the older action. `ActionList` is the
contract: one sequence, which actions enter once and never re-enter.

### RateLimit

One token. A webhook (`request[r]`) goes through the middleware: `Load` the limit,
`Stamp` the window, `Increment` and `Read` (the two statements of `IncrementRateLimit`),
or `FailOpen` at any statement. Meanwhile `SetLimit`, `Tick` (any jump of the clock) and
`CleanupRateLimits`. The counter and its history `place` say which webhook got which
number. `CleanupRateLimits` has no caller in the repository snapshot; the model lets it
run with any window.

### Accounts

Either mode, local or OpenID. `BeginRegister`, `Lookup`, `Count` and `CreateUser` are
`Register`; `BeginCallback`, `Lookup`, `Count`, `CreateUser` and `CreateSession` are
`CompleteOIDCAuth` with `resolveUser`; `BeginLogin` and `CreateSession` are `Login`.
`BeginAdmin` and `RequireAdmin` are the session middleware and the administrator check
on two statements; `BeginUpdate` and `UpdateUser` load a user and write the row back.
The UNIQUE constraints are `MayInsert`, the foreign key of sessions `MayOpen`. `Init`
has no account or one, made by an earlier run in either mode. Which e-mail and subject
a provider's claims carry is an input.

### Access

One token, its row, its grants and the users' roles. A request reads its user
(`Authenticate`), the token (`LoadToken`, with the part of `CanAccessToken` and
`CanManageGrants` that needs nothing more: `Granted`), perhaps a grant (`LoadGrant`), and
then does one operation with what it has read: `Read`, `UpdateToken`, `DeleteToken`,
`FindGrantee` and `InsertGrant`, `RevokeGrant`. `UpdateUser` and `DeleteUser` come from
administrators at any time; `MayInsertGrant`, `MayInsertToken`, `MayDelete` and the cascades
in `DeleteUser` and `DeleteToken` are the foreign keys. `Right` is the abstract policy, a
formula over the present tables; `held` remembers whether it was true at one of the
request's steps.

### LiveView

The database, the handlers that capture (`Stamp`, `Insert`, `Count`, `Publish`) and update
(`Save`, `Publish`), one browser page and its channel. The page loads in the order of
`+page.ts` (`LoadToken`, `LoadTotal`, `LoadList`), then `Subscribe`s; `Receive` is its event
handlers with `applyRequestCreated`. The address has a page number and filters, and
`filter` is the set of requests that these select, whatever they are (method, address,
text, times); both statements of `ListRequestsByToken` use it (`Matching`). Events do
not: `applyRequestCreated` puts every new request on page one and takes the total of
all over the filtered one. `Leave` is a reload, or other filters (`handleFilterChange`).
The channel is `Hub`'s, with its capacity. `Lose` is a broken connection; the browser
opens it again and nothing is replayed. Requests are numbered as they are stamped, and
`Second` gives each its `created_at`, in whole seconds as stored (`store.go:19`): within
a second `ListRequests` may return them in any order, and any of them at the end of a
page. The clock is taken not to run backwards between captures. `missed` is history:
what the page has been told nothing of, or in the wrong order; the code makes no promise
about that until the next load.

## 4. The runs

| Run | Shows |
|---|---|
| `lifecycle_serial` | two handlers, one of which saves settings, six of the operations (all but `view`), two secrets, restarts: `NeverStranded`, `SecretHonoured`, `PersistenceByOwner`; under fairness `EventuallyDrained` and `StoredIsDispatched` |
| `lifecycle_concurrent` | two handlers with capture, view, update and delete, the cleanup and restarts, over a TTL of two seconds: the inductive invariant `TablesSafe`, `CollectedOnlyWhenIdle`, refinement of `Inbox` |
| `lost_persistence` | a finding, below |
| `hub_feed` | two topics, streams and publishers, two events each, capacity 2: `InOrder`, `NothingMissed`, refinement of `Feed` |
| `hub_progress` | `PublishReturns` with capacity 1 and readers that may never read |
| `pipeline_logs` | one pipeline over every table of at most three actions, one edit, expiry, crash: `LogsMatchEvents`, `LogsSettled`, `EveryActionCompletes`, `StoppedByFilter` (nothing else stops a pipeline), `LogsMoveForward` |
| `pipeline_slots` | two pipelines, one slot, two edits: `TypeOK` (with the semaphore's bound), `EveryPipelineEnds` |
| `action_order` | two handlers, three actions, three edits: `ReorderStands`, `NewestLast`, refinement of `ActionList` |
| `rate_limit` | three webhooks of two addresses, limits 0, 1 and 2, two windows: `CountersSafe`, `WithinLimit`, `RefusedForCause` |
| `accounts` | two handlers, two e-mails and subjects, two accounts and sessions, a clock: `SignedInWhile`, `OneAccountPerIdentity`, `OnlyFirstIsAdmin`, `RoleAsAsked`, `ReachesOwnAccount` |
| `access` | two users, two requests, one token: `RightHeld`, `NothingDangles`, `OwnerNeedsNoGrant`, `PublicAsAsked` |
| `live_view` | two handlers, three requests of which two share a second, two filters, two updates, pages of two, a channel of two: `NoDuplicates`, `SettingsFaithful`, `RequestsFaithful` |

The type invariants of `TokenLifecycle`, `RateLimit`, `Access` and `Hub`, and `Hub`'s `Registered`
(exactly the streams that listen to a topic are in its set), are parts of the invariants
proved in section 5; the other modules' are checked by their runs and proved too.

**Bounds.** After `Horizon` no client arrives, and the clock runs on for one TTL so that
the last expiry can pass. In `lifecycle_concurrent` (`TTL = 2`, `Horizon = 3`) handlers
load at seconds 1 and 2 and their statements may run until second 3, with any clock
from their load on: a later load extends the life of a token, a slow handler rewinds
what a newer one has written, and the cleanup runs with a clock of its own before,
between and after; a touch left out (the mutant) is seen, because the token then goes
at second 3 although it was refreshed by a handler of second 2. Both handlers may save,
and two handlers suffice for every load–save overlap of two callers. That run leaves
out secrets (`Secret = {}`, so no token is private), which `lifecycle_serial` covers: there
`TTL = 1` and `Horizon = 2`, all clients arrive in the first second, and one of the two
handlers saves, because with two savers `SecretHonoured` and `PersistenceByOwner` do not
hold (findings 1 and 2 below). `EventuallyDrained` and `StoredIsDispatched` are checked there
since liveness over longer times is out of reach; `StoredIsDispatched` excepts the
requests that a crash has `lost`.
Two requests and quotas 1 and 2 let a
quota be reached, lowered below what is held, and raised. A channel of two, or one,
stands for 64: two publishers with two events overflow it. Three actions let a filter
skip more than one, and a reorder stop in the middle; lists in a reorder may repeat
ids and name missing ones. `Edits` bounds the edits of actions. Three webhooks are one
more than the largest limit; two windows suffice because counters of different windows
never meet. Two accounts let two registrations race and one account be deleted and
another created; two sessions let one end while the other lives; `Duration = 1` with
`Now = 2` passes an expiry. Two users are an owner or administrator and somebody
else; the token is created once, since a UUID is. In `live_view` three requests
overflow a page of two and a channel of two, and page 2 can be open when a request
comes; the first two share a second, so the end of a page may cut through it; the
filters select all three, or leave out one of these two; two updates are the least
that can be announced out of order. Handlers,
requests, secrets, topics, streams, publishers, users, e-mails and subjects are
symmetric where the MC modules say so; runs with liveness use no symmetry. Deadlock is
not checked: in every instance clients may stop arriving and the bounded clock,
events or requests run out.

**Fairness.** Goroutines that can take a step eventually do (`WF` on each handler's,
publisher's or pipeline's next step; forwards and delays have timeouts of at most
30 s), the clock advances and the cleanup ticker fires (`RunTokenCleanup`). Nothing is
assumed of clients: a reader may stall for ever. Weak fairness is enough for the
semaphore because every pipeline runs once. The modules without `FairSpec` make no
promise that needs it.

### Where the code differs from its documents

A run shows this one:

1. An editor's save can undo the owner's change of persistence
   (`lost_persistence`; `docs/advanced_requests.md:102`).

Met while modelling, and part of the models as the code has it:

2. A rotation can be undone by an overlapping update, which writes back the secret
   hash it loaded (`api/tokens.go:285`), although the rotation's secret was returned.
   `SecretHonoured` is therefore checked with one handler that saves settings.
3. A failed action does not skip the rest (`worker/worker.go:117`;
   `docs/action_transformation.md:19` says that it does). See `Stops`; `StoppedByFilter`
   says that it is so in every case, and its mutant is what the document describes.
4. A transformed content type does not override a captured one (`worker/forward.go:61`;
   `docs/action_transformation.md:91` says that forwards use it). Headers are not in
   the model.
5. Logs may stay pending for good when the action or the request is deleted while
   they are written, or the time runs out (`worker/worker.go:78`;
   `docs/action_transformation.md:109`). See `CreateLog` and the guard of `LogsSettled`.
6. `IncrementRateLimit` "atomically increments" and "returns the new request count"
   (`store/rate_limits.go:12`), but increments and reads in two statements: webhooks
   that arrive together may all read the final count, and all be refused although
   some were within the limit. The limit itself is never exceeded (`WithinLimit`).
7. "The first registered user is automatically made admin" (`auth/auth.go:94`): two
   registrations that both begin on an empty table both make an administrator.
   `OnlyFirstIsAdmin` speaks of those that begin later.
8. A reorder that names an unknown action answers with an error and keeps the part it
   has done (`store/actions.go:166`). See `Found`.
9. Two updates of a token, or two captures, may publish in the opposite order of
   their statements, and a page then shows the older settings or total until its
   next event or load (`api/tokens.go:294`, `api/capture.go:131`). See `Overtake` in LiveView.
10. A page with filters does not keep to them: a live event puts a request on page one
   that does not match, and replaces the number of matching requests by the number of
   all (`+page.svelte:283`, `api/capture.go:129`). `RequestsFaithful` therefore says of a
   filtered page only that no request that matches is left out but for newer ones, that
   all it shows is stored and in order, and that the number is one of the two. Without
   filters it says that the page is what a load would show.

**Mutants.** Beside a definition stands, where a property needs it, a variant with
the mistake that property guards against (`A mutant of ...`); `PROJECT.json` says
which run finds the property violated when the variant takes its place.

## 5. The proofs

`TokenLifecycle_proofs` proves for any sets of tokens, handlers, requests and
secrets and any TTL and horizon, from the named assumptions of `TokenRow` and
`TokenLifecycle`:

- `SafeTables`: `TablesSafe` is inductive. Besides types it says that requests have
  their token (`NoOrphans`), that quotas in the table and in snapshots come from
  payloads (`FromQuota`, `TasksSound`), and `Aged`: a token that is not persistent
  expires no earlier than a TTL after the load of the handler that refreshed it last. `Aged` is what the code's
  stale clocks leave intact: a handler never writes a clock older than its own load.
- `TypeCorrect`, `NoneStranded`: parts and consequences of it.
- `CollectsOnlyIdle`: from `Aged`, since a row that vanishes without a handler's step
  was collectable (`OnlyDropped`).
- `Implementation`: each action is a step of `Inbox` or a stutter.
- `SecretsHonoured`, `PersistenceKept`: under the hypothesis `OneAtATime` (at most one handler
  saves settings, as in `lifecycle_serial`), because with two they do not hold (findings
  1 and 2 of section 4). Captures, deletions, views, cleanups and restarts still come
  between any two of its statements, from any number of other handlers. What the
  saver has loaded is then current (`Serial`): its snapshot has the secret and the
  persistence of the row, if there is one.

`Hub_proofs` proves for any capacity and any topics, streams and publishers:

- `SafeHub`: `HubSafe` is inductive. `InOrder` needs `Publishing` (a goroutine is at its
  latest event) and `Sent` (what is still to be sent to a stream is newer than all it
  has been sent); `NothingMissed` needs `Owed` (a missing event is in the rest of its
  publication).
- `Ordered`, `Complete`: its consequences.
- `Implementation`: the hub refines `Feed`; an event enters at most once because of `Sent`.

`RateLimit_proofs` proves for any webhooks, addresses, limits and number of windows:

- `SafeCounters`: `CountersSafe` is inductive. It gives each counted webhook a `place` of
  its own among those its counter counts; a sweep only lowers counters.
- `LimitKept`: the webhooks that got through have different places in `1 .. l`, so there
  are at most `l` of them (an injection into an interval).
- `RefusalsJust`: the count that was read is at most the number of webhooks counted,
  and that only grows.

`Access_proofs` proves for any users and handlers:

- `SafeAccess`: the invariant `Inv`. Besides the properties it needs `Sound`, what a
  request relies on between two statements: the owner it has read is still the
  owner or gone, because no statement gives a token away and none is created
  twice. `OwnerNeedsNoGrant` rests on that, since `InsertGrant` does not look at the
  owner again; `NothingDangles` rests on the foreign keys.
- `TypeCorrect`, `RightsHeld`, `NoneDangle`, `OwnersUngranted`: its consequences.
- `OpenedAsAsked`: an action property; a request that nobody overtook holds the view
  mode of the row that is there (`ViewRead`).

`Accounts_proofs` proves for any e-mails, subjects and handlers, a positive number of
accounts, and `None` outside the model values:

- `SafeAccounts`: the invariant `Inv`. `SessionsBacked` ties the sessions table to the
  history of sessions: a row was issued and not signed out and has its account, and
  a session that still counts has its row, since only expired rows are swept.
  `IdsInOrder` says that no account comes back. `HandlersSound` is what a handler may
  still rely on: that a late registration has seen an account and so carries the role
  `user`; that the account it signs in has the identity that was proved, because nobody
  changes the identity of an account; and that an update which was not overtaken
  holds the row that is there.
- `TypeCorrect`, `SessionsSignIn`, `IdentitiesUnique`, and the action properties
  `LaterAreUsers`, `RolesAsAsked`, `OwnAccountsReached`: its consequences.

`ActionPipeline_proofs` proves for any requests, number of actions and edits, any number of
slots, with and without crashes:

- `SafePipelines`: the invariant `Inv`. Its core is `RequestSound`, a predicate on what
  belongs to one request only, so that the other goroutines cannot disturb it: the
  plan has every action once (`PlanSound`), what has run and what was published are
  its first places (`Counts`), and a log holds what its event says or, if that is
  still to come, what the stage allows (`Ahead`). That a log is gone is always
  admitted; this is why deletions keep it.
- `TypeCorrect` (with the semaphore's bound), `RowsAndEvents`, `LogsAreSettled`, `EventsForAll`,
  and the action property `LogsForward`: its consequences.
- `FiltersStop`: needs `FiltersSound` besides, inductive on top of `Inv`: in a pipeline that
  skips, or has ended before its last action, the last action that has run is a
  filter, and its event says that it was not met.

`ActionOrder_proofs` proves for any handlers, number of actions and edits, with `NoRow`
outside the rows:

- `SafeOrder`: the invariant `Inv`. A creation that nobody overtook has a position beyond
  all others; an update that nobody overtook holds the row that is there; and the
  pairs in `asked` are in their order in the table.
- `TypeCorrect`, `ReordersStand`, and the action property `CreatedLast`.
- `ActionsAreAList`: the table implements `ActionList`. `Listed` is the listing by position and
  age; `Ranks` shows that it has every row once (a strict order of a finite set gives its
  members different ranks, which are all numbers below its size), and each statement
  is an insertion, a removal, a change of one action or a new order of the same ones.

`LiveView_proofs` proves for any handlers, page size, channel capacity and number of
requests and updates:

- `SafeView`: the invariant `Inv`, for any filters and any seconds of the requests that do
  not run backwards. A request is *due* when it is stored and its event is still to come,
  from its handler or in the channel. What is shown is right up to what is due: on page
  one the requests that are not due stand in the order of their seconds, all that is
  shown is stored, and of what the filters select none is left out unless there are newer
  ones enough (`FirstPage`); the settings are those of the last event in the channel, or
  some handler will still tell them (`SettingsTold`); so is the total, or it is still
  the number of the load, which counts what the filters select, as long as no event is on
  the way and whoever has stored a request is overtaken (`TotalTold`, `Late`); events come
  in the order of their requests (`InOrder`). For that one must know what handlers know
  whom nobody overtook (`Knows`): every request newer than theirs is due as well, none that
  is on the way is newer, and the total they carry is the last one unless another handler
  will tell it. `Numbered` says that every request has one number and one event, which also
  bounds `pending`.
- `TypeCorrect`, `NeverTwice`, `SettingsAreFaithful`, `RequestsAreFaithful`: its consequences;
  of a page that has caught up nothing is due, so that the first page shows the newest
  (`ShowsNewest`). The list functions have lemmas of their own (`AscendingIs`, `NewestIs`,
  `ListingIs`, `PrependedIs`).

TLC has checked the inductive invariants of `LiveView`, `ActionPipeline`, `ActionOrder` and
`Accounts` on the instances of their runs as well.

Only model-checked: the liveness properties (`EventuallyDrained`, `StoredIsDispatched`,
`PublishReturns`, `EveryPipelineEnds`), which need fairness and `ENABLED`, out of the proof
system's reach. Every other property of the passing runs is a theorem.

## 6. Not modelled

Password hashing, OIDC exchange, signature cryptography, formatting, SSE framing,
replay, export and OpenAPI output, the HTTP router, and presentation in the
frontend: no state of their own, or pure I/O. Mode `none` of authentication, in which
every operation is allowed. In LiveView: `token.deleted`, after which the page leaves;
the action logs; the selected request, whose loading fails with the page when it has
been deleted meanwhile; a reload inside the application that keeps the stream open. SQLite is taken to execute each
statement atomically and durably, with foreign keys on (`prepareConn`). The
entry point is not in the repository snapshot: that it starts the cleanup is assumed.
