---------------------------- MODULE ActionPipeline ----------------------------
(***************************************************************************)
(* The action pipelines of one token. Each captured request gets a         *)
(* goroutine of its own (ExecuteActions) that waits for one of a limited   *)
(* number of slots, copies the enabled actions, writes a pending log for   *)
(* each and then runs them one after the other. Meanwhile users edit the   *)
(* actions and delete requests, the pipeline's two minutes may run out,    *)
(* and the process may die.                                                *)
(*                                                                         *)
(* Once its time is up a pipeline goes on, but every statement it issues   *)
(* fails (Store.take uses the pipeline's context), and its logs stay as    *)
(* they are. The model takes SQLite itself to be reliable: a statement     *)
(* fails only for that reason, or because a row it refers to is gone.      *)
(***************************************************************************)
EXTENDS Naturals, Sequences, FiniteSets

CONSTANTS
  Request,      \* request UUIDs
  Actions,      \* bound: actions a token has had
  Edits,        \* bound: edits of the actions while the model runs
  Concurrency,  \* slots; the worker's semaphore
  Crashes       \* whether the process may die

ASSUME PipelineAssumption ==
  /\ Actions \in Nat /\ Edits \in Nat
  /\ Concurrency \in Nat \ {0}
  /\ Crashes \in BOOLEAN

\* validateActionType admits no other.
Kind == {"forward", "filter", "delay", "transform"}

Status == {"pending", "running", "success", "failed", "skipped"}

Final == {"success", "failed", "skipped"}

\* A log exists for a request and an action, or does not.
NoLog == "none"

VARIABLES
  actions,    \* the actions table, by sort order
  created,    \* how many there have been
  edits,      \* how many edits were made
  stored,     \* the requests table
  logs,       \* the action_logs table
  pipeline,   \* the goroutines
  ran,        \* history: indexes of the plan that were executed, in order
  published   \* history: the log as each action.completed carried it

history == <<ran, published>>
table   == <<actions, created, edits>>
vars    == <<table, stored, logs, pipeline, history>>

\* What the pipelines see of the action API.
List == INSTANCE ActionList

\* A pipeline. `next' is the index in its plan of the log to write or the
\* action to run; `result' what the action that has just run came to.
Pipeline ==
  [stage : {"idle", "queued", "load", "log", "begin", "execute", "save", "announce",
            "done", "lost"},
   plan   : Seq(List!ActionRow),
   next   : 1 .. Actions + 1,
   alive  : BOOLEAN,
   result : Final]

\* The token's actions are whatever earlier calls made them.
Init ==
  /\ List!Init
  /\ edits = 0
  /\ stored = {}
  /\ logs = [r \in Request |-> [a \in 1 .. Actions |-> NoLog]]
  /\ pipeline = [r \in Request |->
       [stage |-> "idle", plan |-> <<>>, next |-> 1, alive |-> TRUE,
        result |-> "success"]]
  /\ ran = [r \in Request |-> <<>>]
  /\ published = [r \in Request |-> <<>>]

-----------------------------------------------------------------------------
At(r, stage) == pipeline[r].stage = stage

\* A mutant of Running: a pipeline with nothing to do keeps its slot.
RunningOrIdle == {r \in Request :
  /\ pipeline[r].stage \notin {"idle", "queued", "lost"}
  /\ pipeline[r].stage = "done" => pipeline[r].plan = <<>>}

\* The pipelines that hold a slot.
Running == {r \in Request : pipeline[r].stage \notin {"idle", "queued", "done", "lost"}}

Current(r) == pipeline[r].plan[pipeline[r].next]

Last(r) == pipeline[r].next = Len(pipeline[r].plan)

Ids == {actions[i].id : i \in 1 .. Len(actions)}

Become(r, stage) == pipeline' = [pipeline EXCEPT ![r].stage = stage]

\* The capture handler stores the request and starts its pipeline.
Dispatch(r) ==
  /\ At(r, "idle")
  /\ stored' = stored \cup {r}
  /\ Become(r, "queued")
  /\ UNCHANGED <<table, logs, history>>

\* A mutant of FreeSlot: one pipeline too many.
FreeSlotOrOne == Cardinality(Running) <= Concurrency

FreeSlot == Cardinality(Running) < Concurrency

\* The semaphore; then the two minutes begin.
Acquire(r) ==
  /\ At(r, "queued")
  /\ FreeSlot
  /\ Become(r, "load")
  /\ UNCHANGED <<table, stored, logs, history>>

\* The places of the enabled actions.
Enabled == {i \in 1 .. Len(actions) : actions[i].enabled}

\* The place of the k-th of them.
Nth(k) == CHOOSE i \in Enabled : Cardinality({j \in Enabled : j <= i}) = k

EnabledActions == [k \in 1 .. Cardinality(Enabled) |-> actions[Nth(k)]]

\* ListActionsByToken and the selection of the enabled actions. With an error
\* or nothing to do the pipeline is over.
LoadActions(r) ==
  /\ At(r, "load")
  /\ LET plan == IF pipeline[r].alive THEN EnabledActions ELSE <<>> IN
     pipeline' = [pipeline EXCEPT ![r].plan = plan,
                                  ![r].stage = IF plan = <<>> THEN "done" ELSE "log"]
  /\ UNCHANGED <<table, stored, logs, history>>

\* CreateActionLog for one action of the plan. It fails when the time is up,
\* or when the action or the request has been deleted, and then the pipeline
\* is over: the logs written so far stay pending.
CreateLog(r) ==
  /\ At(r, "log")
  /\ IF pipeline[r].alive /\ Current(r).id \in Ids /\ r \in stored
     THEN /\ logs' = [logs EXCEPT ![r][Current(r).id] = "pending"]
          /\ pipeline' = [pipeline EXCEPT ![r].stage = IF Last(r) THEN "begin" ELSE "log",
                                          ![r].next = IF Last(r) THEN 1 ELSE @ + 1]
     ELSE Become(r, "done") /\ UNCHANGED logs
  /\ UNCHANGED <<table, stored, history>>

\* UpdateActionLog, whose errors the pipeline ignores: without a connection,
\* or without the row, nothing is written.
WriteLog(r, status) ==
  LET a == Current(r).id IN
  logs' = IF pipeline[r].alive /\ logs[r][a] # NoLog
          THEN [logs EXCEPT ![r][a] = status]
          ELSE logs

Begin(r) ==
  /\ At(r, "begin")
  /\ WriteLog(r, "running")
  /\ Become(r, "execute")
  /\ UNCHANGED <<table, stored, history>>

\* What an executor may answer. A filter whose condition is not met answers
\* `skipped' and stops the pipeline. Each fails on a configuration that does not
\* parse (the type of an action may be changed without its configuration), and a
\* forward can only fail once the time is up; a delay that has run down by then
\* may be told so or not.
Outcomes(r) ==
  {"failed"} \cup
  CASE Current(r).kind = "filter"  -> {"success", "skipped"}
    [] Current(r).kind = "forward" -> IF pipeline[r].alive THEN {"success"} ELSE {}
    [] OTHER                       -> {"success"}

\* executor.Execute.
Execute(r) ==
  /\ At(r, "execute")
  /\ \E result \in Outcomes(r) :
       pipeline' = [pipeline EXCEPT
         ![r].stage = "save",
         ![r].result = result]
  /\ ran' = [ran EXCEPT ![r] = Append(@, pipeline[r].next)]
  /\ UNCHANGED <<table, stored, logs, published>>

\* A mutant of Stops: a failed action skips the rest, as the documents have it.
StopsOnFailure(r) == pipeline[r].result \in {"skipped", "failed"}

\* Result.StopPipeline: only a filter skips.
Stops(r) == pipeline[r].result = "skipped"

\* A mutant of Advance: a failed action is run again.
AdvanceOrRetry(r) ==
  LET again == pipeline[r].result = "failed" IN
  pipeline' = [pipeline EXCEPT
    ![r].stage = IF again THEN "begin" ELSE IF Last(r) THEN "done"
                 ELSE IF Stops(r) THEN "save" ELSE "begin",
    ![r].next = IF again THEN @ ELSE @ + 1]

\* A mutant of Advance: the logs of skipped actions are not saved.
AdvanceUnsaved(r) ==
  pipeline' = [pipeline EXCEPT
    ![r].stage = IF Last(r) THEN "done" ELSE IF Stops(r) THEN "announce" ELSE "begin",
    ![r].next = @ + 1]

\* A mutant of Advance: a filter that stops ends the pipeline at once.
AdvanceOrEnd(r) ==
  pipeline' = [pipeline EXCEPT
    ![r].stage = IF Last(r) \/ Stops(r) THEN "done" ELSE "begin",
    ![r].next = @ + 1]

\* On to the next action; to the log of the next, if it is to be skipped; out.
Advance(r) ==
  pipeline' = [pipeline EXCEPT
    ![r].stage = IF Last(r) THEN "done" ELSE IF Stops(r) THEN "save" ELSE "begin",
    ![r].next = @ + 1]

\* The log of an action that has run, or that is skipped.
Save(r) ==
  /\ At(r, "save")
  /\ WriteLog(r, pipeline[r].result)
  /\ Become(r, "announce")
  /\ UNCHANGED <<table, stored, history>>

\* A mutant of PublishCompleted: no event without a row.
PublishSaved(r) ==
  published' = IF logs[r][Current(r).id] = pipeline[r].result
               THEN [published EXCEPT ![r] = Append(@, [id |-> Current(r).id,
                                                        status |-> pipeline[r].result])]
               ELSE published

\* publishActionCompleted: the log in memory, whatever became of the row.
PublishCompleted(r) ==
  published' = [published EXCEPT ![r] = Append(@, [id |-> Current(r).id,
                                                   status |-> pipeline[r].result])]

Announce(r) ==
  /\ At(r, "announce")
  /\ PublishCompleted(r)
  /\ Advance(r)
  /\ UNCHANGED <<table, stored, logs, ran>>

\* context.WithTimeout runs out.
Expire(r) ==
  /\ r \in Running
  /\ pipeline[r].alive
  /\ pipeline' = [pipeline EXCEPT ![r].alive = FALSE]
  /\ UNCHANGED <<table, stored, logs, history>>

-----------------------------------------------------------------------------
\* An edit of the actions, as a whole. ActionOrder shows that the statements of
\* overlapping edits amount to such steps, and an update that moves its action
\* back to two of them.
Edit ==
  /\ edits < Edits
  /\ edits' = edits + 1
  /\ UNCHANGED <<stored, pipeline, history>>

CreateAction == Edit /\ List!Insert /\ UNCHANGED logs

UpdateAction == Edit /\ List!Change /\ UNCHANGED logs

\* Deleting an action deletes its logs (ON DELETE CASCADE).
DeleteAction ==
  /\ Edit
  /\ List!Drop
  /\ logs' = [r \in Request |-> [a \in 1 .. Actions |->
                IF a \in Ids \ Ids' THEN NoLog ELSE logs[r][a]]]

ReorderActions == Edit /\ List!Arrange /\ UNCHANGED logs

\* The request is deleted, by itself or with its token, and its logs with it.
DeleteRequest(r) ==
  /\ r \in stored
  /\ stored' = stored \ {r}
  /\ logs' = [logs EXCEPT ![r] = [a \in 1 .. Actions |-> NoLog]]
  /\ UNCHANGED <<table, pipeline, history>>

\* The process dies, and with it the pipelines. Nothing at the start looks for
\* logs that were left.
Restart ==
  /\ Crashes
  /\ pipeline' = [r \in Request |->
       IF pipeline[r].stage \in {"idle", "done"} THEN pipeline[r]
       ELSE [pipeline[r] EXCEPT !.stage = "lost"]]
  /\ UNCHANGED <<table, stored, logs, history>>

\* What the goroutine of a request does next.
Step(r) ==
  \/ Acquire(r)
  \/ LoadActions(r)
  \/ CreateLog(r)
  \/ Begin(r)
  \/ Execute(r)
  \/ Save(r)
  \/ Announce(r)

Next ==
  \/ \E r \in Request : Dispatch(r) \/ Step(r) \/ Expire(r) \/ DeleteRequest(r)
  \/ CreateAction
  \/ UpdateAction
  \/ DeleteAction
  \/ ReorderActions
  \/ Restart

Spec == Init /\ [][Next]_vars

\* Every executor returns: a delay is at most 30 s, a forward has a timeout.
Fairness == \A r \in Request : WF_vars(Step(r))

FairSpec == Spec /\ Fairness

-----------------------------------------------------------------------------
\* Every variable has its type, and the slots are never overdrawn.
TypeOK ==
  /\ actions \in Seq(List!ActionRow) /\ Len(actions) <= created
  /\ created \in 0 .. Actions
  /\ edits \in 0 .. Edits
  /\ stored \subseteq Request
  /\ logs \in [Request -> [1 .. Actions -> Status \cup {NoLog}]]
  /\ pipeline \in [Request -> Pipeline]
  /\ Cardinality(Running) <= Concurrency
  /\ ran \in [Request -> Seq(1 .. Actions)]
  /\ published \in [Request -> Seq([id : 1 .. Actions, status : Final])]

\* A log's status only moves forward, through `running' unless it is skipped,
\* and a final status is never changed again: not by a later action of the
\* pipeline, and not by a restart.
LogsMoveForward ==
  [][\A r \in Request, a \in 1 .. Actions :
       logs'[r][a] # logs[r][a] =>
         \/ logs'[r][a] = NoLog
         \/ <<logs[r][a], logs'[r][a]>> \in
              {<<NoLog, "pending">>, <<"pending", "running">>, <<"pending", "skipped">>}
              \cup ({"running"} \X Final)]_vars

\* As long as a pipeline's time is not up, the rows and the events agree. An
\* event is published only once the row, if it is still there, has the status
\* it carries; and a row with a final status has had its event, unless it is
\* about to be published or the process died just then.
LogsMatchEvents ==
  \A r \in Request : pipeline[r].alive =>
    /\ \A i \in 1 .. Len(published[r]) :
         logs[r][published[r][i].id] \in {published[r][i].status, NoLog}
    /\ \A a \in 1 .. Actions : logs[r][a] \in Final =>
         \/ \E i \in 1 .. Len(published[r]) : published[r][i].id = a
         \/ pipeline[r].stage \in {"announce", "lost"} /\ Current(r).id = a

\* A pipeline that has begun to run and was not lost with the process publishes
\* one event for each action of its plan, in the plan's order, failures and
\* skipped ones included, even if its time is up and its rows are gone.
EveryActionCompletes ==
  \A r \in Request :
    LET plan == pipeline[r].plan
        seen == published[r]
    IN  /\ Len(seen) <= Len(plan)
        /\ \A i \in 1 .. Len(seen) : seen[i].id = plan[i].id
        /\ At(r, "done") /\ ran[r] # <<>> => Len(seen) = Len(plan)

\* Actions run once each, in order, and none after a filter that was not met;
\* an action that was disabled when the pipeline began never runs. Nothing else
\* stops a pipeline that has begun to run: after an action that failed, after the
\* time is up and after deletions the rest runs all the same (ExecuteActions).
StoppedByFilter ==
  \A r \in Request :
    LET plan == pipeline[r].plan
        last == Len(ran[r])
    IN  /\ \A i \in 1 .. last : ran[r][i] = i /\ plan[i].enabled
        /\ \A i \in 1 .. Len(published[r]) :
             published[r][i].status = "skipped" => last <= i
        /\ At(r, "done") /\ last \in 1 .. Len(plan) - 1 =>
             plan[last].kind = "filter" /\ published[r][last].status = "skipped"

\* A pipeline that has run to its end in time leaves no log of its plan pending
\* or running, wherever a filter stopped it, whatever failed and was edited
\* meanwhile (ExecuteActions). One that gives up before it runs may.
LogsSettled ==
  \A r \in Request :
    At(r, "done") /\ pipeline[r].alive /\ ran[r] # <<>> =>
      \A a \in 1 .. Actions : logs[r][a] \in Final \cup {NoLog}

\* Every pipeline ends and gives its slot back, whatever is deleted under it.
EveryPipelineEnds == \A r \in Request : At(r, "queued") ~> At(r, "done")
=============================================================================
