------------------------------ MODULE ActionOrder ------------------------------
(***************************************************************************)
(* The action API of one token, statement by statement. Creating an action *)
(* reads the highest position and then inserts a row; an update reads a    *)
(* row and then writes all of it back, its position included; a reorder is *)
(* one transaction, which stops at the first id it does not find and keeps *)
(* what it has done. Handlers overlap, and any of them may be given up     *)
(* between two statements.                                                 *)
(***************************************************************************)
EXTENDS Integers, SequencesExt, FiniteSetsExt

CONSTANTS
  Kind,      \* action types
  Handler,   \* HTTP handlers of the API
  NoRow,     \* instead of a row that is not there
  Actions,   \* bound: actions the token has had, and ids in a reorder
  Edits      \* bound: edits that change the table while the model runs

Id == 1 .. Actions

\* A row of the actions table, without its id.
Row == [kind : Kind, enabled : BOOLEAN, order : Nat]

ASSUME ActionOrderAssumption == {Actions, Edits} \subseteq Nat /\ NoRow \notin Row

\* A handler between two statements. `row' is what an update has loaded,
\* `order' the position a creation has read. `overtaken' is history: a creation,
\* an update or a reorder, of whichever action, has come in between.
Call ==
  [stage : {"idle", "create"}, order : Nat, overtaken : BOOLEAN]
  \cup [stage : {"update"}, id : Id, row : Row, overtaken : BOOLEAN]

Idle == [stage |-> "idle", order |-> 0, overtaken |-> FALSE]

VARIABLES
  rows,      \* the actions table
  created,   \* how many actions there have been
  edits,     \* how many edits have changed the table
  call,      \* the handlers
  asked      \* history: <<a, b>> if the latest reorder has put a before b

vars == <<rows, created, edits, call, asked>>

\* The actions are what creations one after the other have made.
Init ==
  /\ created \in 0 .. Actions
  /\ \E kind \in [Id -> Kind] :
       rows = [a \in Id |-> IF a > created THEN NoRow ELSE
                 [kind |-> kind[a], enabled |-> TRUE, order |-> a - 1]]
  /\ edits = 0
  /\ call = [h \in Handler |-> Idle]
  /\ asked = {}

-----------------------------------------------------------------------------
At(h, stage) == call[h].stage = stage

Live == {a \in Id : rows[a] # NoRow}

\* A mutant of NextActionSortOrder: the `+ 1' is forgotten.
HighestSortOrder == Max({rows[a].order : a \in Live} \cup {-1})

\* A mutant of NextActionSortOrder: the number of rows.
CountSortOrder == Cardinality(Live)

\* SELECT COALESCE(MAX(sort_order), -1), and one more.
NextActionSortOrder == Max({rows[a].order : a \in Live} \cup {-1}) + 1

\* Whoever is between two statements now has read something that is no more.
Overtake(h) ==
  [g \in Handler |-> IF g = h THEN Idle ELSE IF At(g, "idle") THEN call[g]
                     ELSE [call[g] EXCEPT !.overtaken = TRUE]]

\* A statement changes the table.
Edit == edits < Edits /\ edits' = edits + 1

\* createAction up to its first statement.
BeginCreate(h) ==
  /\ At(h, "idle")
  /\ call' = [call EXCEPT ![h] = [stage |-> "create", order |-> NextActionSortOrder,
                                  overtaken |-> FALSE]]
  /\ UNCHANGED <<rows, created, edits, asked>>

\* CreateAction.
CreateAction(h, kind, enabled) ==
  /\ At(h, "create")
  /\ created < Actions
  /\ Edit
  /\ created' = created + 1
  /\ rows' = [rows EXCEPT ![created + 1] =
                [kind |-> kind, enabled |-> enabled, order |-> call[h].order]]
  /\ call' = Overtake(h)
  /\ UNCHANGED asked

\* updateAction up to GetAction; a missing action ends it.
BeginUpdate(h, a) ==
  /\ At(h, "idle")
  /\ a \in Live
  /\ call' = [call EXCEPT ![h] = [stage |-> "update", id |-> a, row |-> rows[a],
                                  overtaken |-> FALSE]]
  /\ UNCHANGED <<rows, created, edits, asked>>

\* A mutant of Saved: the position is not among the columns that are set.
SavedAsNew(old, kind, enabled) == [kind |-> kind, enabled |-> enabled, order |-> 0]

\* The row an update writes. The payload sets type and enabled or leaves them.
Saved(old, kind, enabled) == [old EXCEPT !.kind = kind, !.enabled = enabled]

\* A mutant of Written: an upsert.
WrittenAnew(a, row) == [rows EXCEPT ![a] = row]

\* UPDATE actions ... WHERE uuid = ?: no row, no change.
Written(a, row) == [rows EXCEPT ![a] = IF a \in Live THEN row ELSE @]

\* Wherever a was to be, an update has put it somewhere else.
Without(a) == {pair \in asked : a \notin {pair[1], pair[2]}}

\* UpdateAction.
UpdateAction(h, kind, enabled) ==
  LET a == call[h].id
  IN  /\ At(h, "update")
      /\ Edit
      /\ rows' = Written(a, Saved(call[h].row, kind, enabled))
      /\ asked' = IF call[h].overtaken THEN Without(a) ELSE asked
      /\ call' = IF a \in Live THEN Overtake(h) ELSE [call EXCEPT ![h] = Idle]
      /\ UNCHANGED created

\* DeleteAction, the one statement of deleteAction.
DeleteAction(a) ==
  /\ a \in Live
  /\ Edit
  /\ rows' = [rows EXCEPT ![a] = NoRow]
  /\ UNCHANGED <<created, call, asked>>

\* The ids of a reorder before the first that is not found.
Found(ids) ==
  LET missing == {i \in 1 .. Len(ids) : ids[i] \notin Live} IN
  SubSeq(ids, 1, IF missing = {} THEN Len(ids) ELSE Min(missing) - 1)

Positions(ids, a) == {i \in 1 .. Len(ids) : ids[i] = a}

\* The loop of ReorderActions sets a position for every mention of an id, so
\* the last one stays.
Placed(ids, a) == Max(Positions(ids, a)) - 1

\* A list of ids asks for a before b if it mentions b after all that it says of a.
AskedBy(ids) ==
  {pair \in Id \X Id :
     \E i, j \in 1 .. Len(ids) : /\ i < j /\ ids[i] = pair[1] /\ ids[j] = pair[2]
                                /\ \A k \in j .. Len(ids) : ids[k] # pair[1]}

\* ReorderActions. The error for an id that is not found does not reach the
\* end of the transaction, which commits.
ReorderActions(ids) ==
  LET found == Found(ids)
  IN  /\ found # <<>>
      /\ Edit
      /\ rows' = [a \in Id |-> IF Positions(found, a) = {} THEN rows[a]
                               ELSE [rows[a] EXCEPT !.order = Placed(found, a)]]
      /\ asked' = AskedBy(found)
      /\ call' = [h \in Handler |-> IF At(h, "idle") THEN call[h]
                                    ELSE [call[h] EXCEPT !.overtaken = TRUE]]
      /\ UNCHANGED created

\* A handler is given up: its client has left, or its token is gone.
GiveUp(h) ==
  /\ ~At(h, "idle")
  /\ call' = [call EXCEPT ![h] = Idle]
  /\ UNCHANGED <<rows, created, edits, asked>>

Next ==
  \/ \E h \in Handler :
       \/ BeginCreate(h)
       \/ \E kind \in Kind, enabled \in BOOLEAN :
            CreateAction(h, kind, enabled) \/ UpdateAction(h, kind, enabled)
       \/ \E a \in Id : BeginUpdate(h, a)
       \/ GiveUp(h)
  \/ \E a \in Id : DeleteAction(a)
  \/ \E ids \in BoundedSeq(Id, Actions) : ReorderActions(ids)

Spec == Init /\ [][Next]_vars

-----------------------------------------------------------------------------
\* Every variable has its type; positions are never negative.
TypeOK ==
  /\ rows \in [Id -> Row \cup {NoRow}]
  /\ created \in 0 .. Actions
  /\ edits \in 0 .. Edits
  /\ call \in [Handler -> Call]
  /\ asked \subseteq Id \X Id

\* The actions that the latest reorder reached run in the order it gave them
\* (ReorderActions), whatever is created, deleted and updated afterwards: only
\* an update can take its action out of that order, and only one that another
\* creation, update or reorder, of whichever action, has overtaken between its
\* two statements. What such an update leaves in place is not claimed either.
ReorderStands ==
  \A a, b \in Live : <<a, b>> \in asked => rows[a].order < rows[b].order

\* A creation that nobody overtakes between its two statements puts its action
\* after all that are there, however many were deleted, moved or tied before
\* (NextActionSortOrder, CreateAction).
NewestLast ==
  [][\A h \in Handler :
       /\ created' > created
       /\ At(h, "create") /\ call'[h] = Idle
       /\ ~call[h].overtaken
       => \A a \in Live : rows[a].order < rows'[created'].order]_vars

\* ListActionsByToken. SQLite reads ties off the index in order of creation.
Listed ==
  LET before(a, b) == \/ rows[a].order < rows[b].order
                      \/ rows[a].order = rows[b].order /\ a < b
      at(i) == CHOOSE a \in Live : Cardinality({b \in Live : before(b, a)}) = i - 1
  IN  [i \in 1 .. Cardinality(Live) |->
         LET a == at(i) IN [id |-> a, kind |-> rows[a].kind, enabled |-> rows[a].enabled]]

List == INSTANCE ActionList WITH actions <- Listed

\* The statements of overlapping handlers amount to whole edits of one
\* sequence: no update brings a deleted action back or touches another one, and
\* no reorder, complete or not, drops one.
ImplementsActionList == List!Spec
=============================================================================
