------------------------------ MODULE ActionList ------------------------------
(***************************************************************************)
(* What the action API promises about a token's actions, and what the      *)
(* pipelines rely on: the actions form one sequence. An action enters it   *)
(* once, with a new id, and never returns once it is gone; whatever edits  *)
(* do to the order, none drops or doubles another action.                  *)
(***************************************************************************)
EXTENDS Naturals, SequencesExt

CONSTANTS
  Kind,      \* action types
  Actions    \* bound: actions a token has had

VARIABLES
  actions,   \* the actions in the order in which they run
  created    \* how many there have been

list == <<actions, created>>

\* An action as a pipeline sees it; ids are given out in order of creation.
ActionRow == [id : 1 .. Actions, kind : Kind, enabled : BOOLEAN]

Init ==
  /\ created \in 0 .. Actions
  /\ actions \in {s \in [1 .. created -> ActionRow] : \A i \in 1 .. created : s[i].id = i}

\* The orders of n actions.
Orders(n) == {f \in [1 .. n -> 1 .. n] : \A i, j \in 1 .. n : f[i] = f[j] => i = j}

\* The same actions in any order.
Arranged(s) == {[i \in 1 .. Len(s) |-> s[order[i]]] : order \in Orders(Len(s))}

\* One action with other contents.
Changed(s, i, kind, enabled) == [s EXCEPT ![i].kind = kind, ![i].enabled = enabled]

\* createAction puts an action at the end; one that was overtaken by another
\* edit between its two statements may end up elsewhere.
Insert ==
  /\ created < Actions
  /\ created' = created + 1
  /\ \E i \in 1 .. Len(actions) + 1, kind \in Kind, enabled \in BOOLEAN :
       actions' = InsertAt(actions, i, [id |-> created + 1, kind |-> kind, enabled |-> enabled])

\* updateAction changes one action where it is.
Change ==
  /\ \E i \in 1 .. Len(actions), kind \in Kind, enabled \in BOOLEAN :
       actions' = Changed(actions, i, kind, enabled)
  /\ UNCHANGED created

\* deleteAction.
Drop ==
  /\ actions' \in {RemoveAt(actions, i) : i \in 1 .. Len(actions)}
  /\ UNCHANGED created

\* reorderActions, whole or in part.
Arrange ==
  /\ actions' \in Arranged(actions)
  /\ UNCHANGED created

\* An update that also puts back the sort order it had loaded.
MoveBack ==
  /\ \E i \in 1 .. Len(actions), kind \in Kind, enabled \in BOOLEAN :
       actions' \in Arranged(Changed(actions, i, kind, enabled))
  /\ UNCHANGED created

Next == Arrange \/ Insert \/ Change \/ Drop \/ MoveBack

Spec == Init /\ [][Next]_list
=============================================================================
