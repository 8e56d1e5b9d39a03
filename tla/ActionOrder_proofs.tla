--------------------------- MODULE ActionOrder_proofs ---------------------------
(***************************************************************************)
(* Proofs about ActionOrder, for any handlers, number of actions and       *)
(* edits: what overlapping edits of the actions of a token do to their     *)
(* order.                                                                  *)
(*                                                                         *)
(* The argument is that a handler knows whether it may trust what it has   *)
(* read: unless another edit of a position has come in between, the row it *)
(* has loaded is the row that is there, if any is, and the position it has *)
(* computed is beyond all others.                                          *)
(***************************************************************************)
EXTENDS ActionOrder, FiniteSetTheorems, SequenceTheorems, TLAPS

\* What a table r of n actions so far has to do with what the handlers hold and
\* with what has been asked. A creation that nobody overtook has a position
\* beyond every action; an update that nobody overtook has the row that is there.
Sound(r, n, calls, pairs) ==
  /\ \A a \in Id : r[a] # NoRow => a <= n
  /\ pairs \subseteq (1 .. n) \X (1 .. n)
  /\ \A h \in Handler : calls[h].stage = "update" => calls[h].id <= n
  /\ \A h \in Handler : ~calls[h].overtaken =>
       /\ calls[h].stage = "create" =>
            \A a \in Id : r[a] # NoRow => r[a].order < calls[h].order
       /\ calls[h].stage = "update" /\ r[calls[h].id] # NoRow => r[calls[h].id] = calls[h].row
  /\ \A a, b \in Id :
       r[a] # NoRow /\ r[b] # NoRow /\ <<a, b>> \in pairs => r[a].order < r[b].order

Inv == TypeOK /\ Sound(rows, created, call, asked)
-----------------------------------------------------------------------------
\* The numbers up to n.
LEMMA UpTo ==
  ASSUME NEW n \in Nat
  PROVE  IsFiniteSet(1 .. n) /\ Cardinality(1 .. n) = n
BY FS_Interval

\* An order without ties gives the members of a finite set the ranks from 0 on,
\* each to one of them, and the greater rank to the later member.
LEMMA Ranks ==
  ASSUME NEW S, IsFiniteSet(S), NEW R,
         \A a \in S : <<a, a>> \notin R,
         \A a, b, c \in S : <<a, b>> \in R /\ <<b, c>> \in R => <<a, c>> \in R,
         \A a, b \in S : a # b => <<a, b>> \in R \/ <<b, a>> \in R
  PROVE  /\ Cardinality(S) \in Nat
         /\ \A a \in S : Cardinality({b \in S : <<b, a>> \in R}) \in 0 .. Cardinality(S) - 1
         /\ \A a, b \in S : <<a, b>> \in R =>
              Cardinality({c \in S : <<c, a>> \in R}) < Cardinality({c \in S : <<c, b>> \in R})
         /\ \A i \in 1 .. Cardinality(S) :
              \E a \in S : Cardinality({b \in S : <<b, a>> \in R}) = i - 1
<1>. DEFINE before(a) == {b \in S : <<b, a>> \in R}
            n == Cardinality(S)
            rank == [a \in S |-> Cardinality(before(a))]
            T == {rank[a] : a \in S}
<1>1. n \in Nat
  BY FS_CardinalityType
<1>2. \A a \in S : /\ before(a) \subseteq S /\ a \notin before(a) /\ IsFiniteSet(before(a))
                   /\ Cardinality(before(a)) \in Nat /\ rank[a] = Cardinality(before(a))
  BY FS_Subset, FS_CardinalityType
<1>3. ASSUME NEW a \in S
      PROVE  rank[a] \in Nat /\ rank[a] <= n /\ rank[a] # n
  BY <1>2, FS_Subset
<1>4. ASSUME NEW a \in S, NEW b \in S, <<a, b>> \in R
      PROVE  rank[a] <= rank[b] /\ rank[a] # rank[b]
  <2>1. before(a) \subseteq before(b) /\ a \in before(b) /\ a \notin before(a)
    BY <1>4
  <2>2. Cardinality(before(a)) <= Cardinality(before(b))
    BY <1>2, <2>1, FS_Subset
  <2>3. Cardinality(before(a)) # Cardinality(before(b))
    BY <1>2, <2>1, FS_Subset
  <2>. QED BY <1>2, <2>2, <2>3
<1>5. \A a, b \in S : rank[a] = rank[b] => a = b
  <2>. HIDE DEF rank
  <2>. QED BY <1>4
<1>6. rank \in Surjection(S, T) /\ rank \in Injection(S, T)
  BY <1>5 DEF Surjection, Injection, IsInjective
<1>7. Cardinality(T) = n
  BY <1>6, FS_Surjection, FS_Injection, FS_CardinalityType
<1>8. IsFiniteSet(0 .. n - 1) /\ Cardinality(0 .. n - 1) = n
  <2>. HIDE DEF n
  <2>. QED BY <1>1, FS_Interval
<1>9. \A a \in S : rank[a] \in 0 .. n - 1
  <2>. HIDE DEF rank, n
  <2>. QED BY <1>1, <1>3
<1>10. T = 0 .. n - 1
  <2>1. T \subseteq 0 .. n - 1
    <3>. HIDE DEF rank, n
    <3>. QED BY <1>9
  <2>. QED BY <1>7, <1>8, <2>1, FS_Subset
<1>11. \A i \in 1 .. n : \E a \in S : rank[a] = i - 1
  <2>1. ASSUME NEW i \in 1 .. n PROVE \E a \in S : rank[a] = i - 1
    <3>1. i - 1 \in 0 .. n - 1
      <4>. HIDE DEF n
      <4>. QED BY <1>1
    <3>2. i - 1 \in T
      BY <1>10, <3>1
    <3>. QED BY <3>2
  <2>. QED BY <2>1
<1>12. \A a, b \in S : <<a, b>> \in R => rank[a] < rank[b]
  <2>. HIDE DEF rank, n
  <2>. QED BY <1>3, <1>4
<1>13. \A a \in S : rank[a] = Cardinality(before(a))
  OBVIOUS
<1>. HIDE DEF rank
<1>14. \A a \in S : Cardinality(before(a)) \in 0 .. n - 1
  BY <1>9, <1>13, Zenon
<1>15. \A a, b \in S : <<a, b>> \in R => Cardinality(before(a)) < Cardinality(before(b))
  <2>1. ASSUME NEW a \in S, NEW b \in S, <<a, b>> \in R
        PROVE  Cardinality(before(a)) < Cardinality(before(b))
    <3>1. rank[a] < rank[b]
      BY <1>12, <2>1
    <3>2. rank[a] = Cardinality(before(a)) /\ rank[b] = Cardinality(before(b))
      BY <1>13
    <3>. QED BY <3>1, <3>2, Zenon
  <2>. QED BY <2>1, Zenon
<1>16. \A i \in 1 .. n : \E a \in S : Cardinality(before(a)) = i - 1
  BY <1>11, <1>13, Zenon
<1>. QED BY <1>1, <1>14, <1>15, <1>16, Zenon

\* A finite set of numbers has a greatest and a least one.
LEMMA Extremes ==
  ASSUME NEW S, S \subseteq Int, IsFiniteSet(S), S # {}
  PROVE  /\ Max(S) \in S /\ \A i \in S : i <= Max(S)
         /\ Min(S) \in S /\ \A i \in S : Min(S) <= i
<1>. DEFINE R == {pair \in S \X S : pair[1] < pair[2]}
            n == Cardinality(S)
            before(a) == {b \in S : <<b, a>> \in R}
<1>0. \A a, b \in S : (~(a < b) => b =< a) /\ (a = b \/ a < b => b >= a)
  OBVIOUS
<1>1. \A a, b \in S : <<a, b>> \in R <=> a < b
  OBVIOUS
<1>2. \A a \in S : <<a, a>> \notin R
  BY <1>1
<1>3. \A a, b, c \in S : <<a, b>> \in R /\ <<b, c>> \in R => <<a, c>> \in R
  BY <1>1
<1>4. \A a, b \in S : a # b => <<a, b>> \in R \/ <<b, a>> \in R
  BY <1>1
<1>. HIDE DEF R
<1>5. n \in Nat /\ n # 0
  BY FS_CardinalityType, FS_EmptySet
<1>6. \A i \in 1 .. n : \E a \in S : Cardinality(before(a)) = i - 1
  BY <1>2, <1>3, <1>4, Ranks
<1>7. \A a \in S : before(a) \subseteq S /\ IsFiniteSet(before(a)) /\ a \notin before(a)
  BY <1>2, FS_Subset
<1>8. \E x \in S : \A y \in S : x >= y
  <2>1. PICK a \in S : Cardinality(before(a)) = n - 1
    BY <1>5, <1>6
  <2>2. IsFiniteSet(S \ {a}) /\ Cardinality(S \ {a}) = n - 1
    BY FS_RemoveElement
  <2>3. before(a) \subseteq S \ {a}
    BY <1>7
  <2>4. before(a) = S \ {a}
    BY <2>1, <2>2, <2>3, FS_Subset
  <2>5. ASSUME NEW y \in S PROVE a >= y
    <3>1. y = a \/ y < a
      BY <1>1, <2>4
    <3>. QED BY <3>1, <1>0
  <2>. QED BY <2>5
<1>9. \E x \in S : \A y \in S : x =< y
  <2>1. PICK a \in S : Cardinality(before(a)) = 0
    BY <1>5, <1>6
  <2>2. before(a) = {}
    BY <1>7, <2>1, FS_EmptySet
  <2>3. \A y \in S : a =< y
    <3>1. \A y \in S : <<y, a>> \notin R
      BY <2>2
    <3>2. ASSUME NEW y \in S PROVE a =< y
      <4>1. ~(y < a)
        BY <1>1, <3>1
      <4>. QED BY <4>1, <1>0
    <3>. QED BY <3>2
  <2>. QED BY <2>3
<1>10. Max(S) \in S /\ \A y \in S : Max(S) >= y
  BY <1>8, Zenon DEF Max
<1>11. Min(S) \in S /\ \A y \in S : Min(S) =< y
  BY <1>9, Zenon DEF Min
<1>. QED BY <1>10, <1>11
-----------------------------------------------------------------------------
\* What there is in a call.
LEMMA CallFields ==
  ASSUME NEW c \in Call
  PROVE  /\ c.stage \in {"idle", "create", "update"} /\ c.overtaken \in BOOLEAN
         /\ c.stage = "update" => c.id \in Id /\ c.row \in Row
         /\ c.stage # "update" => c.order \in Nat
<1>1. CASE c \in [stage : {"idle", "create"}, order : Nat, overtaken : BOOLEAN]
  BY <1>1
<1>2. CASE c \in [stage : {"update"}, id : Id, row : Row, overtaken : BOOLEAN]
  BY <1>2
<1>. QED BY <1>1, <1>2 DEF Call

\* A call that is overtaken remains what it is.
LEMMA OvertakenCall ==
  ASSUME NEW c \in Call, NEW d, d = [c EXCEPT !.overtaken = TRUE]
  PROVE  /\ d \in Call /\ d.stage = c.stage /\ d.overtaken
         /\ c.stage = "update" => d.id = c.id /\ d.row = c.row
<1>1. CASE c \in [stage : {"idle", "create"}, order : Nat, overtaken : BOOLEAN]
  BY <1>1 DEF Call
<1>2. CASE c \in [stage : {"update"}, id : Id, row : Row, overtaken : BOOLEAN]
  BY <1>2 DEF Call
<1>. QED BY <1>1, <1>2 DEF Call

\* Nothing has been read yet by a handler that is idle.
LEMMA IdleCall == Idle \in Call /\ Idle.stage = "idle"
BY DEF Idle, Call

\* A live action has a row.
LEMMA LiveRows ==
  ASSUME TypeOK
  PROVE  /\ Live \subseteq Id
         /\ \A a \in Live : rows[a] \in Row /\ rows[a].order \in Nat
BY DEF TypeOK, Live, Row

\* NextActionSortOrder is beyond every action there is.
LEMMA NextIsBeyond ==
  ASSUME TypeOK
  PROVE  /\ NextActionSortOrder \in Nat
         /\ \A a \in Live : rows[a].order < NextActionSortOrder
<1>. DEFINE positions == {rows[a].order : a \in Live}
            S == positions \cup {-1}
<1>1. \A a \in Live : rows[a].order \in Nat
  BY LiveRows
<1>2. IsFiniteSet(Live)
  <2>1. Live \subseteq 1 .. Actions /\ Actions \in Nat
    BY LiveRows, ActionOrderAssumption DEF Id
  <2>. QED BY <2>1, UpTo, FS_Subset
<1>3. IsFiniteSet(S) /\ S \subseteq Int /\ -1 \in S
  <2>1. IsFiniteSet(positions)
    <3>. DEFINE position == [a \in Live |-> rows[a].order]
    <3>1. position \in Surjection(Live, positions)
      BY DEF Surjection
    <3>. QED BY <1>2, <3>1, FS_Surjection
  <2>2. positions \subseteq Nat
    BY <1>1
  <2>3. IsFiniteSet(S)
    <3>. HIDE DEF positions
    <3>. QED BY <2>1, FS_AddElement
  <2>4. S \subseteq Int
    <3>. HIDE DEF positions
    <3>. QED BY <2>2
  <2>. QED BY <2>3, <2>4
<1>4. \A a \in Live : rows[a].order \in S
  OBVIOUS
<1>. HIDE DEF S
<1>5. Max(S) \in Int /\ \A i \in S : i <= Max(S)
  BY <1>3, Extremes
<1>6. NextActionSortOrder = Max(S) + 1
  BY Zenon DEF NextActionSortOrder, S
<1>. HIDE DEF NextActionSortOrder
<1>. QED BY <1>1, <1>3, <1>4, <1>5, <1>6

\* The mentions of an action in a list are finitely many places in it, and its
\* place is the last of them.
LEMMA LastPlace ==
  ASSUME NEW ids \in Seq(Id), NEW a, Positions(ids, a) # {}
  PROVE  /\ Placed(ids, a) \in 0 .. Len(ids) - 1
         /\ ids[Placed(ids, a) + 1] = a
         /\ \A i \in Positions(ids, a) : i - 1 <= Placed(ids, a)
<1>. DEFINE S == Positions(ids, a)
<1>1. Len(ids) \in Nat /\ S \subseteq 1 .. Len(ids) /\ \A i \in S : ids[i] = a
  BY DEF Positions
<1>2. IsFiniteSet(S) /\ S \subseteq Int
  BY <1>1, UpTo, FS_Subset
<1>. HIDE DEF S
<1>3. Max(S) \in S /\ \A i \in S : i <= Max(S)
  BY <1>2, Extremes DEF S
<1>4. Placed(ids, a) = Max(S) - 1
  BY Zenon DEF Placed, S
<1>5. Max(S) \in 1 .. Len(ids)
  BY <1>1, <1>3
<1>6. \A i \in S : i - 1 <= Max(S) - 1
  BY <1>1, <1>3, <1>5
<1>. QED BY <1>1, <1>3, <1>4, <1>5, <1>6 DEF S

\* What a reorder reaches is there.
LEMMA FoundLive ==
  ASSUME NEW ids \in Seq(Id)
  PROVE  /\ Found(ids) \in Seq(Id)
         /\ \A i \in 1 .. Len(Found(ids)) : Found(ids)[i] \in Live
<1>. DEFINE missing == {i \in 1 .. Len(ids) : ids[i] \notin Live}
            m == IF missing = {} THEN Len(ids) ELSE Min(missing) - 1
<1>1. Len(ids) \in Nat /\ IsFiniteSet(missing) /\ missing \subseteq Int
  BY UpTo, FS_Subset
<1>2. m \in 0 .. Len(ids) /\ \A i \in 1 .. m : ids[i] \in Live
  <2>1. CASE missing = {}
    BY <1>1, <2>1
  <2>2. CASE missing # {}
    <3>1. Min(missing) \in missing /\ \A i \in missing : Min(missing) <= i
      BY <1>1, <2>2, Extremes
    <3>2. Min(missing) \in 1 .. Len(ids)
      BY <3>1
    <3>3. m = Min(missing) - 1
      BY <2>2
    <3>4. \A i \in 1 .. Len(ids) : i < Min(missing) => i \notin missing
      BY <1>1, <3>1, <3>2
    <3>5. \A i \in 1 .. Len(ids) : i \notin missing => ids[i] \in Live
      OBVIOUS
    <3>. HIDE DEF missing, m
    <3>. QED BY <1>1, <3>2, <3>3, <3>4, <3>5
  <2>. QED BY <2>1, <2>2
<1>3. Found(ids) = SubSeq(ids, 1, m)
  BY Zenon DEF Found
<1>. HIDE DEF m
<1>4. /\ SubSeq(ids, 1, m) \in Seq(Id) /\ Len(SubSeq(ids, 1, m)) = m
      /\ \A i \in 1 .. m : SubSeq(ids, 1, m)[i] = ids[i]
  BY <1>1, <1>2, SubSeqProperties
<1>. QED BY <1>2, <1>3, <1>4

\* An action that a list puts before another gets the lesser position.
LEMMA AskedIsPlaced ==
  ASSUME NEW ids \in Seq(Id), NEW a, NEW b, <<a, b>> \in AskedBy(ids)
  PROVE  /\ Positions(ids, a) # {} /\ Positions(ids, b) # {}
         /\ Placed(ids, a) < Placed(ids, b)
<1>1. PICK i \in 1 .. Len(ids), j \in 1 .. Len(ids) :
        i < j /\ ids[i] = a /\ ids[j] = b /\ \A k \in j .. Len(ids) : ids[k] # a
  BY DEF AskedBy
<1>2. i \in Positions(ids, a) /\ j \in Positions(ids, b)
  BY <1>1 DEF Positions
<1>3. /\ Placed(ids, a) \in 0 .. Len(ids) - 1 /\ ids[Placed(ids, a) + 1] = a
      /\ Placed(ids, b) \in 0 .. Len(ids) - 1 /\ j - 1 <= Placed(ids, b)
  BY <1>2, LastPlace
<1>4. Len(ids) \in Nat
  OBVIOUS
<1>5. ~(Placed(ids, a) + 1 \in j .. Len(ids))
  BY <1>1, <1>3
<1>. QED BY <1>1, <1>2, <1>3, <1>4, <1>5
-----------------------------------------------------------------------------
\* A handler trusts nothing it read before another edit of a position.
Distrusts(calls) ==
  /\ calls \in [Handler -> Call]
  /\ \A g \in Handler :
       \/ calls[g].stage = "idle"
       \/ /\ calls[g].overtaken /\ calls[g].stage = call[g].stage
          /\ call[g].stage = "update" => calls[g].id = call[g].id

\* What an edit does to the other handlers.
LEMMA AllOvertaken ==
  ASSUME TypeOK
  PROVE  /\ \A h \in Handler : Distrusts(Overtake(h))
         /\ Distrusts([h \in Handler |-> IF At(h, "idle") THEN call[h]
                                         ELSE [call[h] EXCEPT !.overtaken = TRUE]])
<1>. DEFINE over(g) == [call[g] EXCEPT !.overtaken = TRUE]
<1>1. \A g \in Handler :
        /\ call[g] \in Call /\ over(g) \in Call /\ over(g).stage = call[g].stage /\ over(g).overtaken
        /\ call[g].stage = "update" => over(g).id = call[g].id
  <2>1. ASSUME NEW g \in Handler
        PROVE  /\ over(g) \in Call /\ over(g).stage = call[g].stage /\ over(g).overtaken
               /\ call[g].stage = "update" => over(g).id = call[g].id
    <3>1. call[g] \in Call
      BY DEF TypeOK
    <3>. QED BY <3>1, OvertakenCall
  <2>2. \A g \in Handler : call[g] \in Call
    BY DEF TypeOK
  <2>. QED BY <2>1, <2>2
<1>. HIDE DEF over
<1>2. ASSUME NEW h \in Handler
      PROVE  Distrusts([g \in Handler |-> IF g = h THEN Idle ELSE IF At(g, "idle") THEN call[g]
                                          ELSE over(g)])
  BY <1>1, IdleCall DEF Distrusts, At
<1>3. Distrusts([h \in Handler |-> IF At(h, "idle") THEN call[h] ELSE over(h)])
  BY <1>1 DEF Distrusts, At
<1>4. \A h \in Handler : Distrusts(Overtake(h))
  BY <1>2 DEF Overtake, over
<1>. QED BY <1>3, <1>4 DEF over
-----------------------------------------------------------------------------
\* At first no handler holds anything and nothing has been asked.
LEMMA InvInit == Init => Inv
<1>. SUFFICES ASSUME Init PROVE Inv
  OBVIOUS
<1>1. PICK kind \in [Id -> Kind] :
        rows = [a \in Id |-> IF a > created THEN NoRow ELSE
                  [kind |-> kind[a], enabled |-> TRUE, order |-> a - 1]]
  BY DEF Init
<1>2. created \in 0 .. Actions /\ Actions \in Nat /\ Edits \in Nat
  BY ActionOrderAssumption DEF Init
<1>3. call \in [Handler -> Call] /\ \A h \in Handler : call[h].stage = "idle"
  BY IdleCall DEF Init
<1>4. \A a \in Id : rows[a] \in Row \cup {NoRow}
  <2>1. \A a \in Id : kind[a] \in Kind /\ a - 1 \in Nat
    BY DEF Id
  <2>. QED BY <1>1, <2>1 DEF Row
<1>5. \A a \in Id : rows[a] # NoRow => a <= created
  BY <1>1, <1>2 DEF Id
<1>6. TypeOK
  BY <1>1, <1>2, <1>3, <1>4 DEF TypeOK, Init
<1>7. Sound(rows, created, call, asked)
  BY <1>3, <1>5 DEF Sound, Init
<1>. QED BY <1>6, <1>7 DEF Inv

\* A handler that begins to create an action has the position beyond all others.
LEMMA BeginCreateInv ==
  ASSUME Inv, NEW h \in Handler, BeginCreate(h)
  PROVE  Inv'
<1>. DEFINE c == [stage |-> "create", order |-> NextActionSortOrder, overtaken |-> FALSE]
<1>1. TypeOK /\ Sound(rows, created, call, asked)
  BY DEF Inv
<1>2. /\ NextActionSortOrder \in Nat
      /\ \A a \in Id : rows[a] # NoRow => rows[a].order < NextActionSortOrder
  BY <1>1, NextIsBeyond DEF Live
<1>3. c \in Call /\ c.stage = "create" /\ c.order = NextActionSortOrder
  BY <1>2 DEF Call
<1>. HIDE DEF c
<1>4. call' \in [Handler -> Call] /\ \A g \in Handler : call'[g] = IF g = h THEN c ELSE call[g]
  BY <1>1, <1>3 DEF BeginCreate, TypeOK, c
<1>5. UNCHANGED <<rows, created, edits, asked>>
  BY DEF BeginCreate
<1>6. TypeOK'
  BY <1>1, <1>4, <1>5 DEF TypeOK
<1>7. Sound(rows, created, call', asked)
  BY <1>1, <1>2, <1>3, <1>4 DEF Sound
<1>. QED BY <1>5, <1>6, <1>7 DEF Inv, Sound

\* A handler that begins to update an action has the row that is there.
LEMMA BeginUpdateInv ==
  ASSUME Inv, NEW h \in Handler, NEW a \in Id, BeginUpdate(h, a)
  PROVE  Inv'
<1>. DEFINE c == [stage |-> "update", id |-> a, row |-> rows[a], overtaken |-> FALSE]
<1>1. TypeOK /\ Sound(rows, created, call, asked)
  BY DEF Inv
<1>2. rows[a] # NoRow /\ rows[a] \in Row /\ a <= created
  BY <1>1, LiveRows DEF BeginUpdate, Live, Sound
<1>3. c \in Call /\ c.stage = "update" /\ c.id = a /\ c.row = rows[a]
  BY <1>2 DEF Call
<1>. HIDE DEF c
<1>4. call' \in [Handler -> Call] /\ \A g \in Handler : call'[g] = IF g = h THEN c ELSE call[g]
  BY <1>1, <1>3 DEF BeginUpdate, TypeOK, c
<1>5. UNCHANGED <<rows, created, edits, asked>>
  BY DEF BeginUpdate
<1>6. TypeOK'
  BY <1>1, <1>4, <1>5 DEF TypeOK
<1>7. Sound(rows, created, call', asked)
  BY <1>1, <1>2, <1>3, <1>4 DEF Sound
<1>. QED BY <1>5, <1>6, <1>7 DEF Inv, Sound

\* A handler that is given up holds nothing.
LEMMA GiveUpInv ==
  ASSUME Inv, NEW h \in Handler, GiveUp(h)
  PROVE  Inv'
<1>1. TypeOK /\ Sound(rows, created, call, asked)
  BY DEF Inv
<1>2. call' \in [Handler -> Call] /\ \A g \in Handler : call'[g] = IF g = h THEN Idle ELSE call[g]
  BY <1>1, IdleCall DEF GiveUp, TypeOK
<1>3. UNCHANGED <<rows, created, edits, asked>>
  BY DEF GiveUp
<1>4. TypeOK'
  BY <1>1, <1>2, <1>3 DEF TypeOK
<1>5. Sound(rows, created, call', asked)
  BY <1>1, <1>2, IdleCall DEF Sound
<1>. QED BY <1>3, <1>4, <1>5 DEF Inv, Sound
\* A deletion leaves to every handler what is true of the other rows.
LEMMA DeleteActionInv ==
  ASSUME Inv, NEW a \in Id, DeleteAction(a)
  PROVE  Inv'
<1>1. TypeOK /\ Sound(rows, created, call, asked)
  BY DEF Inv
<1>2. /\ rows' \in [Id -> Row \cup {NoRow}]
      /\ \A b \in Id : rows'[b] = IF b = a THEN NoRow ELSE rows[b]
  BY <1>1 DEF DeleteAction, TypeOK
<1>3. UNCHANGED <<created, call, asked>> /\ edits' \in 0 .. Edits
  BY <1>1, ActionOrderAssumption DEF DeleteAction, Edit, TypeOK
<1>4. TypeOK'
  BY <1>1, <1>2, <1>3 DEF TypeOK
<1>5. \A h \in Handler : call[h].stage = "update" => call[h].id \in Id
  BY <1>1, CallFields DEF TypeOK
<1>6. Sound(rows', created, call, asked)
  BY <1>1, <1>2, <1>5 DEF Sound
<1>. QED BY <1>3, <1>4, <1>6 DEF Inv, Sound

\* A new action has been asked nothing of, and overtakes everyone.
LEMMA CreateActionInv ==
  ASSUME Inv, NEW h \in Handler, NEW kind \in Kind, NEW enabled \in BOOLEAN,
         CreateAction(h, kind, enabled)
  PROVE  Inv'
<1>. DEFINE row == [kind |-> kind, enabled |-> enabled, order |-> call[h].order]
            n == created + 1
<1>1. TypeOK /\ Sound(rows, created, call, asked)
  BY DEF Inv
<1>2. created \in Nat /\ n \in Id /\ created' = n /\ n \in 0 .. Actions
  BY <1>1, ActionOrderAssumption DEF CreateAction, TypeOK, Id
<1>3. row \in Row
  <2>1. call[h] \in Call /\ call[h].stage = "create"
    BY <1>1 DEF CreateAction, At, TypeOK
  <2>2. call[h].order \in Nat
    BY <2>1, CallFields
  <2>. QED BY <2>2 DEF Row
<1>. HIDE DEF row
<1>4. /\ rows' \in [Id -> Row \cup {NoRow}]
      /\ \A b \in Id : rows'[b] = IF b = n THEN row ELSE rows[b]
  BY <1>1, <1>2, <1>3 DEF CreateAction, TypeOK, row
<1>5. asked' = asked /\ edits' \in 0 .. Edits
  BY <1>1, ActionOrderAssumption DEF CreateAction, Edit, TypeOK
<1>6. Distrusts(call')
  BY <1>1, AllOvertaken DEF CreateAction
<1>7. TypeOK'
  BY <1>1, <1>2, <1>4, <1>5, <1>6 DEF TypeOK, Distrusts
<1>8. Sound(rows', n, call', asked)
  <2>1. \A b \in Id : rows'[b] # NoRow => b <= n
    BY <1>1, <1>2, <1>4 DEF Sound, Id
  <2>2. asked \subseteq (1 .. created) \X (1 .. created)
    BY <1>1 DEF Sound
  <2>3. asked \subseteq (1 .. n) \X (1 .. n)
    BY <1>2, <2>2
  <2>4. \A g \in Handler : call'[g].stage = "update" => call'[g].id <= n
    <3>1. \A g \in Handler : call[g].stage = "update" => call[g].id \in Id /\ call[g].id <= created
      BY <1>1, CallFields DEF TypeOK, Sound
    <3>2. ASSUME NEW g \in Handler, call'[g].stage = "update"
          PROVE  call[g].stage = "update" /\ call'[g].id = call[g].id
      BY <1>6, <3>2 DEF Distrusts
    <3>. QED BY <1>2, <3>1, <3>2 DEF Id
  <2>5. \A g \in Handler : call'[g].overtaken \/ call'[g].stage = "idle"
    BY <1>6 DEF Distrusts
  <2>6. ASSUME NEW a \in Id, NEW b \in Id, rows'[a] # NoRow, rows'[b] # NoRow, <<a, b>> \in asked
        PROVE  rows'[a].order < rows'[b].order
    <3>1. a # n /\ b # n
      BY <1>2, <2>2, <2>6
    <3>. QED BY <1>1, <1>4, <2>6, <3>1 DEF Sound
  <2>. QED BY <2>1, <2>3, <2>4, <2>5, <2>6 DEF Sound
<1>. QED BY <1>2, <1>5, <1>7, <1>8 DEF Inv, Sound

\* What an update writes is a row at the position it has read.
LEMMA SavedRow ==
  ASSUME NEW old \in Row, NEW kind \in Kind, NEW enabled \in BOOLEAN
  PROVE  Saved(old, kind, enabled) \in Row /\ Saved(old, kind, enabled).order = old.order
BY DEF Saved, Row

\* An update keeps the position of the action unless it was overtaken, and then
\* nothing is asked of the action any more.
LEMMA UpdateActionInv ==
  ASSUME Inv, NEW h \in Handler, NEW kind \in Kind, NEW enabled \in BOOLEAN,
         UpdateAction(h, kind, enabled)
  PROVE  Inv'
<1>. DEFINE a == call[h].id
            row == Saved(call[h].row, kind, enabled)
<1>1. TypeOK /\ Sound(rows, created, call, asked)
  BY DEF Inv
<1>2. call[h] \in Call /\ call[h].stage = "update"
  BY <1>1 DEF UpdateAction, At, TypeOK
<1>3. a \in Id /\ call[h].row \in Row /\ call[h].overtaken \in BOOLEAN
  BY <1>2, CallFields
<1>4. row \in Row /\ row.order = call[h].row.order
  BY <1>3, SavedRow
<1>5. created' = created /\ edits' \in 0 .. Edits /\ rows' = Written(a, row)
  BY <1>1, ActionOrderAssumption DEF UpdateAction, Edit, TypeOK
<1>6. asked' = IF call[h].overtaken THEN Without(a) ELSE asked
  BY DEF UpdateAction
<1>7. call' = IF a \in Live THEN Overtake(h) ELSE [call EXCEPT ![h] = Idle]
  BY DEF UpdateAction
<1>. HIDE DEF a, row
<1>8. /\ rows' \in [Id -> Row \cup {NoRow}]
      /\ \A b \in Id : rows'[b] = IF b = a /\ rows[b] # NoRow THEN row ELSE rows[b]
  BY <1>1, <1>3, <1>4, <1>5 DEF Written, TypeOK, Live
<1>9. asked' \subseteq asked
  BY <1>6 DEF Without
<1>10. \/ Distrusts(call') /\ rows[a] # NoRow
       \/ /\ rows[a] = NoRow /\ call' \in [Handler -> Call]
          /\ \A g \in Handler : call'[g] = IF g = h THEN Idle ELSE call[g]
  <2>1. CASE a \in Live
    BY <1>1, <1>7, <2>1, AllOvertaken DEF Live
  <2>2. CASE a \notin Live
    BY <1>1, <1>3, <1>7, <2>2, IdleCall DEF Live, TypeOK
  <2>. QED BY <2>1, <2>2
<1>11. TypeOK'
  BY <1>1, <1>5, <1>8, <1>9, <1>10 DEF TypeOK, Distrusts
<1>12. \A g \in Handler : /\ call'[g].stage = "update" => call'[g].id <= created
                          /\ \/ call'[g].overtaken \/ call'[g].stage = "idle"
                             \/ rows' = rows /\ call'[g] = call[g]
  <2>1. \A g \in Handler : call[g].stage = "update" => call[g].id <= created
    BY <1>1 DEF Sound
  <2>2. CASE Distrusts(call')
    BY <2>1, <2>2 DEF Distrusts
  <2>3. CASE rows[a] = NoRow /\ \A g \in Handler : call'[g] = IF g = h THEN Idle ELSE call[g]
    <3>1. rows' = rows
      BY <1>1, <1>8, <2>3 DEF TypeOK
    <3>. QED BY <2>1, <2>3, <3>1, IdleCall
  <2>. QED BY <1>10, <2>2, <2>3
<1>13. ASSUME NEW b \in Id, NEW c \in Id, rows'[b] # NoRow, rows'[c] # NoRow, <<b, c>> \in asked'
       PROVE  rows'[b].order < rows'[c].order
  <2>1. rows[b] # NoRow /\ rows[c] # NoRow
    BY <1>8, <1>13
  <2>2. rows[b].order < rows[c].order
    BY <1>1, <1>9, <1>13, <2>1 DEF Sound
  <2>3. CASE call[h].overtaken
    <3>1. b # a /\ c # a
      BY <1>6, <1>13, <2>3 DEF Without
    <3>. QED BY <1>8, <2>2, <3>1
  <2>4. CASE ~call[h].overtaken
    <3>1. rows[a] # NoRow => rows[a] = call[h].row
      BY <1>1, <1>2, <2>4 DEF Sound, a
    <3>2. \A d \in Id : rows[d] # NoRow => rows'[d].order = rows[d].order
      BY <1>4, <1>8, <3>1
    <3>. QED BY <2>1, <2>2, <3>2
  <2>. QED BY <1>3, <2>3, <2>4
<1>14. \A b \in Id : rows'[b] # NoRow => b <= created
  BY <1>1, <1>8 DEF Sound
<1>15. Sound(rows', created, call', asked')
  BY <1>1, <1>9, <1>12, <1>13, <1>14 DEF Sound
<1>. QED BY <1>5, <1>11, <1>15 DEF Inv, Sound
\* A reorder gives every action it reaches the place of its last mention.
LEMMA ReorderActionsInv ==
  ASSUME Inv, NEW ids \in Seq(Id), ReorderActions(ids)
  PROVE  Inv'
<1>. DEFINE found == Found(ids)
<1>1. TypeOK /\ Sound(rows, created, call, asked)
  BY DEF Inv
<1>2. found \in Seq(Id) /\ \A i \in 1 .. Len(found) : found[i] \in Live
  BY FoundLive
<1>3. /\ rows' = [a \in Id |-> IF Positions(found, a) = {} THEN rows[a]
                                ELSE [rows[a] EXCEPT !.order = Placed(found, a)]]
      /\ asked' = AskedBy(found)
  BY Zenon DEF ReorderActions
<1>4. created' = created /\ edits' \in 0 .. Edits
  BY <1>1, ActionOrderAssumption DEF ReorderActions, Edit, TypeOK
<1>5. Distrusts(call')
  BY <1>1, AllOvertaken DEF ReorderActions
<1>. HIDE DEF found
<1>6. ASSUME NEW a \in Id, Positions(found, a) # {}
      PROVE  /\ rows[a] # NoRow /\ a <= created
             /\ rows'[a] \in Row /\ rows'[a].order = Placed(found, a)
  <2>1. Placed(found, a) \in 0 .. Len(found) - 1 /\ found[Placed(found, a) + 1] = a
    BY <1>2, <1>6, LastPlace
  <2>2. Placed(found, a) \in Nat /\ Placed(found, a) + 1 \in 1 .. Len(found)
    BY <1>2, <2>1
  <2>3. a \in Live /\ rows[a] \in Row
    BY <1>1, <1>2, <2>1, <2>2, LiveRows
  <2>4. rows'[a] = [rows[a] EXCEPT !.order = Placed(found, a)]
    BY <1>3, <1>6
  <2>. HIDE DEF Placed
  <2>5. rows'[a] \in Row /\ rows'[a].order = Placed(found, a)
    BY <2>2, <2>3, <2>4 DEF Row
  <2>. QED BY <1>1, <2>3, <2>5 DEF Live, Sound
<1>7. \A a \in Id : Positions(found, a) = {} => rows'[a] = rows[a]
  BY <1>3
<1>8. rows' \in [Id -> Row \cup {NoRow}]
  <2>1. \A a \in Id : rows'[a] \in Row \cup {NoRow}
    BY <1>1, <1>6, <1>7 DEF TypeOK
  <2>. QED BY <1>3, <2>1
<1>9. ASSUME NEW a, NEW b, <<a, b>> \in asked'
      PROVE  /\ a \in Id /\ b \in Id /\ Positions(found, a) # {} /\ Positions(found, b) # {}
             /\ Placed(found, a) < Placed(found, b)
  BY <1>2, <1>3, <1>9, AskedIsPlaced DEF AskedBy
<1>10. asked' \subseteq Id \X Id
  BY <1>3 DEF AskedBy
<1>11. TypeOK'
  BY <1>1, <1>4, <1>5, <1>8, <1>10 DEF TypeOK, Distrusts
<1>12. asked' \subseteq (1 .. created) \X (1 .. created)
  <2>1. created \in Nat /\ Id \subseteq Int /\ \A a \in Id : 1 <= a
    BY <1>1, ActionOrderAssumption DEF TypeOK, Id
  <2>2. ASSUME NEW a \in Id, NEW b \in Id, <<a, b>> \in asked'
        PROVE  a \in 1 .. created /\ b \in 1 .. created
    <3>1. a <= created /\ b <= created
      BY <1>6, <1>9, <2>2
    <3>. QED BY <2>1, <3>1
  <2>. QED BY <1>10, <2>2
<1>13. ASSUME NEW a \in Id, NEW b \in Id, <<a, b>> \in asked'
       PROVE  rows'[a].order < rows'[b].order
  BY <1>6, <1>9, <1>13
<1>14. \A a \in Id : rows'[a] # NoRow => a <= created
  <2>1. \A a \in Id : rows[a] # NoRow => a <= created
    BY <1>1 DEF Sound
  <2>. QED BY <1>6, <1>7, <2>1
<1>15. \A g \in Handler : /\ call'[g].stage = "update" => call'[g].id <= created
                          /\ call'[g].overtaken \/ call'[g].stage = "idle"
  BY <1>1, <1>5 DEF Distrusts, Sound
<1>16. Sound(rows', created, call', asked')
  BY <1>12, <1>13, <1>14, <1>15 DEF Sound
<1>. QED BY <1>4, <1>11, <1>16 DEF Inv, Sound

\* The steps, one for each operation.
LEMMA NextSteps ==
  Next => \/ \E h \in Handler : BeginCreate(h) \/ GiveUp(h)
          \/ \E h \in Handler, kind \in Kind, enabled \in BOOLEAN :
               CreateAction(h, kind, enabled) \/ UpdateAction(h, kind, enabled)
          \/ \E h \in Handler, a \in Id : BeginUpdate(h, a)
          \/ \E a \in Id : DeleteAction(a)
          \/ \E ids \in Seq(Id) : ReorderActions(ids)
<1>1. BoundedSeq(Id, Actions) \subseteq Seq(Id)
  BY ActionOrderAssumption DEF BoundedSeq, SeqOf
<1>. QED BY <1>1, Zenon DEF Next

\* Every step keeps the invariant.
LEMMA InvStep == Inv /\ [Next]_vars => Inv'
<1>. SUFFICES ASSUME Inv, [Next]_vars PROVE Inv'
  OBVIOUS
<1>1. CASE Next
  <2>1. CASE \E h \in Handler : BeginCreate(h) \/ GiveUp(h)
    BY <2>1, BeginCreateInv, GiveUpInv
  <2>2. CASE \E h \in Handler, kind \in Kind, enabled \in BOOLEAN :
               CreateAction(h, kind, enabled) \/ UpdateAction(h, kind, enabled)
    BY <2>2, CreateActionInv, UpdateActionInv
  <2>3. CASE \E h \in Handler, a \in Id : BeginUpdate(h, a)
    BY <2>3, BeginUpdateInv
  <2>4. CASE \E a \in Id : DeleteAction(a)
    BY <2>4, DeleteActionInv
  <2>5. CASE \E ids \in Seq(Id) : ReorderActions(ids)
    BY <2>5, ReorderActionsInv
  <2>. QED BY <1>1, <2>1, <2>2, <2>3, <2>4, <2>5, NextSteps
<1>2. CASE UNCHANGED vars
  BY <1>2 DEF vars, Inv, TypeOK, Sound
<1>. QED BY <1>1, <1>2

\* What handlers hold stays true of the table, or they know that they were
\* overtaken, however their statements are mixed (api/actions.go, store/actions.go).
THEOREM SafeOrder == Spec => []Inv
<1>. QED BY InvInit, InvStep, PTL DEF Spec

\* The table, the handlers and what was asked of them have their types, and no
\* position is ever negative (NextActionSortOrder, ReorderActions).
THEOREM TypeCorrect == Spec => []TypeOK
<1>1. Inv => TypeOK
  BY DEF Inv
<1>. QED BY <1>1, SafeOrder, PTL

\* The order that a reorder gave to the actions it reached stands until it is
\* asked for another one, whatever is created, deleted and updated meanwhile:
\* only an update that was overtaken between its two statements can undo it.
THEOREM ReordersStand == Spec => []ReorderStands
<1>1. Inv => ReorderStands
  BY DEF Inv, Sound, ReorderStands, Live
<1>. QED BY <1>1, SafeOrder, PTL

\* A creation that nobody overtakes puts its action after all that are there,
\* for any history of deletions, moves and ties.
THEOREM CreatedLast == Spec => NewestLast
<1>. DEFINE EndsUpLast(h) ==
       /\ created' > created
       /\ At(h, "create") /\ call'[h] = Idle
       /\ ~call[h].overtaken
       => \A a \in Live : rows[a].order < rows'[created'].order
<1>1. ASSUME Inv, [Next]_vars, NEW h \in Handler PROVE EndsUpLast(h)
  <2>. SUFFICES ASSUME created' > created, At(h, "create"), call'[h] = Idle, ~call[h].overtaken,
                       NEW a \in Live
                PROVE  rows[a].order < rows'[created'].order
    OBVIOUS
  <2>1. TypeOK /\ Sound(rows, created, call, asked) /\ created \in Int
    BY <1>1, ActionOrderAssumption DEF Inv, TypeOK
  <2>2. PICK g \in Handler, kind \in Kind, enabled \in BOOLEAN : CreateAction(g, kind, enabled)
    <3>1. Next
      BY <1>1, <2>1 DEF vars
    <3>. QED BY <2>1, <3>1, NextSteps
             DEF BeginCreate, GiveUp, UpdateAction, BeginUpdate, DeleteAction, ReorderActions
  <2>3. g = h
    BY <2>1, <2>2, OvertakenCall, IdleCall DEF CreateAction, Overtake, At, TypeOK
  <2>4. rows'[created'].order = call[h].order
    <3>1. created + 1 \in Id /\ created' = created + 1
      BY <2>1, <2>2, ActionOrderAssumption DEF CreateAction, TypeOK, Id
    <3>. QED BY <2>1, <2>2, <2>3, <3>1 DEF CreateAction, TypeOK
  <2>5. rows[a].order < call[h].order
    BY <2>1 DEF Sound, At, Live
  <2>. QED BY <2>4, <2>5
<1>2. Inv /\ [Next]_vars => [\A h \in Handler : EndsUpLast(h)]_vars
  BY <1>1
<1>. QED BY <1>2, SafeOrder, PTL DEF Spec, NewestLast
-----------------------------------------------------------------------------
\* The list that a table r stands for: the actions that are there, the order in
\* which they run, how many run before one, and which one has a given place.
Table == [Id -> Row \cup {NoRow}]

LiveIn(r) == {a \in Id : r[a] # NoRow}

Before(r, a, b) == \/ r[a].order < r[b].order
                   \/ r[a].order = r[b].order /\ a < b

Ahead(r, a) == {b \in LiveIn(r) : Before(r, b, a)}

AtPlace(r, i) == CHOOSE a \in LiveIn(r) : Cardinality(Ahead(r, a)) = i - 1

Shown(r, a) == [id |-> a, kind |-> r[a].kind, enabled |-> r[a].enabled]

Listing(r) == [i \in 1 .. Cardinality(LiveIn(r)) |-> Shown(r, AtPlace(r, i))]

\* Listed is the list of the table as it is, and as it will be.
LEMMA ListedIsListing == Listed = Listing(rows) /\ Listed' = Listing(rows')
<1>1. Listed = Listing(rows)
  BY Zenon DEF Listed, Listing, LiveIn, Live, Before, Ahead, AtPlace, Shown
<1>2. Listed' = Listing(rows')
  BY Zenon DEF Listed, Listing, LiveIn, Live, Before, Ahead, AtPlace, Shown
<1>. QED BY <1>1, <1>2

\* Every place of the list has one action, and every action one place.
LEMMA PlacesOf ==
  ASSUME NEW r \in Table
  PROVE  /\ IsFiniteSet(LiveIn(r)) /\ Cardinality(LiveIn(r)) \in Nat
         /\ \A i \in 1 .. Cardinality(LiveIn(r)) :
              AtPlace(r, i) \in LiveIn(r) /\ Cardinality(Ahead(r, AtPlace(r, i))) = i - 1
         /\ \A a \in LiveIn(r) :
              /\ Cardinality(Ahead(r, a)) + 1 \in 1 .. Cardinality(LiveIn(r))
              /\ AtPlace(r, Cardinality(Ahead(r, a)) + 1) = a
         /\ \A a, b \in LiveIn(r) :
              /\ Cardinality(Ahead(r, a)) = Cardinality(Ahead(r, b)) => a = b
              /\ Before(r, a, b) <=> Cardinality(Ahead(r, a)) < Cardinality(Ahead(r, b))
<1>. DEFINE S == LiveIn(r)
            R == {pair \in S \X S : Before(r, pair[1], pair[2])}
            n == Cardinality(S)
            rank(a) == Cardinality(Ahead(r, a))
<1>1. /\ Id = 1 .. Actions /\ Actions \in Nat /\ S \subseteq Id
      /\ \A a \in S : a \in Int /\ r[a].order \in Int
  BY ActionOrderAssumption DEF Id, LiveIn, Table, Row
<1>2. IsFiniteSet(S)
  BY <1>1, UpTo, FS_Subset
<1>3. \A a, b \in S : <<a, b>> \in R <=> Before(r, a, b)
  OBVIOUS
<1>4. \A a \in S : ~Before(r, a, a)
  BY <1>1 DEF Before
<1>5. \A a, b, c \in S : Before(r, a, b) /\ Before(r, b, c) => Before(r, a, c)
  BY <1>1 DEF Before
<1>6. \A a, b \in S : a # b => Before(r, a, b) \/ Before(r, b, a)
  BY <1>1 DEF Before
<1>7. \A a \in S : Ahead(r, a) = {b \in S : <<b, a>> \in R}
  BY <1>3 DEF Ahead
<1>. HIDE DEF S, R
<1>8. /\ \A a \in S : <<a, a>> \notin R
      /\ \A a, b, c \in S : <<a, b>> \in R /\ <<b, c>> \in R => <<a, c>> \in R
      /\ \A a, b \in S : a # b => <<a, b>> \in R \/ <<b, a>> \in R
  BY <1>3, <1>4, <1>5, <1>6
<1>9. /\ Cardinality(S) \in Nat
      /\ \A a \in S : Cardinality({b \in S : <<b, a>> \in R}) \in 0 .. Cardinality(S) - 1
      /\ \A a, b \in S : <<a, b>> \in R =>
           Cardinality({c \in S : <<c, a>> \in R}) < Cardinality({c \in S : <<c, b>> \in R})
      /\ \A i \in 1 .. Cardinality(S) :
           \E a \in S : Cardinality({b \in S : <<b, a>> \in R}) = i - 1
  BY <1>2, <1>8, Ranks, Zenon
<1>10. \A a \in S : rank(a) \in 0 .. n - 1
  BY <1>7, <1>9, Zenon
<1>11. ASSUME NEW a \in S, NEW b \in S, <<a, b>> \in R
       PROVE  rank(a) < rank(b)
  <2>1. Cardinality({c \in S : <<c, a>> \in R}) < Cardinality({c \in S : <<c, b>> \in R})
    BY <1>9, <1>11, Zenon
  <2>. QED BY <1>7, <2>1, Zenon
<1>12. \A i \in 1 .. n : \E a \in S : rank(a) = i - 1
  BY <1>7, <1>9, Zenon
<1>13. n \in Nat
  BY <1>9
<1>14. \A i \in 1 .. n : AtPlace(r, i) \in S /\ rank(AtPlace(r, i)) = i - 1
  BY <1>12, Zenon DEF AtPlace, S
<1>. HIDE DEF n, rank
<1>15. ASSUME NEW a \in S, NEW b \in S, rank(a) = rank(b)
       PROVE  a = b
  <2>1. rank(a) \in Int /\ rank(b) \in Int
    BY <1>10, <1>13
  <2>2. ~(rank(a) < rank(b)) /\ ~(rank(b) < rank(a))
    BY <1>15, <2>1
  <2>3. <<a, b>> \notin R /\ <<b, a>> \notin R
    BY <1>11, <2>2
  <2>. QED BY <1>8, <2>3
<1>16. \A a \in S : rank(a) + 1 \in 1 .. n /\ (rank(a) + 1) - 1 = rank(a)
  BY <1>10, <1>13
<1>17. \A a \in S : AtPlace(r, rank(a) + 1) = a
  BY <1>14, <1>15, <1>16
<1>18. ASSUME NEW a \in S, NEW b \in S
       PROVE  Before(r, a, b) <=> rank(a) < rank(b)
  <2>1. rank(a) \in Int /\ rank(b) \in Int
    BY <1>10, <1>13
  <2>2. Before(r, a, b) => rank(a) < rank(b)
    BY <1>3, <1>11
  <2>3. Before(r, b, a) => rank(b) < rank(a)
    BY <1>3, <1>11
  <2>. QED BY <1>6, <2>1, <2>2, <2>3
<1>. QED BY <1>2, <1>13, <1>14, <1>15, <1>16, <1>17, <1>18 DEF S, n, rank

\* A list of actions.
LEMMA ListingIs ==
  ASSUME NEW r \in Table
  PROVE  /\ Listing(r) \in Seq(List!ActionRow)
         /\ Len(Listing(r)) = Cardinality(LiveIn(r))
         /\ \A i \in 1 .. Cardinality(LiveIn(r)) : Listing(r)[i] = Shown(r, AtPlace(r, i))
<1>1. \A a \in LiveIn(r) : Shown(r, a) \in List!ActionRow
  BY DEF LiveIn, Table, Row, Shown, List!ActionRow, Id
<1>2. /\ Cardinality(LiveIn(r)) \in Nat
      /\ \A i \in 1 .. Cardinality(LiveIn(r)) : AtPlace(r, i) \in LiveIn(r)
  BY PlacesOf
<1>. QED BY <1>1, <1>2 DEF Listing

\* Two tables of the same actions have them in the one order or the other.
LEMMA SameActions ==
  ASSUME NEW r \in Table, NEW t \in Table, LiveIn(t) = LiveIn(r)
  PROVE  \E order \in List!Orders(Cardinality(LiveIn(r))) :
           \A j \in 1 .. Cardinality(LiveIn(r)) :
             AtPlace(t, j) \in LiveIn(r) /\ AtPlace(t, j) = AtPlace(r, order[j])
<1>. DEFINE n == Cardinality(LiveIn(r))
            rank(a) == Cardinality(Ahead(r, a)) + 1
            order == [j \in 1 .. n |-> rank(AtPlace(t, j))]
<1>1. n \in Nat /\ \A j \in 1 .. n : /\ AtPlace(t, j) \in LiveIn(r)
                                     /\ Cardinality(Ahead(t, AtPlace(t, j))) = j - 1
  BY PlacesOf
<1>2. \A a \in LiveIn(r) : rank(a) \in 1 .. n /\ AtPlace(r, rank(a)) = a
  BY PlacesOf
<1>. HIDE DEF n, rank
<1>3. \A i, j \in 1 .. n : order[i] = order[j] => i = j
  <2>1. ASSUME NEW i \in 1 .. n, NEW j \in 1 .. n, order[i] = order[j]
        PROVE  i = j
    <3>1. AtPlace(t, i) = AtPlace(t, j)
      BY <1>1, <1>2, <2>1
    <3>2. i - 1 = j - 1
      BY <1>1, <3>1
    <3>. QED BY <1>1, <3>2
  <2>. QED BY <2>1
<1>4. order \in [1 .. n -> 1 .. n]
  BY <1>1, <1>2
<1>5. order \in List!Orders(n)
  BY <1>3, <1>4 DEF List!Orders
<1>6. \A j \in 1 .. n : AtPlace(t, j) \in LiveIn(r) /\ AtPlace(t, j) = AtPlace(r, order[j])
  BY <1>1, <1>2
<1>. QED BY <1>5, <1>6 DEF n

\* A table with one action less has the others in the same order.
LEMMA OneLess ==
  ASSUME NEW r \in Table, NEW t \in Table, NEW a \in LiveIn(t),
         LiveIn(r) = LiveIn(t) \ {a}, \A b \in LiveIn(r) : r[b] = t[b]
  PROVE  LET n == Cardinality(LiveIn(t))
             i == Cardinality(Ahead(t, a)) + 1
         IN  /\ n \in Nat /\ Cardinality(LiveIn(r)) = n - 1
             /\ i \in 1 .. n /\ AtPlace(t, i) = a
             /\ \A j \in 1 .. n - 1 :
                  AtPlace(r, j) = AtPlace(t, IF j < i THEN j ELSE j + 1)
<1>. DEFINE n == Cardinality(LiveIn(t))
            i == Cardinality(Ahead(t, a)) + 1
            was(b) == Cardinality(Ahead(t, b))
            is(b) == Cardinality(Ahead(r, b))
<1>1. n \in Nat /\ i \in 1 .. n /\ AtPlace(t, i) = a /\ was(a) \in Int /\ i = was(a) + 1
  <2>1. n \in Nat /\ i \in 1 .. n /\ AtPlace(t, i) = a
    BY PlacesOf
  <2>2. IsFiniteSet(Ahead(t, a))
    BY PlacesOf, FS_Subset DEF Ahead
  <2>. QED BY <2>1, <2>2, FS_CardinalityType
<1>2. Cardinality(LiveIn(r)) = n - 1
  BY PlacesOf, FS_RemoveElement
<1>3. ASSUME NEW b \in LiveIn(r)
      PROVE  is(b) = IF was(a) < was(b) THEN was(b) - 1 ELSE was(b)
  <2>1. b \in LiveIn(t) /\ b # a /\ r[b] = t[b]
    OBVIOUS
  <2>2. Ahead(r, b) = Ahead(t, b) \ {a}
    BY <2>1 DEF Ahead, Before
  <2>3. IsFiniteSet(Ahead(t, b))
    BY PlacesOf, FS_Subset DEF Ahead
  <2>4. a \in Ahead(t, b) <=> was(a) < was(b)
    BY <2>1, PlacesOf DEF Ahead
  <2>5. Cardinality(Ahead(t, b) \ {a}) =
          IF a \in Ahead(t, b) THEN Cardinality(Ahead(t, b)) - 1 ELSE Cardinality(Ahead(t, b))
    BY <2>3, FS_RemoveElement
  <2>. QED BY <2>2, <2>4, <2>5
<1>4. \A b \in LiveIn(r) : AtPlace(r, is(b) + 1) = b
  BY PlacesOf
<1>5. \A k \in 1 .. n : AtPlace(t, k) \in LiveIn(t) /\ was(AtPlace(t, k)) = k - 1
  BY PlacesOf
<1>. HIDE DEF n, i, was, is
<1>6. ASSUME NEW j \in 1 .. n - 1
      PROVE  AtPlace(r, j) = AtPlace(t, IF j < i THEN j ELSE j + 1)
  <2>. DEFINE k == IF j < i THEN j ELSE j + 1
              b == AtPlace(t, k)
  <2>1. k \in 1 .. n /\ k # i /\ (j < i <=> k - 1 < i - 1)
    BY <1>1
  <2>2. b \in LiveIn(t) /\ was(b) = k - 1
    BY <1>5, <2>1
  <2>3. b # a /\ b \in LiveIn(r)
    BY <1>1, <2>1, <2>2
  <2>4. is(b) = IF was(a) < was(b) THEN was(b) - 1 ELSE was(b)
    BY <1>3, <2>3
  <2>. HIDE DEF b
  <2>5. is(b) + 1 = j
    BY <1>1, <2>2, <2>4
  <2>6. AtPlace(r, j) = b
    BY <1>4, <2>3, <2>5
  <2>. QED BY <2>6 DEF b
<1>. QED BY <1>1, <1>2, <1>6 DEF n, i
-----------------------------------------------------------------------------
\* What it is to insert an element, and to remove one.
LEMMA Inserted ==
  ASSUME NEW S, NEW s \in Seq(S), NEW e \in S, NEW i \in 1 .. Len(s) + 1
  PROVE  /\ List!InsertAt(s, i, e) \in Seq(S)
         /\ Len(List!InsertAt(s, i, e)) = Len(s) + 1
         /\ \A j \in 1 .. Len(s) + 1 :
              List!InsertAt(s, i, e)[j] = IF j < i THEN s[j] ELSE IF j = i THEN e ELSE s[j - 1]
<1>. DEFINE before == SubSeq(s, 1, i - 1)
            after == SubSeq(s, i, Len(s))
<1>. Len(s) \in Nat
  OBVIOUS
<1>1. before \in Seq(S) /\ Len(before) = i - 1 /\ \A j \in 1 .. i - 1 : before[j] = s[j]
  BY SubSeqProperties
<1>2. /\ after \in Seq(S) /\ Len(after) = Len(s) - i + 1
      /\ \A j \in 1 .. Len(s) - i + 1 : after[j] = s[i + j - 1]
  BY SubSeqProperties
<1>. HIDE DEF before, after
<1>3. /\ before \o <<e>> \in Seq(S) /\ Len(before \o <<e>>) = i
      /\ \A j \in 1 .. i : (before \o <<e>>)[j] = IF j < i THEN s[j] ELSE e
  BY <1>1
<1>. DEFINE start == before \o <<e>>
<1>. HIDE DEF start
<1>4. /\ start \o after \in Seq(S) /\ Len(start \o after) = Len(s) + 1
      /\ \A j \in 1 .. Len(s) + 1 : (start \o after)[j] = IF j <= i THEN start[j] ELSE after[j - i]
  <2>1. /\ start \in Seq(S) /\ Len(start) = i
    BY <1>3 DEF start
  <2>2. /\ start \o after \in Seq(S) /\ Len(start \o after) = Len(start) + Len(after)
        /\ \A j \in 1 .. Len(start) + Len(after) :
             (start \o after)[j] = IF j <= Len(start) THEN start[j] ELSE after[j - Len(start)]
    BY <1>2, <2>1, ConcatProperties
  <2>. QED BY <1>2, <2>1, <2>2
<1>5. \A j \in 1 .. Len(s) + 1 :
        (start \o after)[j] = IF j < i THEN s[j] ELSE IF j = i THEN e ELSE s[j - 1]
  BY <1>2, <1>3, <1>4 DEF start
<1>. QED BY <1>4, <1>5 DEF List!InsertAt, start, before, after

\* RemoveAt takes the i-th member out and closes the gap.
LEMMA Removed ==
  ASSUME NEW S, NEW s \in Seq(S), NEW i \in 1 .. Len(s)
  PROVE  /\ List!RemoveAt(s, i) \in Seq(S)
         /\ Len(List!RemoveAt(s, i)) = Len(s) - 1
         /\ \A j \in 1 .. Len(s) - 1 :
              List!RemoveAt(s, i)[j] = IF j < i THEN s[j] ELSE s[j + 1]
<1>. DEFINE before == SubSeq(s, 1, i - 1)
            after == SubSeq(s, i + 1, Len(s))
<1>. Len(s) \in Nat
  OBVIOUS
<1>1. before \in Seq(S) /\ Len(before) = i - 1 /\ \A j \in 1 .. i - 1 : before[j] = s[j]
  BY SubSeqProperties
<1>2. /\ after \in Seq(S) /\ Len(after) = Len(s) - i
      /\ \A j \in 1 .. Len(s) - i : after[j] = s[i + j]
  BY SubSeqProperties
<1>. HIDE DEF before, after
<1>3. /\ before \o after \in Seq(S) /\ Len(before \o after) = Len(s) - 1
      /\ \A j \in 1 .. Len(s) - 1 :
           (before \o after)[j] = IF j <= i - 1 THEN before[j] ELSE after[j - (i - 1)]
  <2>1. /\ before \o after \in Seq(S) /\ Len(before \o after) = Len(before) + Len(after)
        /\ \A j \in 1 .. Len(before) + Len(after) :
             (before \o after)[j] = IF j <= Len(before) THEN before[j] ELSE after[j - Len(before)]
    BY <1>1, <1>2, ConcatProperties
  <2>. QED BY <1>1, <1>2, <2>1
<1>4. ASSUME NEW j \in 1 .. Len(s) - 1
      PROVE  (before \o after)[j] = IF j < i THEN s[j] ELSE s[j + 1]
  <2>1. CASE j < i
    BY <1>1, <1>3, <2>1
  <2>2. CASE ~(j < i)
    <3>0. j - (i - 1) \in 1 .. Len(s) - i /\ ~(j <= i - 1)
      BY <2>2
    <3>1. (before \o after)[j] = after[j - (i - 1)] /\ j - (i - 1) \in 1 .. Len(s) - i
      BY <1>3, <3>0
    <3>2. after[j - (i - 1)] = s[i + (j - (i - 1))]
      BY <1>2, <3>1
    <3>3. i + (j - (i - 1)) = j + 1
      OBVIOUS
    <3>. QED BY <2>2, <3>1, <3>2, <3>3
  <2>. QED BY <2>1, <2>2
<1>. QED BY <1>3, <1>4 DEF List!RemoveAt, before, after

\* Whatever an edit of the actions does, ids stay in order and each action has
\* one place.

\* A list that has all of s before place i, then e, and then the rest of s.
LEMMA InsertedIs ==
  ASSUME NEW S, NEW s \in Seq(S), NEW e \in S, NEW i \in 1 .. Len(s) + 1,
         NEW u \in Seq(S), Len(u) = Len(s) + 1, u[i] = e,
         \A j \in 1 .. Len(s) : s[j] = u[IF j < i THEN j ELSE j + 1]
  PROVE  u = List!InsertAt(s, i, e)
<1>. DEFINE v == List!InsertAt(s, i, e)
<1>1. /\ v \in Seq(S) /\ Len(v) = Len(s) + 1
      /\ \A j \in 1 .. Len(s) + 1 : v[j] = IF j < i THEN s[j] ELSE IF j = i THEN e ELSE s[j - 1]
  BY Inserted
<1>. HIDE DEF v
<1>2. ASSUME NEW j \in 1 .. Len(s) + 1 PROVE u[j] = v[j]
  <2>0. Len(s) \in Nat /\ i \in Int /\ j \in Int
    OBVIOUS
  <2>1. CASE j < i
    <3>1. j \in 1 .. Len(s)
      BY <2>0, <2>1
    <3>2. s[j] = u[j]
      BY <2>1, <3>1
    <3>. QED BY <1>1, <2>1, <3>2
  <2>2. CASE j = i
    BY <1>1, <2>0, <2>2
  <2>3. CASE j > i
    <3>1. j - 1 \in 1 .. Len(s) /\ ~(j - 1 < i) /\ (j - 1) + 1 = j /\ ~(j < i) /\ j # i
      BY <2>3
    <3>2. s[j - 1] = u[j]
      BY <3>1
    <3>. QED BY <1>1, <3>1, <3>2
  <2>. QED BY <2>1, <2>2, <2>3
<1>3. u = v
  BY <1>1, <1>2, SeqEqual
<1>. QED BY <1>3 DEF v

\* A list that has all of s but what is at place i.
LEMMA RemovedIs ==
  ASSUME NEW S, NEW s \in Seq(S), NEW i \in 1 .. Len(s),
         NEW u \in Seq(S), Len(u) = Len(s) - 1,
         \A j \in 1 .. Len(s) - 1 : u[j] = s[IF j < i THEN j ELSE j + 1]
  PROVE  u = List!RemoveAt(s, i)
<1>. DEFINE v == List!RemoveAt(s, i)
<1>1. /\ v \in Seq(S) /\ Len(v) = Len(s) - 1
      /\ \A j \in 1 .. Len(s) - 1 : v[j] = IF j < i THEN s[j] ELSE s[j + 1]
  BY Removed
<1>. HIDE DEF v
<1>2. \A j \in 1 .. Len(u) : u[j] = v[j]
  BY <1>1
<1>3. u = v
  BY <1>1, <1>2, SeqEqual
<1>. QED BY <1>3 DEF v
-----------------------------------------------------------------------------
\* An empty history of edits: the list is the actions in order of creation.
LEMMA InitIsInit == Init => List!Init
<1>. SUFFICES ASSUME Init PROVE List!Init
  OBVIOUS
<1>1. PICK kind \in [Id -> Kind] :
        rows = [a \in Id |-> IF a > created THEN NoRow ELSE
                  [kind |-> kind[a], enabled |-> TRUE, order |-> a - 1]]
  BY DEF Init
<1>2. created \in 0 .. Actions /\ Actions \in Nat /\ Id = 1 .. Actions
  BY ActionOrderAssumption DEF Init, Id
<1>3. rows \in Table
  BY InvInit DEF Inv, TypeOK, Table
<1>4. LiveIn(rows) = 1 .. created
  <2>1. ASSUME NEW a \in 1 .. created PROVE rows[a] # NoRow
    <3>1. kind[a] \in Kind /\ a - 1 \in Nat /\ a \in Id /\ ~(a > created)
      BY <1>2
    <3>2. rows[a] \in Row
      BY <1>1, <3>1 DEF Row
    <3>. QED BY <3>2, ActionOrderAssumption
  <2>2. \A a \in Id : rows[a] # NoRow => a \in 1 .. created
    BY <1>1, <1>2
  <2>. QED BY <1>2, <2>1, <2>2 DEF LiveIn
<1>5. Cardinality(LiveIn(rows)) = created
  BY <1>2, <1>4, UpTo
<1>6. ASSUME NEW i \in 1 .. created
      PROVE  AtPlace(rows, i) = i
  <2>1. \A a \in 1 .. created : a \in Id /\ rows[a].order = a - 1
    BY <1>1, <1>2
  <2>2. Ahead(rows, i) = 1 .. i - 1
    BY <1>2, <1>4, <2>1 DEF Ahead, Before
  <2>3. Cardinality(Ahead(rows, i)) = i - 1 /\ (i - 1) + 1 = i
    BY <1>2, <2>2, UpTo
  <2>4. i \in LiveIn(rows) /\ AtPlace(rows, Cardinality(Ahead(rows, i)) + 1) = i
    BY <1>3, <1>4, PlacesOf
  <2>. QED BY <2>3, <2>4
<1>7. /\ Listed \in Seq(List!ActionRow) /\ Len(Listed) = created
      /\ \A i \in 1 .. created : Listed[i].id = i
  <2>1. Listed = Listing(rows)
    BY ListedIsListing
  <2>2. /\ Listing(rows) \in Seq(List!ActionRow) /\ Len(Listing(rows)) = created
        /\ \A i \in 1 .. created : Listing(rows)[i] = Shown(rows, AtPlace(rows, i))
    BY <1>3, <1>5, ListingIs
  <2>3. \A a : Shown(rows, a).id = a
    BY DEF Shown
  <2>. QED BY <1>6, <2>1, <2>2, <2>3
<1>. QED BY <1>2, <1>7 DEF List!Init

\* The actions that a table has, and what the list becomes, when positions change.
LEMMA ArrangedRows ==
  ASSUME NEW r \in Table, NEW t \in Table, LiveIn(t) = LiveIn(r),
         \A a \in LiveIn(r) : Shown(t, a) = Shown(r, a)
  PROVE  Listing(t) \in List!Arranged(Listing(r))
<1>. DEFINE n == Cardinality(LiveIn(r))
<1>1. PICK order \in List!Orders(n) :
        \A j \in 1 .. n : AtPlace(t, j) \in LiveIn(r) /\ AtPlace(t, j) = AtPlace(r, order[j])
  BY SameActions
<1>2. /\ Listing(r) \in Seq(List!ActionRow) /\ Len(Listing(r)) = n
      /\ \A i \in 1 .. n : Listing(r)[i] = Shown(r, AtPlace(r, i))
      /\ Listing(t) = [i \in 1 .. n |-> Shown(t, AtPlace(t, i))]
  BY ListingIs DEF Listing
<1>3. \A j \in 1 .. n : order[j] \in 1 .. n
  BY DEF List!Orders
<1>. HIDE DEF n
<1>4. \A j \in 1 .. n : Shown(t, AtPlace(t, j)) = Listing(r)[order[j]]
  BY <1>1, <1>2, <1>3
<1>5. Listing(t) = [j \in 1 .. n |-> Listing(r)[order[j]]]
  BY <1>2, <1>4
<1>. QED BY <1>2, <1>5 DEF List!Arranged

\* The same when one of them has changed as well.
LEMMA MovedRow ==
  ASSUME NEW r \in Table, NEW t \in Table, LiveIn(t) = LiveIn(r),
         NEW a \in LiveIn(r), NEW kind \in Kind, NEW enabled \in BOOLEAN,
         t[a].kind = kind, t[a].enabled = enabled,
         \A b \in LiveIn(r) : b # a => t[b] = r[b]
  PROVE  \E i \in 1 .. Len(Listing(r)) :
           Listing(t) \in List!Arranged(List!Changed(Listing(r), i, kind, enabled))
<1>. DEFINE n == Cardinality(LiveIn(r))
            s == Listing(r)
            i == Cardinality(Ahead(r, a)) + 1
            u == [s EXCEPT ![i].kind = kind, ![i].enabled = enabled]
<1>1. PICK order \in List!Orders(n) :
        \A j \in 1 .. n : AtPlace(t, j) \in LiveIn(r) /\ AtPlace(t, j) = AtPlace(r, order[j])
  BY SameActions
<1>2. /\ s \in Seq(List!ActionRow) /\ Len(s) = n /\ n \in Nat
      /\ \A j \in 1 .. n : s[j] = Shown(r, AtPlace(r, j))
      /\ Listing(t) = [j \in 1 .. n |-> Shown(t, AtPlace(t, j))]
  BY ListingIs, PlacesOf DEF Listing
<1>3. i \in 1 .. n /\ AtPlace(r, i) = a
      /\ \A j \in 1 .. n : AtPlace(r, j) = a => j = i
  <2>1. i \in 1 .. n /\ AtPlace(r, i) = a
    BY PlacesOf
  <2>2. \A j \in 1 .. n : Cardinality(Ahead(r, AtPlace(r, j))) = j - 1
    BY PlacesOf
  <2>3. ASSUME NEW j \in 1 .. n, AtPlace(r, j) = a PROVE j = i
    <3>1. Cardinality(Ahead(r, a)) = j - 1
      BY <2>2, <2>3
    <3>. QED BY <3>1
  <2>. QED BY <2>1, <2>3
<1>4. \A j \in 1 .. n : order[j] \in 1 .. n
  BY DEF List!Orders
<1>. HIDE DEF n, i, s
<1>5. /\ u \in Seq(List!ActionRow) /\ Len(u) = n
      /\ \A j \in 1 .. n : u[j] = IF j = i THEN [id |-> a, kind |-> kind, enabled |-> enabled]
                                  ELSE s[j]
  <2>. DEFINE new == [id |-> a, kind |-> kind, enabled |-> enabled]
  <2>1. s[i] \in List!ActionRow /\ s[i].id = a
    <3>1. s[i] \in List!ActionRow
      BY <1>2, <1>3, ElementOfSeq
    <3>. QED BY <1>2, <1>3, <3>1 DEF Shown
  <2>2. ASSUME NEW row \in List!ActionRow, row.id = a
        PROVE  [row EXCEPT !.kind = kind, !.enabled = enabled] = new
    <3>. DEFINE changed == [row EXCEPT !.kind = kind, !.enabled = enabled]
    <3>1. \A x, y \in List!ActionRow :
            x.id = y.id /\ x.kind = y.kind /\ x.enabled = y.enabled => x = y
      BY DEF List!ActionRow
    <3>2. changed \in List!ActionRow /\ changed.id = a /\ changed.kind = kind /\ changed.enabled = enabled
      BY <2>2 DEF List!ActionRow
    <3>3. new \in List!ActionRow /\ new.id = a /\ new.kind = kind /\ new.enabled = enabled
      BY DEF List!ActionRow, LiveIn, Id
    <3>. HIDE DEF changed, new
    <3>4. changed = new
      BY <3>1, <3>2, <3>3
    <3>. QED BY <3>4 DEF changed
  <2>3. [s[i] EXCEPT !.kind = kind, !.enabled = enabled] = new
    BY <2>1, <2>2
  <2>4. new \in List!ActionRow
    BY DEF List!ActionRow, LiveIn, Id
  <2>5. u = [s EXCEPT ![i] = [s[i] EXCEPT !.kind = kind, !.enabled = enabled]]
    BY DEF u
  <2>6. u = [s EXCEPT ![i] = new]
    BY <2>3, <2>5
  <2>. HIDE DEF new, u
  <2>7. /\ u \in Seq(List!ActionRow) /\ Len(u) = n
        /\ \A j \in 1 .. n : u[j] = IF j = i THEN new ELSE s[j]
    BY <1>2, <1>3, <2>4, <2>6
  <2>. QED BY <2>7 DEF new
<1>6. \A j \in 1 .. n : Shown(t, AtPlace(t, j)) = u[order[j]]
  <2>1. ASSUME NEW j \in 1 .. n PROVE Shown(t, AtPlace(t, j)) = u[order[j]]
    <3>1. CASE AtPlace(t, j) = a
      <4>1. order[j] = i
        BY <1>1, <1>3, <1>4, <3>1
      <4>. QED BY <1>3, <1>5, <3>1, <4>1 DEF Shown
    <3>2. CASE AtPlace(t, j) # a
      <4>1. order[j] # i /\ order[j] \in 1 .. n
        BY <1>1, <1>3, <1>4, <3>2
      <4>2. u[order[j]] = Shown(r, AtPlace(t, j))
        BY <1>1, <1>2, <1>5, <4>1
      <4>3. t[AtPlace(t, j)] = r[AtPlace(t, j)]
        BY <1>1, <3>2
      <4>. QED BY <4>2, <4>3 DEF Shown
    <3>. QED BY <3>1, <3>2
  <2>. QED BY <2>1
<1>7. u = List!Changed(s, i, kind, enabled)
  BY DEF List!Changed
<1>8. Listing(t) = [j \in 1 .. n |-> u[order[j]]]
  BY <1>2, <1>6
<1>9. Listing(t) \in List!Arranged(u)
  BY <1>5, <1>8 DEF List!Arranged, n
<1>. QED BY <1>2, <1>3, <1>7, <1>9 DEF s
-----------------------------------------------------------------------------
\* A deletion drops one action of the list.
LEMMA DeleteIsDrop ==
  ASSUME Inv, NEW a \in Id, DeleteAction(a)
  PROVE  List!Drop
<1>1. rows \in Table /\ rows' \in Table
  BY InvStep, DeleteActionInv DEF Inv, TypeOK, Table
<1>2. /\ a \in LiveIn(rows) /\ LiveIn(rows') = LiveIn(rows) \ {a}
      /\ \A b \in LiveIn(rows') : rows'[b] = rows[b]
  BY <1>1 DEF DeleteAction, Live, LiveIn, Table
<1>3. PICK i \in 1 .. Cardinality(LiveIn(rows)) :
        /\ Cardinality(LiveIn(rows)) \in Nat
        /\ Cardinality(LiveIn(rows')) = Cardinality(LiveIn(rows)) - 1
        /\ \A j \in 1 .. Cardinality(LiveIn(rows)) - 1 :
             AtPlace(rows', j) = AtPlace(rows, IF j < i THEN j ELSE j + 1)
  <2>. DEFINE k == Cardinality(Ahead(rows, a)) + 1
  <2>1. /\ k \in 1 .. Cardinality(LiveIn(rows))
        /\ Cardinality(LiveIn(rows)) \in Nat
        /\ Cardinality(LiveIn(rows')) = Cardinality(LiveIn(rows)) - 1
        /\ \A j \in 1 .. Cardinality(LiveIn(rows)) - 1 :
             AtPlace(rows', j) = AtPlace(rows, IF j < k THEN j ELSE j + 1)
    BY <1>1, <1>2, OneLess
  <2>. HIDE DEF k
  <2>. QED BY <2>1
<1>. DEFINE n == Cardinality(LiveIn(rows))
            s == Listing(rows)
            u == Listing(rows')
<1>4. /\ s \in Seq(List!ActionRow) /\ Len(s) = n
      /\ \A j \in 1 .. n : s[j] = Shown(rows, AtPlace(rows, j))
  BY <1>1, ListingIs
<1>5. /\ u \in Seq(List!ActionRow) /\ Len(u) = n - 1
      /\ \A j \in 1 .. n - 1 : /\ u[j] = Shown(rows', AtPlace(rows', j))
                               /\ AtPlace(rows', j) \in LiveIn(rows')
  BY <1>1, <1>3, ListingIs, PlacesOf
<1>. HIDE DEF n, s, u
<1>6. ASSUME NEW j \in 1 .. n - 1
      PROVE  u[j] = s[IF j < i THEN j ELSE j + 1]
  <2>. DEFINE k == IF j < i THEN j ELSE j + 1
  <2>1. k \in 1 .. n
    BY <1>3 DEF n
  <2>2. AtPlace(rows', j) = AtPlace(rows, k)
    BY <1>3 DEF n
  <2>3. Shown(rows', AtPlace(rows', j)) = Shown(rows, AtPlace(rows', j))
    BY <1>2, <1>5 DEF Shown
  <2>4. s[k] = Shown(rows, AtPlace(rows, k))
    BY <1>4, <2>1
  <2>. HIDE DEF k
  <2>5. u[j] = s[k]
    BY <1>5, <2>2, <2>3, <2>4
  <2>. QED BY <2>5 DEF k
<1>7. i \in 1 .. Len(s)
  BY <1>4 DEF n
<1>8. u = List!RemoveAt(s, i)
  BY <1>4, <1>5, <1>6, <1>7, RemovedIs
<1>9. Listed = s /\ Listed' = u
  BY ListedIsListing DEF s, u
<1>10. created' = created
  BY DEF DeleteAction
<1>11. Listed' \in {List!RemoveAt(Listed, k) : k \in 1 .. Len(Listed)}
  BY <1>7, <1>8, <1>9
<1>. QED BY <1>10, <1>11 DEF List!Drop

\* A creation puts one action into the list.
LEMMA CreateIsInsert ==
  ASSUME Inv, NEW h \in Handler, NEW kind \in Kind, NEW enabled \in BOOLEAN,
         CreateAction(h, kind, enabled)
  PROVE  List!Insert
<1>. DEFINE a == created + 1
            row == [kind |-> kind, enabled |-> enabled, order |-> call[h].order]
<1>1. rows \in Table /\ rows' \in Table
  BY CreateActionInv DEF Inv, TypeOK, Table
<1>2. a \in Id /\ created' = a /\ created < Actions
  BY ActionOrderAssumption DEF CreateAction, Inv, TypeOK, Id
<1>3. rows[a] = NoRow
  BY <1>2 DEF Inv, Sound, TypeOK, Id
<1>4. rows'[a] = row /\ \A b \in Id : b # a => rows'[b] = rows[b]
  BY <1>1, <1>2 DEF CreateAction, Table
<1>5. row # NoRow
  <2>1. call[h] \in Call /\ call[h].stage = "create"
    BY DEF CreateAction, At, Inv, TypeOK
  <2>2. call[h].order \in Nat
    BY <2>1, CallFields
  <2>3. row \in Row
    BY <2>2 DEF Row
  <2>. HIDE DEF row
  <2>. QED BY <2>3, ActionOrderAssumption
<1>6. Shown(rows', a) = [id |-> created + 1, kind |-> kind, enabled |-> enabled]
  BY <1>4 DEF Shown
<1>. HIDE DEF row, a
<1>7. /\ a \in LiveIn(rows') /\ LiveIn(rows) = LiveIn(rows') \ {a}
      /\ \A b \in LiveIn(rows) : rows[b] = rows'[b]
  BY <1>2, <1>3, <1>4, <1>5 DEF LiveIn
<1>8. PICK i \in 1 .. Cardinality(LiveIn(rows')) :
        /\ Cardinality(LiveIn(rows')) \in Nat
        /\ Cardinality(LiveIn(rows)) = Cardinality(LiveIn(rows')) - 1
        /\ AtPlace(rows', i) = a
        /\ \A j \in 1 .. Cardinality(LiveIn(rows')) - 1 :
             AtPlace(rows, j) = AtPlace(rows', IF j < i THEN j ELSE j + 1)
  <2>. DEFINE k == Cardinality(Ahead(rows', a)) + 1
  <2>1. /\ k \in 1 .. Cardinality(LiveIn(rows'))
        /\ Cardinality(LiveIn(rows')) \in Nat
        /\ Cardinality(LiveIn(rows)) = Cardinality(LiveIn(rows')) - 1
        /\ AtPlace(rows', k) = a
        /\ \A j \in 1 .. Cardinality(LiveIn(rows')) - 1 :
             AtPlace(rows, j) = AtPlace(rows', IF j < k THEN j ELSE j + 1)
    BY <1>1, <1>7, OneLess
  <2>. HIDE DEF k
  <2>. QED BY <2>1
<1>. DEFINE n == Cardinality(LiveIn(rows'))
            s == Listing(rows)
            u == Listing(rows')
            e == Shown(rows', a)
<1>9. /\ s \in Seq(List!ActionRow) /\ Len(s) = n - 1
      /\ \A j \in 1 .. n - 1 : /\ s[j] = Shown(rows, AtPlace(rows, j))
                               /\ AtPlace(rows, j) \in LiveIn(rows)
  BY <1>1, <1>8, ListingIs, PlacesOf
<1>10. /\ u \in Seq(List!ActionRow) /\ Len(u) = n
       /\ \A j \in 1 .. n : u[j] = Shown(rows', AtPlace(rows', j))
  BY <1>1, ListingIs
<1>11. i \in 1 .. n /\ n \in Nat /\ AtPlace(rows', i) = a
  BY <1>8
<1>. HIDE DEF n, s, u, e
<1>12. u[i] = e /\ e \in List!ActionRow
  <2>1. u[i] = e
    BY <1>10, <1>11 DEF e
  <2>. QED BY <1>10, <1>11, <2>1, ElementOfSeq
<1>13. ASSUME NEW j \in 1 .. n - 1
       PROVE  s[j] = u[IF j < i THEN j ELSE j + 1]
  <2>. DEFINE k == IF j < i THEN j ELSE j + 1
  <2>1. k \in 1 .. n
    BY <1>11
  <2>2. AtPlace(rows, j) = AtPlace(rows', k)
    BY <1>8 DEF n
  <2>3. Shown(rows', AtPlace(rows, j)) = Shown(rows, AtPlace(rows, j))
    BY <1>7, <1>9 DEF Shown
  <2>4. u[k] = Shown(rows', AtPlace(rows', k))
    BY <1>10, <2>1
  <2>. HIDE DEF k
  <2>5. s[j] = u[k]
    BY <1>9, <2>2, <2>3, <2>4
  <2>. QED BY <2>5 DEF k
<1>14. i \in 1 .. Len(s) + 1 /\ Len(u) = Len(s) + 1
       /\ \A j \in 1 .. Len(s) : s[j] = u[IF j < i THEN j ELSE j + 1]
  <2>1. Len(s) + 1 = n
    BY <1>9, <1>11
  <2>. QED BY <1>9, <1>10, <1>11, <1>13, <2>1
<1>15. u = List!InsertAt(s, i, e)
  BY <1>9, <1>10, <1>12, <1>14, InsertedIs
<1>16. Listed = s /\ Listed' = u
  BY ListedIsListing DEF s, u
<1>17. Listed' = List!InsertAt(Listed, i, [id |-> created + 1, kind |-> kind, enabled |-> enabled])
  BY <1>6, <1>15, <1>16 DEF e
<1>18. i \in 1 .. Len(Listed) + 1
  BY <1>14, <1>16
<1>19. created' = created + 1 /\ created < Actions
  BY <1>2 DEF a
<1>. QED BY <1>17, <1>18, <1>19, Zenon DEF List!Insert

\* A reorder arranges the list anew.
LEMMA ReorderIsArrange ==
  ASSUME Inv, NEW ids \in Seq(Id), ReorderActions(ids)
  PROVE  List!Arrange
<1>1. rows \in Table /\ rows' \in Table
  BY ReorderActionsInv DEF Inv, TypeOK, Table
<1>2. Found(ids) \in Seq(Id) /\ \A i \in 1 .. Len(Found(ids)) : Found(ids)[i] \in Live
  BY FoundLive
<1>3. ASSUME NEW a \in Id
      PROVE  \/ rows'[a] = rows[a]
             \/ a \in Live /\ rows'[a] # NoRow
                /\ rows'[a].kind = rows[a].kind /\ rows'[a].enabled = rows[a].enabled
  <2>1. CASE Positions(Found(ids), a) = {}
    BY <2>1 DEF ReorderActions
  <2>2. CASE Positions(Found(ids), a) # {}
    <3>1. rows'[a] = [rows[a] EXCEPT !.order = Placed(Found(ids), a)]
      BY <2>2, Zenon DEF ReorderActions
    <3>2. Placed(Found(ids), a) \in 0 .. Len(Found(ids)) - 1
          /\ Found(ids)[Placed(Found(ids), a) + 1] = a
      BY <1>2, <2>2, LastPlace
    <3>3. Placed(Found(ids), a) \in Nat /\ Placed(Found(ids), a) + 1 \in 1 .. Len(Found(ids))
      BY <1>2, <3>2
    <3>4. a \in Live /\ rows[a] \in Row
      BY <1>2, <3>2, <3>3, LiveRows DEF Inv
    <3>. HIDE DEF Placed
    <3>5. rows'[a] \in Row /\ rows'[a].kind = rows[a].kind /\ rows'[a].enabled = rows[a].enabled
      BY <3>1, <3>3, <3>4 DEF Row
    <3>. QED BY <3>4, <3>5, ActionOrderAssumption
  <2>. QED BY <2>1, <2>2
<1>4. LiveIn(rows') = LiveIn(rows) /\ \A a \in LiveIn(rows) : Shown(rows', a) = Shown(rows, a)
  BY <1>3 DEF LiveIn, Live, Shown
<1>5. Listing(rows') \in List!Arranged(Listing(rows))
  BY <1>1, <1>4, ArrangedRows
<1>6. created' = created
  BY DEF ReorderActions
<1>. QED BY <1>5, <1>6, ListedIsListing DEF List!Arrange

\* An update changes one action, and may move it; if the action is gone it does
\* nothing.
LEMMA UpdateIsMoveBack ==
  ASSUME Inv, NEW h \in Handler, NEW kind \in Kind, NEW enabled \in BOOLEAN,
         UpdateAction(h, kind, enabled)
  PROVE  List!MoveBack \/ UNCHANGED List!list
<1>. DEFINE a == call[h].id
            row == Saved(call[h].row, kind, enabled)
<1>1. rows \in Table /\ rows' \in Table
  BY UpdateActionInv DEF Inv, TypeOK, Table
<1>2. call[h] \in Call /\ call[h].stage = "update"
  BY DEF UpdateAction, At, Inv, TypeOK
<1>3. a \in Id /\ call[h].row \in Row
  BY <1>2, CallFields
<1>4. row \in Row /\ row.kind = kind /\ row.enabled = enabled
  BY <1>3 DEF Saved, Row
<1>5. created' = created /\ rows' = [rows EXCEPT ![a] = IF a \in Live THEN row ELSE @]
  BY DEF UpdateAction, Written
<1>. HIDE DEF a, row
<1>6. CASE a \in Live
  <2>1. /\ rows'[a] = row /\ \A b \in Id : b # a => rows'[b] = rows[b]
    BY <1>1, <1>3, <1>5, <1>6 DEF Table
  <2>2. row # NoRow
    BY <1>4, ActionOrderAssumption
  <2>3. a \in LiveIn(rows) /\ LiveIn(rows') = LiveIn(rows)
    BY <1>3, <1>6, <2>1, <2>2 DEF LiveIn, Live
  <2>4. \A b \in LiveIn(rows) : b # a => rows'[b] = rows[b]
    BY <2>1 DEF LiveIn
  <2>5. \E i \in 1 .. Len(Listing(rows)) :
          Listing(rows') \in List!Arranged(List!Changed(Listing(rows), i, kind, enabled))
    BY <1>1, <1>4, <2>1, <2>3, <2>4, MovedRow
  <2>6. \E i \in 1 .. Len(Listed) :
          Listed' \in List!Arranged(List!Changed(Listed, i, kind, enabled))
    BY <2>5, ListedIsListing
  <2>. QED BY <1>5, <2>6, Zenon DEF List!MoveBack
<1>7. CASE a \notin Live
  <2>1. rows' = rows
    BY <1>1, <1>3, <1>5, <1>7 DEF Table
  <2>. QED BY <1>5, <2>1, ListedIsListing DEF List!list
<1>. QED BY <1>6, <1>7

\* Every step of the statements is an edit of the list, or none.
LEMMA StepIsStep == Inv /\ [Next]_vars => [List!Next]_(List!list)
<1>. SUFFICES ASSUME Inv, [Next]_vars PROVE List!Next \/ UNCHANGED List!list
  OBVIOUS
<1>1. CASE UNCHANGED <<rows, created>>
  <2>1. Listed' = Listed
    BY <1>1, ListedIsListing
  <2>. QED BY <1>1, <2>1 DEF List!list
<1>2. CASE \E h \in Handler, kind \in Kind, enabled \in BOOLEAN : CreateAction(h, kind, enabled)
  BY <1>2, CreateIsInsert DEF List!Next
<1>3. CASE \E h \in Handler, kind \in Kind, enabled \in BOOLEAN : UpdateAction(h, kind, enabled)
  BY <1>3, UpdateIsMoveBack DEF List!Next
<1>4. CASE \E a \in Id : DeleteAction(a)
  BY <1>4, DeleteIsDrop DEF List!Next
<1>5. CASE \E ids \in Seq(Id) : ReorderActions(ids)
  BY <1>5, ReorderIsArrange DEF List!Next
<1>6. CASE \E h \in Handler : BeginCreate(h) \/ GiveUp(h) \/ \E a \in Id : BeginUpdate(h, a)
  BY <1>1, <1>6 DEF BeginCreate, GiveUp, BeginUpdate
<1>7. CASE UNCHANGED vars
  BY <1>1, <1>7 DEF vars
<1>. QED BY <1>2, <1>3, <1>4, <1>5, <1>6, <1>7, NextSteps

\* Whatever the handlers do to the positions, statement by statement, the token's
\* actions form one sequence: nothing but a creation adds to it, nothing but a
\* deletion takes away, and no action is ever there twice or back again.
THEOREM ActionsAreAList == Spec => ImplementsActionList
BY InitIsInit, StepIsStep, SafeOrder, PTL DEF Spec, ImplementsActionList, List!Spec

=============================================================================
