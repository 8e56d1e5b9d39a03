---------------------------- MODULE LiveView_proofs ----------------------------
(***************************************************************************)
(* Proofs about LiveView, for any handlers, page size, channel capacity,   *)
(* number of requests and number of updates, any times of the requests     *)
(* that do not run backwards, and any filters: what a page that only       *)
(* follows events shows is what the database holds.                        *)
(*                                                                         *)
(* The argument is about what is still due: a request that is stored and   *)
(* whose event is still to come. A handler that nobody has overtaken knows *)
(* that every newer request is due as well and that its own number is the  *)
(* last or that somebody will tell a later one. So events arrive in the    *)
(* order of the requests, and what is not due is shown in order. A filter  *)
(* restricts only what must not be left out: the events tell of all.       *)
(***************************************************************************)
EXTENDS LiveView, FiniteSetTheorems, SequenceTheorems, TLAPS

\* What a handler is about to do: count, tell a request, show new settings; it
\* has stored a request, or it has captured one.
Counting(c) == c.stage = "count"
Tells(c) == c.stage = "publish" /\ c.event.type = "request.created"
Saves(c) == c.stage = "publish" /\ c.event.type = "token.updated"
Stores(c) == Counting(c) \/ Tells(c)
Takes(c) == c.stage = "insert" \/ Stores(c)
IdOf(c) == IF c.stage = "publish" THEN c.event.id ELSE c.id

\* An event is that of a request; and what it says, a number or settings.
Told(e) == e.type = "request.created"
Says(e) == IF Told(e) THEN e.total ELSE e.version

\* The request that an event tells of.
News(e) == IF Told(e) THEN {e.id} ELSE {}

\* Somebody will tell that there are k requests, or show the settings v.
WillCount(c, k) ==
  \E g \in Handler : Counting(c[g]) \/ (Tells(c[g]) /\ c[g].event.total = k)
WillShow(c, v) == \E g \in Handler : Saves(c[g]) /\ c[g].event.version = v

\* The requests whose event is on the way, those that handlers have captured
\* and those that they have stored; so what is still open, and what is due.
Sent(ch) == {r \in Id : \E i \in DOMAIN ch : Told(ch[i]) /\ ch[i].id = r}
Taken(c) == {r \in Id : \E g \in Handler : Takes(c[g]) /\ IdOf(c[g]) = r}
Untold(c) == {r \in Id : \E g \in Handler : Stores(c[g]) /\ IdOf(c[g]) = r}
Open(c, ch) == Taken(c) \cup Sent(ch)
Due(c, ch) == Untold(c) \cup Sent(ch)

\* Once the events are handled, a page that shows k' will show k.
Latest(ch, type, shown, k) ==
  \/ \E i \in DOMAIN ch : /\ ch[i].type = type /\ Says(ch[i]) = k
                          /\ \A j \in DOMAIN ch : j > i => ch[j].type # type
  \/ (\A j \in DOMAIN ch : ch[j].type # type) /\ shown = k
-----------------------------------------------------------------------------
\* No request has two events on the way.
Once(ch) ==
  \A i, j \in DOMAIN ch : Told(ch[i]) /\ Told(ch[j]) /\ ch[i].id = ch[j].id => i = j

\* Every request has a number of its own, one event at most, and is counted
\* among the newer ones at most once.
Numbered(st, n, c, ch, pending) ==
  /\ st \subseteq 1 .. n
  /\ \A h \in Handler : Takes(c[h]) =>
       /\ IdOf(c[h]) \in 1 .. n
       /\ ~Stores(c[h]) => IdOf(c[h]) \notin st
       /\ \A g \in Handler : Takes(c[g]) /\ IdOf(c[g]) = IdOf(c[h]) => g = h
       /\ IdOf(c[h]) \notin Sent(ch)
  /\ Once(ch)
  /\ Sent(ch) \subseteq 1 .. n
  /\ pending + Cardinality(Open(c, ch)) <= n

\* What a handler knows that nobody has overtaken.
Knows(c, h, st, v, ch) ==
  c[h].stage # "idle" /\ ~c[h].overtaken =>
    /\ Takes(c[h]) => /\ \A s \in st : s > IdOf(c[h]) => s \in Untold(c)
                      /\ \A r \in Sent(ch) : r < IdOf(c[h])
    /\ Stores(c[h]) => IdOf(c[h]) \in st
    /\ Tells(c[h]) =>
         /\ c[h].event.total <= Cardinality(st)
         /\ c[h].event.total = Cardinality(st) \/ WillCount(c, Cardinality(st))
    /\ Saves(c[h]) => c[h].event.version <= v /\ WillShow(c, v)

Fresh(c, st, v, ch) == \A h \in Handler : Knows(c, h, st, v, ch)

\* Whoever has stored a request has been overtaken.
Late(c) == \A g \in Handler : Stores(c[g]) => c[g].overtaken

\* The page will show these settings, and this number of requests; or it shows
\* the number that its filters select, until a request's event tells another.
SettingsTold(c, v, ch, shown) == WillShow(c, v) \/ Latest(ch, "token.updated", shown, v)
TotalTold(c, st, f, ch, shown) ==
  \/ WillCount(c, Cardinality(st))
  \/ Latest(ch, "request.created", shown, Cardinality(st))
  \/ shown = Cardinality(st \cap f) /\ Sent(ch) = {} /\ Late(c)

\* Events come in the order of their requests, and the newer ones are due.
InOrder(c, st, ch) ==
  /\ Sent(ch) \subseteq st
  /\ \A i, j \in DOMAIN ch : i < j /\ Told(ch[i]) /\ Told(ch[j]) => ch[i].id < ch[j].id
  /\ \A r \in Sent(ch), s \in st : s > r => s \in Due(c, ch)

\* What is not due stands in order on the first page, and of what the filters
\* select nothing is left out unless there are newer ones enough.
FirstPage(st, f, due, list) ==
  /\ Range(list) \subseteq st
  /\ \A i, j \in DOMAIN list :
       i < j /\ list[i] \notin due /\ list[j] \notin due => Second[list[i]] >= Second[list[j]]
  /\ \A i \in DOMAIN list : list[i] \notin due =>
       \A s \in st \cap f : Second[s] > Second[list[i]] => s \in due \cup Range(list)
  /\ st \cap f \subseteq due \cup Range(list) \/ Cardinality(due \cup Range(list)) >= PerPage

\* ListRequests, of any set of requests.
Listing(S, p) ==
  {SubSeq(all, (p - 1) * PerPage + 1, Min({p * PerPage, Len(all)})) : all \in Newest(S)}

\* What a later page shows is right until a request is due.
LaterPage(S, due, list, p, pending) == pending > 0 \/ due # {} \/ list \in Listing(S, p)

ListTold(st, f, due, list, p, pending) ==
  IF p = 1 THEN FirstPage(st, f, due, list) ELSE LaterPage(st \cap f, due, list, p, pending)

\* The page is subscribed only once it is loaded, and shows no list before.
Phases ==
  /\ connected => phase = "loaded"
  /\ ~connected => channel = <<>>
  /\ phase # "loaded" => view.list = <<>> /\ view.pending = 0

\* What the page shows of the settings and of the requests will be right, unless
\* it has missed something.
SettingsRight ==
  Read /\ "settings" \notin missed => SettingsTold(call, version, channel, view.version)
TotalRight ==
  Counted /\ "requests" \notin missed =>
    TotalTold(call, stored, filter, channel, view.total) /\ InOrder(call, stored, channel)
ListRight ==
  phase = "loaded" /\ "requests" \notin missed =>
    ListTold(stored, filter, Due(call, channel), view.list, page, view.pending)

Inv ==
  /\ TypeOK /\ NoDuplicates /\ Phases
  /\ Numbered(stored, captured, call, channel, view.pending)
  /\ Fresh(call, stored, version, channel)
  /\ SettingsRight /\ TotalRight /\ ListRight
-----------------------------------------------------------------------------
\* The numbers up to n.
LEMMA UpTo ==
  ASSUME NEW n \in Nat
  PROVE  IsFiniteSet(1 .. n) /\ Cardinality(1 .. n) = n
BY FS_Interval

\* An order without ties gives the members of a finite set the ranks from 0 on,
\* each to one of them, and the greater rank to the later member.
LEMMA Ranks ==
  ASSUME NEW S, IsFiniteSet(S), NEW R,
         \A a \in S : <<a, a>> \notin R,
         \A a, b, c \in S : <<a, b>> \in R /\ <<b, c>> \in R => <<a, c>> \in R,
         \A a, b \in S : a # b => <<a, b>> \in R \/ <<b, a>> \in R
  PROVE  /\ Cardinality(S) \in Nat
         /\ \A a \in S : Cardinality({b \in S : <<b, a>> \in R}) \in 0 .. Cardinality(S) - 1
         /\ \A a, b \in S : <<a, b>> \in R =>
              Cardinality({c \in S : <<c, a>> \in R}) < Cardinality({c \in S : <<c, b>> \in R})
         /\ \A i \in 1 .. Cardinality(S) :
              \E a \in S : Cardinality({b \in S : <<b, a>> \in R}) = i - 1
<1>. DEFINE before(a) == {b \in S : <<b, a>> \in R}
            n == Cardinality(S)
            rank == [a \in S |-> Cardinality(before(a))]
            T == {rank[a] : a \in S}
<1>1. n \in Nat
  BY FS_CardinalityType
<1>2. \A a \in S : /\ before(a) \subseteq S /\ a \notin before(a) /\ IsFiniteSet(before(a))
                   /\ Cardinality(before(a)) \in Nat /\ rank[a] = Cardinality(before(a))
  BY FS_Subset, FS_CardinalityType
<1>3. ASSUME NEW a \in S
      PROVE  rank[a] \in Nat /\ rank[a] <= n /\ rank[a] # n
  BY <1>2, FS_Subset
<1>4. ASSUME NEW a \in S, NEW b \in S, <<a, b>> \in R
      PROVE  rank[a] <= rank[b] /\ rank[a] # rank[b]
  <2>1. before(a) \subseteq before(b) /\ a \in before(b) /\ a \notin before(a)
    BY <1>4
  <2>2. Cardinality(before(a)) <= Cardinality(before(b))
    BY <1>2, <2>1, FS_Subset
  <2>3. Cardinality(before(a)) # Cardinality(before(b))
    BY <1>2, <2>1, FS_Subset
  <2>. QED BY <1>2, <2>2, <2>3
<1>5. \A a, b \in S : rank[a] = rank[b] => a = b
  <2>. HIDE DEF rank
  <2>. QED BY <1>4
<1>6. rank \in Surjection(S, T) /\ rank \in Injection(S, T)
  BY <1>5 DEF Surjection, Injection, IsInjective
<1>7. Cardinality(T) = n
  BY <1>6, FS_Surjection, FS_Injection, FS_CardinalityType
<1>8. IsFiniteSet(0 .. n - 1) /\ Cardinality(0 .. n - 1) = n
  <2>. HIDE DEF n
  <2>. QED BY <1>1, FS_Interval
<1>9. \A a \in S : rank[a] \in 0 .. n - 1
  <2>. HIDE DEF rank, n
  <2>. QED BY <1>1, <1>3
<1>10. T = 0 .. n - 1
  <2>1. T \subseteq 0 .. n - 1
    <3>. HIDE DEF rank, n
    <3>. QED BY <1>9
  <2>. QED BY <1>7, <1>8, <2>1, FS_Subset
<1>11. \A i \in 1 .. n : \E a \in S : rank[a] = i - 1
  <2>1. ASSUME NEW i \in 1 .. n PROVE \E a \in S : rank[a] = i - 1
    <3>1. i - 1 \in 0 .. n - 1
      <4>. HIDE DEF n
      <4>. QED BY <1>1
    <3>2. i - 1 \in T
      BY <1>10, <3>1
    <3>. QED BY <3>2
  <2>. QED BY <2>1
<1>12. \A a, b \in S : <<a, b>> \in R => rank[a] < rank[b]
  <2>. HIDE DEF rank, n
  <2>. QED BY <1>3, <1>4
<1>13. \A a \in S : rank[a] = Cardinality(before(a))
  OBVIOUS
<1>. HIDE DEF rank
<1>14. \A a \in S : Cardinality(before(a)) \in 0 .. n - 1
  BY <1>9, <1>13, Zenon
<1>15. \A a, b \in S : <<a, b>> \in R => Cardinality(before(a)) < Cardinality(before(b))
  <2>1. ASSUME NEW a \in S, NEW b \in S, <<a, b>> \in R
        PROVE  Cardinality(before(a)) < Cardinality(before(b))
    <3>1. rank[a] < rank[b]
      BY <1>12, <2>1
    <3>2. rank[a] = Cardinality(before(a)) /\ rank[b] = Cardinality(before(b))
      BY <1>13
    <3>. QED BY <3>1, <3>2, Zenon
  <2>. QED BY <2>1, Zenon
<1>16. \A i \in 1 .. n : \E a \in S : Cardinality(before(a)) = i - 1
  BY <1>11, <1>13, Zenon
<1>. QED BY <1>1, <1>14, <1>15, <1>16, Zenon

\* A finite set of numbers has a greatest and a least one.
LEMMA Extremes ==
  ASSUME NEW S, S \subseteq Int, IsFiniteSet(S), S # {}
  PROVE  /\ Max(S) \in S /\ \A i \in S : i <= Max(S)
         /\ Min(S) \in S /\ \A i \in S : Min(S) <= i
<1>. DEFINE R == {pair \in S \X S : pair[1] < pair[2]}
            n == Cardinality(S)
            before(a) == {b \in S : <<b, a>> \in R}
<1>0. \A a, b \in S : (~(a < b) => b =< a) /\ (a = b \/ a < b => b >= a)
  OBVIOUS
<1>1. \A a, b \in S : <<a, b>> \in R <=> a < b
  OBVIOUS
<1>2. \A a \in S : <<a, a>> \notin R
  BY <1>1
<1>3. \A a, b, c \in S : <<a, b>> \in R /\ <<b, c>> \in R => <<a, c>> \in R
  BY <1>1
<1>4. \A a, b \in S : a # b => <<a, b>> \in R \/ <<b, a>> \in R
  BY <1>1
<1>. HIDE DEF R
<1>5. n \in Nat /\ n # 0
  BY FS_CardinalityType, FS_EmptySet
<1>6. \A i \in 1 .. n : \E a \in S : Cardinality(before(a)) = i - 1
  BY <1>2, <1>3, <1>4, Ranks
<1>7. \A a \in S : before(a) \subseteq S /\ IsFiniteSet(before(a)) /\ a \notin before(a)
  BY <1>2, FS_Subset
<1>8. \E x \in S : \A y \in S : x >= y
  <2>1. PICK a \in S : Cardinality(before(a)) = n - 1
    BY <1>5, <1>6
  <2>2. IsFiniteSet(S \ {a}) /\ Cardinality(S \ {a}) = n - 1
    BY FS_RemoveElement
  <2>3. before(a) \subseteq S \ {a}
    BY <1>7
  <2>4. before(a) = S \ {a}
    BY <2>1, <2>2, <2>3, FS_Subset
  <2>5. ASSUME NEW y \in S PROVE a >= y
    <3>1. y = a \/ y < a
      BY <1>1, <2>4
    <3>. QED BY <3>1, <1>0
  <2>. QED BY <2>5
<1>9. \E x \in S : \A y \in S : x =< y
  <2>1. PICK a \in S : Cardinality(before(a)) = 0
    BY <1>5, <1>6
  <2>2. before(a) = {}
    BY <1>7, <2>1, FS_EmptySet
  <2>3. \A y \in S : a =< y
    <3>1. \A y \in S : <<y, a>> \notin R
      BY <2>2
    <3>2. ASSUME NEW y \in S PROVE a =< y
      <4>1. ~(y < a)
        BY <1>1, <3>1
      <4>. QED BY <4>1, <1>0
    <3>. QED BY <3>2
  <2>. QED BY <2>3
<1>10. Max(S) \in S /\ \A y \in S : Max(S) >= y
  BY <1>8, Zenon DEF Max
<1>11. Min(S) \in S /\ \A y \in S : Min(S) =< y
  BY <1>9, Zenon DEF Min
<1>. QED BY <1>10, <1>11

\* The smaller of two numbers.
LEMMA Smaller ==
  ASSUME NEW a \in Int, NEW b \in Int
  PROVE  Min({a, b}) = IF a <= b THEN a ELSE b
<1>1. {a, b} \subseteq Int /\ IsFiniteSet({a, b}) /\ {a, b} # {}
  <2>1. IsFiniteSet({})
    BY FS_EmptySet
  <2>2. IsFiniteSet({} \cup {a})
    BY <2>1, FS_AddElement
  <2>3. IsFiniteSet(({} \cup {a}) \cup {b})
    BY <2>2, FS_AddElement
  <2>4. ({} \cup {a}) \cup {b} = {a, b}
    OBVIOUS
  <2>. QED BY <2>3, <2>4
<1>2. Min({a, b}) \in {a, b} /\ \A i \in {a, b} : Min({a, b}) <= i
  BY <1>1, Extremes, Zenon
<1>. QED BY <1>2

\* Ascending lists the members of a finite set of numbers, each once, the
\* smaller before the greater.
LEMMA AscendingIs ==
  ASSUME NEW S, S \subseteq Int, IsFiniteSet(S)
  PROVE  /\ Cardinality(S) \in Nat
         /\ Ascending(S) \in [1 .. Cardinality(S) -> S]
         /\ \A i, j \in 1 .. Cardinality(S) : i < j => Ascending(S)[i] < Ascending(S)[j]
         /\ \A a \in S : \E i \in 1 .. Cardinality(S) : Ascending(S)[i] = a
<1>. DEFINE R == {pair \in S \X S : pair[1] < pair[2]}
            n == Cardinality(S)
            below(a) == {k \in S : k < a}
            rank(a) == Cardinality(below(a))
            asc == [i \in 1 .. n |-> CHOOSE a \in S : rank(a) = i - 1]
<1>1. \A a, b \in S : <<a, b>> \in R <=> a < b
  OBVIOUS
<1>2. \A a \in S : <<a, a>> \notin R
  BY <1>1
<1>3. \A a, b, c \in S : <<a, b>> \in R /\ <<b, c>> \in R => <<a, c>> \in R
  BY <1>1
<1>4. \A a, b \in S : a # b => <<a, b>> \in R \/ <<b, a>> \in R
  BY <1>1
<1>5. \A a \in S : below(a) = {b \in S : <<b, a>> \in R}
  BY <1>1
<1>. HIDE DEF R
<1>6. /\ n \in Nat
      /\ \A a \in S : Cardinality({b \in S : <<b, a>> \in R}) \in 0 .. n - 1
      /\ \A a, b \in S : <<a, b>> \in R =>
           Cardinality({c \in S : <<c, a>> \in R}) < Cardinality({c \in S : <<c, b>> \in R})
      /\ \A i \in 1 .. n : \E a \in S : Cardinality({b \in S : <<b, a>> \in R}) = i - 1
  BY <1>2, <1>3, <1>4, Ranks
<1>7. /\ \A a \in S : rank(a) \in 0 .. n - 1
      /\ \A a, b \in S : a < b => rank(a) < rank(b)
      /\ \A i \in 1 .. n : \E a \in S : rank(a) = i - 1
  <2>. DEFINE count(a) == Cardinality({b \in S : <<b, a>> \in R})
  <2>1. \A a \in S : rank(a) = count(a)
    BY <1>5
  <2>2. /\ \A a \in S : count(a) \in 0 .. n - 1
        /\ \A a, b \in S : <<a, b>> \in R => count(a) < count(b)
        /\ \A i \in 1 .. n : \E a \in S : count(a) = i - 1
    BY <1>6, Zenon
  <2>. HIDE DEF rank, n, count
  <2>. QED BY <1>1, <2>1, <2>2
<1>. HIDE DEF rank
<1>8. \A i \in 1 .. n : asc[i] \in S /\ rank(asc[i]) = i - 1
  <2>1. ASSUME NEW i \in 1 .. n PROVE asc[i] \in S /\ rank(asc[i]) = i - 1
    <3>1. \E a \in S : rank(a) = i - 1
      BY <1>7
    <3>2. asc[i] = CHOOSE a \in S : rank(a) = i - 1
      OBVIOUS
    <3>. QED BY <3>1, <3>2
  <2>. QED BY <2>1
<1>9. asc = Ascending(S)
  BY DEF Ascending, rank
<1>10. DOMAIN asc = 1 .. n /\ asc = [i \in 1 .. n |-> asc[i]]
  OBVIOUS
<1>. HIDE DEF asc
<1>11. asc \in [1 .. n -> S]
  BY <1>8, <1>10
<1>12. \A i, j \in 1 .. n : i < j => asc[i] < asc[j]
  <2>1. ASSUME NEW i \in 1 .. n, NEW j \in 1 .. n, i < j PROVE asc[i] < asc[j]
    <3>. DEFINE a == asc[i]
                b == asc[j]
    <3>1. a \in S /\ b \in S /\ rank(a) = i - 1 /\ rank(b) = j - 1
      BY <1>8
    <3>. HIDE DEF a, b, n
    <3>2. a \in Int /\ b \in Int /\ i \in Int /\ j \in Int
      BY <3>1, <1>6
    <3>3. a # b
      BY <2>1, <3>1, <3>2
    <3>4. ~(b < a)
      <4>1. SUFFICES ASSUME b < a PROVE FALSE
        OBVIOUS
      <4>2. rank(b) < rank(a)
        BY <1>7, <3>1, <4>1
      <4>. QED BY <4>2, <3>1, <3>2, <2>1
    <3>5. a < b
      BY <3>2, <3>3, <3>4
    <3>. QED BY <3>5 DEF a, b
  <2>. QED BY <2>1
<1>13. \A a \in S : \E i \in 1 .. n : asc[i] = a
  <2>1. ASSUME NEW a \in S PROVE \E i \in 1 .. n : asc[i] = a
    <3>. DEFINE i == rank(a) + 1
    <3>1. i \in 1 .. n /\ rank(a) = i - 1 /\ rank(a) \in Int
      <4>1. rank(a) \in 0 .. n - 1
        BY <1>7
      <4>. HIDE DEF n
      <4>. QED BY <4>1, <1>6
    <3>. DEFINE b == asc[i]
    <3>2. b \in S /\ rank(b) = rank(a)
      BY <1>8, <3>1
    <3>3. a \in Int /\ b \in Int
      BY <3>2
    <3>4. a = b
      <4>. HIDE DEF b, i, n
      <4>1. ~(a < b) /\ ~(b < a)
        BY <1>7, <3>2, <3>1
      <4>. QED BY <4>1, <3>3
    <3>. QED BY <3>1, <3>4
  <2>. QED BY <2>1
<1>. QED BY <1>6, <1>9, <1>11, <1>12, <1>13

\* A filter keeps the order of a list without repetitions.
LEMMA OthersAre ==
  ASSUME NEW id \in Id, NEW list \in Seq(Id), IsInjective(list)
  PROVE  \E n \in Nat : \E at \in [1 .. n -> 1 .. Len(list)] :
           /\ n <= Len(list)
           /\ Others(id, list) = [i \in 1 .. n |-> list[at[i]]]
           /\ \A i \in 1 .. n : list[at[i]] # id
           /\ \A i, j \in 1 .. n : i < j => at[i] < at[j]
           /\ \A k \in 1 .. Len(list) : list[k] # id => \E i \in 1 .. n : at[i] = k
<1>. DEFINE kept == {i \in DOMAIN list : list[i] # id}
            n == Cardinality(kept)
            at == Ascending(kept)
<1>1. DOMAIN list = 1 .. Len(list) /\ Len(list) \in Nat
  OBVIOUS
<1>2. IsFiniteSet(1 .. Len(list)) /\ Cardinality(1 .. Len(list)) = Len(list)
  BY <1>1, UpTo
<1>3. kept \subseteq 1 .. Len(list) /\ kept \subseteq Int
  BY <1>1
<1>4. IsFiniteSet(kept) /\ n <= Len(list)
  BY <1>2, <1>3, FS_Subset
<1>5. /\ n \in Nat /\ at \in [1 .. n -> kept]
      /\ \A i, j \in 1 .. n : i < j => at[i] < at[j]
      /\ \A k \in kept : \E i \in 1 .. n : at[i] = k
  <2>. HIDE DEF kept
  <2>. QED BY <1>3, <1>4, AscendingIs
<1>6. Others(id, list) = [i \in DOMAIN at |-> list[at[i]]]
  BY DEF Others
<1>7. \A k \in 1 .. Len(list) : list[k] # id => k \in kept
  BY <1>1
<1>8. \A k \in kept : list[k] # id
  OBVIOUS
<1>. HIDE DEF kept, n, at
<1>9. DOMAIN at = 1 .. n /\ at \in [1 .. n -> 1 .. Len(list)]
  BY <1>5, <1>3
<1>10. Others(id, list) = [i \in 1 .. n |-> list[at[i]]]
  BY <1>6, <1>9
<1>11. \A i \in 1 .. n : list[at[i]] # id
  BY <1>5, <1>8
<1>12. \A k \in 1 .. Len(list) : list[k] # id => \E i \in 1 .. n : at[i] = k
  BY <1>5, <1>7
<1>13. \E f \in [1 .. n -> 1 .. Len(list)] :
         /\ Others(id, list) = [i \in 1 .. n |-> list[f[i]]]
         /\ \A i \in 1 .. n : list[f[i]] # id
         /\ \A i, j \in 1 .. n : i < j => f[i] < f[j]
         /\ \A k \in 1 .. Len(list) : list[k] # id => \E i \in 1 .. n : f[i] = k
  BY <1>5, <1>9, <1>10, <1>11, <1>12, Zenon
<1>. QED BY <1>4, <1>5, <1>13

\* The list with a request in front: the request, then members of the list in
\* their order, and what is cut off was behind all that stay.
LEMMA PrependedIs ==
  ASSUME NEW id \in Id, NEW list \in Seq(Id), IsInjective(list)
  PROVE  /\ Prepended(id, list) \in Seq(Id)
         /\ Len(Prepended(id, list)) \in 1 .. PerPage
         /\ IsInjective(Prepended(id, list))
         /\ Prepended(id, list)[1] = id
         /\ \A i \in DOMAIN Prepended(id, list) : i # 1 =>
              \E k \in DOMAIN list :
                /\ list[k] = Prepended(id, list)[i] /\ list[k] # id
                /\ \A j \in DOMAIN Prepended(id, list), m \in DOMAIN list :
                     i < j /\ list[m] = Prepended(id, list)[j] => k < m
                /\ \A m \in DOMAIN list : list[m] \notin Range(Prepended(id, list)) => k < m
         /\ \/ Range(list) \subseteq Range(Prepended(id, list))
            \/ Len(Prepended(id, list)) = PerPage
<1>0. PICK n \in Nat : \E at \in [1 .. n -> 1 .. Len(list)] :
           /\ n <= Len(list)
           /\ Others(id, list) = [i \in 1 .. n |-> list[at[i]]]
           /\ \A i \in 1 .. n : list[at[i]] # id
           /\ \A i, j \in 1 .. n : i < j => at[i] < at[j]
           /\ \A k \in 1 .. Len(list) : list[k] # id => \E i \in 1 .. n : at[i] = k
  BY OthersAre
<1>1. PICK at \in [1 .. n -> 1 .. Len(list)] :
           /\ n <= Len(list)
           /\ Others(id, list) = [i \in 1 .. n |-> list[at[i]]]
           /\ \A i \in 1 .. n : list[at[i]] # id
           /\ \A i, j \in 1 .. n : i < j => at[i] < at[j]
           /\ \A k \in 1 .. Len(list) : list[k] # id => \E i \in 1 .. n : at[i] = k
  BY <1>0
<1>. DEFINE others == Others(id, list)
            all == <<id>> \o others
            last == Min({PerPage, Len(all)})
            p == SubSeq(all, 1, last)
<1>2. DOMAIN list = 1 .. Len(list) /\ Len(list) \in Nat /\ \A k \in 1 .. Len(list) : list[k] \in Id
  BY ElementOfSeq
<1>3. others \in Seq(Id) /\ Len(others) = n /\ \A i \in 1 .. n : others[i] = list[at[i]]
  BY <1>1, <1>2
<1>. HIDE DEF others
<1>4. /\ all \in Seq(Id) /\ Len(all) = n + 1 /\ all[1] = id
      /\ \A i \in 2 .. n + 1 : i - 1 \in 1 .. n /\ all[i] = list[at[i - 1]]
  <2>1. all \in Seq(Id) /\ Len(all) = n + 1 /\ all[1] = id
    BY <1>3
  <2>2. ASSUME NEW i \in 2 .. n + 1 PROVE i - 1 \in 1 .. n /\ all[i] = others[i - 1]
    BY <1>3
  <2>. QED BY <2>1, <2>2, <1>3
<1>. HIDE DEF all
<1>5. last \in 1 .. PerPage /\ last <= n + 1 /\ (last = n + 1 \/ last = PerPage)
  <2>1. PerPage \in Nat \ {0} /\ n + 1 \in Int
    BY LiveViewAssumption
  <2>2. Min({PerPage, n + 1}) = IF PerPage <= n + 1 THEN PerPage ELSE n + 1
    BY <2>1, Smaller
  <2>. QED BY <2>1, <2>2, <1>4
<1>. HIDE DEF last
<1>6. p \in Seq(Id) /\ Len(p) = last /\ \A i \in 1 .. last : p[i] = all[i]
  <2>1. \A i \in 1 .. last : all[i] \in Id
    BY <1>4, <1>5, ElementOfSeq
  <2>2. /\ p \in Seq(Id) /\ Len(p) = IF 1 <= last THEN last - 1 + 1 ELSE 0
        /\ \A i \in 1 .. last - 1 + 1 : p[i] = all[1 + i - 1]
    BY <2>1, <1>5, SubSeqProperties, LiveViewAssumption
  <2>. QED BY <2>2, <1>5, LiveViewAssumption
<1>7. Prepended(id, list) = p
  BY Zenon DEF Prepended, all, last, others
<1>. HIDE DEF p
<1>8. DOMAIN p = 1 .. last /\ p[1] = id /\ 1 \in 1 .. last
  BY <1>6, <1>5, <1>4, LiveViewAssumption
<1>9. \A i \in 2 .. last : i - 1 \in 1 .. n /\ p[i] = list[at[i - 1]] /\ p[i] # id
  <2>1. ASSUME NEW i \in 2 .. last
        PROVE  i \in 2 .. n + 1 /\ i \in 1 .. last
    BY <1>5, LiveViewAssumption
  <2>2. \A i \in 2 .. last : i - 1 \in 1 .. n /\ p[i] = list[at[i - 1]]
    BY <2>1, <1>4, <1>6
  <2>. QED BY <2>2, <1>1
<1>10. \A k, m \in 1 .. Len(list) : list[k] = list[m] => k = m
  BY <1>2 DEF IsInjective
<1>11. \A i \in 1 .. last : i = 1 \/ i \in 2 .. last
  BY <1>5, LiveViewAssumption
<1>12. \A i, j \in 2 .. last : p[i] = p[j] => i = j
  <2>1. ASSUME NEW i \in 2 .. last, NEW j \in 2 .. last, p[i] = p[j] PROVE i = j
    <3>1. at[i - 1] = at[j - 1]
      <4>1. i - 1 \in 1 .. n /\ j - 1 \in 1 .. n
        BY <1>9
      <4>2. at[i - 1] \in 1 .. Len(list) /\ at[j - 1] \in 1 .. Len(list)
        BY <4>1
      <4>. QED BY <2>1, <4>2, <1>9, <1>10
    <3>2. i - 1 \in 1 .. n /\ j - 1 \in 1 .. n /\ i \in Int /\ j \in Int
      BY <1>9
    <3>3. ~(i - 1 < j - 1) /\ ~(j - 1 < i - 1)
      BY <3>1, <3>2, <1>1
    <3>. QED BY <3>2, <3>3
  <2>. QED BY <2>1
<1>13. IsInjective(p)
  BY <1>8, <1>9, <1>11, <1>12 DEF IsInjective
<1>14. ASSUME NEW i \in DOMAIN p, i # 1
       PROVE  \E k \in DOMAIN list :
                /\ list[k] = p[i] /\ list[k] # id
                /\ \A j \in DOMAIN p, m \in DOMAIN list : i < j /\ list[m] = p[j] => k < m
                /\ \A m \in DOMAIN list : list[m] \notin Range(p) => k < m
  <2>1. i \in 2 .. last
    BY <1>8, <1>11, <1>14
  <2>. DEFINE k == at[i - 1]
  <2>2. k \in DOMAIN list /\ list[k] = p[i] /\ list[k] # id
    BY <2>1, <1>9, <1>1, <1>2
  <2>3. ASSUME NEW j \in DOMAIN p, NEW m \in DOMAIN list, i < j, list[m] = p[j] PROVE k < m
    <3>1. j \in 2 .. last
      BY <2>1, <2>3, <1>8, <1>5, LiveViewAssumption
    <3>2. m = at[j - 1]
      BY <3>1, <2>3, <1>9, <1>10, <1>1, <1>2
    <3>3. i - 1 < j - 1
      BY <2>1, <3>1, <2>3
    <3>. QED BY <3>2, <3>3, <2>1, <3>1, <1>9, <1>1
  <2>4. ASSUME NEW m \in DOMAIN list, list[m] \notin Range(p) PROVE k < m
    <3>1. list[m] # id
      BY <2>4, <1>8 DEF Range
    <3>2. PICK q \in 1 .. n : at[q] = m
      BY <3>1, <1>1, <1>2
    <3>3. ~(q + 1 \in 2 .. last)
      <4>1. SUFFICES ASSUME q + 1 \in 2 .. last PROVE FALSE
        OBVIOUS
      <4>2. p[q + 1] = list[at[(q + 1) - 1]] /\ (q + 1) - 1 = q
        <5>1. p[q + 1] = list[at[(q + 1) - 1]]
          BY <4>1, <1>9
        <5>. QED BY <5>1
      <4>3. q + 1 \in DOMAIN p
        BY <4>1, <1>8
      <4>. QED BY <4>2, <4>3, <3>2, <2>4 DEF Range
    <3>4. i - 1 < q /\ i - 1 \in 1 .. n
      BY <3>3, <2>1, <1>9, <1>5, LiveViewAssumption
    <3>. QED BY <3>4, <3>2, <1>1
  <2>. QED BY <2>2, <2>3, <2>4
<1>15. ASSUME last = n + 1 PROVE Range(list) \subseteq Range(p)
  <2>1. ASSUME NEW k \in 1 .. Len(list) PROVE list[k] \in Range(p)
    <3>1. CASE list[k] = id
      BY <3>1, <1>8 DEF Range
    <3>2. CASE list[k] # id
      <4>1. PICK q \in 1 .. n : at[q] = k
        BY <3>2, <1>1
      <4>2. q + 1 \in 2 .. last /\ (q + 1) - 1 = q
        BY <1>15
      <4>3. p[q + 1] = list[k]
        BY <4>1, <4>2, <1>9
      <4>4. q + 1 \in DOMAIN p
        BY <4>2, <1>8
      <4>. QED BY <4>3, <4>4 DEF Range
    <3>. QED BY <3>1, <3>2
  <2>. QED BY <2>1, <1>2 DEF Range
<1>16. Len(p) \in 1 .. PerPage /\ (Range(list) \subseteq Range(p) \/ Len(p) = PerPage)
  BY <1>5, <1>6, <1>15
<1>17. p \in Seq(Id) /\ p[1] = id
  BY <1>6, <1>8
<1>. QED BY <1>7, <1>13, <1>14, <1>16, <1>17
-----------------------------------------------------------------------------
\* Sets of requests are finite, and so is their number.
LEMMA FiniteIds ==
  /\ IsFiniteSet(Id) /\ Id \subseteq Int
  /\ \A S \in SUBSET Id : IsFiniteSet(S) /\ Cardinality(S) \in 0 .. Requests
  /\ \A S, T \in SUBSET Id : S \subseteq T => Cardinality(S) <= Cardinality(T)
<1>1. IsFiniteSet(Id) /\ Cardinality(Id) = Requests
  BY LiveViewAssumption, UpTo DEF Id
<1>2. \A S \in SUBSET Id : IsFiniteSet(S) /\ Cardinality(S) \in Nat /\ Cardinality(S) <= Requests
  BY <1>1, FS_Subset, FS_CardinalityType
<1>3. \A S, T \in SUBSET Id : S \subseteq T => Cardinality(S) <= Cardinality(T)
  BY <1>2, FS_Subset
<1>4. \A S \in SUBSET Id : Cardinality(S) \in 0 .. Requests
  BY <1>2, LiveViewAssumption
<1>5. Id \subseteq Int
  BY DEF Id
<1>. QED BY <1>1, <1>2, <1>3, <1>4, <1>5

\* What there is in a list of requests.
LEMMA ListFacts ==
  ASSUME NEW list \in Seq(Id)
  PROVE  /\ DOMAIN list = 1 .. Len(list) /\ Len(list) \in Nat /\ Range(list) \subseteq Id
         /\ \A i \in DOMAIN list :
              list[i] \in Id /\ list[i] \in Int /\ i \in Int /\ list[i] \in Range(list)
<1>1. DOMAIN list = 1 .. Len(list) /\ Len(list) \in Nat
  OBVIOUS
<1>2. \A i \in 1 .. Len(list) : list[i] \in Id
  BY ElementOfSeq
<1>3. \A i \in DOMAIN list : list[i] \in Int
  BY <1>1, <1>2, FiniteIds
<1>4. \A i \in DOMAIN list : list[i] \in Range(list)
  BY DEF Range
<1>5. Range(list) \subseteq Id
  BY <1>1, <1>2 DEF Range
<1>. QED BY <1>1, <1>2, <1>3, <1>4, <1>5

\* A list without repetitions is as long as it has members.
LEMMA MembersOf ==
  ASSUME NEW list \in Seq(Id), IsInjective(list)
  PROVE  Range(list) \subseteq Id /\ Cardinality(Range(list)) = Len(list)
<1>1. DOMAIN list = 1 .. Len(list) /\ Len(list) \in Nat /\ Range(list) \subseteq Id
  BY ElementOfSeq DEF Range
<1>2. IsFiniteSet(1 .. Len(list)) /\ Cardinality(1 .. Len(list)) = Len(list)
  BY <1>1, UpTo
<1>3. list \in [1 .. Len(list) -> Range(list)]
  BY <1>1 DEF Range
<1>4. list \in Surjection(1 .. Len(list), Range(list)) /\ list \in Injection(1 .. Len(list), Range(list))
  BY <1>1, <1>3 DEF Surjection, Injection, IsInjective, Range
<1>5. Cardinality(Range(list)) <= Len(list)
  BY <1>2, <1>4, FS_Surjection
<1>6. Len(list) <= Cardinality(Range(list))
  BY <1>1, <1>2, <1>4, FS_Injection, FiniteIds
<1>7. Cardinality(Range(list)) \in Int
  BY <1>1, FiniteIds
<1>. QED BY <1>1, <1>5, <1>6, <1>7

\* A later request has no earlier time.
LEMMA Times ==
  /\ \A q \in Id : Second[q] \in Int
  /\ \A q, r \in Id : Second[q] > Second[r] => q > r
<1>1. \A q, r \in Id : Second[q] \in Int /\ Second[r] \in Int /\ q \in Int /\ r \in Int
  BY RequestAssumption, FiniteIds
<1>2. ASSUME NEW q \in Id, NEW r \in Id, Second[q] > Second[r] PROVE q > r
  <2>1. q # r
    BY <1>1, <1>2
  <2>2. ~(q < r)
    BY <1>1, <1>2, RequestAssumption
  <2>. QED BY <1>1, <2>1, <2>2
<1>. QED BY <1>1, <1>2

\* A set of requests, the newest first: each of them once.
LEMMA NewestIs ==
  ASSUME NEW S, S \subseteq Id, NEW all \in Newest(S)
  PROVE  /\ Cardinality(S) \in Nat /\ all \in Seq(Id) /\ Len(all) = Cardinality(S)
         /\ \A i \in 1 .. Cardinality(S) : all[i] \in S
         /\ \A i, j \in 1 .. Cardinality(S) :
              (all[i] = all[j] => i = j) /\ (i < j => Second[all[i]] >= Second[all[j]])
         /\ \A r \in S : \E i \in 1 .. Cardinality(S) : all[i] = r
<1>. DEFINE n == Cardinality(S)
<1>1. /\ all \in [1 .. n -> S] /\ IsInjective(all)
      /\ \A i, j \in DOMAIN all : i < j => Second[all[i]] >= Second[all[j]]
  BY DEF Newest
<1>2. n \in 0 .. Requests /\ IsFiniteSet(S)
  BY FiniteIds, Zenon
<1>. HIDE DEF n
<1>3. n \in Nat /\ DOMAIN all = 1 .. n /\ \A i \in 1 .. n : all[i] \in S
  BY <1>1, <1>2
<1>4. all \in [1 .. n -> Id]
  BY <1>1
<1>5. all \in Seq(Id) /\ Len(all) = n
  BY <1>3, <1>4
<1>6. Cardinality(Range(all)) = n
  BY <1>1, <1>5, MembersOf
<1>7. Range(all) \subseteq S
  BY <1>3 DEF Range
<1>8. Range(all) = S
  BY <1>2, <1>6, <1>7, FS_Subset DEF n
<1>9. \A r \in S : \E i \in 1 .. n : all[i] = r
  BY <1>3, <1>8 DEF Range
<1>10. \A i, j \in 1 .. n :
         (all[i] = all[j] => i = j) /\ (i < j => Second[all[i]] >= Second[all[j]])
  BY <1>1, <1>3 DEF IsInjective
<1>. QED BY <1>3, <1>5, <1>9, <1>10 DEF n

\* A page of the list: no more than a page holds, each request once, the newest
\* first; and the first page leaves none out but for newer ones that fill it.
LEMMA ListingIs ==
  ASSUME NEW S, S \subseteq Id, NEW p \in {1, 2}, NEW l \in Listing(S, p)
  PROVE  /\ l \in Seq(Id) /\ Len(l) <= PerPage /\ Range(l) \subseteq S /\ IsInjective(l)
         /\ \A i, j \in DOMAIN l : i < j => Second[l[i]] >= Second[l[j]]
         /\ p = 1 => \A r \in S \ Range(l) :
              Len(l) = PerPage /\ \A i \in DOMAIN l : Second[l[i]] >= Second[r]
<1>1. PICK all \in Newest(S) :
        l = SubSeq(all, (p - 1) * PerPage + 1, Min({p * PerPage, Len(all)}))
  BY Zenon DEF Listing
<1>. DEFINE n == Cardinality(S)
            first == (p - 1) * PerPage + 1
            last == Min({p * PerPage, Len(all)})
<1>2. /\ n \in Nat /\ all \in Seq(Id) /\ Len(all) = n
      /\ \A i \in 1 .. n : all[i] \in S
      /\ \A i, j \in 1 .. n :
           (all[i] = all[j] => i = j) /\ (i < j => Second[all[i]] >= Second[all[j]])
      /\ \A r \in S : \E i \in 1 .. n : all[i] = r
  BY NewestIs
<1>. HIDE DEF n
<1>3. /\ PerPage \in Nat \ {0}
      /\ first \in Nat /\ first >= 1 /\ last \in Int
      /\ last <= n /\ last - first + 1 <= PerPage
      /\ p = 1 => first = 1 /\ (last = n \/ last = PerPage)
  <2>1. PerPage \in Nat \ {0} /\ p * PerPage \in Int /\ Len(all) \in Int
    BY LiveViewAssumption, <1>2
  <2>2. last = IF p * PerPage <= n THEN p * PerPage ELSE n
    BY <2>1, <1>2, Smaller
  <2>3. CASE p = 1
    BY <2>1, <2>2, <2>3, <1>2
  <2>4. CASE p = 2
    BY <2>1, <2>2, <2>4, <1>2
  <2>. QED BY <2>3, <2>4
<1>4. l = SubSeq(all, first, last)
  BY <1>1
<1>. HIDE DEF first, last
<1>5. /\ l \in Seq(S) /\ Len(l) = IF first <= last THEN last - first + 1 ELSE 0
      /\ \A i \in 1 .. last - first + 1 : l[i] = all[first + i - 1]
  <2>1. \A i \in first .. last : all[i] \in S
    BY <1>2, <1>3
  <2>. QED BY <2>1, <1>3, <1>4, SubSeqProperties
<1>6. DOMAIN l = 1 .. Len(l) /\ Len(l) <= PerPage /\ Len(l) \in Nat /\ l \in Seq(Id)
  BY <1>5, <1>3
<1>7. \A i \in DOMAIN l : first + i - 1 \in 1 .. n /\ l[i] = all[first + i - 1] /\ l[i] \in S
  <2>1. ASSUME NEW i \in DOMAIN l
        PROVE  first + i - 1 \in 1 .. n /\ i \in 1 .. last - first + 1
    <3>1. i \in 1 .. Len(l) /\ i \in Nat /\ i >= 1 /\ i <= Len(l)
      BY <1>6
    <3>2. i <= last - first + 1
      BY <3>1, <1>5, <1>3
    <3>. QED BY <3>1, <3>2, <1>3, <1>2
  <2>. QED BY <2>1, <1>5, <1>2
<1>8. Range(l) \subseteq S
  BY <1>7 DEF Range
<1>9. \A i, j \in DOMAIN l : (l[i] = l[j] => i = j) /\ (i < j => Second[l[i]] >= Second[l[j]])
  <2>1. ASSUME NEW i \in DOMAIN l, NEW j \in DOMAIN l
        PROVE  (l[i] = l[j] => i = j) /\ (i < j => Second[l[i]] >= Second[l[j]])
    <3>. DEFINE a == first + i - 1
                b == first + j - 1
    <3>1. a \in 1 .. n /\ b \in 1 .. n /\ l[i] = all[a] /\ l[j] = all[b]
      BY <1>7
    <3>2. (a = b => i = j) /\ (i < j => a < b)
      BY <1>3, <1>6
    <3>. HIDE DEF a, b
    <3>. QED BY <3>1, <3>2, <1>2
  <2>. QED BY <2>1
<1>10. ASSUME p = 1, NEW r \in S \ Range(l)
       PROVE  Len(l) = PerPage /\ \A i \in DOMAIN l : Second[l[i]] >= Second[r]
  <2>1. first = 1 /\ Len(l) = last /\ last \in Nat
    BY <1>10, <1>3, <1>5, <1>2, LiveViewAssumption
  <2>2. \A i \in DOMAIN l : i \in 1 .. n /\ l[i] = all[i]
    BY <2>1, <1>7, <1>6
  <2>3. PICK k \in 1 .. n : all[k] = r
    BY <1>2
  <2>4. k \notin DOMAIN l
    BY <2>2, <2>3, <1>10 DEF Range
  <2>5. \A i \in DOMAIN l : i < k
    BY <2>4, <1>6
  <2>6. last # n
    BY <2>1, <2>4, <1>6
  <2>. QED BY <2>1, <2>2, <2>3, <2>5, <2>6, <1>2, <1>3, <1>10
<1>. QED BY <1>6, <1>8, <1>9, <1>10 DEF IsInjective

\* The first page as it is loaded, whatever is due.
LEMMA FirstPageLoaded ==
  ASSUME NEW st, st \subseteq Id, NEW f, NEW due, due \subseteq Id, NEW l \in Listing(st \cap f, 1)
  PROVE  FirstPage(st, f, due, l)
<1>1. /\ l \in Seq(Id) /\ Range(l) \subseteq st \cap f /\ IsInjective(l)
      /\ \A i, j \in DOMAIN l : i < j => Second[l[i]] >= Second[l[j]]
      /\ \A r \in (st \cap f) \ Range(l) :
           Len(l) = PerPage /\ \A i \in DOMAIN l : Second[l[i]] >= Second[r]
  <2>1. st \cap f \subseteq Id
    OBVIOUS
  <2>. QED BY <2>1, ListingIs
<1>2. \A i \in DOMAIN l : l[i] \in Id
  BY <1>1, ListFacts
<1>3. ASSUME NEW i \in DOMAIN l, NEW s \in st \cap f, Second[s] > Second[l[i]]
      PROVE  s \in Range(l)
  <2>1. SUFFICES ASSUME s \notin Range(l) PROVE FALSE
    OBVIOUS
  <2>2. Second[l[i]] >= Second[s] /\ Second[l[i]] \in Int /\ Second[s] \in Int
    BY <1>1, <1>2, <2>1, Times
  <2>. QED BY <2>2, <1>3
<1>4. ASSUME Len(l) = PerPage PROVE Cardinality(due \cup Range(l)) >= PerPage
  <2>1. Cardinality(Range(l)) = PerPage /\ Range(l) \subseteq Id
    BY <1>1, <1>4, MembersOf
  <2>2. due \cup Range(l) \in SUBSET Id /\ Range(l) \in SUBSET Id
    BY <2>1
  <2>3. Cardinality(Range(l)) <= Cardinality(due \cup Range(l))
    BY <2>2, FiniteIds
  <2>4. Cardinality(due \cup Range(l)) \in 0 .. Requests
    BY <2>2, FiniteIds, Zenon
  <2>. QED BY <2>1, <2>3, <2>4, LiveViewAssumption
<1>5. st \cap f \subseteq due \cup Range(l) \/ Cardinality(due \cup Range(l)) >= PerPage
  BY <1>1, <1>4
<1>. QED BY <1>1, <1>3, <1>5 DEF FirstPage

\* A request that is stored is due.
LEMMA FirstPageStored ==
  ASSUME NEW st, st \subseteq Id, NEW f, NEW due, due \subseteq Id, NEW id \in Id,
         NEW list \in Seq(Id), FirstPage(st, f, due, list)
  PROVE  FirstPage(st \cup {id}, f, due \cup {id}, list)
<1>. DEFINE d == due \cup {id}
<1>1. Range(list) \subseteq Id
  BY ElementOfSeq DEF Range
<1>2. due \cup Range(list) \subseteq d \cup Range(list) /\ d \cup Range(list) \in SUBSET Id
      /\ due \cup Range(list) \in SUBSET Id
  BY <1>1
<1>3. /\ Cardinality(due \cup Range(list)) <= Cardinality(d \cup Range(list))
      /\ Cardinality(due \cup Range(list)) \in Int /\ Cardinality(d \cup Range(list)) \in Int
  BY <1>2, FiniteIds
<1>4. Range(list) \subseteq st \cup {id}
  BY DEF FirstPage
<1>5. \A i, j \in DOMAIN list :
        i < j /\ list[i] \notin d /\ list[j] \notin d => Second[list[i]] >= Second[list[j]]
  BY DEF FirstPage
<1>6. \A i \in DOMAIN list : list[i] \notin d =>
        \A s \in (st \cup {id}) \cap f : Second[s] > Second[list[i]] => s \in d \cup Range(list)
  BY DEF FirstPage
<1>7. (st \cup {id}) \cap f \subseteq d \cup Range(list) \/ Cardinality(d \cup Range(list)) >= PerPage
  <2>1. CASE st \cap f \subseteq due \cup Range(list)
    BY <2>1
  <2>2. CASE Cardinality(due \cup Range(list)) >= PerPage
    BY <2>2, <1>3, LiveViewAssumption
  <2>. QED BY <2>1, <2>2 DEF FirstPage
<1>. QED BY <1>4, <1>5, <1>6, <1>7 DEF FirstPage

\* The event that a page handles was due, and all newer requests still are.
LEMMA FirstPageReceives ==
  ASSUME NEW st, st \subseteq Id, NEW f, NEW due, due \subseteq Id, NEW id \in st,
         NEW list \in Seq(Id), IsInjective(list),
         FirstPage(st, f, due, list), \A s \in st : s > id => s \in due
  PROVE  FirstPage(st, f, due \ {id}, Prepended(id, list))
<1>. DEFINE p == Prepended(id, list)
            d == due \ {id}
<1>1. /\ p \in Seq(Id) /\ Len(p) \in 1 .. PerPage /\ IsInjective(p) /\ p[1] = id
      /\ \A i \in DOMAIN p : i # 1 =>
           \E k \in DOMAIN list :
             /\ list[k] = p[i] /\ list[k] # id
             /\ \A j \in DOMAIN p, m \in DOMAIN list : i < j /\ list[m] = p[j] => k < m
             /\ \A m \in DOMAIN list : list[m] \notin Range(p) => k < m
      /\ Range(list) \subseteq Range(p) \/ Len(p) = PerPage
  BY PrependedIs
<1>. HIDE DEF p
<1>2. DOMAIN p = 1 .. Len(p) /\ Range(p) \subseteq Id /\ id \in Range(p) /\ 1 \in DOMAIN p
      /\ (\A i \in DOMAIN p : p[i] \in Id /\ p[i] \in Int /\ i \in Int)
  <2>1. 1 \in DOMAIN p
    BY <1>1, ListFacts, LiveViewAssumption
  <2>. QED BY <2>1, <1>1, ListFacts
<1>3. DOMAIN list = 1 .. Len(list) /\ Range(list) \subseteq Id
      /\ (\A i \in DOMAIN list : list[i] \in Id /\ list[i] \in Int /\ i \in Int)
  BY ListFacts
<1>4. \A i \in DOMAIN p : i # 1 => p[i] \in Range(list)
  BY <1>1 DEF Range
<1>5. Range(p) \subseteq st
  BY <1>1, <1>2, <1>4 DEF FirstPage, Range
<1>6. ASSUME NEW i \in DOMAIN p, NEW j \in DOMAIN p, i < j, p[i] \notin d, p[j] \notin d
      PROVE  Second[p[i]] >= Second[p[j]]
  <2>1. j # 1
    BY <1>6, <1>2
  <2>2. PICK m \in DOMAIN list : list[m] = p[j] /\ list[m] # id
    BY <1>1, <2>1
  <2>3. CASE i = 1
    <3>1. ~(p[j] > id)
      BY <2>2, <1>6, <1>5, <1>2 DEF Range
    <3>2. ~(Second[p[j]] > Second[id]) /\ Second[p[j]] \in Int /\ Second[id] \in Int
      BY <3>1, <1>2, Times
    <3>. QED BY <3>2, <2>3, <1>1
  <2>4. CASE i # 1
    <3>1. PICK k \in DOMAIN list :
            /\ list[k] = p[i] /\ list[k] # id
            /\ \A jj \in DOMAIN p, mm \in DOMAIN list : i < jj /\ list[mm] = p[jj] => k < mm
      BY <1>1, <2>4
    <3>2. k < m
      BY <3>1, <2>2, <1>6
    <3>3. list[k] \notin due /\ list[m] \notin due
      BY <3>1, <2>2, <1>6
    <3>. QED BY <3>1, <3>2, <3>3, <2>2 DEF FirstPage
  <2>. QED BY <2>3, <2>4
<1>7. ASSUME NEW i \in DOMAIN p, p[i] \notin d, NEW s \in st \cap f, Second[s] > Second[p[i]],
             s \notin Range(p)
      PROVE  s \in d
  <2>1. s # id
    BY <1>7, <1>2
  <2>2. CASE i = 1
    <3>1. s > id
      BY <2>2, <1>7, <1>1, Times
    <3>. QED BY <2>1, <3>1
  <2>3. CASE i # 1
    <3>1. PICK k \in DOMAIN list :
            /\ list[k] = p[i] /\ list[k] # id
            /\ \A m \in DOMAIN list : list[m] \notin Range(p) => k < m
      BY <1>1, <2>3
    <3>2. list[k] \notin due /\ Second[s] > Second[list[k]]
      BY <3>1, <1>7
    <3>3. s \in due \cup Range(list)
      BY <3>2 DEF FirstPage
    <3>4. ASSUME s \notin due PROVE FALSE
      <4>1. PICK m \in DOMAIN list : list[m] = s
        BY <3>3, <3>4 DEF Range
      <4>2. k < m
        BY <4>1, <3>1, <1>7
      <4>3. Second[list[k]] >= Second[list[m]]
        BY <4>1, <4>2, <3>2, <3>4 DEF FirstPage
      <4>4. Second[list[k]] \in Int /\ Second[list[m]] \in Int
        BY <1>3, Times
      <4>. QED BY <4>1, <4>3, <4>4, <3>2
    <3>. QED BY <3>4, <2>1
  <2>. QED BY <2>2, <2>3
<1>8. st \cap f \subseteq d \cup Range(p) \/ Cardinality(d \cup Range(p)) >= PerPage
  <2>1. /\ d \cup Range(p) \in SUBSET Id /\ Range(p) \in SUBSET Id
        /\ due \cup Range(list) \in SUBSET Id
        /\ Cardinality(d \cup Range(p)) \in Int
        /\ Cardinality(Range(p)) <= Cardinality(d \cup Range(p))
    <3>1. /\ d \cup Range(p) \in SUBSET Id /\ Range(p) \in SUBSET Id
          /\ due \cup Range(list) \in SUBSET Id
      BY <1>2, <1>3
    <3>2. Cardinality(d \cup Range(p)) \in 0 .. Requests
      BY <3>1, FiniteIds, Zenon
    <3>3. Cardinality(Range(p)) <= Cardinality(d \cup Range(p))
      BY <3>1, FiniteIds
    <3>. QED BY <3>1, <3>2, <3>3
  <2>2. CASE Len(p) = PerPage
    <3>1. Cardinality(Range(p)) = PerPage
      BY <2>2, <1>1, MembersOf
    <3>. QED BY <3>1, <2>1, LiveViewAssumption
  <2>3. CASE Range(list) \subseteq Range(p)
    <3>1. due \cup Range(list) \subseteq d \cup Range(p)
      BY <2>3, <1>2
    <3>2. Cardinality(due \cup Range(list)) <= Cardinality(d \cup Range(p))
          /\ Cardinality(due \cup Range(list)) \in Int
      BY <3>1, <2>1, FiniteIds
    <3>3. CASE st \cap f \subseteq due \cup Range(list)
      BY <3>1, <3>3
    <3>4. CASE Cardinality(due \cup Range(list)) >= PerPage
      BY <3>2, <3>4, <2>1, LiveViewAssumption
    <3>. QED BY <3>3, <3>4 DEF FirstPage
  <2>. QED BY <1>1, <2>2, <2>3
<1>9. \A i, j \in DOMAIN p : i < j /\ p[i] \notin d /\ p[j] \notin d => Second[p[i]] >= Second[p[j]]
  BY <1>6
<1>10. \A i \in DOMAIN p : p[i] \notin d =>
         \A s \in st \cap f : Second[s] > Second[p[i]] => s \in d \cup Range(p)
  BY <1>7
<1>11. FirstPage(st, f, d, p)
  BY <1>5, <1>8, <1>9, <1>10 DEF FirstPage
<1>. QED BY <1>11 DEF p

\* When nothing is due, the first page shows the newest.
LEMMA FirstPageFaithful ==
  ASSUME NEW st, st \subseteq Id, NEW f, NEW list \in Seq(Id), IsInjective(list),
         Len(list) <= PerPage, FirstPage(st, f, {}, list)
  PROVE  Range(list) \subseteq st /\ ShowsNewest(list, st \cap f)
<1>1. Cardinality(Range(list)) = Len(list) /\ {} \cup Range(list) = Range(list)
  BY MembersOf
<1>2. Len(list) \in Nat /\ PerPage \in Nat /\ \A i \in DOMAIN list : list[i] \in Id
  BY LiveViewAssumption, ListFacts
<1>3. Range(list) \subseteq st /\ \A i, j \in DOMAIN list : i < j => Second[list[i]] >= Second[list[j]]
  BY DEF FirstPage
<1>4. ASSUME NEW r \in (st \cap f) \ Range(list)
      PROVE  Len(list) = PerPage /\ \A i \in DOMAIN list : Second[list[i]] >= Second[r]
  <2>1. Len(list) >= PerPage
    BY <1>1, <1>4 DEF FirstPage
  <2>2. ASSUME NEW i \in DOMAIN list PROVE Second[list[i]] >= Second[r]
    <3>1. ~(Second[r] > Second[list[i]])
      BY <1>4 DEF FirstPage
    <3>2. Second[r] \in Int /\ Second[list[i]] \in Int
      BY <1>2, Times
    <3>. QED BY <3>1, <3>2
  <2>. QED BY <2>1, <2>2, <1>2
<1>. QED BY <1>3, <1>4 DEF ShowsNewest

-----------------------------------------------------------------------------
\* What there is in an event.
LEMMA EventFields ==
  ASSUME NEW e \in Event
  PROVE  /\ Told(e) => e.type = "request.created" /\ e.id \in Id /\ e.total \in 0 .. Requests
         /\ ~Told(e) => e.type = "token.updated" /\ e.version \in Version
         /\ e.type # "token.updated" => Told(e)
BY DEF Event, Told

\* What there is in a call, by what it is about to do.
LEMMA CallFields ==
  ASSUME NEW c \in Call
  PROVE  /\ c.stage \in {"idle", "insert", "count", "publish"}
         /\ c.stage = "idle" => ~Takes(c) /\ ~Stores(c) /\ ~Tells(c) /\ ~Saves(c) /\ ~Counting(c)
         /\ c.stage = "insert" => /\ Takes(c) /\ ~Stores(c) /\ ~Saves(c) /\ ~Tells(c)
                                  /\ ~Counting(c) /\ IdOf(c) = c.id
         /\ c.stage = "count" => /\ Takes(c) /\ Stores(c) /\ ~Saves(c) /\ ~Tells(c)
                                 /\ Counting(c) /\ IdOf(c) = c.id
         /\ c.stage = "publish" => c.event \in Event /\ (Tells(c) \/ Saves(c)) /\ ~Counting(c)
         /\ c.stage # "idle" => c.overtaken \in BOOLEAN
         /\ Takes(c) => IdOf(c) \in Id /\ ~Saves(c) /\ c.stage # "idle"
         /\ Tells(c) => /\ Stores(c) /\ Told(c.event) /\ c.event.id = IdOf(c)
                        /\ c.event.total \in 0 .. Requests /\ c.stage = "publish"
         /\ Saves(c) => /\ ~Told(c.event) /\ c.event.version \in Version
                        /\ c.stage = "publish"
         /\ Stores(c) => Takes(c)
         /\ Stores(c) <=> Counting(c) \/ Tells(c)
<1>1. CASE c \in [stage : {"idle"}]
  BY <1>1 DEF Takes, Stores, Tells, Saves, Counting
<1>2. CASE c \in [stage : {"insert", "count"}, id : Id, overtaken : BOOLEAN]
  BY <1>2 DEF Takes, Stores, Tells, Saves, Counting, IdOf
<1>3. CASE c \in [stage : {"publish"}, event : Event, overtaken : BOOLEAN]
  <2>1. c.stage = "publish" /\ c.event \in Event /\ c.overtaken \in BOOLEAN
    BY <1>3
  <2>2. Told(c.event) \/ c.event.type = "token.updated"
    BY <2>1, EventFields
  <2>. QED BY <2>1, <2>2, EventFields DEF Takes, Stores, Tells, Saves, Counting, IdOf, Told
<1>. QED BY <1>1, <1>2, <1>3 DEF Call

\* Two calls that differ at most in whether they have been overtaken.
Alike(c, d) ==
  /\ d.stage = c.stage
  /\ c.stage \in {"insert", "count"} => d.id = c.id
  /\ c.stage = "publish" => d.event = c.event

\* They are about to do the same.
LEMMA AlikeDo ==
  ASSUME NEW c \in Call, NEW d \in Call, Alike(c, d)
  PROVE  /\ Takes(d) <=> Takes(c)
         /\ Stores(d) <=> Stores(c)
         /\ Counting(d) <=> Counting(c)
         /\ Tells(d) <=> Tells(c)
         /\ Saves(d) <=> Saves(c)
         /\ Takes(c) => IdOf(d) = IdOf(c)
         /\ c.stage = "publish" => d.event = c.event
BY CallFields DEF Alike, Takes, Stores, Counting, Tells, Saves, IdOf

\* The handler of a call that is overtaken goes on as it would have.
LEMMA OvertakenCall ==
  ASSUME NEW c \in Call, c.stage # "idle"
  PROVE  /\ [c EXCEPT !.overtaken = TRUE] \in Call
         /\ [c EXCEPT !.overtaken = TRUE].overtaken = TRUE
         /\ Alike(c, [c EXCEPT !.overtaken = TRUE])
<1>1. CASE c \in [stage : {"insert", "count"}, id : Id, overtaken : BOOLEAN]
  BY <1>1 DEF Call, Alike
<1>2. CASE c \in [stage : {"publish"}, event : Event, overtaken : BOOLEAN]
  <2>. DEFINE d == [c EXCEPT !.overtaken = TRUE]
  <2>1. d \in [stage : {"publish"}, event : Event, overtaken : BOOLEAN]
    BY <1>2
  <2>2. d.stage = c.stage /\ d.event = c.event /\ d.overtaken = TRUE /\ c.stage = "publish"
    BY <1>2
  <2>. HIDE DEF d
  <2>3. d \in Call
    BY <2>1 DEF Call
  <2>4. Alike(c, d)
    BY <2>2 DEF Alike
  <2>. QED BY <2>2, <2>3, <2>4 DEF d
<1>. QED BY <1>1, <1>2 DEF Call

\* A call is not older than an event.
Newer(c, e) ==
  /\ Told(e) => /\ Takes(c) => IdOf(c) >= e.id
                /\ Tells(c) => c.event.total >= e.total
  /\ ~Told(e) /\ Saves(c) => c.event.version >= e.version

\* The calls after h is done with e.
Passed(c, d, h, e) ==
  /\ d \in [Handler -> Call] /\ d[h].stage = "idle"
  /\ \A g \in Handler \ {h} :
       /\ Alike(c[g], d[g])
       /\ d[g].stage # "idle" /\ ~d[g].overtaken => ~c[g].overtaken /\ Newer(c[g], e)

\* Overtake marks whoever is older.
LEMMA OvertakePasses ==
  ASSUME call \in [Handler -> Call], NEW h \in Handler, NEW e \in Event, Overtake(h, e)
  PROVE  Passed(call, call', h, e)
<1>. DEFINE over(c) == [c EXCEPT !.overtaken = TRUE]
<1>1. ASSUME NEW g \in Handler, ~Older(g, e) PROVE Newer(call[g], e)
  <2>. DEFINE c == call[g]
  <2>1. c \in Call
    OBVIOUS
  <2>2. CASE Told(e)
    <3>0. e.type # "token.updated" /\ e.type = "request.created" /\ e.id \in Int /\ e.total \in Int
      BY <2>2, EventFields DEF Told, Id
    <3>1. ASSUME Takes(c) PROVE IdOf(c) >= e.id
      <4>1. IdOf(c) \in Int
        BY <2>1, <3>1, CallFields DEF Id
      <4>2. CASE c.stage \in {"insert", "count"}
        BY <4>1, <4>2, <1>1, <3>0, <2>1, CallFields DEF Older
      <4>3. CASE Tells(c)
        BY <4>1, <4>3, <1>1, <3>0, <2>1, CallFields DEF Older, At, Tells
      <4>. QED BY <4>2, <4>3, <3>1, <2>1 DEF Takes, Stores, Counting
    <3>2. ASSUME Tells(c) PROVE c.event.total >= e.total
      BY <3>2, <1>1, <3>0, <2>1, CallFields DEF Older, At, Tells
    <3>. QED BY <2>2, <3>1, <3>2 DEF Newer
  <2>3. CASE ~Told(e)
    <3>0. e.type = "token.updated" /\ e.version \in Int
      BY <2>3, EventFields DEF Version
    <3>1. ASSUME Saves(c) PROVE c.event.version >= e.version
      <4>1. c.event.version \in Int
        BY <3>1, <2>1, CallFields DEF Version
      <4>. QED BY <4>1, <3>1, <1>1, <3>0 DEF Older, At, Saves
    <3>. QED BY <2>3, <3>1 DEF Newer
  <2>. QED BY <2>2, <2>3
<1>2. ASSUME NEW g \in Handler, Older(g, e) PROVE call[g].stage # "idle"
  BY <1>2 DEF Older, At
<1>3. \A g \in Handler : call[g].stage # "idle" =>
        over(call[g]) \in Call /\ over(call[g]).overtaken = TRUE /\ Alike(call[g], over(call[g]))
  BY OvertakenCall
<1>4. call' = [g \in Handler |-> IF g = h THEN Idle ELSE IF Older(g, e) THEN over(call[g]) ELSE call[g]]
  BY DEF Overtake
<1>5. Idle \in Call /\ Idle.stage = "idle"
  BY DEF Idle, Call
<1>. HIDE DEF over
<1>6. \A g \in Handler : Alike(call[g], call[g])
  BY DEF Alike
<1>7. call' \in [Handler -> Call] /\ call'[h].stage = "idle"
  BY <1>2, <1>3, <1>4, <1>5
<1>8. ASSUME NEW g \in Handler \ {h}
      PROVE  /\ Alike(call[g], call'[g])
             /\ call'[g].stage # "idle" /\ ~call'[g].overtaken => ~call[g].overtaken /\ Newer(call[g], e)
  <2>1. CASE Older(g, e)
    <3>1. call'[g] = over(call[g])
      BY <1>4, <2>1
    <3>. QED BY <3>1, <1>2, <1>3, <2>1
  <2>2. CASE ~Older(g, e)
    <3>1. call'[g] = call[g]
      BY <1>4, <2>2
    <3>. QED BY <3>1, <1>1, <1>6, <2>2
  <2>. QED BY <2>1, <2>2
<1>. QED BY <1>7, <1>8 DEF Passed
-----------------------------------------------------------------------------
\* An event more on the channel.
LEMMA Appended ==
  ASSUME NEW ch \in Seq(Event), NEW e \in Event
  PROVE  /\ Append(ch, e) \in Seq(Event) /\ Len(Append(ch, e)) = Len(ch) + 1
         /\ Len(ch) \in Nat /\ DOMAIN ch = 1 .. Len(ch)
         /\ DOMAIN Append(ch, e) = 1 .. Len(ch) + 1
         /\ \A i \in 1 .. Len(ch) : Append(ch, e)[i] = ch[i]
         /\ Append(ch, e)[Len(ch) + 1] = e
<1>1. Len(ch) \in Nat /\ DOMAIN ch = 1 .. Len(ch)
  OBVIOUS
<1>2. /\ Append(ch, e) \in Seq(Event) /\ Len(Append(ch, e)) = Len(ch) + 1
      /\ \A i \in 1 .. Len(ch) : Append(ch, e)[i] = ch[i]
      /\ Append(ch, e)[Len(ch) + 1] = e
  BY AppendProperties
<1>3. DOMAIN Append(ch, e) = 1 .. Len(Append(ch, e))
  BY <1>2
<1>. QED BY <1>1, <1>2, <1>3

\* An event less: each that is left was one place behind.
LEMMA Received ==
  ASSUME NEW ch \in Seq(Event), ch # <<>>
  PROVE  /\ Head(ch) \in Event /\ Head(ch) = ch[1] /\ 1 \in DOMAIN ch
         /\ Tail(ch) \in Seq(Event) /\ Len(Tail(ch)) = Len(ch) - 1
         /\ \A i \in DOMAIN Tail(ch) :
              i \in Int /\ i >= 1 /\ i + 1 \in DOMAIN ch /\ Tail(ch)[i] = ch[i + 1]
         /\ \A i \in DOMAIN ch : i \in Int /\ i >= 1
              /\ (i # 1 => i - 1 \in DOMAIN Tail(ch) /\ Tail(ch)[i - 1] = ch[i])
<1>. DEFINE tail == Tail(ch)
            n == Len(ch)
<1>1. n \in Nat \ {0} /\ DOMAIN ch = 1 .. n /\ Head(ch) = ch[1]
  BY EmptySeq
<1>2. /\ Head(ch) \in Event /\ tail \in Seq(Event) /\ Len(tail) = n - 1
      /\ \A i \in 1 .. Len(tail) : tail[i] = ch[i + 1]
  BY HeadTailProperties
<1>3. DOMAIN tail = 1 .. Len(tail)
  BY <1>2
<1>. HIDE DEF tail, n
<1>4. DOMAIN tail = 1 .. n - 1 /\ \A i \in 1 .. n - 1 : tail[i] = ch[i + 1]
  BY <1>2, <1>3
<1>5. \A i \in DOMAIN tail : i \in Int /\ i >= 1 /\ i + 1 \in DOMAIN ch /\ tail[i] = ch[i + 1]
  BY <1>1, <1>4
<1>6. ASSUME NEW i \in DOMAIN ch, i # 1
      PROVE  i - 1 \in DOMAIN tail /\ tail[i - 1] = ch[i]
  <2>1. i - 1 \in 1 .. n - 1 /\ (i - 1) + 1 = i
    BY <1>6, <1>1
  <2>. QED BY <2>1, <1>4
<1>7. \A i \in DOMAIN ch : i \in Int /\ i >= 1
  BY <1>1
<1>. QED BY <1>1, <1>2, <1>5, <1>6, <1>7 DEF tail, n

\* The requests on the way are numbers of requests.
LEMMA SentIds == \A ch : Sent(ch) \subseteq Id /\ (\A c : Taken(c) \subseteq Id /\ Untold(c) \subseteq Id)
BY DEF Sent, Taken, Untold

\* What is on the way after a publication, after an event, and without a stream.
LEMMA SentAppended ==
  ASSUME NEW ch \in Seq(Event), NEW e \in Event
  PROVE  Sent(Append(ch, e)) = Sent(ch) \cup News(e)
<1>. DEFINE s == Append(ch, e)
            n == Len(ch)
<1>1. /\ n \in Nat /\ DOMAIN ch = 1 .. n /\ DOMAIN s = 1 .. n + 1
      /\ (\A i \in 1 .. n : s[i] = ch[i]) /\ s[n + 1] = e
  BY Appended
<1>2. Told(e) => e.id \in Id
  BY EventFields
<1>. HIDE DEF s, n
<1>3. \A i \in 1 .. n + 1 : i \in 1 .. n \/ i = n + 1
  BY <1>1
<1>4. 1 .. n \subseteq 1 .. n + 1 /\ n + 1 \in 1 .. n + 1
  BY <1>1
<1>5. Sent(s) = Sent(ch) \cup News(e)
  BY <1>1, <1>2, <1>3, <1>4 DEF Sent, News
<1>. QED BY <1>5 DEF s

\* The first event is one of those on the way.
LEMMA SentReceived ==
  ASSUME NEW ch \in Seq(Event), ch # <<>>
  PROVE  Sent(ch) = Sent(Tail(ch)) \cup News(Head(ch))
<1>. DEFINE t == Tail(ch)
            e == Head(ch)
<1>1. /\ e \in Event /\ e = ch[1] /\ 1 \in DOMAIN ch
      /\ \A i \in DOMAIN t : i + 1 \in DOMAIN ch /\ t[i] = ch[i + 1]
      /\ \A i \in DOMAIN ch : i # 1 => i - 1 \in DOMAIN t /\ t[i - 1] = ch[i]
  BY Received
<1>2. Told(e) => e.id \in Id
  BY <1>1, EventFields
<1>. HIDE DEF t, e
<1>3. Sent(t) \subseteq Sent(ch) /\ (Told(e) => e.id \in Sent(ch))
  BY <1>1, <1>2 DEF Sent
<1>4. ASSUME NEW r \in Sent(ch) PROVE r \in Sent(t) \/ (Told(e) /\ r = e.id)
  <2>1. PICK i \in DOMAIN ch : Told(ch[i]) /\ ch[i].id = r
    BY DEF Sent
  <2>2. CASE i = 1
    BY <2>1, <2>2, <1>1
  <2>3. CASE i # 1
    BY <2>1, <2>3, <1>1 DEF Sent
  <2>. QED BY <2>2, <2>3
<1>5. Sent(ch) = Sent(t) \cup News(e)
  BY <1>3, <1>4 DEF News
<1>. QED BY <1>5 DEF t, e

\* Nothing is on the way in an empty channel.
LEMMA SentNothing == Sent(<<>>) = {}
BY DEF Sent

\* The latest event is the one that is published, if it has the type.
LEMMA LatestAppended ==
  ASSUME NEW ch \in Seq(Event), NEW e \in Event, NEW type, NEW shown, NEW k,
         IF e.type = type THEN Says(e) = k ELSE Latest(ch, type, shown, k)
  PROVE  Latest(Append(ch, e), type, shown, k)
<1>. DEFINE s == Append(ch, e)
            n == Len(ch)
<1>1. /\ n \in Nat /\ DOMAIN ch = 1 .. n /\ DOMAIN s = 1 .. n + 1
      /\ (\A i \in 1 .. n : s[i] = ch[i]) /\ s[n + 1] = e
  BY Appended
<1>. HIDE DEF s, n
<1>2. \A i \in 1 .. n + 1 : (i \in 1 .. n \/ i = n + 1) /\ ~(i > n + 1)
  BY <1>1
<1>3. 1 .. n \subseteq 1 .. n + 1 /\ n + 1 \in 1 .. n + 1
  BY <1>1
<1>4. ASSUME e.type = type PROVE Latest(s, type, shown, k)
  BY <1>1, <1>2, <1>3, <1>4 DEF Latest
<1>5. ASSUME e.type # type PROVE Latest(s, type, shown, k)
  <2>1. CASE (\A j \in DOMAIN ch : ch[j].type # type) /\ shown = k
    BY <1>1, <1>2, <1>5, <2>1 DEF Latest
  <2>2. ASSUME NEW i \in DOMAIN ch, ch[i].type = type, Says(ch[i]) = k,
               \A j \in DOMAIN ch : j > i => ch[j].type # type
        PROVE  Latest(s, type, shown, k)
    <3>1. i \in DOMAIN s /\ s[i].type = type /\ Says(s[i]) = k
      BY <1>1, <1>3, <2>2
    <3>2. \A j \in DOMAIN s : j > i => s[j].type # type
      BY <1>1, <1>2, <1>5, <2>2
    <3>. QED BY <3>1, <3>2 DEF Latest
  <2>. QED BY <1>5, <2>1, <2>2 DEF Latest
<1>6. Latest(s, type, shown, k)
  BY <1>4, <1>5
<1>. QED BY <1>6 DEF s

\* An event that is handled is shown.
LEMMA LatestReceived ==
  ASSUME NEW ch \in Seq(Event), ch # <<>>, NEW type, NEW shown, NEW k,
         Latest(ch, type, shown, k)
  PROVE  Latest(Tail(ch), type, IF Head(ch).type = type THEN Says(Head(ch)) ELSE shown, k)
<1>. DEFINE t == Tail(ch)
            e == Head(ch)
            new == IF e.type = type THEN Says(e) ELSE shown
<1>1. /\ e = ch[1] /\ 1 \in DOMAIN ch
      /\ \A i \in DOMAIN t : i \in Int /\ i >= 1 /\ i + 1 \in DOMAIN ch /\ t[i] = ch[i + 1]
      /\ \A i \in DOMAIN ch : i \in Int /\ i >= 1
           /\ (i # 1 => i - 1 \in DOMAIN t /\ t[i - 1] = ch[i])
  BY Received
<1>. HIDE DEF t, e
<1>2. ASSUME (\A j \in DOMAIN ch : ch[j].type # type) /\ shown = k
      PROVE  Latest(t, type, new, k)
  BY <1>1, <1>2 DEF Latest
<1>3. ASSUME NEW i \in DOMAIN ch, ch[i].type = type, Says(ch[i]) = k,
             \A j \in DOMAIN ch : j > i => ch[j].type # type
      PROVE  Latest(t, type, new, k)
  <2>1. CASE i = 1
    <3>1. new = k
      BY <2>1, <1>1, <1>3
    <3>2. ASSUME NEW j \in DOMAIN t PROVE t[j].type # type
      <4>1. j + 1 \in DOMAIN ch /\ j + 1 > i /\ t[j] = ch[j + 1]
        BY <1>1, <2>1
      <4>. QED BY <4>1, <1>3
    <3>. QED BY <3>1, <3>2 DEF Latest
  <2>2. CASE i # 1
    <3>1. i - 1 \in DOMAIN t /\ t[i - 1] = ch[i]
      BY <1>1, <2>2
    <3>2. ASSUME NEW j \in DOMAIN t, j > i - 1 PROVE t[j].type # type
      <4>1. j + 1 \in DOMAIN ch /\ j + 1 > i /\ t[j] = ch[j + 1]
        BY <1>1, <3>2
      <4>. QED BY <4>1, <1>3
    <3>. QED BY <3>1, <3>2, <1>3 DEF Latest
  <2>. QED BY <2>1, <2>2
<1>4. Latest(t, type, new, k)
  BY <1>2, <1>3 DEF Latest
<1>. QED BY <1>4 DEF t, e

\* Nothing on the way: what is shown is the latest.
LEMMA LatestNothing ==
  ASSUME NEW type, NEW shown, NEW k
  PROVE  Latest(<<>>, type, shown, k) <=> shown = k
BY DEF Latest
-----------------------------------------------------------------------------
\* Numbers stay unique on the way.
LEMMA OnceAppended ==
  ASSUME NEW ch \in Seq(Event), NEW e \in Event, Once(ch), Told(e) => e.id \notin Sent(ch)
  PROVE  Once(Append(ch, e))
<1>. DEFINE s == Append(ch, e)
            n == Len(ch)
<1>1. /\ n \in Nat /\ DOMAIN ch = 1 .. n /\ DOMAIN s = 1 .. n + 1
      /\ (\A i \in 1 .. n : s[i] = ch[i]) /\ s[n + 1] = e
  BY Appended
<1>2. Told(e) => e.id \in Id
  BY EventFields
<1>. HIDE DEF s, n
<1>3. \A i \in 1 .. n + 1 : i \in 1 .. n \/ i = n + 1
  BY <1>1
<1>4. \A i \in 1 .. n : Told(e) /\ Told(ch[i]) => ch[i].id # e.id
  BY <1>1, <1>2 DEF Sent
<1>5. Once(s)
  BY <1>1, <1>3, <1>4 DEF Once
<1>. QED BY <1>5 DEF s

\* A request that is handled has no other event on the way.
LEMMA OnceReceived ==
  ASSUME NEW ch \in Seq(Event), ch # <<>>, Once(ch)
  PROVE  Once(Tail(ch)) /\ (Told(Head(ch)) => Head(ch).id \notin Sent(Tail(ch)))
<1>. DEFINE t == Tail(ch)
            e == Head(ch)
<1>1. /\ e = ch[1] /\ 1 \in DOMAIN ch
      /\ \A i \in DOMAIN t : i \in Int /\ i >= 1 /\ i + 1 \in DOMAIN ch /\ t[i] = ch[i + 1]
  BY Received
<1>. HIDE DEF t, e
<1>2. ASSUME NEW i \in DOMAIN t, NEW j \in DOMAIN t, Told(t[i]), Told(t[j]), t[i].id = t[j].id
      PROVE  i = j
  <2>1. i + 1 = j + 1
    BY <1>1, <1>2 DEF Once
  <2>. QED BY <2>1, <1>1
<1>3. ASSUME Told(e), NEW i \in DOMAIN t, Told(t[i]) PROVE t[i].id # e.id
  <2>1. i + 1 # 1
    BY <1>1
  <2>. QED BY <2>1, <1>1, <1>3 DEF Once
<1>4. Once(t) /\ (Told(e) => e.id \notin Sent(t))
  BY <1>2, <1>3 DEF Once, Sent
<1>. QED BY <1>4 DEF t, e

\* Numbers stay unique when nothing is taken up.
LEMMA NumberedLess ==
  ASSUME NEW c \in [Handler -> Call], NEW d \in [Handler -> Call],
         NEW st, NEW st2, st2 \subseteq st, NEW n \in Nat, n <= Requests,
         NEW ch, NEW ch2, Sent(ch2) \subseteq Sent(ch), Once(ch2),
         NEW p \in Nat, NEW p2 \in Nat, p2 <= p,
         \A g \in Handler : Takes(d[g]) =>
           /\ Takes(c[g]) /\ IdOf(d[g]) = IdOf(c[g])
           /\ Stores(c[g]) => Stores(d[g]),
         Numbered(st, n, c, ch, p)
  PROVE  Numbered(st2, n, d, ch2, p2)
<1>1. Taken(d) \subseteq Taken(c)
  BY DEF Taken
<1>2. Open(d, ch2) \subseteq Open(c, ch) /\ Open(c, ch) \in SUBSET Id /\ Open(d, ch2) \in SUBSET Id
  BY <1>1, SentIds DEF Open
<1>3. /\ Cardinality(Open(d, ch2)) <= Cardinality(Open(c, ch))
      /\ Cardinality(Open(c, ch)) \in 0 .. Requests /\ Cardinality(Open(d, ch2)) \in 0 .. Requests
  BY <1>2, FiniteIds, Zenon
<1>4. p + Cardinality(Open(c, ch)) <= n
  BY DEF Numbered
<1>5. p2 + Cardinality(Open(d, ch2)) <= n
  BY <1>3, <1>4
<1>6. /\ st2 \subseteq 1 .. n
      /\ \A h \in Handler : Takes(d[h]) =>
           /\ IdOf(d[h]) \in 1 .. n
           /\ ~Stores(d[h]) => IdOf(d[h]) \notin st2
           /\ \A g \in Handler : Takes(d[g]) /\ IdOf(d[g]) = IdOf(d[h]) => g = h
           /\ IdOf(d[h]) \notin Sent(ch2)
      /\ Sent(ch2) \subseteq 1 .. n
  BY DEF Numbered
<1>. QED BY <1>5, <1>6 DEF Numbered

\* A request that is taken up has a number that no other has had.
LEMMA NumberedStamped ==
  ASSUME NEW c \in [Handler -> Call], NEW d \in [Handler -> Call], NEW h \in Handler,
         NEW st, NEW n \in Nat, n < Requests, NEW ch, NEW p \in Nat,
         \A g \in Handler \ {h} : d[g] = c[g],
         Takes(d[h]), IdOf(d[h]) = n + 1, ~Takes(c[h]),
         Numbered(st, n, c, ch, p)
  PROVE  Numbered(st, n + 1, d, ch, p)
<1>1. 1 .. n \subseteq 1 .. n + 1 /\ n + 1 \in 1 .. n + 1 /\ n + 1 \notin 1 .. n /\ n + 1 \in Id
  BY LiveViewAssumption DEF Id
<1>2. Taken(d) = Taken(c) \cup {n + 1}
  BY <1>1 DEF Taken
<1>3. Open(d, ch) = Open(c, ch) \cup {n + 1} /\ Open(c, ch) \in SUBSET Id
  BY <1>2, SentIds DEF Open
<1>4. IsFiniteSet(Open(c, ch)) /\ Cardinality(Open(c, ch)) \in 0 .. Requests
  BY <1>3, FiniteIds, Zenon
<1>5. Cardinality(Open(d, ch)) =
        IF n + 1 \in Open(c, ch) THEN Cardinality(Open(c, ch)) ELSE Cardinality(Open(c, ch)) + 1
  BY <1>3, <1>4, FS_AddElement
<1>6. p + Cardinality(Open(c, ch)) <= n
  BY DEF Numbered
<1>7. p + Cardinality(Open(d, ch)) <= n + 1
  BY <1>4, <1>5, <1>6
<1>8. st \subseteq 1 .. n + 1 /\ Once(ch) /\ Sent(ch) \subseteq 1 .. n + 1
      /\ n + 1 \notin st /\ n + 1 \notin Sent(ch)
  BY <1>1 DEF Numbered
<1>9. ASSUME NEW k \in Handler, Takes(d[k])
      PROVE  /\ IdOf(d[k]) \in 1 .. n + 1
             /\ ~Stores(d[k]) => IdOf(d[k]) \notin st
             /\ \A g \in Handler : Takes(d[g]) /\ IdOf(d[g]) = IdOf(d[k]) => g = k
             /\ IdOf(d[k]) \notin Sent(ch)
  <2>1. \A g \in Handler \ {h} : Takes(d[g]) => IdOf(d[g]) \in 1 .. n
    BY DEF Numbered
  <2>2. CASE k = h
    BY <2>1, <2>2, <1>1, <1>8
  <2>3. CASE k # h
    BY <2>1, <2>3, <1>1, <1>9 DEF Numbered
  <2>. QED BY <2>2, <2>3
<1>. QED BY <1>7, <1>8, <1>9 DEF Numbered

\* A request that is stored keeps its number.
LEMMA NumberedStored ==
  ASSUME NEW c \in [Handler -> Call], NEW d \in [Handler -> Call], NEW h \in Handler,
         NEW st, NEW n \in Nat, NEW ch, NEW p \in Nat,
         \A g \in Handler \ {h} : d[g] = c[g],
         Takes(c[h]), Takes(d[h]), Stores(d[h]), IdOf(d[h]) = IdOf(c[h]),
         Numbered(st, n, c, ch, p)
  PROVE  Numbered(st \cup {IdOf(c[h])}, n, d, ch, p)
<1>1. \A g \in Handler : (Takes(d[g]) <=> Takes(c[g])) /\ IdOf(d[g]) = IdOf(c[g])
  OBVIOUS
<1>2. Open(d, ch) = Open(c, ch)
  BY <1>1 DEF Open, Taken
<1>3. st \cup {IdOf(c[h])} \subseteq 1 .. n
  BY DEF Numbered
<1>4. ASSUME NEW k \in Handler, Takes(d[k])
      PROVE  /\ IdOf(d[k]) \in 1 .. n
             /\ ~Stores(d[k]) => IdOf(d[k]) \notin st \cup {IdOf(c[h])}
             /\ \A g \in Handler : Takes(d[g]) /\ IdOf(d[g]) = IdOf(d[k]) => g = k
             /\ IdOf(d[k]) \notin Sent(ch)
  BY <1>1, <1>4 DEF Numbered
<1>. QED BY <1>2, <1>3, <1>4 DEF Numbered

\* A request whose event is published is open as before.
LEMMA NumberedTold ==
  ASSUME NEW c \in [Handler -> Call], NEW d \in [Handler -> Call], NEW h \in Handler,
         NEW st, NEW n \in Nat, NEW ch \in Seq(Event), NEW p \in Nat, NEW e \in Event,
         Told(e), Takes(c[h]), IdOf(c[h]) = e.id, ~Takes(d[h]),
         \A g \in Handler \ {h} : /\ Takes(d[g]) <=> Takes(c[g])
                                  /\ Stores(d[g]) <=> Stores(c[g])
                                  /\ Takes(c[g]) => IdOf(d[g]) = IdOf(c[g]),
         Numbered(st, n, c, ch, p)
  PROVE  Numbered(st, n, d, Append(ch, e), p)
<1>1. Sent(Append(ch, e)) = Sent(ch) \cup {e.id} /\ e.id \in Id
  BY SentAppended, EventFields DEF News
<1>2. Taken(c) = Taken(d) \cup {e.id}
  <2>1. Taken(d) \subseteq Taken(c) /\ e.id \in Taken(c)
    BY <1>1 DEF Taken
  <2>2. Taken(c) \subseteq Taken(d) \cup {e.id}
    BY DEF Taken
  <2>. QED BY <2>1, <2>2
<1>3. Open(d, Append(ch, e)) = Open(c, ch)
  BY <1>1, <1>2 DEF Open
<1>4. Once(Append(ch, e))
  <2>1. Once(ch) /\ e.id \notin Sent(ch)
    BY DEF Numbered
  <2>. QED BY <2>1, OnceAppended
<1>5. Sent(Append(ch, e)) \subseteq 1 .. n
  BY <1>1 DEF Numbered
<1>6. ASSUME NEW k \in Handler, Takes(d[k])
      PROVE  /\ IdOf(d[k]) \in 1 .. n
             /\ ~Stores(d[k]) => IdOf(d[k]) \notin st
             /\ \A g \in Handler : Takes(d[g]) /\ IdOf(d[g]) = IdOf(d[k]) => g = k
             /\ IdOf(d[k]) \notin Sent(Append(ch, e))
  <2>1. k # h /\ Takes(c[k]) /\ IdOf(d[k]) = IdOf(c[k]) /\ (Stores(d[k]) <=> Stores(c[k]))
    BY <1>6
  <2>2. \A g \in Handler : Takes(d[g]) => Takes(c[g]) /\ IdOf(d[g]) = IdOf(c[g])
    OBVIOUS
  <2>3. IdOf(c[k]) # e.id
    BY <2>1 DEF Numbered
  <2>. QED BY <2>1, <2>2, <2>3, <1>1 DEF Numbered
<1>. QED BY <1>3, <1>4, <1>5, <1>6 DEF Numbered

\* A later page counts the request of an event that it handles.
LEMMA NumberedCounted ==
  ASSUME NEW c \in [Handler -> Call], NEW st, NEW n \in Nat, NEW ch \in Seq(Event), ch # <<>>,
         NEW p \in Nat, Told(Head(ch)), Numbered(st, n, c, ch, p)
  PROVE  Numbered(st, n, c, Tail(ch), p + 1)
<1>. DEFINE id == Head(ch).id
<1>1. Sent(ch) = Sent(Tail(ch)) \cup {id} /\ Once(Tail(ch)) /\ id \notin Sent(Tail(ch))
  BY SentReceived, OnceReceived DEF Numbered, News
<1>2. id \notin Taken(c)
  BY <1>1 DEF Taken, Numbered
<1>3. Open(c, Tail(ch)) = Open(c, ch) \ {id} /\ id \in Open(c, ch) /\ Open(c, ch) \in SUBSET Id
  BY <1>1, <1>2, SentIds DEF Open
<1>4. IsFiniteSet(Open(c, ch)) /\ Cardinality(Open(c, ch)) \in 0 .. Requests
  BY <1>3, FiniteIds, Zenon
<1>5. Cardinality(Open(c, Tail(ch))) = Cardinality(Open(c, ch)) - 1
  BY <1>3, <1>4, FS_RemoveElement
<1>6. p + Cardinality(Open(c, ch)) <= n
  BY DEF Numbered
<1>7. (p + 1) + Cardinality(Open(c, Tail(ch))) <= n
  BY <1>4, <1>5, <1>6
<1>8. Sent(Tail(ch)) \subseteq Sent(ch)
  BY <1>1
<1>. QED BY <1>1, <1>7, <1>8 DEF Numbered
-----------------------------------------------------------------------------
\* A handler knows what it knew while others do not take it back.
LEMMA KnowsStill ==
  ASSUME NEW c, NEW d, NEW g \in Handler, NEW st, NEW v, NEW ch, NEW ch2,
         d[g] = c[g], Sent(ch2) \subseteq Sent(ch), Untold(c) \subseteq Untold(d),
         WillCount(c, Cardinality(st)) => WillCount(d, Cardinality(st)),
         WillShow(c, v) => WillShow(d, v),
         Knows(c, g, st, v, ch)
  PROVE  Knows(d, g, st, v, ch2)
BY DEF Knows

\* Others go on while h captures, refuses, or counts and so will tell the number.
LEMMA OthersGoOn ==
  ASSUME NEW c \in [Handler -> Call], NEW d \in [Handler -> Call], NEW h \in Handler, NEW k, NEW v,
         \A g \in Handler \ {h} : d[g] = c[g],
         ~Saves(c[h]),
         \/ ~Stores(c[h])
         \/ Tells(d[h]) /\ d[h].event.total = k /\ IdOf(d[h]) = IdOf(c[h])
  PROVE  /\ Untold(c) \subseteq Untold(d)
         /\ WillCount(c, k) => WillCount(d, k)
         /\ WillShow(c, v) => WillShow(d, v)
<1>1. Untold(c) \subseteq Untold(d)
  BY DEF Untold, Stores
<1>2. ASSUME WillCount(c, k) PROVE WillCount(d, k)
  BY <1>2 DEF WillCount, Stores
<1>3. ASSUME WillShow(c, v) PROVE WillShow(d, v)
  BY <1>3 DEF WillShow
<1>. QED BY <1>1, <1>2, <1>3

\* A request that is taken up is newer than all.
LEMMA FreshStamped ==
  ASSUME NEW c \in [Handler -> Call], NEW d \in [Handler -> Call], NEW h \in Handler,
         NEW st, NEW v, NEW ch, NEW n \in Nat,
         \A g \in Handler \ {h} : d[g] = c[g],
         c[h].stage = "idle", d[h].stage = "insert", IdOf(d[h]) = n + 1,
         st \subseteq 1 .. n, Sent(ch) \subseteq 1 .. n,
         Fresh(c, st, v, ch)
  PROVE  Fresh(d, st, v, ch)
<1>1. ~Saves(c[h]) /\ ~Stores(c[h])
  BY CallFields
<1>2. ASSUME NEW g \in Handler \ {h} PROVE Knows(d, g, st, v, ch)
  BY <1>1, OthersGoOn, KnowsStill DEF Fresh
<1>3. Takes(d[h]) /\ ~Stores(d[h]) /\ ~Tells(d[h]) /\ ~Saves(d[h])
  BY CallFields
<1>4. \A s \in 1 .. n : s < n + 1 /\ ~(s > n + 1)
  OBVIOUS
<1>5. Knows(d, h, st, v, ch)
  BY <1>3, <1>4 DEF Knows
<1>. QED BY <1>2, <1>5 DEF Fresh

\* A request that is not stored is nothing that others wait for.
LEMMA FreshRefused ==
  ASSUME NEW c \in [Handler -> Call], NEW d \in [Handler -> Call], NEW h \in Handler,
         NEW st, NEW v, NEW ch,
         \A g \in Handler \ {h} : d[g] = c[g],
         c[h].stage = "insert", d[h].stage = "idle",
         Fresh(c, st, v, ch)
  PROVE  Fresh(d, st, v, ch)
<1>1. ~Saves(c[h]) /\ ~Stores(c[h])
  BY CallFields
<1>2. ASSUME NEW g \in Handler \ {h} PROVE Knows(d, g, st, v, ch)
  BY <1>1, OthersGoOn, KnowsStill DEF Fresh
<1>3. Knows(d, h, st, v, ch)
  BY DEF Knows
<1>. QED BY <1>2, <1>3 DEF Fresh

\* A request that is stored is due, and its handler will count.
LEMMA FreshStored ==
  ASSUME NEW c \in [Handler -> Call], NEW d \in [Handler -> Call], NEW h \in Handler,
         NEW st, st \subseteq Id, NEW v, NEW ch,
         \A g \in Handler \ {h} : d[g] = c[g],
         c[h].stage = "insert", d[h].stage = "count", IdOf(d[h]) = IdOf(c[h]),
         d[h].overtaken = c[h].overtaken,
         Fresh(c, st, v, ch)
  PROVE  Fresh(d, st \cup {IdOf(c[h])}, v, ch)
<1>. DEFINE id == IdOf(c[h])
            su == st \cup {id}
<1>1. /\ Takes(c[h]) /\ ~Stores(c[h]) /\ ~Saves(c[h]) /\ id \in Id
      /\ Takes(d[h]) /\ Stores(d[h]) /\ Counting(d[h]) /\ ~Tells(d[h]) /\ ~Saves(d[h])
  BY CallFields
<1>2. Untold(c) \cup {id} \subseteq Untold(d)
  BY <1>1 DEF Untold
<1>3. WillCount(d, Cardinality(su))
  BY <1>1 DEF WillCount
<1>4. WillShow(c, v) => WillShow(d, v)
  BY <1>1 DEF WillShow
<1>5. /\ Cardinality(st) <= Cardinality(su)
      /\ Cardinality(st) \in Int /\ Cardinality(su) \in Int
  <2>1. st \in SUBSET Id /\ su \in SUBSET Id /\ st \subseteq su
    BY <1>1
  <2>2. Cardinality(st) \in 0 .. Requests /\ Cardinality(su) \in 0 .. Requests
    BY <2>1, FiniteIds, Zenon
  <2>3. Cardinality(st) <= Cardinality(su)
    BY <2>1, FiniteIds
  <2>. QED BY <2>2, <2>3
<1>6. ASSUME NEW g \in Handler, d[g].stage # "idle", ~d[g].overtaken
      PROVE  /\ Takes(d[g]) => /\ \A s \in su : s > IdOf(d[g]) => s \in Untold(d)
                               /\ \A r \in Sent(ch) : r < IdOf(d[g])
             /\ Stores(d[g]) => IdOf(d[g]) \in su
             /\ Tells(d[g]) => d[g].event.total <= Cardinality(su)
             /\ Saves(d[g]) => d[g].event.version <= v /\ WillShow(d, v)
  <2>1. CASE g = h
    BY <2>1, <1>1, <1>2, <1>6 DEF Fresh, Knows
  <2>2. CASE g # h
    <3>1. d[g] = c[g]
      BY <2>2
    <3>2. /\ Takes(d[g]) => /\ \A s \in st : s > IdOf(d[g]) => s \in Untold(c)
                            /\ \A r \in Sent(ch) : r < IdOf(d[g])
          /\ Stores(d[g]) => IdOf(d[g]) \in st
          /\ Tells(d[g]) => d[g].event.total <= Cardinality(st)
          /\ Saves(d[g]) => d[g].event.version <= v /\ WillShow(c, v)
      BY <3>1, <1>6 DEF Fresh, Knows
    <3>3. Tells(d[g]) => d[g].event.total \in Int
      BY CallFields
    <3>. QED BY <3>2, <3>3, <1>2, <1>4, <1>5
  <2>. QED BY <2>1, <2>2
<1>. HIDE DEF su
<1>7. Fresh(d, su, v, ch)
  BY <1>3, <1>6 DEF Fresh, Knows
<1>. QED BY <1>7 DEF su

\* Who has counted will tell the number.
LEMMA FreshCounted ==
  ASSUME NEW c \in [Handler -> Call], NEW d \in [Handler -> Call], NEW h \in Handler,
         NEW st, st \subseteq Id, NEW v, NEW ch,
         \A g \in Handler \ {h} : d[g] = c[g],
         c[h].stage = "count", Tells(d[h]), d[h].event.total = Cardinality(st),
         IdOf(d[h]) = IdOf(c[h]), d[h].overtaken = c[h].overtaken,
         Fresh(c, st, v, ch)
  PROVE  Fresh(d, st, v, ch)
<1>1. ~Saves(c[h]) /\ Takes(c[h]) /\ Stores(c[h]) /\ Stores(d[h]) /\ Takes(d[h]) /\ ~Saves(d[h])
  BY CallFields
<1>2. ASSUME NEW k \in Handler \ {h} PROVE Knows(d, k, st, v, ch)
  BY <1>1, OthersGoOn, KnowsStill DEF Fresh
<1>3. Cardinality(st) <= Cardinality(st)
  BY FiniteIds
<1>4. Untold(c) \subseteq Untold(d)
  BY <1>1, OthersGoOn
<1>5. Knows(d, h, st, v, ch)
  BY <1>1, <1>3, <1>4 DEF Fresh, Knows
<1>. QED BY <1>2, <1>5 DEF Fresh

\* Who has saved the settings will show them.
LEMMA FreshSaved ==
  ASSUME NEW c \in [Handler -> Call], NEW d \in [Handler -> Call], NEW h \in Handler,
         NEW st, NEW v \in Nat, NEW ch,
         \A g \in Handler \ {h} : d[g] = c[g],
         c[h].stage = "idle", Saves(d[h]), d[h].event.version = v + 1,
         Fresh(c, st, v, ch)
  PROVE  Fresh(d, st, v + 1, ch)
<1>1. ~Stores(c[h]) /\ ~Saves(c[h]) /\ ~Takes(d[h]) /\ ~Stores(d[h]) /\ ~Tells(d[h])
  BY CallFields
<1>2. WillShow(d, v + 1)
  BY DEF WillShow
<1>3. /\ Untold(c) \subseteq Untold(d)
      /\ WillCount(c, Cardinality(st)) => WillCount(d, Cardinality(st))
  BY <1>1, OthersGoOn
<1>4. ASSUME NEW g \in Handler \ {h} PROVE Knows(d, g, st, v + 1, ch)
  <2>1. Knows(c, g, st, v, ch) /\ d[g] = c[g]
    BY DEF Fresh
  <2>2. Saves(d[g]) => d[g].event.version \in Int
    BY CallFields DEF Version
  <2>. QED BY <2>1, <2>2, <1>2, <1>3 DEF Knows
<1>5. Knows(d, h, st, v + 1, ch)
  BY <1>1, <1>2 DEF Knows
<1>. QED BY <1>4, <1>5 DEF Fresh

\* Whoever has stored a request is overtaken by a deletion.
LEMMA FreshDeleted ==
  ASSUME NEW c \in [Handler -> Call], NEW d \in [Handler -> Call],
         NEW st, NEW su, su \subseteq st, NEW v, NEW ch,
         \A g \in Handler : /\ Alike(c[g], d[g])
                            /\ d[g].stage # "idle" /\ ~d[g].overtaken => ~c[g].overtaken
                            /\ Stores(c[g]) => d[g].overtaken,
         Fresh(c, st, v, ch)
  PROVE  Fresh(d, su, v, ch)
<1>1. \A g \in Handler : /\ (Takes(d[g]) <=> Takes(c[g])) /\ (Stores(d[g]) <=> Stores(c[g]))
                         /\ (Saves(d[g]) <=> Saves(c[g])) /\ (Tells(d[g]) <=> Tells(c[g]))
                         /\ (Takes(c[g]) => IdOf(d[g]) = IdOf(c[g]))
                         /\ (c[g].stage = "publish" => d[g].event = c[g].event)
                         /\ d[g].stage = c[g].stage
                         /\ (Stores(c[g]) => Takes(c[g]))
                         /\ (Tells(c[g]) => Stores(c[g]))
                         /\ (Saves(c[g]) => c[g].stage = "publish")
  BY AlikeDo, CallFields DEF Alike
<1>2. Untold(c) \subseteq Untold(d)
  BY <1>1 DEF Untold
<1>3. WillShow(c, v) => WillShow(d, v)
  BY <1>1 DEF WillShow
<1>4. ASSUME NEW g \in Handler PROVE Knows(d, g, su, v, ch)
  <2>1. Knows(c, g, st, v, ch)
    BY DEF Fresh
  <2>. QED BY <1>1, <1>2, <1>3, <2>1 DEF Knows
<1>. QED BY <1>4 DEF Fresh

\* Who is done with an event has overtaken all that are older.
LEMMA FreshPassed ==
  ASSUME NEW c \in [Handler -> Call], NEW d, NEW h \in Handler, NEW e \in Event,
         NEW st, st \subseteq Id, NEW v \in Nat, NEW ch, NEW ch2,
         Passed(c, d, h, e),
         Sent(ch2) \subseteq Sent(ch) \cup News(e),
         IF Told(e)
         THEN /\ Stores(c[h]) /\ IdOf(c[h]) = e.id
              /\ IF Counting(c[h]) THEN e.total = Cardinality(st) ELSE e = c[h].event
         ELSE Saves(c[h]) /\ e = c[h].event,
         \A g \in Handler : Takes(c[g]) /\ Takes(c[h]) /\ IdOf(c[g]) = IdOf(c[h]) => g = h,
         Fresh(c, st, v, ch)
  PROVE  Fresh(d, st, v, ch2)
<1>0. d \in [Handler -> Call] /\ d[h].stage = "idle"
  BY DEF Passed
<1>1. ASSUME NEW g \in Handler \ {h}
      PROVE  /\ (Takes(d[g]) <=> Takes(c[g])) /\ (Stores(d[g]) <=> Stores(c[g]))
             /\ (Saves(d[g]) <=> Saves(c[g])) /\ (Tells(d[g]) <=> Tells(c[g]))
             /\ (Counting(d[g]) <=> Counting(c[g]))
             /\ (Takes(c[g]) => IdOf(d[g]) = IdOf(c[g]) /\ IdOf(c[g]) \in Int)
             /\ (c[g].stage = "publish" => d[g].event = c[g].event)
             /\ d[g].stage = c[g].stage
             /\ (Stores(c[g]) => Takes(c[g]))
             /\ (Tells(c[g]) => Stores(c[g]) /\ c[g].stage = "publish" /\ c[g].event.total \in Int)
             /\ (Saves(c[g]) => c[g].stage = "publish" /\ c[g].event.version \in Int)
  <2>1. Alike(c[g], d[g]) /\ c[g] \in Call /\ d[g] \in Call
    BY <1>0 DEF Passed
  <2>2. d[g].stage = c[g].stage
    BY <2>1 DEF Alike
  <2>3. Takes(c[g]) => IdOf(c[g]) \in Int
    BY <2>1, CallFields DEF Id
  <2>4. /\ Stores(c[g]) => Takes(c[g])
        /\ Tells(c[g]) => Stores(c[g]) /\ c[g].stage = "publish" /\ c[g].event.total \in 0 .. Requests
        /\ Saves(c[g]) => c[g].stage = "publish" /\ c[g].event.version \in Version
    BY <2>1, CallFields
  <2>. QED BY <2>1, <2>2, <2>3, <2>4, AlikeDo DEF Version
<1>2. Cardinality(st) \in Int
  BY FiniteIds
<1>3. ASSUME NEW g \in Handler \ {h}, d[g].stage # "idle", ~d[g].overtaken
      PROVE  Knows(d, g, st, v, ch2)
  <2>1. Knows(c, g, st, v, ch) /\ c[g].stage # "idle" /\ ~c[g].overtaken /\ Newer(c[g], e)
    BY <1>1, <1>3 DEF Fresh, Passed
  <2>2. ASSUME Takes(c[g])
        PROVE  /\ \A s \in st : s > IdOf(c[g]) => s \in Untold(d)
               /\ \A r \in Sent(ch2) : r < IdOf(c[g])
    <3>0. IdOf(c[g]) \in Int
      BY <1>1, <2>2
    <3>1. ASSUME NEW s \in st, s > IdOf(c[g]) PROVE s \in Untold(d)
      <4>1. PICK k \in Handler : Stores(c[k]) /\ IdOf(c[k]) = s
        BY <2>1, <2>2, <3>1 DEF Knows, Untold
      <4>2. k # h
        <5>1. SUFFICES ASSUME k = h PROVE FALSE
          OBVIOUS
        <5>2. Told(e) /\ e.id = s
          BY <5>1, <4>1, CallFields
        <5>3. IdOf(c[g]) >= s
          BY <5>2, <2>1, <2>2 DEF Newer
        <5>. QED BY <5>3, <3>0, <3>1, FiniteIds
      <4>3. Stores(d[k]) /\ IdOf(d[k]) = s /\ s \in Id
        BY <4>1, <4>2, <1>1
      <4>. QED BY <4>3 DEF Untold
    <3>2. ASSUME NEW r \in Sent(ch2) PROVE r < IdOf(c[g])
      <4>1. CASE r \in Sent(ch)
        BY <4>1, <2>1, <2>2 DEF Knows
      <4>2. CASE Told(e) /\ r = e.id
        <5>1. IdOf(c[g]) >= e.id /\ e.id \in Int
          BY <4>2, <2>1, <2>2, EventFields DEF Newer, Id
        <5>2. IdOf(c[g]) # e.id
          BY <4>2, <2>2, CallFields
        <5>. QED BY <5>1, <5>2, <4>2, <3>0
      <4>. QED BY <4>1, <4>2 DEF News
    <3>. QED BY <3>1, <3>2
  <2>3. ASSUME Tells(c[g])
        PROVE  /\ c[g].event.total <= Cardinality(st)
               /\ c[g].event.total = Cardinality(st) \/ WillCount(d, Cardinality(st))
    <3>1. /\ c[g].event.total <= Cardinality(st) /\ c[g].event.total \in Int
          /\ c[g].event.total = Cardinality(st) \/ WillCount(c, Cardinality(st))
      BY <2>1, <2>3, <1>1 DEF Knows
    <3>2. CASE WillCount(c, Cardinality(st))
      <4>1. PICK k \in Handler : Counting(c[k]) \/ (Tells(c[k]) /\ c[k].event.total = Cardinality(st))
        BY <3>2 DEF WillCount
      <4>2. CASE k = h
        <5>1. Told(e) /\ e.total = Cardinality(st)
          BY <4>1, <4>2, CallFields
        <5>2. c[g].event.total >= Cardinality(st)
          BY <5>1, <2>1, <2>3 DEF Newer
        <5>. QED BY <5>2, <3>1, <1>2
      <4>3. CASE k # h
        <5>1. Counting(d[k]) \/ (Tells(d[k]) /\ d[k].event.total = Cardinality(st))
          BY <4>1, <4>3, <1>1
        <5>. QED BY <5>1, <3>1 DEF WillCount
      <4>. QED BY <4>2, <4>3
    <3>. QED BY <3>1, <3>2
  <2>4. ASSUME Saves(c[g])
        PROVE  c[g].event.version <= v /\ WillShow(d, v)
    <3>1. c[g].event.version <= v /\ c[g].event.version \in Int /\ WillShow(c, v)
      BY <2>1, <2>4, <1>1 DEF Knows
    <3>2. PICK k \in Handler : Saves(c[k]) /\ c[k].event.version = v
      BY <3>1 DEF WillShow
    <3>3. CASE k = h
      <4>1. ~Told(e) /\ e.version = v
        BY <3>2, <3>3, CallFields
      <4>2. c[g].event.version = v
        BY <4>1, <2>1, <2>4, <3>1 DEF Newer
      <4>3. Saves(d[g]) /\ d[g].event.version = v
        BY <4>2, <2>4, <1>1
      <4>. QED BY <4>3, <3>1 DEF WillShow
    <3>4. CASE k # h
      <4>1. Saves(d[k]) /\ d[k].event.version = v
        BY <3>2, <3>4, <1>1
      <4>. QED BY <4>1, <3>1 DEF WillShow
    <3>. QED BY <3>3, <3>4
  <2>5. Stores(c[g]) => IdOf(c[g]) \in st
    BY <2>1 DEF Knows
  <2>. QED BY <1>1, <2>2, <2>3, <2>4, <2>5 DEF Knows
<1>4. Knows(d, h, st, v, ch2)
  BY <1>0 DEF Knows
<1>5. \A g \in Handler \ {h} : Knows(d, g, st, v, ch2)
  <2>1. ASSUME NEW g \in Handler \ {h}, d[g].stage = "idle" \/ d[g].overtaken
        PROVE  Knows(d, g, st, v, ch2)
    BY <2>1 DEF Knows
  <2>. QED BY <2>1, <1>3
<1>. QED BY <1>4, <1>5 DEF Fresh

\* Handlers know no less when an event has been handled or is lost.
LEMMA FreshReceived ==
  ASSUME NEW c, NEW st, NEW v, NEW ch, NEW ch2, Sent(ch2) \subseteq Sent(ch), Fresh(c, st, v, ch)
  PROVE  Fresh(c, st, v, ch2)
BY DEF Fresh, Knows
-----------------------------------------------------------------------------
\* The other handlers do as they would have.
LEMMA PassedDo ==
  ASSUME NEW c \in [Handler -> Call], NEW d, NEW h \in Handler, NEW e \in Event, Passed(c, d, h, e)
  PROVE  /\ d \in [Handler -> Call]
         /\ ~Takes(d[h]) /\ ~Stores(d[h])
         /\ \A g \in Handler \ {h} :
              /\ (Takes(d[g]) <=> Takes(c[g])) /\ (Stores(d[g]) <=> Stores(c[g]))
              /\ (Saves(d[g]) <=> Saves(c[g])) /\ (Tells(d[g]) <=> Tells(c[g]))
              /\ (Counting(d[g]) <=> Counting(c[g]))
              /\ (Takes(c[g]) => IdOf(d[g]) = IdOf(c[g]))
              /\ (Stores(c[g]) => IdOf(d[g]) = IdOf(c[g]))
              /\ (Tells(c[g]) \/ Saves(c[g]) => d[g].event = c[g].event)
<1>1. d \in [Handler -> Call] /\ ~Takes(d[h]) /\ ~Stores(d[h])
  BY CallFields DEF Passed
<1>2. \A g \in Handler \ {h} : Alike(c[g], d[g]) /\ c[g] \in Call /\ d[g] \in Call
  BY <1>1 DEF Passed
<1>3. \A g \in Handler \ {h} : /\ Stores(c[g]) => Takes(c[g])
                               /\ Tells(c[g]) \/ Saves(c[g]) => c[g].stage = "publish"
  BY <1>2, CallFields
<1>. QED BY <1>1, <1>2, <1>3, AlikeDo

\* The calls after h has published e.
Publishes(c, d, h, e) == Passed(c, d, h, e) /\ c[h].stage = "publish" /\ e = c[h].event

\* The channel after e was published: who is subscribed gets a request's event.
Follows(ch, ch2, e) == ch2 = Append(ch, e) \/ (ch2 = ch /\ ~Told(e))

\* What a publication makes of what somebody will tell.
LEMMA WillPassed ==
  ASSUME NEW c \in [Handler -> Call], NEW d, NEW h \in Handler, NEW e \in Event, Publishes(c, d, h, e), NEW k
  PROVE  /\ WillCount(c, k) => WillCount(d, k) \/ (Told(e) /\ Says(e) = k)
         /\ WillShow(c, k) => WillShow(d, k) \/ (~Told(e) /\ Says(e) = k)
         /\ Told(e) <=> Tells(c[h])
<1>. USE DEF Publishes
<1>0. ~Counting(c[h]) /\ (Told(e) <=> Tells(c[h]))
  BY CallFields DEF Told, Tells
<1>1. ASSUME NEW g \in Handler, Counting(c[g]) \/ (Tells(c[g]) /\ c[g].event.total = k)
      PROVE  WillCount(d, k) \/ (Told(e) /\ Says(e) = k)
  <2>1. CASE g = h
    BY <2>1, <1>0, <1>1 DEF Says
  <2>2. CASE g # h
    <3>1. Counting(d[g]) \/ (Tells(d[g]) /\ d[g].event.total = k)
      BY <2>2, <1>1, PassedDo
    <3>. QED BY <3>1 DEF WillCount
  <2>. QED BY <2>1, <2>2
<1>2. ASSUME NEW g \in Handler, Saves(c[g]) /\ c[g].event.version = k
      PROVE  WillShow(d, k) \/ (~Told(e) /\ Says(e) = k)
  <2>1. CASE g = h
    BY <2>1, <1>2, CallFields DEF Says
  <2>2. CASE g # h
    <3>1. (Saves(d[g]) <=> Saves(c[g])) /\ d[g].event = c[g].event
      BY <2>2, <1>2, PassedDo
    <3>2. Saves(d[g]) /\ d[g].event.version = k
      BY <3>1, <1>2
    <3>. QED BY <3>2 DEF WillShow
  <2>. QED BY <2>1, <2>2
<1>. QED BY <1>0, <1>1, <1>2 DEF WillCount, WillShow

\* Whoever was overtaken stays so.
LEMMA LatePassed ==
  ASSUME NEW c \in [Handler -> Call], NEW d, NEW h \in Handler, NEW e \in Event,
         Passed(c, d, h, e), Late(c)
  PROVE  Late(d)
<1>1. ASSUME NEW g \in Handler, Stores(d[g]) PROVE d[g].overtaken
  <2>1. g # h /\ Stores(c[g])
    BY <1>1, PassedDo
  <2>2. d[g].stage # "idle"
    BY <1>1 DEF Stores, Counting, Tells
  <2>. QED BY <2>1, <2>2 DEF Late, Passed
<1>. QED BY <1>1 DEF Late

\* The number that is published last is the number there is.
LEMMA TotalPassed ==
  ASSUME NEW c \in [Handler -> Call], NEW d, NEW h \in Handler, NEW e \in Event,
         Publishes(c, d, h, e), NEW st, NEW f, NEW v, NEW shown,
         NEW ch \in Seq(Event), NEW ch2,
         Follows(ch, ch2, e),
         Told(e) => ~c[h].overtaken,
         Fresh(c, st, v, ch), TotalTold(c, st, f, ch, shown)
  PROVE  TotalTold(d, st, f, ch2, shown)
<1>. DEFINE k == Cardinality(st)
            type == "request.created"
<1>1. Told(e) <=> e.type = type
  BY DEF Told
<1>. HIDE DEF k, type
<1>2. \/ WillCount(c, k) \/ Latest(ch, type, shown, k)
      \/ shown = Cardinality(st \cap f) /\ Sent(ch) = {} /\ Late(c)
  BY DEF TotalTold, k, type
<1>3. CASE Told(e)
  <2>0. ch2 = Append(ch, e)
    BY <1>3 DEF Follows
  <2>1. Says(e) = k \/ WillCount(c, k)
    <3>1. Tells(c[h]) /\ Knows(c, h, st, v, ch) /\ c[h].stage # "idle" /\ ~c[h].overtaken
      BY <1>3, WillPassed DEF Fresh, Publishes
    <3>. QED BY <3>1, <1>3 DEF Knows, Says, k, Publishes
  <2>2. Says(e) = k \/ WillCount(d, k)
    BY <2>1, WillPassed
  <2>3. CASE Says(e) = k
    <3>1. Latest(ch2, type, shown, k)
      BY <2>0, <2>3, <1>1, <1>3, LatestAppended
    <3>. QED BY <3>1 DEF TotalTold, k, type
  <2>4. CASE WillCount(d, k)
    BY <2>4 DEF TotalTold, k
  <2>. QED BY <2>2, <2>3, <2>4
<1>4. CASE ~Told(e)
  <2>1. CASE WillCount(c, k)
    <3>1. WillCount(d, k)
      BY <2>1, <1>4, WillPassed
    <3>. QED BY <3>1 DEF TotalTold, k
  <2>2. CASE Latest(ch, type, shown, k)
    <3>1. Latest(Append(ch, e), type, shown, k)
      BY <2>2, <1>1, <1>4, LatestAppended
    <3>2. Latest(ch2, type, shown, k)
      BY <3>1, <2>2 DEF Follows
    <3>. QED BY <3>2 DEF TotalTold, k, type
  <2>3. CASE shown = Cardinality(st \cap f) /\ Sent(ch) = {} /\ Late(c)
    <3>1. Sent(ch2) = {}
      <4>1. Sent(Append(ch, e)) = Sent(ch) \cup News(e)
        BY SentAppended
      <4>. QED BY <4>1, <2>3, <1>4 DEF Follows, News
    <3>2. Late(d)
      BY <2>3, LatePassed DEF Publishes
    <3>. QED BY <3>1, <3>2, <2>3 DEF TotalTold
  <2>. QED BY <1>2, <2>1, <2>2, <2>3
<1>. QED BY <1>3, <1>4

\* The settings that are published last are those that are saved.
LEMMA SettingsPassed ==
  ASSUME NEW c \in [Handler -> Call], NEW d, NEW h \in Handler, NEW e \in Event, Publishes(c, d, h, e), NEW st, NEW v, NEW shown,
         NEW ch \in Seq(Event), NEW ch2,
         ch2 = Append(ch, e) \/ (ch2 = ch /\ Told(e)),
         ~Told(e) => ~c[h].overtaken,
         Fresh(c, st, v, ch), SettingsTold(c, v, ch, shown)
  PROVE  SettingsTold(d, v, ch2, shown)
<1>. DEFINE type == "token.updated"
<1>1. ~Told(e) <=> e.type = type
  BY EventFields DEF Told
<1>. HIDE DEF type
<1>0. WillShow(c, v) => WillShow(d, v) \/ (~Told(e) /\ Says(e) = v)
  BY WillPassed
<1>2. WillShow(c, v) \/ Latest(ch, type, shown, v)
  BY DEF SettingsTold, type
<1>3. CASE ~Told(e)
  <2>0. ch2 = Append(ch, e)
    BY <1>3
  <2>1. WillShow(c, v)
    <3>1. Saves(c[h]) /\ Knows(c, h, st, v, ch) /\ c[h].stage # "idle" /\ ~c[h].overtaken
      BY <1>3, WillPassed, CallFields DEF Fresh, Publishes
    <3>. QED BY <3>1 DEF Knows
  <2>2. Says(e) = v \/ WillShow(d, v)
    BY <2>1, <1>0
  <2>3. CASE Says(e) = v
    <3>1. Latest(ch2, type, shown, v)
      BY <2>0, <2>3, <1>1, <1>3, LatestAppended
    <3>. QED BY <3>1 DEF SettingsTold, type
  <2>4. CASE WillShow(d, v)
    BY <2>4 DEF SettingsTold
  <2>. QED BY <2>2, <2>3, <2>4
<1>4. CASE Told(e)
  <2>1. CASE WillShow(c, v)
    <3>1. WillShow(d, v)
      BY <2>1, <1>4, <1>0
    <3>. QED BY <3>1 DEF SettingsTold
  <2>2. CASE Latest(ch, type, shown, v)
    <3>1. Latest(Append(ch, e), type, shown, v)
      BY <2>2, <1>1, <1>4, LatestAppended
    <3>2. Latest(ch2, type, shown, v)
      BY <3>1, <2>2
    <3>. QED BY <3>2 DEF SettingsTold, type
  <2>. QED BY <1>2, <2>1, <2>2
<1>. QED BY <1>3, <1>4

\* A request whose event is published is due as before.
LEMMA DuePassed ==
  ASSUME NEW c \in [Handler -> Call], NEW d, NEW h \in Handler, NEW e \in Event, Publishes(c, d, h, e), NEW ch \in Seq(Event), NEW ch2,
         Follows(ch, ch2, e)
  PROVE  /\ Due(d, ch2) = Due(c, ch)
         /\ Sent(ch2) = Sent(ch) \cup News(e)
<1>1. Sent(ch2) = Sent(ch) \cup News(e)
  BY SentAppended DEF Follows, News
<1>2. /\ Told(e) <=> Tells(c[h])
      /\ Told(e) => Stores(c[h]) /\ IdOf(c[h]) = e.id /\ e.id \in Id
      /\ ~Told(e) => ~Stores(c[h])
  BY WillPassed, CallFields, EventFields DEF Publishes
<1>3. ~Stores(d[h]) /\ \A g \in Handler \ {h} :
        (Stores(d[g]) <=> Stores(c[g])) /\ (Stores(c[g]) => IdOf(d[g]) = IdOf(c[g]))
  <2>1. Passed(c, d, h, e)
    BY DEF Publishes
  <2>. QED BY <2>1, PassedDo
<1>4. Untold(d) \subseteq Untold(c) /\ (Told(e) => e.id \in Untold(c))
  BY <1>2, <1>3 DEF Untold
<1>5. Untold(c) \subseteq Untold(d) \cup News(e)
  BY <1>2, <1>3 DEF Untold, News
<1>. QED BY <1>1, <1>4, <1>5 DEF Due, News

\* Events are published in the order of their requests.
LEMMA InOrderPassed ==
  ASSUME NEW c \in [Handler -> Call], NEW d, NEW h \in Handler, NEW e \in Event, Publishes(c, d, h, e), NEW st, NEW v,
         NEW ch \in Seq(Event), NEW ch2,
         Follows(ch, ch2, e),
         Told(e) => ~c[h].overtaken,
         Fresh(c, st, v, ch), InOrder(c, st, ch)
  PROVE  InOrder(d, st, ch2)
<1>1. Due(d, ch2) = Due(c, ch) /\ Sent(ch2) = Sent(ch) \cup News(e)
  BY DuePassed
<1>2. ASSUME Told(e)
      PROVE  /\ e.id \in st /\ \A r \in Sent(ch) : r < e.id
             /\ \A s \in st : s > e.id => s \in Due(c, ch)
  <2>1. Tells(c[h]) /\ Knows(c, h, st, v, ch) /\ c[h].stage # "idle" /\ ~c[h].overtaken
             /\ e = c[h].event
    BY <1>2, WillPassed DEF Fresh, Publishes
  <2>2. Takes(c[h]) /\ Stores(c[h]) /\ IdOf(c[h]) = e.id
    BY <2>1, CallFields
  <2>. QED BY <2>1, <2>2 DEF Knows, Due
<1>3. ASSUME ch2 = Append(ch, e), NEW i \in DOMAIN ch2, NEW j \in DOMAIN ch2,
             i < j, Told(ch2[i]), Told(ch2[j])
      PROVE  ch2[i].id < ch2[j].id
  <2>. DEFINE n == Len(ch)
  <2>1. /\ n \in Nat /\ DOMAIN ch = 1 .. n /\ DOMAIN ch2 = 1 .. n + 1
        /\ (\A k \in 1 .. n : ch2[k] = ch[k]) /\ ch2[n + 1] = e
    BY <1>3, Appended
  <2>. HIDE DEF n
  <2>2. i \in 1 .. n /\ (j \in 1 .. n \/ j = n + 1)
    BY <2>1, <1>3
  <2>3. CASE j \in 1 .. n
    BY <2>1, <2>2, <2>3, <1>3 DEF InOrder
  <2>4. CASE j = n + 1
    <3>1. ch[i].id \in Sent(ch)
      <4>1. ch[i] \in Event /\ Told(ch[i])
        BY <2>1, <2>2, <1>3, ElementOfSeq
      <4>2. ch[i].id \in Id
        BY <4>1, EventFields
      <4>. QED BY <4>1, <4>2, <2>1, <2>2 DEF Sent
    <3>. QED BY <3>1, <2>1, <2>2, <2>4, <1>2, <1>3
  <2>. QED BY <2>2, <2>3, <2>4
<1>4. \A i, j \in DOMAIN ch2 : i < j /\ Told(ch2[i]) /\ Told(ch2[j]) => ch2[i].id < ch2[j].id
  BY <1>3 DEF InOrder, Follows
<1>5. Sent(ch2) \subseteq st /\ \A r \in Sent(ch2), s \in st : s > r => s \in Due(d, ch2)
  BY <1>1, <1>2 DEF InOrder, News
<1>. QED BY <1>4, <1>5 DEF InOrder

\* An event that is handled leaves the rest in order, and what it told is due
\* no more.
LEMMA InOrderReceived ==
  ASSUME NEW c, NEW st, st \subseteq Id, NEW ch \in Seq(Event), ch # <<>>, Once(ch),
         InOrder(c, st, ch), Told(Head(ch)) => Head(ch).id \notin Untold(c)
  PROVE  /\ InOrder(c, st, Tail(ch))
         /\ Due(c, Tail(ch)) = Due(c, ch) \ News(Head(ch))
         /\ Told(Head(ch)) => Head(ch).id \in st /\ \A s \in st : s > Head(ch).id => s \in Due(c, ch)
<1>. DEFINE t == Tail(ch)
            e == Head(ch)
<1>1. /\ e = ch[1] /\ 1 \in DOMAIN ch
      /\ \A i \in DOMAIN t : i \in Int /\ i >= 1 /\ i + 1 \in DOMAIN ch /\ t[i] = ch[i + 1]
  BY Received
<1>2. Sent(ch) = Sent(t) \cup News(e)
  BY SentReceived
<1>3. Told(e) => e.id \notin Sent(t)
  BY OnceReceived
<1>. HIDE DEF t, e
<1>4. Told(e) => e.id \notin Untold(c)
  BY DEF e
<1>5. Due(c, t) = Due(c, ch) \ News(e)
  BY <1>2, <1>3, <1>4 DEF Due, News
<1>6. ASSUME NEW i \in DOMAIN t, NEW j \in DOMAIN t, i < j, Told(t[i]), Told(t[j])
      PROVE  t[i].id < t[j].id
  <2>1. i + 1 < j + 1
    BY <1>1, <1>6
  <2>. QED BY <2>1, <1>1, <1>6 DEF InOrder
<1>7. ASSUME NEW r \in Sent(t), NEW s \in st, s > r PROVE s \in Due(c, t)
  <2>1. s \in Due(c, ch)
    BY <1>2, <1>7 DEF InOrder
  <2>2. ASSUME Told(e) PROVE s # e.id
    <3>1. PICK i \in DOMAIN t : Told(t[i]) /\ t[i].id = r
      BY DEF Sent
    <3>2. 1 < i + 1 /\ i + 1 \in DOMAIN ch /\ t[i] = ch[i + 1]
      BY <1>1
    <3>3. e.id < r
      BY <3>1, <3>2, <1>1, <2>2 DEF InOrder
    <3>4. r \in Int /\ s \in Int
      BY SentIds, FiniteIds
    <3>. QED BY <3>3, <3>4, <1>7
  <2>. QED BY <2>1, <2>2, <1>5 DEF News
<1>8. Sent(t) \subseteq st /\ (Told(e) => e.id \in st /\ \A s \in st : s > e.id => s \in Due(c, ch))
  BY <1>2 DEF InOrder, News
<1>9. InOrder(c, st, t)
  BY <1>6, <1>7, <1>8 DEF InOrder
<1>. QED BY <1>5, <1>8, <1>9 DEF t, e
-----------------------------------------------------------------------------
\* What the types say of a state.
LEMMA TypeFacts ==
  ASSUME TypeOK
  PROVE  /\ stored \subseteq Id /\ Cardinality(stored) \in 0 .. Requests
         /\ filter \subseteq Id /\ Cardinality(stored \cap filter) \in 0 .. Requests
         /\ version \in Nat /\ version <= Updates
         /\ captured \in Nat /\ captured <= Requests
         /\ call \in [Handler -> Call]
         /\ channel \in Seq(Event) /\ Len(channel) \in Nat
         /\ view.version \in Version /\ view.total \in 0 .. Requests
         /\ view.list \in Seq(Id) /\ view.pending \in 0 .. Requests /\ view.pending \in Nat
         /\ view \in View /\ page \in {1, 2}
<1>1. stored \subseteq Id /\ version \in Version /\ captured \in 0 .. Requests
      /\ call \in [Handler -> Call] /\ channel \in Seq(Event) /\ view \in View /\ page \in {1, 2}
  BY DEF TypeOK
<1>2. /\ filter \subseteq Id
      /\ Cardinality(stored) \in 0 .. Requests /\ Cardinality(stored \cap filter) \in 0 .. Requests
  <2>1. filter \subseteq Id /\ stored \in SUBSET Id /\ stored \cap filter \in SUBSET Id
    BY <1>1 DEF TypeOK
  <2>. QED BY <2>1, FiniteIds, Zenon
<1>3. view.version \in Version /\ view.total \in 0 .. Requests
      /\ view.list \in Seq(Id) /\ view.pending \in 0 .. Requests
  BY <1>1 DEF View
<1>. QED BY <1>1, <1>2, <1>3, LiveViewAssumption DEF Version

\* ListRequests is the listing of what matches.
LEMMA ListRequestsIs == \A p : ListRequests(p) = Listing(Matching, p) /\ Matching = stored \cap filter
BY Zenon DEF ListRequests, Listing, Matching

\* There is nothing to know and nothing to show at the start.
LEMMA InvInit == Init => Inv
<1>. SUFFICES ASSUME Init PROVE Inv
  OBVIOUS
<1>1. Idle \in Call /\ Idle.stage = "idle"
  BY DEF Idle, Call
<1>2. call \in [Handler -> Call] /\ \A h \in Handler : call[h].stage = "idle"
  BY <1>1 DEF Init
<1>3. \A h \in Handler : ~Takes(call[h]) /\ ~Stores(call[h])
  BY <1>2, CallFields
<1>4. Blank \in View /\ Blank.list = <<>> /\ Blank.pending = 0 /\ <<>> \in Seq(Id)
  BY LiveViewAssumption DEF Blank, View, Version
<1>5. TypeOK
  <2>1. stored \subseteq Id /\ version \in Version /\ captured \in 0 .. Requests
    BY LiveViewAssumption DEF Init, Version
  <2>2. phase \in {"closed", "count", "list", "loaded"} /\ page \in {1, 2} /\ connected \in BOOLEAN
        /\ filter \in SUBSET Id
    BY DEF Init
  <2>3. channel \in Seq(Event) /\ Len(channel) <= Buffer
    BY LiveViewAssumption DEF Init
  <2>4. view \in View /\ Len(view.list) <= PerPage
    <3>1. Len(<<>>) = 0
      OBVIOUS
    <3>. QED BY <1>4, <3>1, LiveViewAssumption DEF Init
  <2>5. missed \subseteq {"requests", "settings"}
    BY DEF Init
  <2>. QED BY <1>2, <2>1, <2>2, <2>3, <2>4, <2>5 DEF TypeOK
<1>6. NoDuplicates /\ Phases
  BY <1>4 DEF Init, NoDuplicates, IsInjective, Phases
<1>7. Numbered(stored, captured, call, channel, view.pending)
  <2>1. Sent(<<>>) = {} /\ Once(<<>>)
    BY SentNothing DEF Once
  <2>2. Open(call, <<>>) = {}
    BY <1>3, <2>1 DEF Open, Taken
  <2>3. Cardinality({}) = 0
    BY FS_EmptySet
  <2>4. channel = <<>> /\ stored = {} /\ captured = 0 /\ view.pending = 0
    BY <1>4 DEF Init
  <2>5. view.pending + Cardinality(Open(call, channel)) <= captured
    BY <2>2, <2>3, <2>4
  <2>. QED BY <1>3, <2>1, <2>4, <2>5 DEF Numbered
<1>8. Fresh(call, stored, version, channel)
  BY <1>2 DEF Fresh, Knows
<1>9. SettingsRight /\ TotalRight /\ ListRight
  BY DEF Init, SettingsRight, TotalRight, ListRight, Read, Counted
<1>. QED BY <1>5, <1>6, <1>7, <1>8, <1>9 DEF Inv

\* A handler that goes on alone: what is shown stays right if it stays due.
LEMMA StillRight ==
  ASSUME SettingsRight, TotalRight, ListRight,
         UNCHANGED <<stored, version, Browser, missed>>,
         Untold(call') = Untold(call),
         WillCount(call, Cardinality(stored)) => WillCount(call', Cardinality(stored)),
         WillShow(call, version) => WillShow(call', version),
         Late(call) => Late(call')
  PROVE  SettingsRight' /\ TotalRight' /\ ListRight'
<1>1. /\ stored' = stored /\ version' = version /\ phase' = phase /\ page' = page
      /\ filter' = filter /\ channel' = channel /\ view' = view /\ missed' = missed
  BY DEF Browser
<1>2. Due(call', channel') = Due(call, channel)
  BY <1>1 DEF Due
<1>3. SettingsRight'
  BY <1>1 DEF SettingsRight, SettingsTold, Read, Counted
<1>4. InOrder(call, stored, channel) => InOrder(call', stored', channel')
  BY <1>1, <1>2 DEF InOrder
<1>5. TotalTold(call, stored, filter, channel, view.total)
      => TotalTold(call', stored', filter', channel', view'.total)
  BY <1>1 DEF TotalTold
<1>6. TotalRight'
  BY <1>1, <1>4, <1>5 DEF TotalRight, Counted
<1>7. ListRight'
  BY <1>1, <1>2 DEF ListRight
<1>. QED BY <1>3, <1>6, <1>7

\* The page shows what it showed.
LEMMA SameView ==
  ASSUME NoDuplicates, Phases, UNCHANGED Browser
  PROVE  NoDuplicates' /\ Phases'
BY DEF NoDuplicates, Phases, Browser

\* A request is taken up.
LEMMA StampInv ==
  ASSUME Inv, NEW h \in Handler, Stamp(h)
  PROVE  Inv'
<1>. DEFINE d == [stage |-> "insert", id |-> captured + 1, overtaken |-> FALSE]
<1>1. /\ call[h].stage = "idle" /\ captured < Requests /\ captured' = captured + 1
      /\ call' = [call EXCEPT ![h] = d]
      /\ stored' = stored /\ version' = version /\ missed' = missed
      /\ phase' = phase /\ page' = page /\ filter' = filter
      /\ connected' = connected /\ channel' = channel /\ view' = view
  BY DEF Stamp, At, Become, Browser
<1>2. captured + 1 \in Id /\ captured + 1 \in 0 .. Requests /\ captured \in Nat
  <2>1. captured \in Nat /\ captured <= Requests
    BY TypeFacts DEF Inv
  <2>. QED BY <1>1, <2>1, LiveViewAssumption DEF Id
<1>3. d \in Call /\ d.stage = "insert" /\ d.id = captured + 1
  BY <1>2 DEF Call
<1>. HIDE DEF d
<1>4. call \in [Handler -> Call] /\ call' \in [Handler -> Call] /\ call'[h] = d
      /\ \A g \in Handler \ {h} : call'[g] = call[g]
  BY <1>1, <1>3 DEF Inv, TypeOK
<1>5. TypeOK'
  BY <1>1, <1>2, <1>4 DEF Inv, TypeOK
<1>6. NoDuplicates' /\ Phases'
  BY <1>1, SameView DEF Inv, Browser
<1>7. /\ ~Takes(call[h]) /\ ~Stores(call[h]) /\ ~Saves(call[h])
      /\ Takes(call'[h]) /\ ~Stores(call'[h]) /\ IdOf(call'[h]) = captured + 1
  BY <1>1, <1>3, <1>4, CallFields
<1>8. Numbered(stored, captured, call, channel, view.pending) /\ Fresh(call, stored, version, channel)
  BY DEF Inv
<1>9. Numbered(stored, captured + 1, call', channel, view.pending)
  <2>1. view.pending \in Nat
    BY TypeFacts DEF Inv
  <2>. QED BY <1>1, <1>2, <1>4, <1>7, <1>8, <2>1, NumberedStamped
<1>10. Fresh(call', stored, version, channel)
  <2>1. stored \subseteq 1 .. captured /\ Sent(channel) \subseteq 1 .. captured
    BY <1>8 DEF Numbered
  <2>. QED BY <1>1, <1>2, <1>3, <1>4, <1>7, <1>8, <2>1, FreshStamped
<1>11. SettingsRight' /\ TotalRight' /\ ListRight'
  <2>1. Untold(call') = Untold(call)
    BY <1>4, <1>7 DEF Untold
  <2>2. /\ WillCount(call, Cardinality(stored)) => WillCount(call', Cardinality(stored))
        /\ WillShow(call, version) => WillShow(call', version)
    BY <1>4, <1>7, OthersGoOn
  <2>3. Late(call) => Late(call')
    BY <1>4, <1>7 DEF Late
  <2>. QED BY <1>1, <2>1, <2>2, <2>3, StillRight DEF Inv, Browser
<1>. QED BY <1>1, <1>5, <1>6, <1>9, <1>10, <1>11 DEF Inv

\* A request is not stored.
LEMMA RefuseInv ==
  ASSUME Inv, NEW h \in Handler, Refuse(h)
  PROVE  Inv'
<1>1. /\ call[h].stage = "insert" /\ call' = [call EXCEPT ![h] = Idle]
      /\ stored' = stored /\ version' = version /\ missed' = missed /\ captured' = captured
      /\ phase' = phase /\ page' = page /\ filter' = filter
      /\ connected' = connected /\ channel' = channel /\ view' = view
  BY DEF Refuse, At, Become, Browser, Database
<1>2. Idle \in Call /\ Idle.stage = "idle"
  BY DEF Idle, Call
<1>3. call \in [Handler -> Call] /\ call' \in [Handler -> Call] /\ call'[h] = Idle
      /\ \A g \in Handler \ {h} : call'[g] = call[g]
  BY <1>1, <1>2 DEF Inv, TypeOK
<1>4. TypeOK'
  BY <1>1, <1>3 DEF Inv, TypeOK
<1>5. NoDuplicates' /\ Phases'
  BY <1>1, SameView DEF Inv, Browser
<1>6. ~Stores(call[h]) /\ ~Saves(call[h]) /\ ~Stores(call'[h]) /\ ~Takes(call'[h])
  BY <1>1, <1>2, <1>3, CallFields
<1>7. Numbered(stored, captured, call, channel, view.pending) /\ Fresh(call, stored, version, channel)
  BY DEF Inv
<1>8. Numbered(stored, captured, call', channel, view.pending)
  <2>1. view.pending \in Nat /\ view.pending <= view.pending /\ captured \in Nat /\ captured <= Requests
    BY TypeFacts DEF Inv
  <2>2. Once(channel)
    BY <1>7 DEF Numbered
  <2>3. \A g \in Handler : Takes(call'[g]) =>
          /\ Takes(call[g]) /\ IdOf(call'[g]) = IdOf(call[g])
          /\ Stores(call[g]) => Stores(call'[g])
    BY <1>3, <1>6
  <2>. QED BY <1>3, <1>7, <2>1, <2>2, <2>3, NumberedLess
<1>9. Fresh(call', stored, version, channel)
  BY <1>1, <1>2, <1>3, <1>7, FreshRefused
<1>10. SettingsRight' /\ TotalRight' /\ ListRight'
  <2>1. Untold(call') = Untold(call)
    BY <1>3, <1>6 DEF Untold
  <2>2. /\ WillCount(call, Cardinality(stored)) => WillCount(call', Cardinality(stored))
        /\ WillShow(call, version) => WillShow(call', version)
    BY <1>3, <1>6, OthersGoOn
  <2>3. Late(call) => Late(call')
    BY <1>3, <1>6 DEF Late
  <2>. QED BY <1>1, <2>1, <2>2, <2>3, StillRight DEF Inv, Browser
<1>. QED BY <1>1, <1>4, <1>5, <1>8, <1>9, <1>10 DEF Inv

\* A request is stored, and so its event is due.
LEMMA InsertInv ==
  ASSUME Inv, NEW h \in Handler, Insert(h)
  PROVE  Inv'
<1>. DEFINE id == IdOf(call[h])
            d == [call[h] EXCEPT !.stage = "count"]
<1>1. /\ call[h].stage = "insert" /\ call' = [call EXCEPT ![h] = d]
      /\ stored' = stored \cup {call[h].id} /\ version' = version /\ missed' = missed
      /\ captured' = captured
      /\ phase' = phase /\ page' = page /\ filter' = filter
      /\ connected' = connected /\ channel' = channel /\ view' = view
  BY DEF Insert, At, Become, Browser
<1>2. /\ stored \subseteq Id /\ call \in [Handler -> Call] /\ captured \in Nat
      /\ channel \in Seq(Event) /\ view.pending \in Nat /\ view.list \in Seq(Id) /\ page \in {1, 2}
  BY TypeFacts DEF Inv
<1>3. call[h] \in Call
  BY <1>2
<1>4. d \in Call /\ d.stage = "count" /\ d.id = call[h].id /\ d.overtaken = call[h].overtaken
  <2>1. call[h] \in [stage : {"insert", "count"}, id : Id, overtaken : BOOLEAN]
    BY <1>1, <1>3 DEF Call
  <2>2. d \in [stage : {"insert", "count"}, id : Id, overtaken : BOOLEAN] /\ d.stage = "count"
        /\ d.id = call[h].id /\ d.overtaken = call[h].overtaken
    BY <2>1
  <2>. QED BY <2>2 DEF Call
<1>. HIDE DEF d
<1>5. call' \in [Handler -> Call] /\ call'[h] = d /\ \A g \in Handler \ {h} : call'[g] = call[g]
  BY <1>1, <1>2, <1>4
<1>6. /\ Takes(call[h]) /\ ~Stores(call[h]) /\ ~Saves(call[h]) /\ id = call[h].id /\ id \in Id
      /\ Takes(call'[h]) /\ Stores(call'[h]) /\ Counting(call'[h]) /\ IdOf(call'[h]) = id
  BY <1>1, <1>3, <1>4, <1>5, CallFields
<1>7. stored' = stored \cup {id}
  BY <1>1, <1>6
<1>8. TypeOK'
  BY <1>1, <1>5, <1>6, <1>7 DEF Inv, TypeOK
<1>9. NoDuplicates' /\ Phases'
  BY <1>1, SameView DEF Inv, Browser
<1>10. Numbered(stored, captured, call, channel, view.pending) /\ Fresh(call, stored, version, channel)
  BY DEF Inv
<1>11. Numbered(stored \cup {id}, captured, call', channel, view.pending)
  BY <1>2, <1>5, <1>6, <1>10, NumberedStored
<1>12. Fresh(call', stored \cup {id}, version, channel)
  BY <1>1, <1>2, <1>4, <1>5, <1>6, <1>10, FreshStored
<1>13. Untold(call) \subseteq Untold(call') /\ (WillShow(call, version) => WillShow(call', version))
  BY <1>2, <1>5, <1>6, OthersGoOn
<1>14. Due(call', channel) = Due(call, channel) \cup {id}
  <2>1. Untold(call') = Untold(call) \cup {id}
    <3>1. id \in Untold(call')
      BY <1>6 DEF Untold
    <3>2. Untold(call') \subseteq Untold(call) \cup {id}
      BY <1>5, <1>6 DEF Untold
    <3>. QED BY <1>13, <3>1, <3>2
  <2>. QED BY <2>1 DEF Due
<1>15. SettingsRight'
  BY <1>1, <1>13 DEF Inv, SettingsRight, SettingsTold, Read, Counted
<1>16. TotalRight'
  <2>1. TotalTold(call', stored', filter', channel', view'.total)
    BY <1>6 DEF TotalTold, WillCount
  <2>2. InOrder(call, stored, channel) => InOrder(call', stored \cup {id}, channel)
    BY <1>14 DEF InOrder
  <2>. QED BY <1>1, <1>7, <2>1, <2>2 DEF Inv, TotalRight, Counted
<1>17. ListRight'
  <2>1. Due(call, channel) \subseteq Id
    BY SentIds DEF Due
  <2>2. FirstPage(stored, filter, Due(call, channel), view.list)
        => FirstPage(stored \cup {id}, filter, Due(call, channel) \cup {id}, view.list)
    BY <1>2, <1>6, <2>1, FirstPageStored
  <2>3. LaterPage((stored \cup {id}) \cap filter, Due(call, channel) \cup {id}, view.list, page,
                  view.pending)
    BY DEF LaterPage
  <2>4. ListTold(stored, filter, Due(call, channel), view.list, page, view.pending)
        => ListTold(stored \cup {id}, filter, Due(call', channel), view.list, page, view.pending)
    BY <1>14, <2>2, <2>3 DEF ListTold
  <2>. QED BY <1>1, <1>7, <2>4 DEF Inv, ListRight
<1>. QED BY <1>1, <1>7, <1>8, <1>9, <1>11, <1>12, <1>15, <1>16, <1>17 DEF Inv

\* A capture counts the requests.
LEMMA CountInv ==
  ASSUME Inv, NEW h \in Handler, Count(h)
  PROVE  Inv'
<1>. DEFINE e == Created(call[h].id)
            d == [stage |-> "publish", event |-> e, overtaken |-> call[h].overtaken]
<1>1. /\ call[h].stage = "count" /\ call' = [call EXCEPT ![h] = d]
      /\ stored' = stored /\ version' = version /\ missed' = missed /\ captured' = captured
      /\ phase' = phase /\ page' = page /\ filter' = filter
      /\ connected' = connected /\ channel' = channel /\ view' = view
  BY DEF Count, At, Become, Browser, Database
<1>2. /\ stored \subseteq Id /\ call \in [Handler -> Call] /\ captured \in Nat /\ captured <= Requests
      /\ Cardinality(stored) \in 0 .. Requests /\ view.pending \in Nat
  BY TypeFacts DEF Inv
<1>3. /\ Takes(call[h]) /\ Stores(call[h]) /\ ~Saves(call[h]) /\ IdOf(call[h]) = call[h].id
      /\ call[h].id \in Id /\ call[h].overtaken \in BOOLEAN
  BY <1>1, <1>2, CallFields
<1>4. e \in Event /\ e.type = "request.created" /\ e.id = call[h].id /\ e.total = Cardinality(stored)
  BY <1>2, <1>3 DEF Created, Event
<1>. HIDE DEF e
<1>5. d \in Call /\ d.stage = "publish" /\ d.event = e /\ d.overtaken = call[h].overtaken
  BY <1>3, <1>4 DEF Call
<1>. HIDE DEF d
<1>6. call' \in [Handler -> Call] /\ call'[h] = d /\ \A g \in Handler \ {h} : call'[g] = call[g]
  BY <1>1, <1>2, <1>5
<1>7. TypeOK'
  BY <1>1, <1>6 DEF Inv, TypeOK
<1>8. NoDuplicates' /\ Phases'
  BY <1>1, SameView DEF Inv, Browser
<1>9. /\ Tells(call'[h]) /\ Stores(call'[h]) /\ Takes(call'[h])
      /\ IdOf(call'[h]) = IdOf(call[h]) /\ call'[h].event.total = Cardinality(stored)
  BY <1>3, <1>4, <1>5, <1>6 DEF Tells, Stores, Takes, IdOf
<1>10. Numbered(stored, captured, call, channel, view.pending) /\ Fresh(call, stored, version, channel)
  BY DEF Inv
<1>11. Numbered(stored, captured, call', channel, view.pending)
  <2>1. Once(channel) /\ view.pending <= view.pending
    BY <1>2, <1>10 DEF Numbered
  <2>2. \A g \in Handler : Takes(call'[g]) =>
          /\ Takes(call[g]) /\ IdOf(call'[g]) = IdOf(call[g])
          /\ Stores(call[g]) => Stores(call'[g])
    BY <1>3, <1>6, <1>9
  <2>. QED BY <1>2, <1>6, <1>10, <2>1, <2>2, NumberedLess
<1>12. Fresh(call', stored, version, channel)
  BY <1>1, <1>2, <1>5, <1>6, <1>9, <1>10, FreshCounted
<1>13. SettingsRight' /\ TotalRight' /\ ListRight'
  <2>1. /\ Untold(call) \subseteq Untold(call')
        /\ WillCount(call, Cardinality(stored)) => WillCount(call', Cardinality(stored))
        /\ WillShow(call, version) => WillShow(call', version)
    BY <1>2, <1>3, <1>6, <1>9, OthersGoOn
  <2>2. Untold(call') \subseteq Untold(call)
    BY <1>3, <1>6, <1>9 DEF Untold
  <2>3. Late(call) => Late(call')
    BY <1>3, <1>5, <1>6 DEF Late
  <2>. QED BY <1>1, <2>1, <2>2, <2>3, StillRight DEF Inv, Browser
<1>. QED BY <1>1, <1>7, <1>8, <1>11, <1>12, <1>13 DEF Inv

\* An update saves the settings.
LEMMA SaveInv ==
  ASSUME Inv, NEW h \in Handler, Save(h)
  PROVE  Inv'
<1>. DEFINE e == Updated(version + 1)
            d == [stage |-> "publish", event |-> e, overtaken |-> FALSE]
<1>1. /\ call[h].stage = "idle" /\ version < Updates /\ call' = [call EXCEPT ![h] = d]
      /\ stored' = stored /\ version' = version + 1 /\ missed' = missed /\ captured' = captured
      /\ phase' = phase /\ page' = page /\ filter' = filter
      /\ connected' = connected /\ channel' = channel /\ view' = view
  BY DEF Save, At, Become, Browser
<1>2. /\ stored \subseteq Id /\ call \in [Handler -> Call] /\ captured \in Nat /\ captured <= Requests
      /\ version \in Nat /\ view.pending \in Nat
  BY TypeFacts DEF Inv
<1>3. version + 1 \in Version
  BY <1>1, <1>2, LiveViewAssumption DEF Version
<1>4. e \in Event /\ e.type = "token.updated" /\ e.version = version + 1
  BY <1>3 DEF Updated, Event
<1>. HIDE DEF e
<1>5. d \in Call /\ d.stage = "publish" /\ d.event = e
  BY <1>4 DEF Call
<1>. HIDE DEF d
<1>6. call' \in [Handler -> Call] /\ call'[h] = d /\ \A g \in Handler \ {h} : call'[g] = call[g]
  BY <1>1, <1>2, <1>5
<1>7. TypeOK'
  BY <1>1, <1>3, <1>6 DEF Inv, TypeOK
<1>8. NoDuplicates' /\ Phases'
  BY <1>1, SameView DEF Inv, Browser
<1>9. /\ ~Takes(call[h]) /\ ~Stores(call[h]) /\ ~Saves(call[h])
      /\ Saves(call'[h]) /\ ~Stores(call'[h]) /\ ~Takes(call'[h])
      /\ call'[h].event.version = version + 1
  <2>1. Saves(call'[h])
    BY <1>4, <1>5, <1>6 DEF Saves
  <2>2. ~Takes(call'[h])
    BY <1>6, <2>1, CallFields
  <2>. QED BY <1>1, <1>2, <1>4, <1>5, <1>6, <2>1, <2>2, CallFields
<1>10. Numbered(stored, captured, call, channel, view.pending) /\ Fresh(call, stored, version, channel)
  BY DEF Inv
<1>11. Numbered(stored, captured, call', channel, view.pending)
  <2>1. Once(channel) /\ view.pending <= view.pending
    BY <1>2, <1>10 DEF Numbered
  <2>2. \A g \in Handler : Takes(call'[g]) =>
          /\ Takes(call[g]) /\ IdOf(call'[g]) = IdOf(call[g])
          /\ Stores(call[g]) => Stores(call'[g])
    BY <1>6, <1>9
  <2>. QED BY <1>2, <1>6, <1>10, <2>1, <2>2, NumberedLess
<1>12. Fresh(call', stored, version + 1, channel)
  BY <1>1, <1>2, <1>6, <1>9, <1>10, FreshSaved
<1>13. SettingsRight'
  <2>1. WillShow(call', version + 1)
    BY <1>9 DEF WillShow
  <2>. QED BY <1>1, <2>1 DEF SettingsRight, SettingsTold
<1>14. /\ Untold(call') = Untold(call)
       /\ WillCount(call, Cardinality(stored)) => WillCount(call', Cardinality(stored))
  <2>1. /\ Untold(call) \subseteq Untold(call')
        /\ WillCount(call, Cardinality(stored)) => WillCount(call', Cardinality(stored))
    BY <1>2, <1>6, <1>9, OthersGoOn
  <2>2. Untold(call') \subseteq Untold(call)
    BY <1>6, <1>9 DEF Untold
  <2>. QED BY <2>1, <2>2
<1>15. Due(call', channel) = Due(call, channel)
  BY <1>14 DEF Due
<1>16. TotalRight'
  <2>1. InOrder(call, stored, channel) => InOrder(call', stored', channel')
    BY <1>1, <1>15 DEF InOrder
  <2>2. TotalTold(call, stored, filter, channel, view.total)
        => TotalTold(call', stored', filter', channel', view'.total)
    <3>1. Late(call) => Late(call')
      BY <1>6, <1>9 DEF Late
    <3>. QED BY <1>1, <1>14, <3>1 DEF TotalTold
  <2>. QED BY <1>1, <2>1, <2>2 DEF Inv, TotalRight, Counted
<1>17. ListRight'
  BY <1>1, <1>15 DEF Inv, ListRight
<1>. QED BY <1>1, <1>7, <1>8, <1>11, <1>12, <1>13, <1>16, <1>17 DEF Inv

\* An event is published: the page gets it, or has not read yet, or misses it.
LEMMA PublishInv ==
  ASSUME Inv, NEW h \in Handler, Publish(h)
  PROVE  Inv'
<1>. DEFINE e == call[h].event
            sent == connected /\ Len(channel) < Buffer
            ch2 == IF sent THEN Append(channel, e) ELSE channel
<1>1. /\ call[h].stage = "publish" /\ channel' = ch2 /\ Overtake(h, e)
      /\ Misses(Subject(e), \/ call[h].overtaken
                            \/ ~sent /\ (IF Subject(e) = "settings" THEN Read ELSE Counted))
      /\ stored' = stored /\ version' = version /\ captured' = captured
      /\ phase' = phase /\ page' = page /\ filter' = filter /\ connected' = connected /\ view' = view
  BY DEF Publish, At, Database
<1>2. /\ stored \subseteq Id /\ call \in [Handler -> Call] /\ captured \in Nat /\ captured <= Requests
      /\ version \in Nat /\ channel \in Seq(Event) /\ Len(channel) \in Nat /\ view.pending \in Nat
  BY TypeFacts DEF Inv
<1>3. e \in Event
  BY <1>1, <1>2, CallFields
<1>4. Told(e) => Subject(e) = "requests" /\ Takes(call[h]) /\ Stores(call[h]) /\ ~Counting(call[h])
                 /\ IdOf(call[h]) = e.id
  <2>1. call[h] \in Call
    BY <1>2
  <2>2. ~Counting(call[h])
    BY <1>1 DEF Counting
  <2>. QED BY <1>1, <2>1, <2>2, CallFields DEF Told, Subject, Tells
<1>5. ~Told(e) => Subject(e) = "settings" /\ Saves(call[h]) /\ ~Takes(call[h])
  <2>1. call[h] \in Call
    BY <1>2
  <2>2. ~Told(e) => e.type = "token.updated"
    BY <1>3, EventFields
  <2>. QED BY <1>1, <2>1, <2>2, CallFields DEF Subject, Saves
<1>6. /\ missed \subseteq missed'
      /\ Told(e) /\ Counted /\ "requests" \notin missed' => sent /\ ~call[h].overtaken
      /\ ~Told(e) /\ Read /\ "settings" \notin missed' => sent /\ ~call[h].overtaken
      /\ missed' \subseteq missed \cup {Subject(e)}
  <2>. HIDE DEF e, sent
  <2>. QED BY <1>1, <1>4, <1>5 DEF Misses
<1>. HIDE DEF e
<1>7. Publishes(call, call', h, e)
  BY <1>1, <1>2, <1>3, OvertakePasses DEF Publishes, e
<1>8. Passed(call, call', h, e)
  BY <1>7 DEF Publishes
<1>9. ch2 \in Seq(Event) /\ Len(ch2) <= Buffer
  <2>1. Len(channel) <= Buffer
    BY DEF Inv, TypeOK
  <2>2. Append(channel, e) \in Seq(Event) /\ Len(Append(channel, e)) = Len(channel) + 1
    BY <1>2, <1>3, Appended
  <2>. QED BY <1>2, <2>1, <2>2, LiveViewAssumption
<1>10. Sent(ch2) \subseteq Sent(channel) \cup News(e)
  BY <1>2, <1>3, SentAppended
<1>11. TypeOK'
  <2>1. missed' \subseteq {"requests", "settings"}
    BY <1>4, <1>5, <1>6 DEF Inv, TypeOK
  <2>2. call' \in [Handler -> Call]
    BY <1>8 DEF Passed
  <2>. QED BY <1>1, <1>9, <2>1, <2>2 DEF Inv, TypeOK
<1>12. NoDuplicates' /\ Phases'
  BY <1>1 DEF Inv, NoDuplicates, Phases
<1>13. Numbered(stored, captured, call, channel, view.pending) /\ Fresh(call, stored, version, channel)
  BY DEF Inv
<1>14. /\ call' \in [Handler -> Call]
       /\ ~Takes(call'[h])
       /\ \A g \in Handler \ {h} : /\ Takes(call'[g]) <=> Takes(call[g])
                                   /\ Stores(call'[g]) <=> Stores(call[g])
                                   /\ Takes(call[g]) => IdOf(call'[g]) = IdOf(call[g])
  BY <1>2, <1>3, <1>8, PassedDo
<1>15. Numbered(stored, captured, call', ch2, view.pending)
  <2>1. CASE Told(e) /\ sent
    <3>1. Numbered(stored, captured, call', Append(channel, e), view.pending)
      BY <1>2, <1>3, <1>4, <1>13, <1>14, <2>1, NumberedTold
    <3>. QED BY <2>1, <3>1
  <2>2. CASE ~(Told(e) /\ sent)
    <3>1. Sent(ch2) \subseteq Sent(channel)
      BY <1>2, <1>3, <2>2, SentAppended DEF News
    <3>2. Once(channel) /\ view.pending <= view.pending
      BY <1>2, <1>13 DEF Numbered
    <3>3. Once(ch2)
      BY <1>2, <1>3, <2>2, <3>2, OnceAppended
    <3>4. \A g \in Handler : Takes(call'[g]) =>
            /\ Takes(call[g]) /\ IdOf(call'[g]) = IdOf(call[g])
            /\ Stores(call[g]) => Stores(call'[g])
      BY <1>14
    <3>. HIDE DEF ch2
    <3>. QED BY <1>2, <1>13, <1>14, <3>1, <3>2, <3>3, <3>4, NumberedLess
  <2>. QED BY <2>1, <2>2
<1>16. Fresh(call', stored, version, ch2)
  <2>1. \A g \in Handler : Takes(call[g]) /\ Takes(call[h]) /\ IdOf(call[g]) = IdOf(call[h]) => g = h
    BY <1>13 DEF Numbered
  <2>2. IF Told(e)
        THEN /\ Stores(call[h]) /\ IdOf(call[h]) = e.id
             /\ IF Counting(call[h]) THEN e.total = Cardinality(stored) ELSE e = call[h].event
        ELSE Saves(call[h]) /\ e = call[h].event
    BY <1>4, <1>5 DEF e
  <2>. HIDE DEF ch2
  <2>. QED BY <1>2, <1>3, <1>8, <1>10, <1>13, <2>1, <2>2, FreshPassed
<1>17. SettingsRight'
  <2>1. SUFFICES ASSUME Read, "settings" \notin missed'
                 PROVE  SettingsTold(call', version, ch2, view.version)
    BY <1>1 DEF SettingsRight, Read, Counted
  <2>2. SettingsTold(call, version, channel, view.version)
    BY <1>6, <2>1 DEF Inv, SettingsRight
  <2>3. ch2 = Append(channel, e) \/ (ch2 = channel /\ Told(e))
    BY <1>6, <2>1
  <2>4. ~Told(e) => ~call[h].overtaken
    BY <1>6, <2>1
  <2>. HIDE DEF ch2
  <2>. QED BY <1>2, <1>3, <1>7, <1>13, <2>2, <2>3, <2>4, SettingsPassed
<1>18. Counted /\ "requests" \notin missed'
       => Follows(channel, ch2, e) /\ (Told(e) => ~call[h].overtaken)
  BY <1>6 DEF Follows
<1>19. TotalRight'
  <2>1. SUFFICES ASSUME Counted, "requests" \notin missed'
                 PROVE  TotalTold(call', stored, filter, ch2, view.total) /\ InOrder(call', stored, ch2)
    BY <1>1 DEF TotalRight, Counted
  <2>2. TotalTold(call, stored, filter, channel, view.total) /\ InOrder(call, stored, channel)
    BY <1>6, <2>1 DEF Inv, TotalRight
  <2>. HIDE DEF ch2
  <2>3. TotalTold(call', stored, filter, ch2, view.total)
    BY <1>2, <1>3, <1>7, <1>13, <1>18, <2>1, <2>2, TotalPassed
  <2>4. InOrder(call', stored, ch2)
    BY <1>2, <1>3, <1>7, <1>13, <1>18, <2>1, <2>2, InOrderPassed
  <2>. QED BY <2>3, <2>4
<1>20. ListRight'
  <2>1. SUFFICES ASSUME phase = "loaded", "requests" \notin missed'
                 PROVE  ListTold(stored, filter, Due(call', ch2), view.list, page, view.pending)
    BY <1>1 DEF ListRight
  <2>2. ListTold(stored, filter, Due(call, channel), view.list, page, view.pending)
    BY <1>6, <2>1 DEF Inv, ListRight
  <2>3. Follows(channel, ch2, e)
    BY <1>18, <2>1 DEF Counted
  <2>. HIDE DEF ch2
  <2>4. Due(call', ch2) = Due(call, channel)
    <3>1. call \in [Handler -> Call] /\ channel \in Seq(Event)
      BY <1>2
    <3>2. /\ Due(call', ch2) = Due(call, channel)
          /\ Sent(ch2) = Sent(channel) \cup News(e)
      BY <1>3, <1>7, <2>3, <3>1, DuePassed, Zenon
    <3>. QED BY <3>2
  <2>. QED BY <2>2, <2>4
<1>. QED BY <1>1, <1>11, <1>12, <1>15, <1>16, <1>17, <1>19, <1>20 DEF Inv

\* Counting fails: the request will not be told, and the page misses that.
LEMMA FailToCountInv ==
  ASSUME Inv, NEW h \in Handler, FailToCount(h)
  PROVE  Inv'
<1>. DEFINE e == Created(call[h].id)
<1>1. /\ call[h].stage = "count" /\ Overtake(h, e) /\ Misses("requests", Counted)
      /\ stored' = stored /\ version' = version /\ captured' = captured
      /\ phase' = phase /\ page' = page /\ filter' = filter
      /\ connected' = connected /\ channel' = channel /\ view' = view
  BY DEF FailToCount, At, Browser, Database
<1>2. /\ stored \subseteq Id /\ call \in [Handler -> Call] /\ captured \in Nat /\ captured <= Requests
      /\ Cardinality(stored) \in 0 .. Requests /\ version \in Nat /\ view.pending \in Nat
  BY TypeFacts DEF Inv
<1>3. /\ Takes(call[h]) /\ Stores(call[h]) /\ ~Saves(call[h]) /\ Counting(call[h])
      /\ IdOf(call[h]) = call[h].id /\ call[h].id \in Id
  BY <1>1, <1>2, CallFields
<1>4. e \in Event /\ Told(e) /\ e.id = call[h].id /\ e.total = Cardinality(stored)
  BY <1>2, <1>3 DEF Created, Event, Told
<1>. HIDE DEF e
<1>5. Passed(call, call', h, e)
  BY <1>1, <1>2, <1>4, OvertakePasses
<1>6. missed \subseteq missed' /\ (Counted => "requests" \in missed') /\ missed' \subseteq missed \cup {"requests"}
  BY <1>1 DEF Misses
<1>7. TypeOK'
  BY <1>1, <1>5, <1>6 DEF Inv, TypeOK, Passed
<1>8. NoDuplicates' /\ Phases'
  BY <1>1, SameView DEF Inv, Browser
<1>9. Numbered(stored, captured, call, channel, view.pending) /\ Fresh(call, stored, version, channel)
  BY DEF Inv
<1>10. /\ call' \in [Handler -> Call] /\ ~Takes(call'[h])
       /\ \A g \in Handler \ {h} :
            /\ Takes(call'[g]) <=> Takes(call[g])
            /\ Stores(call'[g]) <=> Stores(call[g])
            /\ Takes(call[g]) => IdOf(call'[g]) = IdOf(call[g])
            /\ Saves(call'[g]) <=> Saves(call[g])
            /\ Saves(call[g]) => call'[g].event = call[g].event
  BY <1>2, <1>4, <1>5, PassedDo
<1>11. Numbered(stored, captured, call', channel, view.pending)
  <2>1. Once(channel) /\ view.pending <= view.pending
    BY <1>2, <1>9 DEF Numbered
  <2>2. \A g \in Handler : Takes(call'[g]) =>
          /\ Takes(call[g]) /\ IdOf(call'[g]) = IdOf(call[g])
          /\ Stores(call[g]) => Stores(call'[g])
    BY <1>10
  <2>. QED BY <1>2, <1>9, <1>10, <2>1, <2>2, NumberedLess
<1>12. Fresh(call', stored, version, channel)
  <2>1. \A g \in Handler : Takes(call[g]) /\ Takes(call[h]) /\ IdOf(call[g]) = IdOf(call[h]) => g = h
    BY <1>9 DEF Numbered
  <2>2. IF Told(e)
        THEN /\ Stores(call[h]) /\ IdOf(call[h]) = e.id
             /\ IF Counting(call[h]) THEN e.total = Cardinality(stored) ELSE e = call[h].event
        ELSE Saves(call[h]) /\ e = call[h].event
    BY <1>3, <1>4
  <2>3. Sent(channel) \subseteq Sent(channel) \cup News(e)
    OBVIOUS
  <2>. QED BY <1>2, <1>4, <1>5, <1>9, <2>1, <2>2, <2>3, FreshPassed
<1>13. SettingsRight'
  <2>1. WillShow(call, version) => WillShow(call', version)
    BY <1>3, <1>10 DEF WillShow
  <2>. QED BY <1>1, <1>6, <2>1 DEF Inv, SettingsRight, SettingsTold, Read, Counted
<1>14. TotalRight' /\ ListRight'
  BY <1>1, <1>6 DEF TotalRight, ListRight, Counted
<1>. QED BY <1>1, <1>7, <1>8, <1>11, <1>12, <1>13, <1>14 DEF Inv

\* Requests are deleted, and the page misses that.
LEMMA DeleteInv ==
  ASSUME Inv, NEW ids, Delete(ids)
  PROVE  Inv'
<1>1. /\ stored' = stored \ ids /\ Misses("requests", Counted)
      /\ call' = [h \in Handler |-> IF Counts(h) THEN [call[h] EXCEPT !.overtaken = TRUE] ELSE call[h]]
      /\ version' = version /\ captured' = captured
      /\ phase' = phase /\ page' = page /\ filter' = filter
      /\ connected' = connected /\ channel' = channel /\ view' = view
  BY DEF Delete, Browser
<1>2. /\ stored \subseteq Id /\ call \in [Handler -> Call] /\ captured \in Nat /\ captured <= Requests
      /\ view.pending \in Nat
  BY TypeFacts DEF Inv
<1>3. missed \subseteq missed' /\ (Counted => "requests" \in missed') /\ missed' \subseteq missed \cup {"requests"}
  BY <1>1 DEF Misses
<1>4. ASSUME NEW g \in Handler
      PROVE  /\ call'[g] \in Call /\ Alike(call[g], call'[g])
             /\ call'[g].stage # "idle" /\ ~call'[g].overtaken => ~call[g].overtaken
             /\ Stores(call[g]) => call'[g].overtaken
  <2>1. call[g] \in Call
    BY <1>2
  <2>2. Counts(g) <=> Stores(call[g])
    BY DEF Counts, At, Stores, Counting, Tells
  <2>3. CASE Counts(g)
    <3>1. call[g].stage # "idle"
      BY <2>3 DEF Counts, At
    <3>2. call'[g] = [call[g] EXCEPT !.overtaken = TRUE]
      BY <1>1, <2>3
    <3>3. call'[g] \in Call /\ call'[g].overtaken = TRUE /\ Alike(call[g], call'[g])
      BY <2>1, <3>1, <3>2, OvertakenCall
    <3>. QED BY <3>3
  <2>4. CASE ~Counts(g)
    <3>1. call'[g] = call[g]
      BY <1>1, <2>4
    <3>. QED BY <2>1, <2>2, <2>4, <3>1 DEF Alike
  <2>. QED BY <2>3, <2>4
<1>5. call' \in [Handler -> Call]
  <2>1. call' = [g \in Handler |-> call'[g]]
    BY <1>1
  <2>. QED BY <1>4, <2>1
<1>6. TypeOK'
  BY <1>1, <1>3, <1>5 DEF Inv, TypeOK
<1>7. NoDuplicates' /\ Phases'
  BY <1>1, SameView DEF Inv, Browser
<1>8. Numbered(stored, captured, call, channel, view.pending) /\ Fresh(call, stored, version, channel)
  BY DEF Inv
<1>9. \A g \in Handler : /\ Takes(call'[g]) <=> Takes(call[g])
                         /\ Stores(call'[g]) <=> Stores(call[g])
                         /\ Saves(call'[g]) <=> Saves(call[g])
                         /\ Takes(call[g]) => IdOf(call'[g]) = IdOf(call[g])
                         /\ Saves(call[g]) => call'[g].event = call[g].event
  <2>1. ASSUME NEW g \in Handler
        PROVE  /\ Takes(call'[g]) <=> Takes(call[g])
               /\ Stores(call'[g]) <=> Stores(call[g])
               /\ Saves(call'[g]) <=> Saves(call[g])
               /\ Takes(call[g]) => IdOf(call'[g]) = IdOf(call[g])
               /\ Saves(call[g]) => call'[g].event = call[g].event
    <3>1. call[g] \in Call /\ call'[g] \in Call /\ Alike(call[g], call'[g])
      BY <1>2, <1>4
    <3>. QED BY <3>1, AlikeDo DEF Saves
  <2>. QED BY <2>1
<1>10. Numbered(stored \ ids, captured, call', channel, view.pending)
  <2>1. Once(channel) /\ view.pending <= view.pending /\ stored \ ids \subseteq stored
    BY <1>2, <1>8 DEF Numbered
  <2>2. \A g \in Handler : Takes(call'[g]) =>
          /\ Takes(call[g]) /\ IdOf(call'[g]) = IdOf(call[g])
          /\ Stores(call[g]) => Stores(call'[g])
    BY <1>9
  <2>. QED BY <1>2, <1>5, <1>8, <2>1, <2>2, NumberedLess
<1>11. Fresh(call', stored \ ids, version, channel)
  <2>1. stored \ ids \subseteq stored
    OBVIOUS
  <2>. QED BY <1>2, <1>4, <1>5, <1>8, <2>1, FreshDeleted
<1>12. SettingsRight'
  <2>1. WillShow(call, version) => WillShow(call', version)
    BY <1>9 DEF WillShow
  <2>. QED BY <1>1, <1>3, <2>1 DEF Inv, SettingsRight, SettingsTold, Read, Counted
<1>13. TotalRight' /\ ListRight'
  BY <1>1, <1>3 DEF TotalRight, ListRight, Counted
<1>. QED BY <1>1, <1>6, <1>7, <1>10, <1>11, <1>12, <1>13 DEF Inv

\* Nothing is on the way to a page that is not loaded.
LEMMA NothingSent ==
  ASSUME Inv, phase # "loaded"
  PROVE  channel = <<>> /\ view.pending = 0 /\ view.list = <<>> /\ ~connected
BY DEF Inv, Phases

\* The page loads the token.
LEMMA LoadTokenInv ==
  ASSUME Inv, NEW p \in {1, 2}, NEW f \in Filters, LoadToken(p, f)
  PROVE  Inv'
<1>1. /\ phase = "closed" /\ phase' = "count" /\ page' = p /\ filter' = f
      /\ view' = [Blank EXCEPT !.version = version] /\ missed' = {}
      /\ stored' = stored /\ version' = version /\ captured' = captured /\ call' = call
      /\ connected' = connected /\ channel' = channel
  BY DEF LoadToken, Database
<1>2. channel = <<>> /\ view.pending = 0 /\ view.list = <<>> /\ ~connected
  BY <1>1, NothingSent
<1>3. version \in Version
  BY DEF Inv, TypeOK
<1>4. view' \in View /\ view'.version = version /\ view'.list = <<>> /\ view'.pending = 0
  <2>1. Blank \in View /\ Blank.list = <<>> /\ Blank.pending = 0
    BY LiveViewAssumption DEF Blank, View, Version
  <2>. QED BY <1>1, <1>3, <2>1 DEF View
<1>5. TypeOK'
  <2>1. Len(<<>>) = 0
    OBVIOUS
  <2>2. Len(view'.list) <= PerPage
    BY <1>4, <2>1, LiveViewAssumption
  <2>3. filter' \in SUBSET Id
    BY <1>1, RequestAssumption
  <2>. QED BY <1>1, <1>4, <2>2, <2>3 DEF Inv, TypeOK
<1>6. NoDuplicates' /\ Phases'
  BY <1>1, <1>2, <1>4 DEF NoDuplicates, IsInjective, Phases
<1>7. Numbered(stored, captured, call, channel, view'.pending) /\ Fresh(call, stored, version, channel)
  BY <1>2, <1>4 DEF Inv
<1>8. SettingsRight'
  <2>1. Latest(<<>>, "token.updated", version, version)
    BY LatestNothing
  <2>. QED BY <1>1, <1>2, <1>4, <2>1 DEF SettingsRight, SettingsTold
<1>9. TotalRight' /\ ListRight'
  BY <1>1 DEF TotalRight, ListRight, Counted
<1>. QED BY <1>1, <1>5, <1>6, <1>7, <1>8, <1>9 DEF Inv

\* The page loads the number of requests.
LEMMA LoadTotalInv ==
  ASSUME Inv, LoadTotal
  PROVE  Inv'
<1>1. /\ phase = "count" /\ phase' = "list" /\ view' = [view EXCEPT !.total = Cardinality(stored \cap filter)]
      /\ missed' = missed \ {"requests"}
      /\ stored' = stored /\ version' = version /\ captured' = captured /\ call' = call
      /\ page' = page /\ filter' = filter /\ connected' = connected /\ channel' = channel
  BY ListRequestsIs DEF LoadTotal, Database
<1>2. channel = <<>> /\ view.pending = 0 /\ view.list = <<>> /\ ~connected
  BY <1>1, NothingSent
<1>3. view \in View /\ Cardinality(stored \cap filter) \in 0 .. Requests /\ call \in [Handler -> Call]
  BY TypeFacts DEF Inv
<1>4. /\ view' \in View /\ view'.version = view.version /\ view'.total = Cardinality(stored \cap filter)
      /\ view'.list = view.list /\ view'.pending = view.pending
  BY <1>1, <1>3 DEF View
<1>5. TypeOK'
  BY <1>1, <1>4 DEF Inv, TypeOK
<1>6. NoDuplicates' /\ Phases'
  BY <1>1, <1>2, <1>4 DEF NoDuplicates, IsInjective, Phases
<1>7. Numbered(stored, captured, call, channel, view'.pending) /\ Fresh(call, stored, version, channel)
  BY <1>4 DEF Inv
<1>8. SettingsRight'
  <2>1. Read /\ ("settings" \notin missed' => "settings" \notin missed)
    BY <1>1 DEF Read
  <2>. QED BY <1>1, <1>4, <2>1 DEF Inv, SettingsRight
<1>9. TotalRight'
  <2>1. WillCount(call, Cardinality(stored)) \/ Late(call)
    <3>1. ASSUME NEW g \in Handler, Stores(call[g]), ~call[g].overtaken
          PROVE  WillCount(call, Cardinality(stored))
      <4>1. Knows(call, g, stored, version, channel)
        BY DEF Inv, Fresh
      <4>2. call[g].stage # "idle" /\ (Counting(call[g]) \/ Tells(call[g]))
        BY <3>1 DEF Stores, Counting, Tells
      <4>. QED BY <4>1, <4>2, <3>1 DEF Knows, WillCount
    <3>. QED BY <3>1 DEF Late
  <2>2. InOrder(call, stored, <<>>)
    BY SentNothing DEF InOrder
  <2>3. TotalTold(call, stored, filter, <<>>, Cardinality(stored \cap filter))
    BY <2>1, SentNothing DEF TotalTold
  <2>. QED BY <1>1, <1>2, <1>4, <2>2, <2>3 DEF TotalRight
<1>10. ListRight'
  BY <1>1 DEF ListRight
<1>. QED BY <1>1, <1>5, <1>6, <1>7, <1>8, <1>9, <1>10 DEF Inv

\* The page loads its list.
LEMMA LoadListInv ==
  ASSUME Inv, LoadList
  PROVE  Inv'
<1>0. PICK list \in Listing(stored \cap filter, page) : view' = [view EXCEPT !.list = list]
  BY ListRequestsIs DEF LoadList
<1>1. /\ phase = "list" /\ phase' = "loaded" /\ view' = [view EXCEPT !.list = list]
      /\ stored' = stored /\ version' = version /\ captured' = captured /\ call' = call
      /\ page' = page /\ filter' = filter /\ connected' = connected /\ channel' = channel /\ missed' = missed
  BY <1>0 DEF LoadList, Database
<1>2. channel = <<>> /\ ~connected
  BY <1>1, NothingSent
<1>3. view \in View /\ stored \subseteq Id /\ page \in {1, 2}
  BY TypeFacts DEF Inv
<1>4. /\ list \in Seq(Id) /\ Len(list) <= PerPage
      /\ IsInjective(list)
  <2>1. stored \cap filter \subseteq Id
    BY <1>3
  <2>. QED BY <1>3, <2>1, ListingIs
<1>6. page = 1 => FirstPage(stored, filter, Due(call, channel), list)
  <2>1. Due(call, channel) \subseteq Id
    BY SentIds DEF Due
  <2>. QED BY <1>3, <2>1, FirstPageLoaded
<1>7. /\ view' \in View /\ view'.version = view.version /\ view'.total = view.total
      /\ view'.list = list /\ view'.pending = view.pending
  BY <1>1, <1>3, <1>4 DEF View
<1>8. TypeOK'
  BY <1>1, <1>4, <1>7 DEF Inv, TypeOK
<1>9. NoDuplicates' /\ Phases'
  BY <1>1, <1>2, <1>4, <1>7 DEF NoDuplicates, Phases
<1>10. Numbered(stored, captured, call, channel, view'.pending) /\ Fresh(call, stored, version, channel)
  BY <1>7 DEF Inv
<1>11. SettingsRight' /\ TotalRight'
  <2>1. Read /\ Counted
    BY <1>1 DEF Read, Counted
  <2>. QED BY <1>1, <1>7, <2>1 DEF Inv, SettingsRight, TotalRight
<1>12. ListRight'
  BY <1>1, <1>6, <1>7 DEF ListRight, ListTold, LaterPage
<1>. QED BY <1>1, <1>8, <1>9, <1>10, <1>11, <1>12 DEF Inv

\* The page subscribes.
LEMMA SubscribeInv ==
  ASSUME Inv, Subscribe
  PROVE  Inv'
<1>1. /\ phase = "loaded" /\ connected' = TRUE
      /\ stored' = stored /\ version' = version /\ captured' = captured /\ call' = call
      /\ phase' = phase /\ page' = page /\ filter' = filter /\ channel' = channel /\ view' = view /\ missed' = missed
  BY DEF Subscribe, Database
<1>2. TypeOK' /\ NoDuplicates' /\ Phases'
  BY <1>1 DEF Inv, TypeOK, NoDuplicates, Phases
<1>3. SettingsRight' /\ TotalRight' /\ ListRight'
  BY <1>1 DEF Inv, SettingsRight, TotalRight, ListRight, Read, Counted
<1>. QED BY <1>1, <1>2, <1>3 DEF Inv

\* The connection is lost: the page misses what was on the way.
LEMMA LoseInv ==
  ASSUME Inv, Lose
  PROVE  Inv'
<1>1. /\ connected' = FALSE /\ channel' = <<>>
      /\ missed' = missed \cup {Subject(e) : e \in Range(channel)}
      /\ stored' = stored /\ version' = version /\ captured' = captured /\ call' = call
      /\ phase' = phase /\ page' = page /\ filter' = filter /\ view' = view
  BY DEF Lose, Database
<1>2. /\ stored \subseteq Id /\ call \in [Handler -> Call] /\ captured \in Nat /\ captured <= Requests
      /\ channel \in Seq(Event) /\ view.pending \in Nat
  BY TypeFacts DEF Inv
<1>3. \A i \in DOMAIN channel : channel[i] \in Event /\ Subject(channel[i]) \in missed'
  <2>1. \A i \in DOMAIN channel : channel[i] \in Event /\ channel[i] \in Range(channel)
    BY <1>2, ElementOfSeq DEF Range
  <2>. QED BY <1>1, <2>1
<1>4. /\ "settings" \notin missed' => \A i \in DOMAIN channel : channel[i].type # "token.updated"
      /\ "requests" \notin missed' => \A i \in DOMAIN channel : channel[i].type # "request.created"
  BY <1>3 DEF Subject
<1>5. missed \subseteq missed' /\ missed' \subseteq {"requests", "settings"}
  BY <1>1 DEF Inv, TypeOK, Subject
<1>6. TypeOK'
  <2>1. <<>> \in Seq(Event) /\ Len(<<>>) = 0
    OBVIOUS
  <2>2. channel' \in Seq(Event) /\ Len(channel') <= Buffer
    BY <1>1, <2>1, LiveViewAssumption
  <2>. QED BY <1>1, <1>5, <2>2 DEF Inv, TypeOK
<1>7. NoDuplicates' /\ Phases'
  BY <1>1 DEF Inv, NoDuplicates, Phases
<1>8. Numbered(stored, captured, call, channel, view.pending) /\ Fresh(call, stored, version, channel)
  BY DEF Inv
<1>9. Numbered(stored, captured, call, <<>>, view.pending)
  <2>1. Sent(<<>>) \subseteq Sent(channel) /\ Once(<<>>) /\ view.pending <= view.pending
    BY <1>2, SentNothing DEF Once
  <2>2. \A g \in Handler : Takes(call[g]) =>
          /\ Takes(call[g]) /\ IdOf(call[g]) = IdOf(call[g])
          /\ Stores(call[g]) => Stores(call[g])
    OBVIOUS
  <2>3. stored \subseteq stored
    OBVIOUS
  <2>. QED BY <1>2, <1>8, <2>1, <2>2, <2>3, NumberedLess
<1>10. Fresh(call, stored, version, <<>>)
  BY <1>8, SentNothing, FreshReceived
<1>11. SettingsRight'
  <2>1. SUFFICES ASSUME Read, "settings" \notin missed'
                 PROVE  SettingsTold(call, version, <<>>, view.version)
    BY <1>1 DEF SettingsRight, Read, Counted
  <2>2. SettingsTold(call, version, channel, view.version)
    BY <1>5, <2>1 DEF Inv, SettingsRight
  <2>3. Latest(channel, "token.updated", view.version, version) => view.version = version
    BY <1>4, <2>1 DEF Latest
  <2>. QED BY <2>2, <2>3, LatestNothing DEF SettingsTold
<1>12. "requests" \notin missed' => Sent(channel) = {}
  BY <1>4 DEF Sent, Told
<1>13. TotalRight'
  <2>1. SUFFICES ASSUME Counted, "requests" \notin missed'
                 PROVE  TotalTold(call, stored, filter, <<>>, view.total) /\ InOrder(call, stored, <<>>)
    BY <1>1 DEF TotalRight, Counted
  <2>2. TotalTold(call, stored, filter, channel, view.total)
    BY <1>5, <2>1 DEF Inv, TotalRight
  <2>3. Latest(channel, "request.created", view.total, Cardinality(stored))
        => view.total = Cardinality(stored)
    BY <1>4, <2>1 DEF Latest
  <2>4. TotalTold(call, stored, filter, <<>>, view.total)
    BY <2>2, <2>3, LatestNothing, SentNothing DEF TotalTold
  <2>5. InOrder(call, stored, <<>>)
    BY SentNothing DEF InOrder
  <2>. QED BY <2>4, <2>5
<1>14. ListRight'
  <2>1. "requests" \notin missed' => Due(call, <<>>) = Due(call, channel)
    BY <1>12, SentNothing DEF Due
  <2>. QED BY <1>1, <1>5, <2>1 DEF Inv, ListRight
<1>. QED BY <1>1, <1>6, <1>7, <1>9, <1>10, <1>11, <1>13, <1>14 DEF Inv

\* The page is left.
LEMMA LeaveInv ==
  ASSUME Inv, Leave
  PROVE  Inv'
<1>1. /\ phase' = "closed" /\ connected' = FALSE /\ channel' = <<>>
      /\ page' = 1 /\ filter' = Id
      /\ view' = Blank /\ missed' = {}
      /\ stored' = stored /\ version' = version /\ captured' = captured /\ call' = call
  BY DEF Leave, Database
<1>2. /\ stored \subseteq Id /\ call \in [Handler -> Call] /\ captured \in Nat /\ captured <= Requests
      /\ view.pending \in Nat
  BY TypeFacts DEF Inv
<1>3. view' \in View /\ view'.list = <<>> /\ view'.pending = 0
  BY <1>1, LiveViewAssumption DEF Blank, View, Version
<1>4. TypeOK'
  <2>1. <<>> \in Seq(Event) /\ Len(<<>>) = 0
    OBVIOUS
  <2>2. channel' \in Seq(Event) /\ Len(channel') <= Buffer /\ Len(view'.list) <= PerPage
    BY <1>1, <1>3, <2>1, LiveViewAssumption
  <2>. QED BY <1>1, <1>3, <2>2 DEF Inv, TypeOK
<1>5. NoDuplicates' /\ Phases'
  BY <1>1, <1>3 DEF NoDuplicates, IsInjective, Phases
<1>6. Numbered(stored, captured, call, channel, view.pending) /\ Fresh(call, stored, version, channel)
  BY DEF Inv
<1>7. Numbered(stored, captured, call, <<>>, 0)
  <2>1. Sent(<<>>) \subseteq Sent(channel) /\ Once(<<>>) /\ 0 <= view.pending /\ 0 \in Nat
    BY <1>2, SentNothing DEF Once
  <2>2. \A g \in Handler : Takes(call[g]) =>
          /\ Takes(call[g]) /\ IdOf(call[g]) = IdOf(call[g])
          /\ Stores(call[g]) => Stores(call[g])
    OBVIOUS
  <2>3. stored \subseteq stored
    OBVIOUS
  <2>. QED BY <1>2, <1>6, <2>1, <2>2, <2>3, NumberedLess
<1>8. Fresh(call, stored, version, <<>>)
  BY <1>6, SentNothing, FreshReceived
<1>9. SettingsRight' /\ TotalRight' /\ ListRight'
  BY <1>1 DEF SettingsRight, TotalRight, ListRight, Read, Counted
<1>. QED BY <1>1, <1>3, <1>4, <1>5, <1>7, <1>8, <1>9 DEF Inv

\* The page handles an event.
LEMMA ReceiveInv ==
  ASSUME Inv, Receive
  PROVE  Inv'
<1>. DEFINE e == Head(channel)
            t == Tail(channel)
<1>1. /\ channel # <<>> /\ channel' = t
      /\ view' = IF e.type = "token.updated" THEN [view EXCEPT !.version = e.version] ELSE Applied(e)
      /\ stored' = stored /\ version' = version /\ captured' = captured /\ call' = call
      /\ phase' = phase /\ page' = page /\ filter' = filter /\ connected' = connected /\ missed' = missed
  BY DEF Receive, Database
<1>2. /\ stored \subseteq Id /\ call \in [Handler -> Call] /\ captured \in Nat /\ captured <= Requests
      /\ channel \in Seq(Event) /\ view \in View /\ page \in {1, 2}
  BY TypeFacts DEF Inv
<1>3. /\ view.list \in Seq(Id) /\ view.pending \in Nat /\ view.total \in 0 .. Requests
      /\ view.version \in Version /\ IsInjective(view.list) /\ Len(view.list) <= PerPage
  BY TypeFacts DEF Inv, NoDuplicates, TypeOK
<1>4. e \in Event /\ t \in Seq(Event) /\ Len(t) = Len(channel) - 1
  BY <1>1, <1>2, Received
<1>5. /\ Told(e) => e.type = "request.created" /\ e.id \in Id /\ e.total \in 0 .. Requests
      /\ ~Told(e) => e.type = "token.updated" /\ e.version \in Version
  BY <1>4, EventFields
<1>6. Numbered(stored, captured, call, channel, view.pending) /\ Fresh(call, stored, version, channel)
  BY DEF Inv
<1>7. Sent(channel) = Sent(t) \cup News(e)
  BY <1>1, <1>2, SentReceived
<1>8. Once(channel) /\ Once(t)
  <2>1. Once(channel)
    BY <1>6 DEF Numbered
  <2>. QED BY <1>1, <1>2, <2>1, OnceReceived
<1>9. Told(e) => e.id \notin Untold(call)
  <2>1. Told(e) => e.id \in Sent(channel)
    BY <1>7 DEF News
  <2>2. \A g \in Handler : Stores(call[g]) => IdOf(call[g]) \notin Sent(channel)
    BY <1>6 DEF Numbered, Takes
  <2>. QED BY <2>1, <2>2 DEF Untold
<1>10. Told(e) => Numbered(stored, captured, call, t, view.pending + 1)
  BY <1>1, <1>2, <1>3, <1>6, NumberedCounted
<1>11. Told(e) => view.pending + 1 \in 0 .. Requests
  <2>1. Open(call, t) \in SUBSET Id
    BY SentIds DEF Open
  <2>2. Cardinality(Open(call, t)) \in 0 .. Requests
    BY <2>1, FiniteIds, Zenon
  <2>3. Told(e) => view.pending + 1 + Cardinality(Open(call, t)) <= captured
    BY <1>10 DEF Numbered
  <2>. QED BY <1>2, <1>3, <2>2, <2>3, LiveViewAssumption
<1>12. Told(e) => /\ Prepended(e.id, view.list) \in Seq(Id)
                  /\ Len(Prepended(e.id, view.list)) <= PerPage
                  /\ IsInjective(Prepended(e.id, view.list))
  <2>1. ASSUME Told(e)
        PROVE  /\ Prepended(e.id, view.list) \in Seq(Id)
               /\ Len(Prepended(e.id, view.list)) \in 1 .. PerPage
               /\ IsInjective(Prepended(e.id, view.list))
    BY <1>3, <1>5, <2>1, PrependedIs
  <2>. QED BY <2>1, LiveViewAssumption
<1>. HIDE DEF e, t
<1>13. /\ view' \in View
       /\ view'.version = IF Told(e) THEN view.version ELSE e.version
       /\ view'.total = IF Told(e) THEN e.total ELSE view.total
       /\ view'.list = IF Told(e) /\ page = 1 THEN Prepended(e.id, view.list) ELSE view.list
       /\ view'.pending = IF Told(e) /\ page # 1 THEN view.pending + 1 ELSE view.pending
  <2>1. CASE ~Told(e)
    <3>1. view' = [view EXCEPT !.version = e.version]
      BY <1>1, <1>5, <2>1
    <3>. QED BY <1>2, <1>5, <2>1, <3>1 DEF View
  <2>2. CASE Told(e) /\ page = 1
    <3>1. view' = [view EXCEPT !.total = e.total, !.list = Prepended(e.id, view.list)]
      BY <1>1, <1>5, <2>2 DEF Applied
    <3>. QED BY <1>2, <1>5, <1>12, <2>2, <3>1 DEF View
  <2>3. CASE Told(e) /\ page # 1
    <3>1. view' = [view EXCEPT !.total = e.total, !.pending = view.pending + 1]
      BY <1>1, <1>5, <2>3 DEF Applied
    <3>. QED BY <1>2, <1>5, <1>11, <2>3, <3>1 DEF View
  <2>. QED BY <2>1, <2>2, <2>3
<1>14. TypeOK'
  <2>1. Len(view'.list) <= PerPage
    BY <1>3, <1>12, <1>13
  <2>2. Len(t) <= Buffer
    <3>1. Len(channel) \in Nat /\ Len(channel) <= Buffer
      BY <1>2 DEF Inv, TypeOK
    <3>. QED BY <1>4, <3>1, LiveViewAssumption
  <2>. QED BY <1>1, <1>4, <1>13, <2>1, <2>2 DEF Inv, TypeOK
<1>15. NoDuplicates' /\ Phases'
  <2>1. connected /\ phase = "loaded"
    BY <1>1 DEF Inv, Phases
  <2>. QED BY <1>1, <1>3, <1>12, <1>13, <2>1 DEF NoDuplicates, Phases
<1>16. Numbered(stored, captured, call, t, view'.pending)
  <2>1. CASE Told(e) /\ page # 1
    BY <1>10, <1>13, <2>1
  <2>2. CASE ~(Told(e) /\ page # 1)
    <3>1. Sent(t) \subseteq Sent(channel) /\ view'.pending = view.pending
          /\ view.pending <= view.pending /\ stored \subseteq stored
      BY <1>3, <1>7, <1>13, <2>2
    <3>2. \A g \in Handler : Takes(call[g]) =>
            /\ Takes(call[g]) /\ IdOf(call[g]) = IdOf(call[g])
            /\ Stores(call[g]) => Stores(call[g])
      OBVIOUS
    <3>3. Numbered(stored, captured, call, t, view.pending)
      BY <1>2, <1>3, <1>6, <1>8, <3>1, <3>2, NumberedLess
    <3>. QED BY <3>1, <3>3
  <2>. QED BY <2>1, <2>2
<1>17. Fresh(call, stored, version, t)
  BY <1>6, <1>7, FreshReceived
<1>18. SettingsRight'
  <2>1. Latest(channel, "token.updated", view.version, version)
        => Latest(t, "token.updated", view'.version, version)
    <3>1. Latest(channel, "token.updated", view.version, version)
          => Latest(t, "token.updated",
                    IF e.type = "token.updated" THEN Says(e) ELSE view.version, version)
      BY <1>1, <1>2, LatestReceived DEF e, t
    <3>2. view'.version = IF e.type = "token.updated" THEN Says(e) ELSE view.version
      BY <1>5, <1>13 DEF Says
    <3>. QED BY <3>1, <3>2
  <2>. QED BY <1>1, <2>1 DEF Inv, SettingsRight, SettingsTold, Read, Counted
<1>19. InOrder(call, stored, channel) =>
         /\ InOrder(call, stored, t) /\ Due(call, t) = Due(call, channel) \ News(e)
         /\ Told(e) => e.id \in stored /\ \A s \in stored : s > e.id => s \in Due(call, channel)
  BY <1>1, <1>2, <1>8, <1>9, InOrderReceived DEF e, t
<1>20. TotalRight'
  <2>1. Latest(channel, "request.created", view.total, Cardinality(stored))
        => Latest(t, "request.created", view'.total, Cardinality(stored))
    <3>1. Latest(channel, "request.created", view.total, Cardinality(stored))
          => Latest(t, "request.created",
                    IF e.type = "request.created" THEN Says(e) ELSE view.total, Cardinality(stored))
      BY <1>1, <1>2, LatestReceived DEF e, t
    <3>2. view'.total = IF e.type = "request.created" THEN Says(e) ELSE view.total
      BY <1>5, <1>13 DEF Says, Told
    <3>. QED BY <3>1, <3>2
  <2>2. Sent(channel) = {} => Sent(t) = {} /\ view'.total = view.total
    BY <1>7, <1>13 DEF News
  <2>3. TotalTold(call, stored, filter, channel, view.total)
        => TotalTold(call, stored, filter, t, view'.total)
    BY <2>1, <2>2 DEF TotalTold
  <2>. QED BY <1>1, <1>19, <2>3 DEF Inv, TotalRight, Counted
<1>21. ListRight'
  <2>1. SUFFICES ASSUME phase = "loaded", "requests" \notin missed
                 PROVE  ListTold(stored, filter, Due(call, t), view'.list, page, view'.pending)
    BY <1>1 DEF ListRight
  <2>2. InOrder(call, stored, channel)
    BY <2>1 DEF Inv, TotalRight, Counted
  <2>3. ListTold(stored, filter, Due(call, channel), view.list, page, view.pending)
    BY <2>1 DEF Inv, ListRight
  <2>4. CASE ~Told(e)
    <3>1. Due(call, t) = Due(call, channel) /\ view'.list = view.list /\ view'.pending = view.pending
      BY <1>13, <1>19, <2>2, <2>4 DEF News
    <3>. QED BY <2>3, <3>1
  <2>5. CASE Told(e) /\ page = 1
    <3>1. Due(call, channel) \subseteq Id
      BY SentIds DEF Due
    <3>2. FirstPage(stored, filter, Due(call, channel), view.list)
      BY <2>3, <2>5 DEF ListTold
    <3>3. e.id \in stored /\ \A s \in stored : s > e.id => s \in Due(call, channel)
      BY <1>19, <2>2, <2>5
    <3>4. FirstPage(stored, filter, Due(call, channel) \ {e.id}, Prepended(e.id, view.list))
      BY <1>2, <1>3, <3>1, <3>2, <3>3, FirstPageReceives
    <3>5. Due(call, t) = Due(call, channel) \ {e.id}
      BY <1>19, <2>2, <2>5 DEF News
    <3>. QED BY <1>13, <2>5, <3>4, <3>5 DEF ListTold
  <2>6. CASE Told(e) /\ page # 1
    <3>1. view'.pending > 0
      BY <1>3, <1>13, <2>6
    <3>. QED BY <2>6, <3>1 DEF ListTold, LaterPage
  <2>. QED BY <2>4, <2>5, <2>6
<1>. QED BY <1>1, <1>14, <1>15, <1>16, <1>17, <1>18, <1>20, <1>21 DEF Inv
-----------------------------------------------------------------------------
\* Every step keeps the invariant.
LEMMA InvStep == Inv /\ [Next]_vars => Inv'
<1>. SUFFICES ASSUME Inv, [Next]_vars PROVE Inv'
  OBVIOUS
<1>1. ASSUME NEW h \in Handler,
             Stamp(h) \/ Insert(h) \/ Count(h) \/ Save(h) \/ Publish(h) \/ Refuse(h) \/ FailToCount(h)
      PROVE  Inv'
  BY <1>1, StampInv, InsertInv, CountInv, SaveInv, PublishInv, RefuseInv, FailToCountInv
<1>2. ASSUME NEW ids \in SUBSET stored, Delete(ids)
      PROVE  Inv'
  BY <1>2, DeleteInv
<1>3. ASSUME NEW p \in {1, 2}, NEW f \in Filters, LoadToken(p, f)
      PROVE  Inv'
  BY <1>3, LoadTokenInv
<1>4. CASE LoadTotal \/ LoadList \/ Subscribe \/ Lose \/ Receive \/ Leave
  BY <1>4, LoadTotalInv, LoadListInv, SubscribeInv, LoseInv, ReceiveInv, LeaveInv
<1>5. CASE UNCHANGED vars
  <2>1. /\ stored' = stored /\ version' = version /\ captured' = captured /\ call' = call
        /\ phase' = phase /\ page' = page /\ filter' = filter
        /\ connected' = connected /\ channel' = channel /\ view' = view /\ missed' = missed
    BY <1>5 DEF vars
  <2>2. TypeOK' /\ NoDuplicates' /\ Phases'
    BY <2>1 DEF Inv, TypeOK, NoDuplicates, Phases
  <2>3. SettingsRight' /\ TotalRight' /\ ListRight'
    BY <2>1 DEF Inv, SettingsRight, TotalRight, ListRight, Read, Counted
  <2>. QED BY <2>1, <2>2, <2>3 DEF Inv
<1>. QED BY <1>1, <1>2, <1>3, <1>4, <1>5 DEF Next

\* The inductive invariant: what is not due yet is shown as it is, unless the
\* page has missed something.
THEOREM SafeView == Spec => []Inv
<1>. QED BY InvInit, InvStep, PTL DEF Spec

\* Every variable has its type, and a list never outgrows its page.
THEOREM TypeCorrect == Spec => []TypeOK
<1>1. Inv => TypeOK
  BY DEF Inv
<1>. QED BY <1>1, SafeView, PTL

\* No request is shown twice, although it may be both in the page that was
\* loaded and in an event that arrives later (applyRequestCreated).
THEOREM NeverTwice == Spec => []NoDuplicates
<1>1. Inv => NoDuplicates
  BY DEF Inv
<1>. QED BY <1>1, SafeView, PTL

\* A page that has caught up shows the settings that are saved, however captures
\* and updates overlapped, unless it missed an update.
THEOREM SettingsAreFaithful == Spec => []SettingsFaithful
<1>1. ASSUME Inv, CaughtUp, "settings" \notin missed
      PROVE  view.version = version
  <2>1. channel = <<>> /\ connected /\ \A h \in Handler : call[h].stage = "idle"
    BY <1>1 DEF CaughtUp, At
  <2>2. Read
    BY <1>1, <2>1 DEF Inv, Phases, Read, Counted
  <2>3. SettingsTold(call, version, <<>>, view.version)
    BY <1>1, <2>1, <2>2 DEF Inv, SettingsRight
  <2>4. ~WillShow(call, version)
    BY <2>1 DEF WillShow, Saves
  <2>. QED BY <2>3, <2>4, LatestNothing DEF SettingsTold
<1>2. Inv => SettingsFaithful
  BY <1>1 DEF SettingsFaithful
<1>. QED BY <1>2, SafeView, PTL

\* A page that has caught up shows how many requests match its filters, or how
\* many there are at all once an event has told it so. The first page shows
\* stored requests in the order of their times, and of those that match leaves
\* none out but for newer ones that fill it. A later page shows what it should
\* or says that newer requests have come. Unless it missed an event or requests
\* were deleted, and whatever captures, updates and the load overlapped.
THEOREM RequestsAreFaithful == Spec => []RequestsFaithful
<1>1. ASSUME Inv, CaughtUp, "requests" \notin missed
      PROVE  /\ view.total \in {Cardinality(Matching), Cardinality(stored)}
             /\ page = 1 => Range(view.list) \subseteq stored /\ ShowsNewest(view.list, Matching)
             /\ page # 1 => view.pending > 0 \/ view.list \in ListRequests(page)
  <2>1. channel = <<>> /\ connected /\ \A h \in Handler : call[h].stage = "idle"
    BY <1>1 DEF CaughtUp, At
  <2>2. phase = "loaded" /\ Counted
    BY <1>1, <2>1 DEF Inv, Phases, Counted
  <2>3. TotalTold(call, stored, filter, <<>>, view.total)
    BY <1>1, <2>1, <2>2 DEF Inv, TotalRight
  <2>4. ~WillCount(call, Cardinality(stored))
    BY <2>1 DEF WillCount, Counting, Tells
  <2>5. view.total \in {Cardinality(Matching), Cardinality(stored)}
    BY <2>3, <2>4, LatestNothing DEF TotalTold, Matching
  <2>6. Due(call, <<>>) = {}
    BY <2>1, SentNothing DEF Due, Untold, Stores, Counting, Tells
  <2>7. ListTold(stored, filter, {}, view.list, page, view.pending)
    BY <1>1, <2>1, <2>2, <2>6 DEF Inv, ListRight
  <2>8. stored \subseteq Id /\ view.list \in Seq(Id)
    BY <1>1, TypeFacts DEF Inv
  <2>9. page = 1 => Range(view.list) \subseteq stored /\ ShowsNewest(view.list, Matching)
    BY <1>1, <2>7, <2>8, FirstPageFaithful DEF ListTold, Inv, NoDuplicates, TypeOK, Matching
  <2>10. page # 1 => view.pending > 0 \/ view.list \in ListRequests(page)
    BY <2>7, ListRequestsIs DEF ListTold, LaterPage
  <2>. QED BY <2>5, <2>9, <2>10
<1>2. Inv => RequestsFaithful
  BY <1>1 DEF RequestsFaithful
<1>. QED BY <1>2, SafeView, PTL

=============================================================================
