----------------------------- MODULE Accounts_proofs -----------------------------
(***************************************************************************)
(* Proofs about Accounts, for any emails, subjects, handlers and bounds.   *)
(*                                                                         *)
(* The invariant ties three things together that no statement compares:    *)
(* the sessions table and the history of sessions, the users table and     *)
(* what the handlers have read of it, and the roles that registrations     *)
(* carry and the accounts that were there when they began.                 *)
(***************************************************************************)
EXTENDS Accounts, FiniteSetTheorems, SequenceTheorems, TLAPS

\* A row of sessions is one that was issued, has not been signed out and
\* belongs to an account; a session that still counts has its row.
Backed(s) ==
  /\ sessions[s] # None =>
       /\ sessions[s] = [user |-> issued[s].user, expires |-> issued[s].expires]
       /\ ~issued[s].signedOut
       /\ issued[s].user \in Registered
  /\ ~issued[s].signedOut /\ issued[s].expires > now /\ issued[s].user \in Registered
       => sessions[s] # None

SessionsBacked ==
  /\ \A s \in DOMAIN issued : Backed(s) /\ issued[s].user <= created
  /\ \A s \in SessionId : s > Len(issued) => sessions[s] = None

\* Ids are given out in order, so that none comes back.
IdsInOrder == \A u \in Id : u > created => users[u] = None

\* What a registration knows about the accounts.
Registering(c) ==
  /\ c.stage \in {"lookup", "count"} /\ c.late => Registered # {}
  /\ c.stage = "create" /\ c.late => c.role = "user"

\* What a sign-in knows: its account has the identity that was proved.
SigningIn(c) ==
  c.stage = "session" =>
    /\ c.user <= created
    /\ c.user \in Registered =>
         /\ users[c.user].subject = c.subject
         /\ c.subject = None => users[c.user].email = c.email

\* What an update knows: nobody changes the identity of an account, and the
\* row it has loaded is the one that is there unless it was overtaken.
Updating(c) ==
  c.stage = "update" =>
    /\ c.user <= created
    /\ c.user \in Registered =>
         /\ users[c.user].email = c.row.email
         /\ users[c.user].subject = c.row.subject
         /\ ~c.overtaken => c.row = users[c.user]

HandlersSound ==
  \A h \in Handler : Registering(call[h]) /\ SigningIn(call[h]) /\ Updating(call[h])

Inv ==
  /\ TypeOK
  /\ SessionsBacked
  /\ IdsInOrder
  /\ HandlersSound
  /\ OneAccountPerIdentity

-----------------------------------------------------------------------------
\* What the stage of a call says about its other fields.
LEMMA Fields ==
  ASSUME TypeOK, NEW h \in Handler
  PROVE  /\ At(h, "lookup") \/ At(h, "count") =>
              call[h] \in [stage : {"lookup", "count"}, email : Email,
                          subject : Subject \cup {None}, late : BOOLEAN]
         /\ At(h, "create") =>
              call[h] \in [stage : {"create"}, email : Email, subject : Subject \cup {None},
                          late : BOOLEAN, role : Role]
         /\ At(h, "session") =>
              call[h] \in [stage : {"session"}, email : Email,
                          subject : Subject \cup {None}, user : Id]
         /\ At(h, "whois") => call[h] \in [stage : {"whois"}, user : Id]
         /\ At(h, "update") =>
              call[h] \in [stage : {"update"}, user : Id, row : User,
                          role : Role \cup {None}, overtaken : BOOLEAN]
         /\ call[h].stage \in {"idle", "admin", "lookup", "count", "create", "session",
                              "whois", "update"}
BY DEF TypeOK, Call, At

\* A handler takes a call that has its type.
LEMMA BecomeType ==
  ASSUME TypeOK, NEW h \in Handler, NEW next \in Call, Become(h, next)
  PROVE  call' \in [Handler -> Call]
BY DEF TypeOK, Become

\* The answer has been given.
LEMMA ReturnType ==
  ASSUME TypeOK, NEW h \in Handler, Return(h)
  PROVE  call' \in [Handler -> Call]
BY BecomeType DEF Return, Call

\* A row that an update writes is a row.
LEMMA SavedType ==
  ASSUME NEW row \in User, NEW role \in Role \cup {None}
  PROVE  /\ Saved(row, role) \in User
         /\ Saved(row, role).email = row.email
         /\ Saved(row, role).subject = row.subject
         /\ Saved(row, role).role = IF role = None THEN row.role ELSE role
BY DEF Saved, User

\* The accounts that are there have a row each.
LEMMA RegisteredRow ==
  ASSUME TypeOK
  PROVE  /\ Registered \subseteq Id /\ IsFiniteSet(Registered)
         /\ CountUsers \in Nat /\ (CountUsers = 0 <=> Registered = {})
         /\ \A u \in Registered : users[u] \in User
<1>. Users \in Int
  BY AccountsAssumption
<1>1. IsFiniteSet(Id) /\ Registered \subseteq Id
  BY FS_Interval DEF Id, Registered
<1>2. IsFiniteSet(Registered)
  BY <1>1, FS_Subset
<1>. QED BY <1>1, <1>2, FS_CardinalityType, FS_EmptySet DEF CountUsers, Registered, TypeOK


-----------------------------------------------------------------------------
\* A handler's step that writes no table.
Asks(h) ==
  \/ \E email \in Email : BeginRegister(h, email)
  \/ \E email \in Email, subject \in Subject : BeginCallback(h, email, subject)
  \/ Lookup(h) \/ Count(h) \/ RequireAdmin(h) \/ GiveUp(h)
  \/ \E u \in Id : BeginLogin(h, u)
  \/ \E s \in SessionId : BeginAdmin(h, s)
  \/ \E u \in Id, role \in Role \cup {None} : BeginUpdate(h, u, role)

\* The steps that change a table, and those that only ask.
LEMMA Steps ==
  ASSUME [Next]_vars
  PROVE  \/ \E h \in Handler : Asks(h) \/ CreateUser(h) \/ CreateSession(h) \/ UpdateUser(h)
         \/ \E h \in Handler, u \in Id : DeleteUser(h, u)
         \/ \E s \in SessionId : Logout(s)
         \/ Cleanup \/ Tick \/ UNCHANGED vars
BY DEF Next, Asks

\* Asking changes nothing but the handler.
LEMMA AsksKeeps ==
  ASSUME NEW h \in Handler, Asks(h)
  PROVE  UNCHANGED <<mode, open, users, created, sessions, issued, now>>
BY DEF Asks, Same, BeginRegister, BeginCallback, Lookup, Count, RequireAdmin, GiveUp,
       BeginLogin, BeginAdmin, BeginUpdate

\* A handler that asks goes on with a call of its type that knows what it should.
LEMMA AsksSound ==
  ASSUME Inv, NEW h \in Handler, Asks(h)
  PROVE  \E next \in Call : /\ Become(h, next)
                            /\ Registering(next) /\ SigningIn(next) /\ Updating(next)
<1>. TypeOK /\ HandlersSound /\ IdsInOrder
  BY DEF Inv
<1>. USE DEF Registering, SigningIn, Updating
<1>0. CASE Return(h)
  BY <1>0 DEF Return, Call
<1>1. ASSUME NEW email \in Email, BeginRegister(h, email)
      PROVE  \E next \in Call : /\ Become(h, next)
                            /\ Registering(next) /\ SigningIn(next) /\ Updating(next)
  <2>. DEFINE late == CountUsers > 0
              next == [stage |-> "lookup", email |-> email, subject |-> None, late |-> late]
  <2>1. late \in BOOLEAN
    OBVIOUS
  <2>2. late => Registered # {}
    BY RegisteredRow
  <2>3. Become(h, next)
    BY <1>1 DEF BeginRegister
  <2>. HIDE DEF late
  <2>4. next \in Call
    BY <2>1 DEF Call
  <2>. QED BY <2>2, <2>3, <2>4
<1>2. ASSUME NEW email \in Email, NEW subject \in Subject, BeginCallback(h, email, subject)
      PROVE  \E next \in Call : /\ Become(h, next)
                            /\ Registering(next) /\ SigningIn(next) /\ Updating(next)
  <2>1. ASSUME NEW u \in ByOIDC(subject),
               Become(h, [stage |-> "session", email |-> email, subject |-> subject, user |-> u])
        PROVE  \E next \in Call : /\ Become(h, next)
                            /\ Registering(next) /\ SigningIn(next) /\ Updating(next)
    <3>. DEFINE next == [stage |-> "session", email |-> email, subject |-> subject, user |-> u]
    <3>1. u \in Id /\ users[u] # None /\ users[u].subject = subject
      BY DEF ByOIDC, Registered
    <3>2. u <= created
      BY <3>1 DEF IdsInOrder, TypeOK, Id
    <3>3. next \in Call
      BY <3>1 DEF Call
    <3>. QED BY <2>1, <3>1, <3>2, <3>3, AccountsAssumption
  <2>2. ASSUME Become(h, [stage |-> "lookup", email |-> email, subject |-> subject,
                          late |-> CountUsers > 0])
        PROVE  \E next \in Call : /\ Become(h, next)
                            /\ Registering(next) /\ SigningIn(next) /\ Updating(next)
    <3>. DEFINE late == CountUsers > 0
                next == [stage |-> "lookup", email |-> email, subject |-> subject, late |-> late]
    <3>1. late \in BOOLEAN
      OBVIOUS
    <3>2. late => Registered # {}
      BY RegisteredRow
    <3>3. Become(h, next)
      BY <2>2
    <3>. HIDE DEF late
    <3>4. next \in Call
      BY <3>1 DEF Call
    <3>. QED BY <3>2, <3>3, <3>4
  <2>. QED BY <1>2, <2>1, <2>2 DEF BeginCallback
<1>3. CASE Lookup(h)
  <2>. DEFINE next == [call[h] EXCEPT !.stage = "count"]
  <2>1. next \in Call /\ next.stage = "count" /\ next.late = call[h].late
    BY <1>3, Fields DEF Lookup, Call, At
  <2>2. Registering(call[h]) /\ At(h, "lookup")
    BY <1>3 DEF HandlersSound, Lookup
  <2>. QED BY <1>0, <1>3, <2>1, <2>2 DEF Lookup, At
<1>4. CASE Count(h)
  <2>. DEFINE next == [stage |-> "create", email |-> call[h].email, subject |-> call[h].subject,
                       late |-> call[h].late, role |-> RoleOfNew]
  <2>1. next \in Call
    BY <1>4, Fields DEF Count, Call, RoleOfNew, Role
  <2>2. call[h].late => Registered # {}
    BY <1>4 DEF HandlersSound, Count, At
  <2>3. call[h].late => RoleOfNew = "user"
    BY <2>2, RegisteredRow DEF RoleOfNew
  <2>. QED BY <1>4, <2>1, <2>3 DEF Count
<1>5. CASE RequireAdmin(h)
  BY <1>0, <1>5 DEF RequireAdmin, Call
<1>6. CASE GiveUp(h)
  BY <1>0, <1>6 DEF GiveUp
<1>7. ASSUME NEW u \in Id, BeginLogin(h, u)
      PROVE  \E next \in Call : /\ Become(h, next)
                            /\ Registering(next) /\ SigningIn(next) /\ Updating(next)
  <2>. DEFINE next == [stage |-> "session", email |-> users[u].email, subject |-> None,
                       user |-> u]
  <2>1. users[u] \in User /\ users[u].subject = None /\ u \in Registered
    BY <1>7, RegisteredRow DEF BeginLogin, ByOIDC
  <2>2. u <= created
    BY <2>1 DEF IdsInOrder, TypeOK, Id, Registered
  <2>3. next \in Call
    BY <2>1 DEF Call, User
  <2>. QED BY <1>7, <2>1, <2>2, <2>3 DEF BeginLogin
<1>8. ASSUME NEW s \in SessionId, BeginAdmin(h, s)
      PROVE  \E next \in Call : /\ Become(h, next)
                            /\ Registering(next) /\ SigningIn(next) /\ Updating(next)
  <2>1. sessions[s] \in Session
    BY <1>8 DEF BeginAdmin, TypeOK
  <2>2. [stage |-> "whois", user |-> sessions[s].user] \in Call
    BY <2>1 DEF Session, Call
  <2>. QED BY <1>8, <2>2 DEF BeginAdmin
<1>9. ASSUME NEW u \in Id, NEW role \in Role \cup {None}, BeginUpdate(h, u, role)
      PROVE  \E next \in Call : /\ Become(h, next)
                            /\ Registering(next) /\ SigningIn(next) /\ Updating(next)
  <2>. DEFINE next == [stage |-> "update", user |-> u, row |-> users[u], role |-> role,
                       overtaken |-> FALSE]
  <2>1. users[u] \in User /\ u \in Registered
    BY <1>9, RegisteredRow DEF BeginUpdate
  <2>2. u <= created
    BY <2>1 DEF IdsInOrder, TypeOK, Id, Registered
  <2>3. next \in Call
    BY <2>1 DEF Call
  <2>. QED BY <1>9, <2>2, <2>3 DEF BeginUpdate
<1>. QED BY <1>1, <1>2, <1>3, <1>4, <1>5, <1>6, <1>7, <1>8, <1>9 DEF Asks

-----------------------------------------------------------------------------
\* A call stays a call when its history is written.
LEMMA OvertakenType ==
  ASSUME TypeOK, NEW h \in Handler, NEW u \in Id
  PROVE  Overtaken(h, u) \in [Handler -> Call]
<1>1. [stage |-> "idle"] \in Call
  BY DEF Call
<1>2. ASSUME NEW g \in Handler, At(g, "update")
      PROVE  [call[g] EXCEPT !.overtaken = TRUE] \in Call
  BY <1>2, Fields DEF Call
<1>. QED BY <1>1, <1>2 DEF Overtaken, TypeOK

\* What the deletion of a user does to the handlers: the last one takes with
\* it what registrations know.
LEMMA DeleteUserCalls ==
  ASSUME TypeOK, NEW h \in Handler, NEW u \in Id, DeleteUser(h, u), NEW g \in Handler
  PROVE  /\ call'[g] \in Call
         /\ \/ call'[g] = [stage |-> "idle"]
            \/ call'[g] = call[g] /\ (Registered = {u} => ~\E x \in {"lookup", "count", "create"} : At(g, x))
            \/ /\ \E x \in {"lookup", "count", "create"} : At(g, x)
               /\ call'[g] = [call[g] EXCEPT !.late = FALSE]
               /\ ~call'[g].late /\ call'[g].stage = call[g].stage
<1>1. [stage |-> "idle"] \in Call /\ call[g] \in Call
  BY DEF Call, TypeOK
<1>2. ASSUME NEW x \in {"lookup", "count", "create"}, At(g, x)
      PROVE  /\ [call[g] EXCEPT !.late = FALSE] \in Call
             /\ ~[call[g] EXCEPT !.late = FALSE].late
             /\ [call[g] EXCEPT !.late = FALSE].stage = call[g].stage
  BY <1>2, Fields DEF Call
<1>. QED BY <1>1, <1>2 DEF DeleteUser, At

\* Types are kept.
LEMMA TypeStep ==
  ASSUME Inv, [Next]_vars
  PROVE  TypeOK'
<1>. TypeOK
  BY DEF Inv
<1>. {Users, Logins, Now, Duration} \subseteq Nat
  BY AccountsAssumption
<1>1. ASSUME NEW h \in Handler, Asks(h) PROVE TypeOK'
  <2>1. call' \in [Handler -> Call]
    BY <1>1, AsksSound, BecomeType
  <2>. QED BY <1>1, <2>1, AsksKeeps DEF TypeOK
<1>2. ASSUME NEW h \in Handler, CreateUser(h) PROVE TypeOK'
  <2>. DEFINE c == call[h]
  <2>1. c \in [stage : {"create"}, email : Email, subject : Subject \cup {None},
               late : BOOLEAN, role : Role]
    BY <1>2, Fields DEF CreateUser
  <2>2. CASE Return(h) /\ UNCHANGED <<created, users>>
    BY <1>2, <2>2, ReturnType DEF CreateUser, Same, TypeOK
  <2>3. CASE MayInsert(c.email, c.subject)
    <3>1. created < Users /\ created' = created + 1 /\ created + 1 \in Id
      BY <1>2, <2>3 DEF CreateUser, TypeOK, Id
    <3>2. [email |-> c.email, subject |-> c.subject, role |-> c.role] \in User
      BY <2>1 DEF User
    <3>3. users' \in [Id -> User \cup {None}]
      BY <1>2, <2>3, <3>2 DEF CreateUser, TypeOK
    <3>. DEFINE next == [stage |-> "session", email |-> c.email, subject |-> c.subject,
                         user |-> created + 1]
    <3>4. next \in Call
      BY <2>1, <3>1 DEF Call
    <3>5. Return(h) \/ Become(h, next)
      BY <1>2, <2>3 DEF CreateUser
    <3>6. call' \in [Handler -> Call]
      BY <3>4, <3>5, ReturnType, BecomeType
    <3>. QED BY <1>2, <3>1, <3>3, <3>6 DEF CreateUser, Same, TypeOK
  <2>. QED BY <1>2, <2>2, <2>3 DEF CreateUser
<1>3. ASSUME NEW h \in Handler, CreateSession(h) PROVE TypeOK'
  <2>. DEFINE u == call[h].user
              s == Len(issued) + 1
              i == [user |-> u, expires |-> now + Duration, signedOut |-> FALSE]
  <2>1. u \in Id
    BY <1>3, Fields DEF CreateSession
  <2>2. now + Duration \in 0 .. Now + Duration
    BY DEF TypeOK
  <2>3. [user |-> u, expires |-> now + Duration] \in Session /\ i \in Issue
    BY <2>1, <2>2 DEF Session, Issue
  <2>4. CASE MayOpen(u)
    <3>1. /\ s \in SessionId
          /\ sessions' = [sessions EXCEPT ![s] = [user |-> u, expires |-> now + Duration]]
          /\ issued' = Append(issued, i)
      BY <1>3, <2>4 DEF CreateSession
    <3>2. sessions' \in [SessionId -> Session \cup {None}]
      BY <3>1, <2>3 DEF TypeOK
    <3>3. issued' \in Seq(Issue) /\ Len(issued') <= Logins
      BY <3>1, <2>3, AppendProperties DEF TypeOK, SessionId
    <3>. QED BY <1>3, <3>2, <3>3, ReturnType DEF CreateSession, Same, TypeOK
  <2>5. CASE ~MayOpen(u)
    BY <1>3, <2>5, ReturnType DEF CreateSession, Same, TypeOK
  <2>. QED BY <2>4, <2>5
<1>4. ASSUME NEW h \in Handler, UpdateUser(h) PROVE TypeOK'
  <2>1. /\ call[h].user \in Id /\ call[h].row \in User
        /\ call[h].role \in Role \cup {None}
    BY <1>4, Fields DEF UpdateUser
  <2>2. CASE call[h].user \in Registered
    <3>1. users' \in [Id -> User \cup {None}]
      BY <1>4, <2>1, <2>2, SavedType DEF UpdateUser, TypeOK
    <3>. QED BY <1>4, <2>1, <2>2, <3>1, OvertakenType DEF UpdateUser, Same, TypeOK
  <2>3. CASE call[h].user \notin Registered
    BY <1>4, <2>3, ReturnType DEF UpdateUser, Same, TypeOK
  <2>. QED BY <2>2, <2>3
<1>5. ASSUME NEW h \in Handler, NEW u \in Id, DeleteUser(h, u) PROVE TypeOK'
  <2>1. call' \in [Handler -> Call]
    BY <1>5, DeleteUserCalls DEF DeleteUser
  <2>. QED BY <1>5, <2>1 DEF DeleteUser, Same, TypeOK
<1>6. ASSUME NEW s \in SessionId, Logout(s) PROVE TypeOK'
  <2>1. s \in 1 .. Len(issued) /\ issued[s] \in Issue
    BY <1>6 DEF Logout, TypeOK
  <2>2. [issued[s] EXCEPT !.signedOut = TRUE] \in Issue
    BY <2>1 DEF Issue
  <2>3. issued' \in Seq(Issue) /\ Len(issued') = Len(issued)
    BY <1>6, <2>1, <2>2, ExceptSeq DEF Logout, TypeOK
  <2>. QED BY <1>6, <2>3 DEF Logout, Same, TypeOK
<1>7. ASSUME Cleanup PROVE TypeOK'
  BY <1>7 DEF Cleanup, Same, TypeOK
<1>8. ASSUME Tick PROVE TypeOK'
  BY <1>8 DEF Tick, Same, TypeOK
<1>9. CASE UNCHANGED vars
  BY <1>9 DEF vars, TypeOK
<1>. QED BY <1>1, <1>2, <1>3, <1>4, <1>5, <1>6, <1>7, <1>8, <1>9, Steps

\* CreateUser adds an account with a new id, or does nothing to the table.
LEMMA Created ==
  ASSUME Inv, NEW h \in Handler, CreateUser(h), MayInsert(call[h].email, call[h].subject)
  PROVE  /\ created' = created + 1 /\ created' \in Id
         /\ users' = [users EXCEPT ![created + 1] =
              [email |-> call[h].email, subject |-> call[h].subject, role |-> call[h].role]]
         /\ users'[created'].email = call[h].email
         /\ users'[created'].subject = call[h].subject
         /\ users'[created'].role = call[h].role
         /\ Registered' = Registered \cup {created'} /\ created' \notin Registered
<1>. TypeOK /\ IdsInOrder
  BY DEF Inv
<1>. None \notin User /\ Users \in Nat
  BY AccountsAssumption
<1>1. /\ created' = created + 1 /\ At(h, "create") /\ created < Users
      /\ users' = [users EXCEPT ![created + 1] =
           [email |-> call[h].email, subject |-> call[h].subject, role |-> call[h].role]]
  BY DEF CreateUser
<1>2. [email |-> call[h].email, subject |-> call[h].subject, role |-> call[h].role] \in User
  BY <1>1, Fields DEF User
<1>3. created + 1 \in Id /\ users[created + 1] = None
  BY <1>1 DEF TypeOK, Id, IdsInOrder
<1>. QED BY <1>1, <1>2, <1>3 DEF Registered, TypeOK

\* An update keeps the account and its identity.
LEMMA Updated ==
  ASSUME Inv, NEW h \in Handler, UpdateUser(h), call[h].user \in Registered
  PROVE  /\ created' = created /\ Registered' = Registered
         /\ users' = [users EXCEPT ![call[h].user] = Saved(call[h].row, call[h].role)]
         /\ users'[call[h].user].email = users[call[h].user].email
         /\ users'[call[h].user].subject = users[call[h].user].subject
<1>. TypeOK /\ HandlersSound
  BY DEF Inv
<1>. None \notin User
  BY AccountsAssumption
<1>1. /\ At(h, "update") /\ created' = created
      /\ users' = [users EXCEPT ![call[h].user] = Saved(call[h].row, call[h].role)]
  BY DEF UpdateUser
<1>2. /\ users[call[h].user].email = call[h].row.email
      /\ users[call[h].user].subject = call[h].row.subject
  BY <1>1 DEF HandlersSound, Updating, At
<1>3. call[h].row \in User /\ call[h].role \in Role \cup {None} /\ call[h].user \in Id
  BY <1>1, Fields
<1>4. Registered' = Registered
  BY <1>1, <1>3, SavedType DEF Registered, TypeOK
<1>. QED BY <1>1, <1>2, <1>3, <1>4, SavedType DEF TypeOK

\* DeleteUser takes one account out of the table.
LEMMA Deleted ==
  ASSUME TypeOK, NEW h \in Handler, NEW u \in Id, DeleteUser(h, u)
  PROVE  /\ created' = created
         /\ u \in Registered /\ Registered' = Registered \ {u}
         /\ users' = [users EXCEPT ![u] = None]
BY DEF DeleteUser, Registered, TypeOK

\* Nothing else changes the users table.
LEMMA UsersStep ==
  ASSUME Inv, [Next]_vars
  PROVE  \/ UNCHANGED <<users, created>>
         \/ \E h \in Handler : CreateUser(h) /\ MayInsert(call[h].email, call[h].subject)
         \/ \E h \in Handler : UpdateUser(h) /\ call[h].user \in Registered
         \/ \E h \in Handler, u \in Id : DeleteUser(h, u)
<1>1. ASSUME NEW h \in Handler, CreateUser(h), ~MayInsert(call[h].email, call[h].subject)
      PROVE  UNCHANGED <<users, created>>
  BY <1>1 DEF CreateUser
<1>2. ASSUME NEW h \in Handler, UpdateUser(h), call[h].user \notin Registered
      PROVE  UNCHANGED <<users, created>>
  BY <1>2 DEF UpdateUser
<1>3. ASSUME NEW h \in Handler, Asks(h) \/ CreateSession(h) PROVE UNCHANGED <<users, created>>
  BY <1>3, AsksKeeps DEF CreateSession
<1>4. ASSUME NEW s \in SessionId, Logout(s) PROVE UNCHANGED <<users, created>>
  BY <1>4 DEF Logout
<1>. QED BY <1>1, <1>2, <1>3, <1>4, Steps DEF Cleanup, Tick, vars

\* Ids stay in order.
LEMMA IdsStep ==
  ASSUME Inv, [Next]_vars
  PROVE  IdsInOrder'
<1>1. created \in Int /\ \A u \in Registered : u <= created
  BY DEF Inv, TypeOK, IdsInOrder, Registered, Id
<1>2. \/ created' = created /\ Registered' \subseteq Registered
      \/ created' = created + 1 /\ Registered' = Registered \cup {created'}
  BY UsersStep, Created, Updated, Deleted DEF Inv, Registered
<1>3. \A u \in Registered' : u <= created'
  BY <1>1, <1>2 DEF Registered, Id
<1>. QED BY <1>3, TypeStep DEF IdsInOrder, Registered, TypeOK, Id

\* The UNIQUE constraints look at the rows at the moment of the insertion, and
\* updates cannot take an identity away.
LEMMA IdentityStep ==
  ASSUME Inv, [Next]_vars
  PROVE  OneAccountPerIdentity'
<1>. TypeOK /\ OneAccountPerIdentity
  BY DEF Inv
<1>1. ASSUME NEW h \in Handler, CreateUser(h), MayInsert(call[h].email, call[h].subject)
      PROVE  OneAccountPerIdentity'
  <2>1. \A u \in Registered :
          /\ users[u].email # call[h].email
          /\ call[h].subject = None \/ users[u].subject # call[h].subject
    BY <1>1 DEF MayInsert, ByEmail, ByOIDC
  <2>2. \A u \in Registered : users'[u] = users[u]
    BY <1>1, Created DEF Registered, TypeOK
  <2>3. /\ users'[created'].email = call[h].email
        /\ users'[created'].subject = call[h].subject
    BY <1>1, Created
  <2>4. Registered' = Registered \cup {created'} /\ created' \notin Registered
    BY <1>1, Created
  <2>. QED BY <2>1, <2>2, <2>3, <2>4 DEF OneAccountPerIdentity
<1>2. ASSUME NEW h \in Handler, UpdateUser(h), call[h].user \in Registered
      PROVE  OneAccountPerIdentity'
  <2>1. \A u \in Registered :
          users'[u].email = users[u].email /\ users'[u].subject = users[u].subject
    BY <1>2, Updated DEF Registered, TypeOK
  <2>. QED BY <1>2, <2>1, Updated DEF OneAccountPerIdentity
<1>3. ASSUME NEW h \in Handler, NEW u \in Id, DeleteUser(h, u)
      PROVE  OneAccountPerIdentity'
  <2>1. \A v \in Registered \ {u} : users'[v] = users[v]
    BY <1>3, Deleted DEF Registered, TypeOK
  <2>. QED BY <1>3, <2>1, Deleted DEF OneAccountPerIdentity
<1>4. CASE UNCHANGED <<users, created>>
  BY <1>4 DEF OneAccountPerIdentity, Registered
<1>. QED BY <1>1, <1>2, <1>3, <1>4, UsersStep

\* A registration that was overtaken by the deletion of the last account is the
\* only one that may find the table empty.
LEMMA HandlersStep ==
  ASSUME Inv, [Next]_vars
  PROVE  HandlersSound'
<1>. TypeOK /\ HandlersSound /\ IdsInOrder
  BY DEF Inv
<1>. USE DEF Registering, SigningIn, Updating
<1>1. ASSUME NEW h \in Handler, Asks(h) PROVE HandlersSound'
  <2>1. PICK next \in Call : Become(h, next) /\ Registering(next) /\ SigningIn(next) /\ Updating(next)
    BY <1>1, AsksSound
  <2>2. \A g \in Handler : call'[g] = IF g = h THEN next ELSE call[g]
    BY <2>1 DEF Become, TypeOK
  <2>3. UNCHANGED <<users, created>> /\ Registered' = Registered
    BY <1>1, AsksKeeps DEF Registered
  <2>. QED BY <2>1, <2>2, <2>3 DEF HandlersSound
<1>2. ASSUME NEW h \in Handler, CreateUser(h) PROVE HandlersSound'
  <2>1. CASE ~MayInsert(call[h].email, call[h].subject)
    <3>1. \A g \in Handler : call'[g] = IF g = h THEN [stage |-> "idle"] ELSE call[g]
      BY <1>2, <2>1 DEF CreateUser, Return, Become, TypeOK
    <3>2. UNCHANGED <<users, created>> /\ Registered' = Registered
      BY <1>2, <2>1 DEF CreateUser, Registered
    <3>. QED BY <3>1, <3>2 DEF HandlersSound
  <2>2. CASE MayInsert(call[h].email, call[h].subject)
    <3>. DEFINE next == [stage |-> "session", email |-> call[h].email,
                         subject |-> call[h].subject, user |-> created + 1]
    <3>1. \A g \in Handler : call'[g] = IF g # h THEN call[g]
                                        ELSE IF call[h].subject = None THEN [stage |-> "idle"]
                                        ELSE next
      BY <1>2, <2>2 DEF CreateUser, Return, Become, TypeOK
    <3>. created \in Nat
      BY DEF TypeOK
    <3>2. /\ created' = created + 1
          /\ Registered' = Registered \cup {created'} /\ created' \notin Registered
          /\ users'[created'].email = call[h].email /\ users'[created'].subject = call[h].subject
      BY <1>2, <2>2, Created
    <3>3. \A u \in Registered : users'[u] = users[u]
      BY <1>2, <2>2, Created DEF TypeOK, Registered
    <3>4. ASSUME NEW g \in Handler, g # h
          PROVE  (Registering(call[g]) /\ SigningIn(call[g]) /\ Updating(call[g]))'
      <4>1. call'[g] = call[g] /\ Registering(call[g]) /\ SigningIn(call[g]) /\ Updating(call[g])
        BY <3>1, <3>4 DEF HandlersSound
      <4>2. At(g, "session") \/ At(g, "update") => call[g].user \in Nat
        BY Fields DEF Id
      <4>. QED BY <3>2, <3>3, <4>1, <4>2 DEF At
    <3>5. (Registering(call[h]) /\ SigningIn(call[h]) /\ Updating(call[h]))'
      BY <3>1, <3>2
    <3>. QED BY <3>4, <3>5 DEF HandlersSound
  <2>. QED BY <2>1, <2>2
<1>3. ASSUME NEW h \in Handler, CreateSession(h) PROVE HandlersSound'
  <2>1. \A g \in Handler : call'[g] = IF g = h THEN [stage |-> "idle"] ELSE call[g]
    BY <1>3 DEF CreateSession, Return, Become, TypeOK
  <2>2. UNCHANGED <<users, created>> /\ Registered' = Registered
    BY <1>3 DEF CreateSession, Registered
  <2>. QED BY <2>1, <2>2 DEF HandlersSound
<1>4. ASSUME NEW h \in Handler, UpdateUser(h) PROVE HandlersSound'
  <2>. DEFINE u == call[h].user
  <2>1. CASE u \notin Registered
    <3>1. \A g \in Handler : call'[g] = IF g = h THEN [stage |-> "idle"] ELSE call[g]
      BY <1>4, <2>1 DEF UpdateUser, Return, Become, TypeOK
    <3>2. UNCHANGED <<users, created>> /\ Registered' = Registered
      BY <1>4, <2>1 DEF UpdateUser, Registered
    <3>. QED BY <3>1, <3>2 DEF HandlersSound
  <2>2. CASE u \in Registered
    <3>1. /\ created' = created /\ Registered' = Registered
          /\ \A v \in Registered : /\ users'[v].email = users[v].email
                                   /\ users'[v].subject = users[v].subject
                                   /\ v # u => users'[v] = users[v]
      BY <1>4, <2>2, Updated DEF TypeOK, Registered
    <3>2. ASSUME NEW g \in Handler
          PROVE  (Registering(call[g]) /\ SigningIn(call[g]) /\ Updating(call[g]))'
      <4>1. Registering(call[g]) /\ SigningIn(call[g]) /\ Updating(call[g])
        BY DEF HandlersSound
      <4>2. CASE g = h
        BY <1>4, <2>2, <4>2 DEF UpdateUser, Overtaken
      <4>3. CASE g # h /\ At(g, "update") /\ call[g].user = u
        <5>1. call'[g] = [call[g] EXCEPT !.overtaken = TRUE]
          BY <1>4, <2>2, <4>3 DEF UpdateUser, Overtaken
        <5>2. /\ call'[g].stage = "update" /\ call'[g].user = call[g].user
              /\ call'[g].row = call[g].row /\ call'[g].overtaken
          BY <4>3, <5>1, Fields DEF At
        <5>. QED BY <3>1, <4>1, <4>3, <5>2 DEF At
      <4>4. CASE g # h /\ ~(At(g, "update") /\ call[g].user = u)
        <5>1. call'[g] = call[g]
          BY <1>4, <2>2, <4>4 DEF UpdateUser, Overtaken
        <5>. QED BY <3>1, <4>1, <4>4, <5>1 DEF At
      <4>. QED BY <4>2, <4>3, <4>4
    <3>. QED BY <3>2 DEF HandlersSound
  <2>. QED BY <2>1, <2>2
<1>5. ASSUME NEW h \in Handler, NEW u \in Id, DeleteUser(h, u) PROVE HandlersSound'
  <2>1. /\ created' = created /\ Registered' = Registered \ {u}
        /\ \A v \in Registered' : users'[v] = users[v]
    BY <1>5, Deleted DEF TypeOK, Registered
  <2>2. ASSUME NEW g \in Handler
        PROVE  (Registering(call[g]) /\ SigningIn(call[g]) /\ Updating(call[g]))'
    <3>1. Registering(call[g]) /\ SigningIn(call[g]) /\ Updating(call[g])
      BY DEF HandlersSound
    <3>2. CASE call'[g] = [stage |-> "idle"]
      BY <3>2
    <3>3. CASE /\ call'[g] = call[g]
               /\ Registered = {u} => ~\E x \in {"lookup", "count", "create"} : At(g, x)
      BY <1>5, <2>1, <3>1, <3>3, Deleted DEF At
    <3>4. CASE /\ \E x \in {"lookup", "count", "create"} : At(g, x)
               /\ ~call'[g].late /\ call'[g].stage = call[g].stage
      BY <3>4 DEF At
    <3>. QED BY <1>5, <3>2, <3>3, <3>4, DeleteUserCalls
  <2>. QED BY <2>2 DEF HandlersSound
<1>6. ASSUME UNCHANGED <<users, created, call>> PROVE HandlersSound'
  BY <1>6 DEF HandlersSound, Registered
<1>. QED BY <1>1, <1>2, <1>3, <1>4, <1>5, <1>6, Steps DEF Logout, Cleanup, Tick, vars

\* The sessions table and the history of sessions move together.
LEMMA SessionsStep ==
  ASSUME Inv, [Next]_vars
  PROVE  SessionsBacked'
<1>. TypeOK /\ SessionsBacked /\ TypeOK'
  BY TypeStep DEF Inv
<1>. None \notin Session /\ {Users, Logins, Now, Duration} \subseteq Nat
  BY AccountsAssumption
<1>. DOMAIN issued = 1 .. Len(issued) /\ DOMAIN issued' = 1 .. Len(issued')
  BY DEF TypeOK
<1>. created \in Nat /\ now \in Nat
  BY DEF TypeOK
<1>0. \A s \in DOMAIN issued : /\ s \in SessionId /\ issued[s] \in Issue
                               /\ issued[s].user \in Id /\ issued[s].expires \in Int
  <2>1. \A s \in DOMAIN issued : s \in SessionId /\ issued[s] \in Issue
    BY DEF TypeOK, SessionId
  <2>2. \A i \in Issue : i.user \in Id /\ i.expires \in Int
    BY DEF Issue, Id
  <2>. QED BY <2>1, <2>2
<1>1. ASSUME UNCHANGED <<sessions, issued>>, now' \in {now, now + 1}, Registered' = Registered,
             created' = created
      PROVE  SessionsBacked'
  <2>1. \A s \in DOMAIN issued : issued[s].expires > now' => issued[s].expires > now
    BY <1>0, <1>1
  <2>2. \A s \in DOMAIN issued : Backed(s)'
    BY <1>1, <2>1 DEF SessionsBacked, Backed
  <2>. QED BY <1>1, <2>2 DEF SessionsBacked
<1>2. ASSUME NEW h \in Handler, CreateUser(h), MayInsert(call[h].email, call[h].subject)
      PROVE  SessionsBacked'
  <2>1. created' = created + 1 /\ Registered' = Registered \cup {created'}
    BY <1>2, Created
  <2>2. UNCHANGED <<sessions, issued, now>>
    BY <1>2 DEF CreateUser
  <2>3. \A s \in DOMAIN issued : /\ issued[s].user \in Registered' <=> issued[s].user \in Registered
                                 /\ issued[s].user <= created'
    BY <1>0, <2>1 DEF SessionsBacked, Id
  <2>. QED BY <2>2, <2>3 DEF SessionsBacked, Backed
<1>3. ASSUME NEW h \in Handler, CreateSession(h) PROVE SessionsBacked'
  <2>. DEFINE u == call[h].user
              s == Len(issued) + 1
  <2>0. UNCHANGED <<users, created, now>> /\ Registered' = Registered
    BY <1>3 DEF CreateSession, Registered
  <2>1. CASE u \notin Registered
    BY <1>1, <1>3, <2>0, <2>1 DEF CreateSession, MayOpen
  <2>2. CASE u \in Registered
    <3>. DEFINE row == [user |-> u, expires |-> now + Duration]
                entry == [user |-> u, expires |-> now + Duration, signedOut |-> FALSE]
    <3>1. /\ s \in SessionId /\ sessions' = [sessions EXCEPT ![s] = row]
          /\ issued' = Append(issued, entry)
      BY <1>3, <2>2 DEF CreateSession, MayOpen
    <3>2. u <= created
      BY <2>2 DEF Inv, IdsInOrder, Registered, Id
    <3>3. row # None
      <4>1. u \in Id /\ now + Duration \in 0 .. Now + Duration
        BY <2>2 DEF Registered, TypeOK
      <4>. QED BY <4>1, AccountsAssumption DEF Session
    <3>4. /\ DOMAIN issued' = DOMAIN issued \cup {s} /\ Len(issued') = s
          /\ issued'[s] = entry /\ \A t \in DOMAIN issued : issued'[t] = issued[t]
      BY <3>1 DEF TypeOK
    <3>5. /\ sessions'[s] = row
          /\ \A t \in SessionId \ {s} : sessions'[t] = sessions[t]
      BY <3>1 DEF TypeOK
    <3>6. Len(issued) \in Nat
      BY DEF TypeOK
    <3>7. \A t \in DOMAIN issued : Backed(t)' /\ issued'[t].user <= created'
      BY <1>0, <2>0, <3>4, <3>5, <3>6 DEF SessionsBacked, Backed
    <3>8. \A t \in {s} : Backed(t)' /\ issued'[t].user <= created'
      BY <2>0, <2>2, <3>2, <3>3, <3>4, <3>5 DEF Backed
    <3>9. \A t \in SessionId : t > Len(issued') => sessions'[t] = None
      BY <3>4, <3>5, <3>6 DEF SessionsBacked, SessionId
    <3>. QED BY <3>4, <3>7, <3>8, <3>9 DEF SessionsBacked
  <2>. QED BY <2>1, <2>2
<1>4. ASSUME NEW h \in Handler, NEW u \in Id, DeleteUser(h, u) PROVE SessionsBacked'
  <2>1. created' = created /\ Registered' = Registered \ {u}
    BY <1>4, Deleted
  <2>2. /\ UNCHANGED <<issued, now>>
        /\ \A s \in SessionId :
             sessions'[s] = IF sessions[s] # None /\ sessions[s].user = u THEN None ELSE sessions[s]
    BY <1>4 DEF DeleteUser
  <2>3. \A s \in DOMAIN issued : Backed(s)'
    BY <1>0, <2>1, <2>2 DEF SessionsBacked, Backed
  <2>. QED BY <2>1, <2>2, <2>3 DEF SessionsBacked
<1>5. ASSUME NEW s \in SessionId, Logout(s) PROVE SessionsBacked'
  <2>1. /\ UNCHANGED <<users, created, now>> /\ Registered' = Registered
        /\ s \in DOMAIN issued
        /\ sessions' = [sessions EXCEPT ![s] = None]
        /\ issued' = [issued EXCEPT ![s].signedOut = TRUE]
    BY <1>5 DEF Logout, Registered
  <2>2. /\ sessions'[s] = None
        /\ \A t \in SessionId \ {s} : sessions'[t] = sessions[t]
    BY <2>1 DEF TypeOK
  <2>3. /\ DOMAIN issued' = DOMAIN issued /\ Len(issued') = Len(issued)
        /\ \A t \in DOMAIN issued \ {s} : issued'[t] = issued[t]
    BY <2>1 DEF TypeOK
  <2>4. issued'[s].signedOut /\ issued'[s].user = issued[s].user
    BY <1>0, <2>1 DEF Issue
  <2>5. \A t \in DOMAIN issued : Backed(t)' /\ issued'[t].user <= created'
    BY <1>0, <2>1, <2>2, <2>3, <2>4 DEF SessionsBacked, Backed
  <2>6. \A t \in SessionId : t > Len(issued') => sessions'[t] = None
    BY <2>2, <2>3 DEF SessionsBacked
  <2>. QED BY <2>3, <2>5, <2>6 DEF SessionsBacked
<1>6. ASSUME Cleanup PROVE SessionsBacked'
  <2>1. UNCHANGED <<users, created, issued, now>> /\ Registered' = Registered
    BY <1>6 DEF Cleanup, Registered
  <2>2. \A s \in SessionId : sessions'[s] =
          IF sessions[s] # None /\ sessions[s].expires <= now THEN None ELSE sessions[s]
    BY <1>6 DEF Cleanup, Expired
  <2>3. \A s \in DOMAIN issued : Backed(s)'
    BY <1>0, <2>1, <2>2 DEF SessionsBacked, Backed
  <2>. QED BY <2>1, <2>2, <2>3 DEF SessionsBacked
<1>7. CASE Tick
  BY <1>1, <1>7 DEF Tick, Registered
<1>8. ASSUME NEW h \in Handler, \/ Asks(h) \/ UpdateUser(h)
                                \/ CreateUser(h) /\ ~MayInsert(call[h].email, call[h].subject)
      PROVE  SessionsBacked'
  <2>1. CASE Asks(h)
    BY <1>1, <2>1, AsksKeeps DEF Registered
  <2>2. CASE UpdateUser(h)
    <3>1. UNCHANGED <<created, sessions, issued, now>>
      BY <2>2 DEF UpdateUser
    <3>2. CASE call[h].user \in Registered
      BY <1>1, <2>2, <3>1, <3>2, Updated
    <3>3. CASE call[h].user \notin Registered
      BY <1>1, <2>2, <3>1, <3>3 DEF UpdateUser, Registered
    <3>. QED BY <3>2, <3>3
  <2>3. CASE CreateUser(h) /\ ~MayInsert(call[h].email, call[h].subject)
    BY <1>1, <2>3 DEF CreateUser, Registered
  <2>. QED BY <1>8, <2>1, <2>2, <2>3
<1>9. CASE UNCHANGED vars
  BY <1>1, <1>9 DEF vars, Registered
<1>. QED BY <1>2, <1>3, <1>4, <1>5, <1>6, <1>7, <1>8, <1>9, Steps

-----------------------------------------------------------------------------
\* At the start nobody is signed in and there is at most one account.
LEMMA InvInit ==
  ASSUME Init
  PROVE  Inv
<1>. /\ None \notin User \cup Session /\ {Users, Logins, Now, Duration} \subseteq Nat /\ Users > 0
  BY AccountsAssumption
<1>1. PICK email \in Email, subject \in Subject \cup {None} :
        users = [u \in Id |-> IF u > created THEN None ELSE
                  [email |-> email, subject |-> subject, role |-> "admin"]]
  BY DEF Init
<1>2. [email |-> email, subject |-> subject, role |-> "admin"] \in User
  BY DEF User, Role
<1>3. created \in {0, 1} /\ issued = <<>> /\ sessions = [s \in SessionId |-> None] /\ now = 0
      /\ call = [h \in Handler |-> [stage |-> "idle"]]
      /\ mode \in {"local", "oidc"} /\ open \in BOOLEAN
  BY DEF Init
<1>4. TypeOK
  <2>1. users \in [Id -> User \cup {None}]
    BY <1>1, <1>2
  <2>2. [stage |-> "idle"] \in Call
    BY DEF Call
  <2>. QED BY <1>3, <2>1, <2>2 DEF TypeOK
<1>5. SessionsBacked
  BY <1>3 DEF SessionsBacked
<1>6. IdsInOrder
  BY <1>1 DEF IdsInOrder
<1>7. HandlersSound
  BY <1>3 DEF HandlersSound, Registering, SigningIn, Updating
<1>8. OneAccountPerIdentity
  <2>1. \A u \in Registered : u = 1
    BY <1>1, <1>3 DEF Registered, Id
  <2>. QED BY <2>1 DEF OneAccountPerIdentity
<1>. QED BY <1>4, <1>5, <1>6, <1>7, <1>8 DEF Inv

\* The tables and what the handlers know of them fit together at any moment, in
\* every interleaving of the statements.
THEOREM SafeAccounts == Spec => []Inv
<1>1. Inv /\ [Next]_vars => Inv'
  BY TypeStep, SessionsStep, IdsStep, HandlersStep, IdentityStep DEF Inv
<1>. QED BY <1>1, InvInit, PTL DEF Spec

\* Every variable has its type.
THEOREM TypeCorrect == Spec => []TypeOK
<1>1. Inv => TypeOK
  BY DEF Inv
<1>. QED BY <1>1, SafeAccounts, PTL

\* A session signs its user in exactly until it is signed out, runs out or its
\* user is deleted.
THEOREM SessionsSignIn == Spec => []SignedInWhile
<1>1. ASSUME Inv PROVE SignedInWhile
  <2>1. \A s \in DOMAIN issued : Backed(s)
    BY <1>1 DEF Inv, SessionsBacked
  <2>2. ASSUME NEW s \in DOMAIN issued
        PROVE  Valid(s) <=> /\ ~issued[s].signedOut
                            /\ issued[s].expires > now
                            /\ issued[s].user \in Registered
    <3>1. CASE sessions[s] = None
      BY <2>1, <3>1 DEF Valid, Backed
    <3>2. CASE sessions[s] # None
      <4>1. /\ sessions[s] = [user |-> issued[s].user, expires |-> issued[s].expires]
            /\ ~issued[s].signedOut /\ issued[s].user \in Registered
        BY <2>1, <3>2 DEF Backed
      <4>2. sessions[s].expires = issued[s].expires
        BY <4>1
      <4>. QED BY <3>2, <4>1, <4>2 DEF Valid
    <3>. QED BY <3>1, <3>2
  <2>. QED BY <2>2 DEF SignedInWhile
<1>. QED BY <1>1, SafeAccounts, PTL

\* No two accounts share an email or a subject.
THEOREM IdentitiesUnique == Spec => []OneAccountPerIdentity
<1>1. Inv => OneAccountPerIdentity
  BY DEF Inv
<1>. QED BY <1>1, SafeAccounts, PTL

\* Whoever begins to register while there is an account does not become an
\* administrator by it, unless all accounts are deleted meanwhile.
THEOREM LaterAreUsers == Spec => OnlyFirstIsAdmin
<1>1. ASSUME Inv, [Next]_vars,
             NEW h \in Handler, At(h, "create"), created' > created, call'[h] # call[h], call[h].late
      PROVE  users'[created'].role = "user"
  <2>1. created \in Nat
    BY <1>1 DEF Inv, TypeOK
  <2>2. PICK g \in Handler : CreateUser(g) /\ MayInsert(call[g].email, call[g].subject)
    <3>1. created' # created
      BY <1>1, <2>1
    <3>. QED BY <1>1, <3>1, UsersStep DEF UpdateUser, DeleteUser
  <2>3. users'[created'].role = call[g].role
    BY <1>1, <2>2, Created
  <2>4. g = h
    BY <1>1, <2>2 DEF CreateUser, Return, Become, Inv, TypeOK
  <2>5. call[h].role = "user"
    BY <1>1 DEF Inv, HandlersSound, Registering, At
  <2>. QED BY <2>3, <2>4, <2>5
<1>2. Inv /\ [Next]_vars =>
        [\A h \in Handler :
           At(h, "create") /\ created' > created /\ call'[h] # call[h] /\ call[h].late
             => users'[created'].role = "user"]_vars
  BY <1>1
<1>. QED BY <1>2, SafeAccounts, PTL DEF Spec, OnlyFirstIsAdmin

\* A role changes only to what an update asks for, or to what it had loaded
\* before another one wrote.
THEOREM RolesAsAsked == Spec => RoleAsAsked
<1>1. ASSUME Inv, [Next]_vars,
             NEW u \in Registered, users'[u] # None, users'[u].role # users[u].role
      PROVE  \E h \in Handler :
               /\ At(h, "update") /\ call[h].user = u
               /\ call[h].overtaken \/ call[h].role = users'[u].role
  <2>. TypeOK /\ HandlersSound /\ u \in Id
    BY <1>1 DEF Inv, Registered
  <2>1. ASSUME NEW h \in Handler, CreateUser(h), MayInsert(call[h].email, call[h].subject)
        PROVE  FALSE
    <3>1. users'[u] = users[u]
      <4>1. u # created + 1
        BY <1>1, <2>1, Created
      <4>2. users' = [users EXCEPT ![created + 1] =
              [email |-> call[h].email, subject |-> call[h].subject, role |-> call[h].role]]
        BY <1>1, <2>1, Created
      <4>. QED BY <4>1, <4>2 DEF TypeOK
    <3>. QED BY <1>1, <3>1
  <2>2. ASSUME NEW h \in Handler, NEW v \in Id, DeleteUser(h, v)
        PROVE  FALSE
    BY <1>1, <2>2, Deleted DEF TypeOK
  <2>3. ASSUME NEW h \in Handler, UpdateUser(h), call[h].user \in Registered
        PROVE  /\ At(h, "update") /\ call[h].user = u
               /\ call[h].overtaken \/ call[h].role = users'[u].role
    <3>1. At(h, "update")
      BY <2>3 DEF UpdateUser
    <3>2. users' = [users EXCEPT ![call[h].user] = Saved(call[h].row, call[h].role)]
      BY <1>1, <2>3, Updated
    <3>3. call[h].user = u /\ users'[u] = Saved(call[h].row, call[h].role)
      BY <1>1, <3>2 DEF TypeOK
    <3>4. call[h].row \in User /\ call[h].role \in Role \cup {None}
      BY <3>1, Fields
    <3>5. users'[u].role = IF call[h].role = None THEN call[h].row.role ELSE call[h].role
      BY <3>3, <3>4, SavedType
    <3>6. ~call[h].overtaken => call[h].row = users[u]
      BY <1>1, <3>1, <3>3 DEF HandlersSound, Updating, At
    <3>. QED BY <1>1, <3>1, <3>3, <3>5, <3>6
  <2>. QED BY <1>1, <2>1, <2>2, <2>3, UsersStep
<1>2. Inv /\ [Next]_vars =>
        [\A u \in Registered :
           users'[u] # None /\ users'[u].role # users[u].role
             => \E h \in Handler :
                  /\ At(h, "update") /\ call[h].user = u
                  /\ call[h].overtaken \/ call[h].role = users'[u].role]_vars
  BY <1>1
<1>. QED BY <1>2, SafeAccounts, PTL DEF Spec, RoleAsAsked

\* A sign-in opens a session of the account with the identity that was proved.
THEOREM OwnAccountsReached == Spec => ReachesOwnAccount
<1>1. ASSUME Inv, [Next]_vars,
             NEW h \in Handler, At(h, "session"), issued' # issued, call'[h] # call[h]
      PROVE  LET user == users[issued'[Len(issued')].user] IN
             /\ user.subject = call[h].subject
             /\ user.subject = None => user.email = call[h].email
  <2>. TypeOK /\ HandlersSound
    BY <1>1 DEF Inv
  <2>1. PICK g \in Handler : CreateSession(g)
    BY <1>1, Steps, AsksKeeps DEF CreateUser, UpdateUser, DeleteUser, Logout, Cleanup, Tick, vars
  <2>2. g = h
    BY <1>1, <2>1 DEF CreateSession, Return, Become, TypeOK
  <2>3. /\ call[h].user \in Registered
        /\ issued' = Append(issued, [user |-> call[h].user, expires |-> now + Duration,
                                     signedOut |-> FALSE])
    BY <1>1, <2>1, <2>2 DEF CreateSession, MayOpen
  <2>4. issued'[Len(issued')].user = call[h].user
    BY <2>3 DEF TypeOK
  <2>5. /\ users[call[h].user].subject = call[h].subject
        /\ call[h].subject = None => users[call[h].user].email = call[h].email
    BY <1>1, <2>3 DEF HandlersSound, SigningIn, At
  <2>. QED BY <2>4, <2>5
<1>2. Inv /\ [Next]_vars =>
        [\A h \in Handler :
           At(h, "session") /\ issued' # issued /\ call'[h] # call[h]
             => LET user == users[issued'[Len(issued')].user] IN
                /\ user.subject = call[h].subject
                /\ user.subject = None => user.email = call[h].email]_vars
  BY <1>1
<1>. QED BY <1>2, SafeAccounts, PTL DEF Spec, ReachesOwnAccount

=============================================================================
