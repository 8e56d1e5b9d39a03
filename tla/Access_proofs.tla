----------------------------- MODULE Access_proofs -----------------------------
(***************************************************************************)
(* Proofs about Access, for any users and handlers.                        *)
(*                                                                         *)
(* What the invariants of Access need besides each other is what a request *)
(* may rely on between its statements (Sound): above all, that the owner   *)
(* it has read is still the owner, or gone, because no step gives a token  *)
(* to somebody else and no token is created twice.                         *)
(***************************************************************************)
EXTENDS Access, TLAPS

\* A request between two statements, and the tables.
Sound(c) ==
  /\ c.token # None => made /\ (token # None => token.owner \in {c.token.owner, None})
  /\ c.admin => c.user # None /\ c.held
  /\ c.stage # "token" => c.token # None
  /\ c.stage = "grant" => c.user # None
  /\ c.stage \in {"allowed", "insert"} => c.held
  /\ c.stage # "token" /\ c.op \in {"grant", "revoke"} => c.user # None
  /\ c.op \in {"grant", "revoke"} => c.want \in User
  /\ c.op = "edit" => c.want \in View \cup {None}
  /\ c.stage = "insert" => c.op = "grant" /\ c.token.owner # c.want

AllSound == \A h \in Handler : ~At(h, "idle") => Sound(call[h])

Inv ==
  /\ TypeOK
  /\ token # None => made
  /\ NothingDangles
  /\ OwnerNeedsNoGrant
  /\ AllSound

-----------------------------------------------------------------------------
\* A handler that is not idle has a request.
LEMMA Busy ==
  ASSUME TypeOK, NEW h \in Handler, ~At(h, "idle")
  PROVE  call[h] \in Call
BY DEF TypeOK, At, Idle

\* Proceed keeps the type of the request it passes on.
LEMMA ProceedType ==
  ASSUME TypeOK, NEW h \in Handler, NEW next \in Call, Proceed(h, next)
  PROVE  call' \in [Handler -> Call \cup {Idle}]
<1>1. (next.held \/ Right(next.user, next.op)) \in BOOLEAN
  BY DEF Call
<1>2. [next EXCEPT !.held = @ \/ Right(next.user, next.op)] \in Call
  BY <1>1 DEF Call
<1>. QED BY <1>2 DEF TypeOK, Proceed

\* The calls keep their types when a handler returns.
LEMMA ReturnType ==
  ASSUME TypeOK, NEW h \in Handler, Return(h)
  PROVE  call' \in [Handler -> Call \cup {Idle}]
BY DEF TypeOK, Return

\* An update leaves a token what it is, and its owner.
LEMMA Rewritten ==
  ASSUME TypeOK, AllSound, NEW h \in Handler, UpdateToken(h)
  PROVE  /\ token # None => token' \in Token /\ token'.owner = token.owner
         /\ token = None => token' = None
<1>1. call[h] \in Call /\ call[h].op = "edit" /\ Sound(call[h]) /\ At(h, "allowed")
  BY Busy DEF UpdateToken, Does, At, AllSound
<1>2. call[h].want \in View \cup {None} /\ call[h].token \in Token
  BY <1>1 DEF Sound, Call, At
<1>3. ASSUME token # None
      PROVE  Written(token, call[h]) \in Token /\ Written(token, call[h]).owner = token.owner
  BY <1>2, <1>3 DEF Written, Token, TypeOK
<1>. QED BY <1>3 DEF UpdateToken

\* Types are kept.
LEMMA TypeStep ==
  ASSUME Inv, [Next]_vars
  PROVE  TypeOK'
<1>. TypeOK /\ AllSound
  BY DEF Inv
<1>. USE DEF TypeOK
<1>1. ASSUME NEW h \in Handler, NEW u \in User \cup {None}, NEW op \in Ops,
             NEW want \in Wanted(op), Authenticate(h, u, op, want)
      PROVE  TypeOK'
  <2>. DEFINE a == u # None /\ role[u] = "admin"
  <2>1. want \in View \cup User \cup {None}
    BY DEF Wanted, Ops
  <2>2. a \in BOOLEAN
    OBVIOUS
  <2>. DEFINE c == [stage |-> "token", user |-> u, admin |-> a, op |-> op, want |-> want,
                    token |-> None, held |-> FALSE, overtaken |-> FALSE]
  <2>. HIDE DEF a
  <2>3. c \in Call
    BY <2>1, <2>2 DEF Call
  <2>4. Proceed(h, c) /\ UNCHANGED <<role, token, made, grants>>
    BY <1>1 DEF Authenticate, a
  <2>. QED BY <2>3, <2>4, ProceedType
<1>2. ASSUME NEW h \in Handler, LoadToken(h) PROVE TypeOK'
  <2>. DEFINE c == [call[h] EXCEPT !.token = token]
  <2>1. call[h] \in Call
    BY <1>2, Busy DEF LoadToken, At
  <2>2. /\ c \in Call /\ [c EXCEPT !.stage = "allowed"] \in Call
        /\ [c EXCEPT !.stage = "grant"] \in Call
    BY <2>1 DEF Call
  <2>3. /\ \/ Return(h) \/ Proceed(h, [c EXCEPT !.stage = "allowed"])
           \/ Proceed(h, [c EXCEPT !.stage = "grant"])
        /\ UNCHANGED <<role, token, made, grants>>
    BY <1>2 DEF LoadToken
  <2>. QED BY <2>2, <2>3, ProceedType, ReturnType
<1>3. ASSUME NEW h \in Handler, LoadGrant(h) PROVE TypeOK'
  <2>1. call[h] \in Call
    BY <1>3, Busy DEF LoadGrant, At
  <2>2. [call[h] EXCEPT !.stage = "allowed"] \in Call
    BY <2>1 DEF Call
  <2>3. /\ Return(h) \/ Proceed(h, [call[h] EXCEPT !.stage = "allowed"])
        /\ UNCHANGED <<role, token, made, grants>>
    BY <1>3 DEF LoadGrant
  <2>. QED BY <2>2, <2>3, ProceedType, ReturnType
<1>4. ASSUME NEW h \in Handler, Read(h) \/ GiveUp(h) PROVE TypeOK'
  BY <1>4, ReturnType DEF Read, GiveUp
<1>5. ASSUME NEW h \in Handler, UpdateToken(h) PROVE TypeOK'
  <2>4. token' \in Token \cup {None}
    BY <1>5, Rewritten
  <2>5. ASSUME NEW g \in Handler PROVE call'[g] \in Call \cup {Idle}
    <3>1. ASSUME ~At(g, "idle") PROVE [call[g] EXCEPT !.overtaken = TRUE] \in Call
      BY <3>1, Busy DEF Call
    <3>. QED BY <1>5, <3>1 DEF UpdateToken
  <2>6. call' \in [Handler -> Call \cup {Idle}]
    BY <1>5, <2>5 DEF UpdateToken
  <2>. QED BY <1>5, <2>4, <2>6 DEF UpdateToken
<1>6. ASSUME NEW h \in Handler, DeleteToken(h) PROVE TypeOK'
  BY <1>6, ReturnType DEF DeleteToken
<1>7. ASSUME NEW h \in Handler, RevokeGrant(h) PROVE TypeOK'
  BY <1>7, ReturnType DEF RevokeGrant
<1>8. ASSUME NEW h \in Handler, FindGrantee(h) PROVE TypeOK'
  <2>1. call[h] \in Call
    BY <1>8, Busy DEF FindGrantee, Does, At
  <2>2. [call[h] EXCEPT !.stage = "insert"] \in Call
    BY <2>1 DEF Call
  <2>. QED BY <1>8, <2>2, ReturnType DEF FindGrantee
<1>9. ASSUME NEW h \in Handler, NEW r \in Roles, InsertGrant(h, r) PROVE TypeOK'
  <2>1. call[h] \in Call /\ Sound(call[h]) /\ call[h].stage = "insert"
    BY <1>9, Busy DEF InsertGrant, At, AllSound
  <2>2. call[h].user \in User
    BY <2>1 DEF Sound, Call
  <2>3. grants' \in [User -> Grant \cup {None}]
    BY <1>9, <2>2 DEF InsertGrant, Grant
  <2>. QED BY <1>9, <2>3, ReturnType DEF InsertGrant
<1>10. ASSUME NEW u \in User \cup {None}, NEW view \in View, CreateToken(u, view) PROVE TypeOK'
  BY <1>10 DEF CreateToken, Token
<1>11. ASSUME NEW u \in User, DeleteUser(u) PROVE TypeOK'
  BY <1>11 DEF DeleteUser, Token
<1>12. ASSUME NEW u \in User, NEW r \in {"admin", "user"}, UpdateUser(u, r) PROVE TypeOK'
  BY <1>12 DEF UpdateUser
<1>13. CASE UNCHANGED vars
  BY <1>13 DEF vars
<1>. QED
  BY <1>1, <1>2, <1>3, <1>4, <1>5, <1>6, <1>7, <1>8, <1>9, <1>10, <1>11, <1>12, <1>13 DEF Next

-----------------------------------------------------------------------------
\* What a step of a request hands on.
LEMMA ProceedSound ==
  ASSUME TypeOK, NEW h \in Handler, NEW next \in Call, Proceed(h, next),
         UNCHANGED <<token, made>>,
         Sound([next EXCEPT !.held = @ \/ Right(next.user, next.op)]),
         AllSound
  PROVE  AllSound'
BY DEF TypeOK, Proceed, AllSound, Sound, At

\* The tables as every other request has read them: nothing it relies on is
\* changed by a handler that keeps the owner.
LEMMA OthersSound ==
  ASSUME TypeOK, AllSound, NEW h \in Handler, Return(h) \/ UNCHANGED call,
         made => made', token' # None => token # None /\ token'.owner \in {token.owner, None}
  PROVE  AllSound'
<1>. SUFFICES ASSUME NEW g \in Handler, ~At(g, "idle")' PROVE Sound(call[g])'
  BY DEF AllSound
<1>1. call'[g] = call[g] /\ ~At(g, "idle")
  BY DEF TypeOK, Return, At, Idle
<1>2. Sound(call[g])
  BY <1>1 DEF AllSound
<1>. QED BY <1>1, <1>2 DEF Sound

\* Requests stay sound.
LEMMA SoundStep ==
  ASSUME Inv, [Next]_vars
  PROVE  AllSound'
<1>. TypeOK /\ AllSound /\ (token # None => made)
  BY DEF Inv
<1>1. ASSUME NEW h \in Handler, NEW u \in User \cup {None}, NEW op \in Ops,
             NEW want \in Wanted(op), Authenticate(h, u, op, want)
      PROVE  AllSound'
  <2>. DEFINE a == u # None /\ role[u] = "admin"
  <2>1. want \in View \cup User \cup {None}
    BY DEF Wanted, Ops
  <2>2. a \in BOOLEAN
    OBVIOUS
  <2>3. a => u # None /\ Right(u, op)
    BY DEF Right
  <2>. DEFINE c == [stage |-> "token", user |-> u, admin |-> a, op |-> op, want |-> want,
                    token |-> None, held |-> FALSE, overtaken |-> FALSE]
  <2>. HIDE DEF a
  <2>4. c \in Call
    BY <2>1, <2>2 DEF Call
  <2>5. Proceed(h, c) /\ UNCHANGED <<role, token, made, grants>>
    BY <1>1 DEF Authenticate, a
  <2>6. /\ op \in {"grant", "revoke"} => want \in User
        /\ op = "edit" => want \in View \cup {None}
    BY DEF Wanted, Ops
  <2>7. Sound([c EXCEPT !.held = @ \/ Right(c.user, c.op)])
    BY <2>3, <2>6 DEF Sound
  <2>. QED BY <2>4, <2>5, <2>7, ProceedSound
<1>2. ASSUME NEW h \in Handler, LoadToken(h) PROVE AllSound'
  <2>. DEFINE c == [call[h] EXCEPT !.token = token]
  <2>1. call[h] \in Call /\ Sound(call[h]) /\ call[h].stage = "token"
    BY <1>2, Busy DEF LoadToken, At, AllSound
  <2>2. UNCHANGED <<role, token, made, grants>>
    BY <1>2 DEF LoadToken
  <2>3. CASE Return(h)
    BY <2>2, <2>3, OthersSound
  <2>4. CASE token # None /\ Granted(c) /\ Proceed(h, [c EXCEPT !.stage = "allowed"])
    <3>. DEFINE d == [c EXCEPT !.stage = "allowed"]
    <3>1. d \in Call
      BY <2>1 DEF Call, TypeOK
    <3>2. /\ d.token = token /\ d.stage = "allowed" /\ d.user = call[h].user
          /\ d.op = call[h].op /\ d.want = call[h].want /\ d.admin = call[h].admin
          /\ d.held = call[h].held
      BY <2>1 DEF Call
    <3>3. d.held \/ Right(d.user, d.op)
      BY <2>1, <2>4, <3>2 DEF Granted, IsOwner, Right, Sound, Call
    <3>4. d.op \in {"grant", "revoke"} => d.user # None
      BY <2>1, <2>4, <3>2 DEF Granted, IsOwner, Sound, Call
    <3>. HIDE DEF d
    <3>5. Sound([d EXCEPT !.held = @ \/ Right(d.user, d.op)])
      BY <2>1, <2>4, <3>1, <3>2, <3>3, <3>4 DEF Sound, Call
    <3>. QED BY <2>2, <2>4, <3>1, <3>5, ProceedSound DEF d
  <2>5. CASE token # None /\ AsksForGrant(c) /\ Proceed(h, [c EXCEPT !.stage = "grant"])
    <3>. DEFINE d == [c EXCEPT !.stage = "grant"]
    <3>1. d \in Call
      BY <2>1 DEF Call, TypeOK
    <3>2. /\ d.token = token /\ d.stage = "grant" /\ d.user = call[h].user
          /\ d.op = call[h].op /\ d.want = call[h].want /\ d.admin = call[h].admin
          /\ d.held = call[h].held
      BY <2>1 DEF Call
    <3>3. d.user # None
      BY <2>1, <2>5, <3>2 DEF AsksForGrant, Call
    <3>. HIDE DEF d
    <3>4. Sound([d EXCEPT !.held = @ \/ Right(d.user, d.op)])
      BY <2>1, <2>5, <3>1, <3>2, <3>3 DEF Sound, Call
    <3>. QED BY <2>2, <2>5, <3>1, <3>4, ProceedSound DEF d
  <2>. QED BY <1>2, <2>3, <2>4, <2>5 DEF LoadToken
<1>3. ASSUME NEW h \in Handler, LoadGrant(h) PROVE AllSound'
  <2>1. call[h] \in Call /\ Sound(call[h]) /\ call[h].stage = "grant"
    BY <1>3, Busy DEF LoadGrant, At, AllSound
  <2>2. UNCHANGED <<role, token, made, grants>>
    BY <1>3 DEF LoadGrant
  <2>3. CASE Return(h)
    BY <2>2, <2>3, OthersSound
  <2>4. CASE /\ grants[call[h].user] # None /\ Gives(grants[call[h].user].role, call[h].op)
             /\ Proceed(h, [call[h] EXCEPT !.stage = "allowed"])
    <3>. DEFINE d == [call[h] EXCEPT !.stage = "allowed"]
    <3>1. d \in Call
      BY <2>1 DEF Call
    <3>2. /\ d.token = call[h].token /\ d.stage = "allowed" /\ d.user = call[h].user
          /\ d.op = call[h].op /\ d.want = call[h].want /\ d.admin = call[h].admin
          /\ d.held = call[h].held
      BY <2>1 DEF Call
    <3>3. Right(d.user, d.op) /\ d.user # None
      BY <2>1, <2>4, <3>2 DEF Gives, Right, Sound
    <3>. HIDE DEF d
    <3>4. Sound([d EXCEPT !.held = @ \/ Right(d.user, d.op)])
      BY <2>1, <3>1, <3>2, <3>3 DEF Sound, Call
    <3>. QED BY <2>2, <2>4, <3>1, <3>4, ProceedSound DEF d
  <2>. QED BY <1>3, <2>3, <2>4 DEF LoadGrant
<1>4. ASSUME NEW h \in Handler, Read(h) \/ GiveUp(h) \/ RevokeGrant(h) PROVE AllSound'
  BY <1>4, OthersSound DEF Read, GiveUp, RevokeGrant
<1>5. ASSUME NEW h \in Handler, UpdateToken(h) PROVE AllSound'
  <2>1. token' # None => token # None /\ token'.owner = token.owner
    BY <1>5, Rewritten
  <2>2. ASSUME NEW g \in Handler, ~At(g, "idle")' PROVE Sound(call[g])'
    <3>1. g # h /\ ~At(g, "idle")
      BY <1>5, <2>2 DEF UpdateToken, At, Idle
    <3>2. call[g] \in Call /\ Sound(call[g])
      BY <3>1, Busy DEF AllSound
    <3>3. call'[g] = call[g] \/ call'[g] = [call[g] EXCEPT !.overtaken = TRUE]
      BY <1>5, <3>1 DEF UpdateToken
    <3>4. /\ call'[g].token = call[g].token /\ call'[g].stage = call[g].stage
          /\ call'[g].user = call[g].user /\ call'[g].op = call[g].op
          /\ call'[g].want = call[g].want /\ call'[g].admin = call[g].admin
          /\ call'[g].held = call[g].held
      BY <3>2, <3>3 DEF Call
    <3>5. made' = made
      BY <1>5 DEF UpdateToken
    <3>. QED BY <2>1, <3>2, <3>4, <3>5 DEF Sound
  <2>. QED BY <2>2 DEF AllSound
<1>6. ASSUME NEW h \in Handler, DeleteToken(h) PROVE AllSound'
  BY <1>6, OthersSound DEF DeleteToken
<1>7. ASSUME NEW h \in Handler, FindGrantee(h) PROVE AllSound'
  <2>1. call[h] \in Call /\ Sound(call[h]) /\ call[h].stage = "allowed" /\ call[h].op = "grant"
    BY <1>7, Busy DEF FindGrantee, Does, At, AllSound
  <2>2. UNCHANGED <<role, token, made, grants>>
    BY <1>7 DEF FindGrantee
  <2>3. CASE Return(h)
    BY <2>2, <2>3, OthersSound
  <2>4. CASE MayReceive(call[h]) /\ call' = [call EXCEPT ![h].stage = "insert"]
    <3>. SUFFICES ASSUME NEW g \in Handler, ~At(g, "idle")' PROVE Sound(call[g])'
      BY DEF AllSound
    <3>1. CASE g # h
      <4>1. call'[g] = call[g] /\ Sound(call[g])
        BY <2>4, <3>1 DEF AllSound, At, TypeOK
      <4>. QED BY <2>2, <4>1 DEF Sound
    <3>2. CASE g = h
      <4>1. /\ call'[h].token = call[h].token /\ call'[h].stage = "insert"
            /\ call'[h].user = call[h].user /\ call'[h].op = call[h].op
            /\ call'[h].want = call[h].want /\ call'[h].admin = call[h].admin
            /\ call'[h].held = call[h].held
        BY <2>1, <2>4 DEF TypeOK, Call
      <4>2. call[h].token.owner # call[h].want
        BY <2>4 DEF MayReceive
      <4>. QED BY <2>1, <2>2, <3>2, <4>1, <4>2 DEF Sound
    <3>. QED BY <3>1, <3>2
  <2>. QED BY <1>7, <2>3, <2>4 DEF FindGrantee
<1>8. ASSUME NEW h \in Handler, NEW r \in Roles, InsertGrant(h, r) PROVE AllSound'
  BY <1>8, OthersSound DEF InsertGrant
<1>9. ASSUME NEW u \in User \cup {None}, NEW view \in View, CreateToken(u, view) PROVE AllSound'
  <2>. SUFFICES ASSUME NEW g \in Handler, ~At(g, "idle")' PROVE Sound(call[g])'
    BY DEF AllSound
  <2>1. call'[g] = call[g] /\ Sound(call[g]) /\ ~made
    BY <1>9 DEF CreateToken, AllSound, At
  <2>. QED BY <2>1 DEF Sound
<1>10. ASSUME NEW u \in User, DeleteUser(u) PROVE AllSound'
  <2>1. token' # None => token # None /\ token'.owner \in {token.owner, None}
    BY <1>10 DEF DeleteUser, TypeOK, Token
  <2>2. UNCHANGED <<made, call>>
    BY <1>10 DEF DeleteUser
  <2>3. ASSUME NEW g \in Handler, ~At(g, "idle")' PROVE Sound(call[g])'
    <3>1. call'[g] = call[g] /\ Sound(call[g])
      BY <2>2, <2>3 DEF AllSound, At
    <3>. QED BY <2>1, <2>2, <3>1 DEF Sound
  <2>. QED BY <2>3 DEF AllSound
<1>11. ASSUME NEW u \in User, NEW r \in {"admin", "user"}, UpdateUser(u, r) PROVE AllSound'
  BY <1>11 DEF UpdateUser, AllSound, Sound, At
<1>12. CASE UNCHANGED vars
  BY <1>12 DEF vars, AllSound, Sound, At
<1>. QED
  BY <1>1, <1>2, <1>3, <1>4, <1>5, <1>6, <1>7, <1>8, <1>9, <1>10, <1>11, <1>12 DEF Next

-----------------------------------------------------------------------------
\* A grant that is inserted: who gets it, who gives it, and what the tables
\* and the request together say of them.
LEMMA Inserted ==
  ASSUME Inv, NEW h \in Handler, NEW r \in Roles, InsertGrant(h, r), MayInsertGrant(call[h])
  PROVE  /\ call[h].want \in User /\ call[h].user \in User
         /\ Exists(call[h].want) /\ Exists(call[h].user)
         /\ token # None /\ token.owner # call[h].want
         /\ grants' = [grants EXCEPT ![call[h].want] = [role |-> r, by |-> call[h].user]]
         /\ UNCHANGED <<role, token>>
<1>1. call[h] \in Call /\ Sound(call[h]) /\ call[h].stage = "insert"
  BY Busy DEF InsertGrant, At, Inv, AllSound
<1>2. call[h].want \in User /\ call[h].user \in User
  BY <1>1 DEF Sound, Call
<1>3. call[h].token # None /\ call[h].token.owner # call[h].want
  BY <1>1 DEF Sound
<1>4. token # None /\ token.owner \in {call[h].token.owner, None}
  BY <1>1, <1>3 DEF Sound, MayInsertGrant
<1>. QED BY <1>2, <1>3, <1>4, AccessAssumption DEF InsertGrant, MayInsertGrant

\* A token is there only once it has been created.
LEMMA MadeStep ==
  ASSUME Inv, [Next]_vars
  PROVE  (token # None => made)'
BY DEF Inv, Next, vars, Authenticate, LoadToken, LoadGrant, Read, UpdateToken, DeleteToken,
       FindGrantee, InsertGrant, RevokeGrant, UpdateUser, DeleteUser, GiveUp, CreateToken

\* No row names a user or a token that is gone.
LEMMA DanglesStep ==
  ASSUME Inv, [Next]_vars
  PROVE  NothingDangles'
<1>. TypeOK /\ NothingDangles
  BY DEF Inv
<1>. USE DEF NothingDangles, Exists, TypeOK
<1>1. ASSUME UNCHANGED <<role, token, grants>> PROVE NothingDangles'
  BY <1>1
<1>2. ASSUME NEW h \in Handler, UpdateToken(h) PROVE NothingDangles'
  <2>1. token # None => token'.owner = token.owner /\ token' # None
    BY <1>2, Rewritten, AccessAssumption DEF Inv
  <2>2. token = None => token' = None
    BY <1>2, Rewritten DEF Inv
  <2>. QED BY <1>2, <2>1, <2>2 DEF UpdateToken
<1>3. ASSUME NEW h \in Handler, DeleteToken(h) PROVE NothingDangles'
  BY <1>3 DEF DeleteToken
<1>4. ASSUME NEW h \in Handler, RevokeGrant(h) PROVE NothingDangles'
  BY <1>4 DEF RevokeGrant
<1>5. ASSUME NEW h \in Handler, NEW r \in Roles, InsertGrant(h, r) PROVE NothingDangles'
  <2>1. CASE MayInsertGrant(call[h])
    <3>1. /\ call[h].want \in User /\ Exists(call[h].want) /\ Exists(call[h].user)
          /\ token # None
          /\ grants' = [grants EXCEPT ![call[h].want] = [role |-> r, by |-> call[h].user]]
          /\ UNCHANGED <<role, token>>
      BY <1>5, <2>1, Inserted
    <3>2. ASSUME NEW v \in User, v # call[h].want PROVE grants'[v] = grants[v]
      BY <3>1, <3>2
    <3>3. grants'[call[h].want].by = call[h].user
      BY <3>1
    <3>. QED BY <3>1, <3>2, <3>3
  <2>2. CASE ~MayInsertGrant(call[h])
    BY <1>5, <2>2 DEF InsertGrant
  <2>. QED BY <2>1, <2>2
<1>6. ASSUME NEW u \in User \cup {None}, NEW view \in View, CreateToken(u, view)
      PROVE  NothingDangles'
  <2>1. /\ token' = [owner |-> u, view |-> view] /\ UNCHANGED <<role, grants>>
        /\ u # None => Exists(u)
    BY <1>6 DEF CreateToken, MayInsertToken
  <2>2. \A v \in User : grants[v] = None
    BY <1>6 DEF CreateToken, Inv
  <2>. QED BY <2>1, <2>2
<1>7. ASSUME NEW u \in User, DeleteUser(u) PROVE NothingDangles'
  <2>1. token' # None /\ token'.owner # None => Exists(token.owner)'
    <3>1. ASSUME token # None, token' # None, token'.owner # None
          PROVE  token'.owner = token.owner /\ token.owner # u
      BY <1>7, <3>1 DEF DeleteUser, Token
    <3>2. token' # None => token # None
      BY <1>7 DEF DeleteUser
    <3>. QED BY <1>7, <3>1, <3>2 DEF DeleteUser, Token
  <2>2. ASSUME NEW v \in User, grants'[v] # None
        PROVE  token' # None /\ Exists(v)' /\ Exists(grants[v].by)'
    <3>1. v # u /\ grants'[v] = grants[v]
      BY <1>7, <2>2 DEF DeleteUser
    <3>2. grants[v].by # u
      BY <1>7, <2>2, <3>1 DEF DeleteUser, MayDelete
    <3>3. token' # None
      BY <1>7, <2>2, <3>1, AccessAssumption DEF DeleteUser, Token
    <3>4. grants[v].by \in User
      BY <2>2, <3>1 DEF Grant
    <3>. QED BY <1>7, <2>2, <3>1, <3>2, <3>3, <3>4 DEF DeleteUser
  <2>. QED BY <2>1, <2>2
<1>8. ASSUME NEW u \in User, NEW r \in {"admin", "user"}, UpdateUser(u, r)
      PROVE  NothingDangles'
  BY <1>8, AccessAssumption DEF UpdateUser, Token, Grant
<1>. QED
  BY <1>1, <1>2, <1>3, <1>4, <1>5, <1>6, <1>7, <1>8
  DEF Next, vars, Authenticate, LoadToken, LoadGrant, Read, FindGrantee, GiveUp

\* The owner never gets a grant.
LEMMA OwnerStep ==
  ASSUME Inv, [Next]_vars
  PROVE  OwnerNeedsNoGrant'
<1>. TypeOK /\ OwnerNeedsNoGrant
  BY DEF Inv
<1>. USE DEF OwnerNeedsNoGrant, TypeOK
<1>1. ASSUME UNCHANGED <<token, grants>> PROVE OwnerNeedsNoGrant'
  BY <1>1
<1>2. ASSUME NEW h \in Handler, UpdateToken(h) PROVE OwnerNeedsNoGrant'
  <2>1. /\ token # None => token'.owner = token.owner
        /\ token = None => token' = None
    BY <1>2, Rewritten DEF Inv
  <2>. QED BY <1>2, <2>1 DEF UpdateToken, Inv, NothingDangles
<1>3. ASSUME NEW h \in Handler, DeleteToken(h) PROVE OwnerNeedsNoGrant'
  BY <1>3 DEF DeleteToken
<1>4. ASSUME NEW h \in Handler, RevokeGrant(h) PROVE OwnerNeedsNoGrant'
  BY <1>4 DEF RevokeGrant
<1>5. ASSUME NEW h \in Handler, NEW r \in Roles, InsertGrant(h, r) PROVE OwnerNeedsNoGrant'
  <2>1. CASE MayInsertGrant(call[h])
    BY <1>5, <2>1, Inserted
  <2>2. CASE ~MayInsertGrant(call[h])
    BY <1>5, <2>2 DEF InsertGrant
  <2>. QED BY <2>1, <2>2
<1>6. ASSUME NEW u \in User \cup {None}, NEW view \in View, CreateToken(u, view)
      PROVE  OwnerNeedsNoGrant'
  BY <1>6 DEF CreateToken, Inv, NothingDangles
<1>7. ASSUME NEW u \in User, DeleteUser(u) PROVE OwnerNeedsNoGrant'
  <2>1. ASSUME NEW v \in User, grants'[v] # None PROVE token'.owner # v
    <3>1. grants[v] # None /\ token # None /\ token.owner # v
      BY <1>7, <2>1 DEF DeleteUser, Inv, NothingDangles
    <3>2. token'.owner \in {token.owner, None}
      BY <1>7, <3>1 DEF DeleteUser, Token
    <3>. QED BY <3>1, <3>2, AccessAssumption
  <2>. QED BY <2>1
<1>. QED
  BY <1>1, <1>2, <1>3, <1>4, <1>5, <1>6, <1>7
  DEF Next, vars, Authenticate, LoadToken, LoadGrant, Read, FindGrantee, UpdateUser, GiveUp

-----------------------------------------------------------------------------
\* The invariant of the access tables and the requests that rely on them.
THEOREM SafeAccess == Spec => []Inv
<1>1. Init => Inv
  <2>1. Init => TypeOK
    BY DEF Init, TypeOK
  <2>2. Init => AllSound
    BY DEF Init, AllSound, At, Idle
  <2>3. Init => NothingDangles /\ OwnerNeedsNoGrant /\ (token # None => made)
    BY DEF Init, NothingDangles, OwnerNeedsNoGrant
  <2>. QED BY <2>1, <2>2, <2>3 DEF Inv
<1>2. Inv /\ [Next]_vars => Inv'
  BY TypeStep, MadeStep, DanglesStep, OwnerStep, SoundStep DEF Inv
<1>. QED BY <1>1, <1>2, PTL DEF Spec

\* Every variable keeps its type.
THEOREM TypeCorrect == Spec => []TypeOK
<1>1. Inv => TypeOK
  BY DEF Inv
<1>. QED BY <1>1, SafeAccess, PTL

\* Nobody gets past the policy by a right that never held.
THEOREM RightsHeld == Spec => []RightHeld
<1>1. Inv => RightHeld
  BY DEF Inv, AllSound, Sound, At, RightHeld
<1>. QED BY <1>1, SafeAccess, PTL

\* No row names a user or a token that is gone.
THEOREM NoneDangle == Spec => []NothingDangles
<1>1. Inv => NothingDangles
  BY DEF Inv
<1>. QED BY <1>1, SafeAccess, PTL

\* The owner never holds a grant as well.
THEOREM OwnersUngranted == Spec => []OwnerNeedsNoGrant
<1>1. Inv => OwnerNeedsNoGrant
  BY DEF Inv
<1>. QED BY <1>1, SafeAccess, PTL

-----------------------------------------------------------------------------
\* An edit that nobody overtook has read the view mode that is there, if the
\* token is.
Reads(c) ==
  c.op = "edit" /\ ~c.overtaken /\ c.token # None /\ token # None => c.token.view = token.view

ViewRead == \A h \in Handler : ~At(h, "idle") => Reads(call[h])

\* A step of one request, in which the token goes or keeps its view mode.
LEMMA ViewReturn ==
  ASSUME TypeOK, ViewRead, NEW h \in Handler, Return(h) \/ UNCHANGED call,
         token' # None => token # None /\ token'.view = token.view
  PROVE  ViewRead'
<1>1. \A g \in Handler : ~At(g, "idle")' => call'[g] = call[g] /\ ~At(g, "idle")
  BY DEF TypeOK, Return, At, Idle
<1>. QED BY <1>1 DEF ViewRead, Reads

\* A handler that goes on still relies only on what it has read of the token.
LEMMA ViewProceed ==
  ASSUME TypeOK, ViewRead, NEW h \in Handler, NEW next \in Call, Proceed(h, next),
         UNCHANGED token, Reads(next)
  PROVE  ViewRead'
<1>. DEFINE c == [next EXCEPT !.held = @ \/ Right(next.user, next.op)]
<1>1. c.op = next.op /\ c.overtaken = next.overtaken /\ c.token = next.token
  BY DEF Call
<1>2. call' = [call EXCEPT ![h] = c]
  BY DEF Proceed
<1>. HIDE DEF c
<1>3. call'[h] = c /\ \A g \in Handler : g # h => call'[g] = call[g]
  BY <1>2 DEF TypeOK
<1>. QED BY <1>1, <1>3 DEF ViewRead, Reads, At

\* Every step keeps it: an update overtakes all edits that have read the token.
LEMMA ViewStep ==
  ASSUME Inv, ViewRead, [Next]_vars
  PROVE  ViewRead'
<1>. TypeOK /\ AllSound
  BY DEF Inv
<1>1. ASSUME NEW h \in Handler, NEW u \in User \cup {None}, NEW op \in Ops,
             NEW want \in Wanted(op), Authenticate(h, u, op, want)
      PROVE  ViewRead'
  <2>. DEFINE a == u # None /\ role[u] = "admin"
              c == [stage |-> "token", user |-> u, admin |-> a, op |-> op, want |-> want,
                    token |-> None, held |-> FALSE, overtaken |-> FALSE]
  <2>1. want \in View \cup User \cup {None}
    BY DEF Wanted, Ops
  <2>2. a \in BOOLEAN
    OBVIOUS
  <2>. HIDE DEF a
  <2>3. c \in Call /\ Reads(c)
    BY <2>1, <2>2 DEF Call, Reads
  <2>4. Proceed(h, c) /\ UNCHANGED token
    BY <1>1 DEF Authenticate, a
  <2>. QED BY <2>3, <2>4, ViewProceed
<1>2. ASSUME NEW h \in Handler, LoadToken(h) PROVE ViewRead'
  <2>. DEFINE c == [call[h] EXCEPT !.token = token]
  <2>1. call[h] \in Call
    BY <1>2, Busy DEF LoadToken, At
  <2>2. /\ [c EXCEPT !.stage = "allowed"] \in Call /\ [c EXCEPT !.stage = "allowed"].token = token
        /\ [c EXCEPT !.stage = "grant"] \in Call /\ [c EXCEPT !.stage = "grant"].token = token
    BY <2>1 DEF Call, TypeOK
  <2>3. /\ \/ Return(h) \/ Proceed(h, [c EXCEPT !.stage = "allowed"])
           \/ Proceed(h, [c EXCEPT !.stage = "grant"])
        /\ UNCHANGED token
    BY <1>2 DEF LoadToken
  <2>4. Reads([c EXCEPT !.stage = "allowed"]) /\ Reads([c EXCEPT !.stage = "grant"])
    BY <2>2 DEF Reads
  <2>. QED BY <2>2, <2>3, <2>4, ViewProceed, ViewReturn
<1>3. ASSUME NEW h \in Handler, LoadGrant(h) PROVE ViewRead'
  <2>. DEFINE c == [call[h] EXCEPT !.stage = "allowed"]
  <2>1. call[h] \in Call /\ Reads(call[h])
    BY <1>3, Busy DEF LoadGrant, At, ViewRead
  <2>2. c \in Call /\ Reads(c)
    BY <2>1 DEF Call, Reads
  <2>3. /\ Return(h) \/ Proceed(h, c)
        /\ UNCHANGED token
    BY <1>3 DEF LoadGrant
  <2>. HIDE DEF c
  <2>. QED BY <2>2, <2>3, ViewProceed, ViewReturn
<1>4. ASSUME NEW h \in Handler,
             \/ Read(h) \/ GiveUp(h) \/ RevokeGrant(h) \/ DeleteToken(h)
             \/ \E r \in Roles : InsertGrant(h, r)
      PROVE  ViewRead'
  BY <1>4, ViewReturn DEF Read, GiveUp, RevokeGrant, DeleteToken, InsertGrant
<1>5. ASSUME NEW h \in Handler, UpdateToken(h) PROVE ViewRead'
  <2>1. token' # None => token # None
    BY <1>5, Rewritten
  <2>2. ASSUME NEW g \in Handler, ~At(g, "idle")' PROVE Reads(call[g])'
    <3>1. g # h /\ ~At(g, "idle")
      BY <1>5, <2>2 DEF UpdateToken, At, Idle
    <3>2. call[g] \in Call
      BY <3>1, Busy
    <3>3. CASE call[g].op # "edit" \/ call[g].token = None
      <4>1. call'[g] = call[g]
        BY <1>5, <3>1, <3>3 DEF UpdateToken
      <4>. QED BY <3>3, <4>1 DEF Reads
    <3>4. CASE ~(call[g].op # "edit" \/ call[g].token = None)
      <4>1. call'[g] = [call[g] EXCEPT !.overtaken = TRUE]
        BY <1>5, <3>1, <3>4 DEF UpdateToken
      <4>2. call'[g].overtaken
        BY <3>2, <4>1 DEF Call
      <4>. QED BY <4>2 DEF Reads
    <3>. QED BY <3>3, <3>4
  <2>. QED BY <2>2 DEF ViewRead
<1>6. ASSUME NEW h \in Handler, FindGrantee(h) PROVE ViewRead'
  <2>1. call[h] \in Call /\ Reads(call[h]) /\ UNCHANGED token
    BY <1>6, Busy DEF FindGrantee, Does, At, ViewRead
  <2>2. CASE Return(h)
    BY <2>1, <2>2, ViewReturn
  <2>3. CASE call' = [call EXCEPT ![h].stage = "insert"]
    <3>1. /\ \A g \in Handler : g # h => call'[g] = call[g]
          /\ call'[h].op = call[h].op /\ call'[h].overtaken = call[h].overtaken
          /\ call'[h].token = call[h].token
      BY <2>1, <2>3 DEF TypeOK, Call
    <3>. QED BY <2>1, <3>1 DEF ViewRead, Reads, At
  <2>. QED BY <1>6, <2>2, <2>3 DEF FindGrantee
<1>7. ASSUME NEW u \in User \cup {None}, NEW view \in View, CreateToken(u, view) PROVE ViewRead'
  <2>1. \A h \in Handler : ~At(h, "idle") => call[h].token = None
    BY <1>7 DEF CreateToken, AllSound, Sound
  <2>2. call' = call
    BY <1>7 DEF CreateToken
  <2>. QED BY <2>1, <2>2 DEF ViewRead, Reads, At
<1>8. ASSUME NEW u \in User, DeleteUser(u) \/ \E r \in {"admin", "user"} : UpdateUser(u, r)
      PROVE  ViewRead'
  <2>1. UNCHANGED call /\ (token' # None => token # None /\ token'.view = token.view)
    BY <1>8 DEF DeleteUser, UpdateUser, TypeOK, Token
  <2>2. \A h \in Handler : At(h, "idle")' <=> At(h, "idle")
    BY <2>1 DEF At
  <2>. QED BY <2>1, <2>2 DEF ViewRead, Reads
<1>9. CASE UNCHANGED vars
  BY <1>9 DEF vars, ViewRead, Reads, At
<1>. QED BY <1>1, <1>2, <1>3, <1>4, <1>5, <1>6, <1>7, <1>8, <1>9 DEF Next

\* A private hook becomes public only by an update that asks for it, or by one
\* that had read it before another update: no deletion, no new token and no other
\* edit opens it (updateToken, DeleteUser).
THEOREM OpenedAsAsked == Spec => PublicAsAsked
<1>1. ASSUME Inv, ViewRead, Next,
             token # None, token' # None, token.view = "private", token'.view = "public"
      PROVE  \E h \in Handler : Does(h, "edit") /\ (call[h].want = "public" \/ call[h].overtaken)
  <2>0. TypeOK /\ made
    BY <1>1 DEF Inv
  <2>1. token' # token
    BY <1>1
  <2>2. PICK h \in Handler : UpdateToken(h)
    <3>1. \A u \in User : DeleteUser(u) => token'.view = token.view
      BY <1>1, <2>0 DEF DeleteUser, TypeOK, Token
    <3>. QED BY <1>1, <2>0, <2>1, <3>1
             DEF Next, Authenticate, LoadToken, LoadGrant, Read, DeleteToken, RevokeGrant,
                 FindGrantee, InsertGrant, GiveUp, CreateToken, UpdateUser
  <2>3. /\ call[h] \in Call /\ Reads(call[h]) /\ Does(h, "edit")
        /\ call[h].op = "edit" /\ call[h].stage = "allowed" /\ Sound(call[h])
    BY <1>1, <2>0, <2>2, Busy DEF UpdateToken, Does, At, ViewRead, Inv, AllSound
  <2>4. call[h].token # None
    BY <2>3 DEF Sound
  <2>5. token'.view = IF call[h].want = None THEN call[h].token.view ELSE call[h].want
    <3>1. token' = Written(token, call[h]) /\ token \in Token
      BY <1>1, <2>0, <2>2 DEF UpdateToken, TypeOK
    <3>. QED BY <3>1 DEF Written, Token
  <2>. QED BY <1>1, <2>3, <2>4, <2>5 DEF Reads
<1>2. Inv /\ ViewRead /\ [Next]_vars =>
        [token # None /\ token' # None /\ token.view = "private" /\ token'.view = "public"
           => \E h \in Handler : Does(h, "edit") /\ (call[h].want = "public" \/ call[h].overtaken)]_vars
  BY <1>1
<1>3. Inv /\ ViewRead /\ [Next]_vars => ViewRead'
  BY ViewStep
<1>4. Init => ViewRead
  BY DEF Init, ViewRead, At, Idle
<1>. QED BY <1>2, <1>3, <1>4, SafeAccess, PTL DEF Spec, PublicAsAsked

=============================================================================
