--------------------------------- MODULE Access ---------------------------------
(***************************************************************************)
(* Who may do what with one token. A request reads its user, then the      *)
(* token, then perhaps a grant, and then does its work with what it has    *)
(* read, while roles, grants, the token and the users themselves change.   *)
(* The foreign keys of the tables say what a deletion takes along and what *)
(* forbids it.                                                             *)
(***************************************************************************)
EXTENDS FiniteSets

CONSTANTS
  User,
  Handler,   \* HTTP handlers
  None       \* no user, no token, no grant, nothing asked for

Roles == {"viewer", "editor"}
View == {"public", "private"}
Ops == {"view", "edit", "delete", "grant", "revoke"}

\* A row of tokens, and one of hook_grants for the token; its user is the key.
Token == [owner : User \cup {None}, view : View]
Grant == [role : Roles, by : User]

ASSUME AccessAssumption == None \notin User \cup {"admin", "user"} \cup Token

\* A request: the user it has read and whether it was an administrator, what
\* it is about, the view mode or the user it names, the token it has read.
\* `held' is history: at one of its steps so far its user had the right.
\* `overtaken' too: the token has been written since an edit read it.
Call ==
  [stage : {"token", "grant", "allowed", "insert"}, user : User \cup {None}, admin : BOOLEAN,
   op : Ops, want : View \cup User \cup {None}, token : Token \cup {None},
   held : BOOLEAN, overtaken : BOOLEAN]

Idle == [stage |-> "idle"]

VARIABLES
  role,     \* the users table: global_role, or None
  token,    \* the token's row
  made,     \* the token has been created
  grants,   \* the token's grants
  call      \* the handlers

vars == <<role, token, made, grants, call>>

Init ==
  /\ role \in [User -> {"admin", "user"}]
  /\ token = None
  /\ made = FALSE
  /\ grants = [u \in User |-> None]
  /\ call = [h \in Handler |-> Idle]

-----------------------------------------------------------------------------
At(h, stage) == call[h].stage = stage

Return(h) == call' = [call EXCEPT ![h] = Idle]

Exists(u) == role[u] # None

\* The right to an operation, by what the tables say now.
Right(u, op) ==
  \/ op = "view" /\ token # None /\ token.view = "public"
  \/ /\ u # None
     /\ \/ role[u] = "admin"
        \/ token # None /\ token.owner = u
        \/ /\ grants[u] # None
           /\ op = "view" \/ (op = "edit" /\ grants[u].role = "editor")

\* The request goes on; it remembers a right its user has at this step.
Proceed(h, next) ==
  call' = [call EXCEPT ![h] = [next EXCEPT !.held = @ \/ Right(next.user, next.op)]]

\* What a request may name: an edit a view mode or nothing, a revocation and
\* a grant a user.
Wanted(op) ==
  CASE op = "edit" -> View \cup {None}
    [] op \in {"grant", "revoke"} -> User
    [] OTHER -> {None}

\* The session middleware reads the user, or finds no session.
Authenticate(h, u, op, want) ==
  /\ At(h, "idle")
  /\ u # None => Exists(u)
  /\ Proceed(h, [stage |-> "token", user |-> u, admin |-> u # None /\ role[u] = "admin",
                 op |-> op, want |-> want, token |-> None,
                 held |-> FALSE, overtaken |-> FALSE])
  /\ UNCHANGED <<role, token, made, grants>>

\* The foreign key of tokens.
MayInsertToken(u) == u # None => Exists(u)

\* createToken: the user of the context becomes the owner. Its other settings
\* do not matter here.
CreateToken(u, view) ==
  /\ ~made
  /\ MayInsertToken(u)
  /\ made' = TRUE
  /\ token' = [owner |-> u, view |-> view]
  /\ UNCHANGED <<role, grants, call>>

\* A mutant of IsOwner: a token without an owner is everybody's.
IsOwnerOrNone(c) == c.user # None /\ c.token.owner \in {c.user, None}

IsOwner(c) == c.user # None /\ c.token.owner = c.user

\* CanAccessToken up to the grant, and CanManageGrants.
Granted(c) ==
  \/ c.op = "view" /\ c.token.view = "public"
  \/ c.admin
  \/ IsOwner(c)

\* Managing grants ends here, and so does a request without a user.
AsksForGrant(c) == c.op \in {"view", "edit", "delete"} /\ c.user # None

\* GetToken, and the part of the policy that needs nothing else.
LoadToken(h) ==
  LET c == [call[h] EXCEPT !.token = token] IN
  /\ At(h, "token")
  /\ IF token = None THEN Return(h)
     ELSE IF Granted(c) THEN Proceed(h, [c EXCEPT !.stage = "allowed"])
     ELSE IF AsksForGrant(c) THEN Proceed(h, [c EXCEPT !.stage = "grant"])
     ELSE Return(h)
  /\ UNCHANGED <<role, token, made, grants>>

\* What a grant gives: nobody deletes by it.
Gives(r, op) == op = "view" \/ (op = "edit" /\ r = "editor")

\* GetHookGrant, the last statement of CanAccessToken.
LoadGrant(h) ==
  LET c == call[h]
      g == grants[c.user]
  IN  /\ At(h, "grant")
      /\ IF g # None /\ Gives(g.role, c.op)
         THEN Proceed(h, [c EXCEPT !.stage = "allowed"]) ELSE Return(h)
      /\ UNCHANGED <<role, token, made, grants>>

-----------------------------------------------------------------------------
\* The operations, with the token as it was read.
Does(h, op) == At(h, "allowed") /\ call[h].op = op

\* Whatever only reads.
Read(h) ==
  /\ Does(h, "view")
  /\ Return(h)
  /\ UNCHANGED <<role, token, made, grants>>

\* A mutant of Written: a payload without a view mode means the default one.
WrittenDefault(row, c) == [row EXCEPT !.view = IF c.want = None THEN "public" ELSE c.want]

\* The columns that UpdateToken sets, the owner not among them: the view mode
\* is the one of the payload or the one that was read.
Written(row, c) == [row EXCEPT !.view = IF c.want = None THEN c.token.view ELSE c.want]

\* UpdateToken.
UpdateToken(h) ==
  /\ Does(h, "edit")
  /\ token' = IF token = None THEN None ELSE Written(token, call[h])
  /\ call' = [g \in Handler |-> IF g = h THEN Idle
                ELSE IF At(g, "idle") \/ call[g].op # "edit" \/ call[g].token = None
                THEN call[g] ELSE [call[g] EXCEPT !.overtaken = TRUE]]
  /\ UNCHANGED <<role, made, grants>>

\* DeleteToken: grants go with their token.
DeleteToken(h) ==
  /\ Does(h, "delete")
  /\ token' = None
  /\ grants' = [u \in User |-> None]
  /\ Return(h)
  /\ UNCHANGED <<role, made>>

\* A mutant of MayReceive: the owner is not looked at.
MayReceiveAny(c) == Exists(c.want)

\* createGrant looks the user up and refuses the owner.
MayReceive(c) == Exists(c.want) /\ c.token.owner # c.want

\* createGrant up to CreateHookGrant.
FindGrantee(h) ==
  /\ Does(h, "grant")
  /\ IF MayReceive(call[h])
     THEN call' = [call EXCEPT ![h].stage = "insert"] ELSE Return(h)
  /\ UNCHANGED <<role, token, made, grants>>

\* The constraints of hook_grants: UNIQUE and three foreign keys.
MayInsertGrant(c) ==
  grants[c.want] = None /\ token # None /\ Exists(c.want) /\ Exists(c.user)

\* CreateHookGrant.
InsertGrant(h, r) ==
  LET c == call[h] IN
  /\ At(h, "insert")
  /\ grants' = IF MayInsertGrant(c) THEN [grants EXCEPT ![c.want] = [role |-> r, by |-> c.user]]
               ELSE grants
  /\ Return(h)
  /\ UNCHANGED <<role, token, made>>

\* DeleteHookGrantByTokenAndUser.
RevokeGrant(h) ==
  /\ Does(h, "revoke")
  /\ grants' = [grants EXCEPT ![call[h].want] = None]
  /\ Return(h)
  /\ UNCHANGED <<role, token, made>>

\* The administrator's updateUser.
UpdateUser(u, r) ==
  /\ Exists(u)
  /\ role' = [role EXCEPT ![u] = r]
  /\ UNCHANGED <<token, made, grants, call>>

\* A mutant of MayDelete: granted_by cascades to nothing and forbids nothing.
MayDeleteAny(u) == TRUE

\* granted_by has no ON DELETE: a user who granted access to others stays.
MayDelete(u) == ~\E v \in User \ {u} : grants[v] # None /\ grants[v].by = u

\* DeleteUser: ON DELETE SET NULL for the tokens owned, CASCADE for the grants
\* received.
DeleteUser(u) ==
  /\ Exists(u)
  /\ MayDelete(u)
  /\ role' = [role EXCEPT ![u] = None]
  /\ token' = IF token # None /\ token.owner = u THEN [token EXCEPT !.owner = None] ELSE token
  /\ grants' = [grants EXCEPT ![u] = None]
  /\ UNCHANGED <<made, call>>

\* A handler is given up: its client has left, or the payload is refused.
GiveUp(h) ==
  /\ ~At(h, "idle")
  /\ Return(h)
  /\ UNCHANGED <<role, token, made, grants>>

Next ==
  \/ \E h \in Handler :
       \/ \E u \in User \cup {None}, op \in Ops :
            \E want \in Wanted(op) : Authenticate(h, u, op, want)
       \/ LoadToken(h) \/ LoadGrant(h)
       \/ Read(h) \/ UpdateToken(h) \/ DeleteToken(h) \/ RevokeGrant(h)
       \/ FindGrantee(h)
       \/ \E r \in Roles : InsertGrant(h, r)
       \/ GiveUp(h)
  \/ \E u \in User \cup {None}, view \in View : CreateToken(u, view)
  \/ \E u \in User : DeleteUser(u) \/ \E r \in {"admin", "user"} : UpdateUser(u, r)

Spec == Init /\ [][Next]_vars

-----------------------------------------------------------------------------
\* Every variable has its type.
TypeOK ==
  /\ role \in [User -> {"admin", "user", None}]
  /\ token \in Token \cup {None}
  /\ made \in BOOLEAN
  /\ grants \in [User -> Grant \cup {None}]
  /\ call \in [Handler -> Call \cup {Idle}]

\* A request gets past the policy only if at one of its steps the tables gave
\* its user the right, all of it: no right is put together from a role, a
\* token and a grant that never held together, and one that was taken away
\* before the request began counts for nothing (SessionMiddleware, GetToken,
\* GetHookGrant, CanAccessToken, CanManageGrants).
RightHeld == \A h \in Handler : call[h].stage \in {"allowed", "insert"} => call[h].held

\* No row names a user or a token that is gone, whatever was deleted while a
\* grant, an update or a new token was between its statements: an owner, a
\* user with a grant and the user who gave it all exist (the foreign keys of
\* tokens and hook_grants, DeleteUser, DeleteToken, UpdateToken).
NothingDangles ==
  /\ token # None /\ token.owner # None => Exists(token.owner)
  /\ \A u \in User : grants[u] # None => token # None /\ Exists(u) /\ Exists(grants[u].by)

\* The owner of a token never holds a grant on it as well: revoking that would
\* change nothing. createGrant refuses it by the token as it read it, and the
\* owner is what it was when the grant is inserted two statements later, or gone.
OwnerNeedsNoGrant ==
  \A u \in User : grants[u] # None => token.owner # u

\* A hook becomes public only through an update that asks for it or that had
\* read it before it became private (updateToken writes back the view mode).
PublicAsAsked ==
  [][token # None /\ token' # None /\ token.view = "private" /\ token'.view = "public"
       => \E h \in Handler : Does(h, "edit") /\ (call[h].want = "public" \/ call[h].overtaken)]_vars
=============================================================================
