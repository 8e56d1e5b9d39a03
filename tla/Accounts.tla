-------------------------------- MODULE Accounts --------------------------------
(***************************************************************************)
(* Accounts and sessions. Registering, signing in through the OpenID       *)
(* provider and administering users are sequences of statements on the     *)
(* users and sessions tables, and calls overlap between any two of them.   *)
(* The tables keep emails and subjects unique and drop a deleted user's    *)
(* sessions. A cleaner deletes sessions that have run out.                 *)
(***************************************************************************)
EXTENDS Naturals, FiniteSets, Sequences

CONSTANTS
  Email,
  Subject,    \* identities at the OpenID provider: oidc_provider and oidc_subject
  Handler,    \* HTTP handlers
  None,       \* no subject, no row
  Users,      \* bound: accounts that are ever created
  Logins,     \* bound: sessions that are ever created
  Now,        \* bound: the clock
  Duration    \* SessionDuration, in units of the clock

Id == 1 .. Users
SessionId == 1 .. Logins

Role == {"admin", "user"}

\* A row of users. An account has a password or a subject, never both.
User == [email : Email, subject : Subject \cup {None}, role : Role]

\* A row of sessions.
Session == [user : Id, expires : 0 .. Now + Duration]

\* `None' is neither a row nor an identity.
ASSUME AccountsAssumption ==
  /\ {Users, Logins, Now, Duration} \subseteq Nat /\ Users > 0
  /\ None \notin Subject \cup User \cup Session

\* A session in the history.
Issue == [user : Id, expires : 0 .. Now + Duration, signedOut : BOOLEAN]

\* A handler between two statements. `late' is history: some account has
\* existed ever since the call began. `overtaken' is history too: the row that
\* an update has loaded has been written since.
Call ==
  [stage : {"idle", "admin"}]
  \cup [stage : {"lookup", "count"}, email : Email, subject : Subject \cup {None}, late : BOOLEAN]
  \cup [stage : {"create"}, email : Email, subject : Subject \cup {None}, late : BOOLEAN, role : Role]
  \cup [stage : {"session"}, email : Email, subject : Subject \cup {None}, user : Id]
  \cup [stage : {"whois"}, user : Id]
  \cup [stage : {"update"}, user : Id, row : User, role : Role \cup {None}, overtaken : BOOLEAN]

VARIABLES
  mode,       \* AUTH_MODE
  open,       \* allowRegistration, which the OpenID mode does not have
  users,      \* the users table
  created,    \* how many accounts there have been
  sessions,   \* the sessions table
  issued,     \* history: every session there has been, and whether it was signed out
  call,       \* the handlers
  now         \* the clock

vars == <<mode, open, users, created, sessions, issued, call, now>>

\* The database is new, or holds the account of an earlier run in either mode.
Init ==
  /\ mode \in {"local", "oidc"}
  /\ open \in (IF mode = "local" THEN BOOLEAN ELSE {TRUE})
  /\ created \in {0, 1}
  /\ \E email \in Email, subject \in Subject \cup {None} :
       users = [u \in Id |-> IF u > created THEN None ELSE
                  [email |-> email, subject |-> subject, role |-> "admin"]]
  /\ sessions = [s \in SessionId |-> None]
  /\ issued = <<>>
  /\ call = [h \in Handler |-> [stage |-> "idle"]]
  /\ now = 0

-----------------------------------------------------------------------------
At(h, stage) == call[h].stage = stage

Become(h, next) == call' = [call EXCEPT ![h] = next]

Return(h) == Become(h, [stage |-> "idle"])

Registered == {u \in Id : users[u] # None}

ByEmail(email) == {u \in Registered : users[u].email = email}

\* GetUserByOIDC, by provider and subject; a deployment has one provider.
ByOIDC(subject) == {u \in Registered : users[u].subject = subject}

CountUsers == Cardinality(Registered)

Same == UNCHANGED <<mode, open>>

\* Register: without allowRegistration only into an empty table.
BeginRegister(h, email) ==
  /\ mode = "local" /\ At(h, "idle")
  /\ open \/ CountUsers = 0
  /\ Become(h, [stage |-> "lookup", email |-> email, subject |-> None,
                late |-> CountUsers > 0])
  /\ Same /\ UNCHANGED <<users, created, sessions, issued, now>>

\* resolveUser: an account with this subject is signed in.
BeginCallback(h, email, subject) ==
  LET known == ByOIDC(subject)
      came == [email |-> email, subject |-> subject]
  IN  /\ mode = "oidc" /\ At(h, "idle")
      /\ \/ \E u \in known :
              Become(h, [stage |-> "session", email |-> email, subject |-> subject, user |-> u])
         \/ /\ known = {}
            /\ Become(h, [stage |-> "lookup", email |-> email, subject |-> subject,
                          late |-> CountUsers > 0])
      /\ Same /\ UNCHANGED <<users, created, sessions, issued, now>>

\* A mutant of Lookup: an account with the email of the claims is signed in.
LookupLinks(h) ==
  /\ At(h, "lookup")
  /\ \/ \E u \in ByEmail(call[h].email) :
          Become(h, [stage |-> "session", email |-> call[h].email,
                     subject |-> call[h].subject, user |-> u])
     \/ ByEmail(call[h].email) = {} /\ Become(h, [call[h] EXCEPT !.stage = "count"])
  /\ Same /\ UNCHANGED <<users, created, sessions, issued, now>>

\* GetUserByEmail: the email must be free.
Lookup(h) ==
  /\ At(h, "lookup")
  /\ IF ByEmail(call[h].email) = {}
     THEN Become(h, [call[h] EXCEPT !.stage = "count"]) ELSE Return(h)
  /\ Same /\ UNCHANGED <<users, created, sessions, issued, now>>

\* A mutant of RoleOfNew: one too many.
RoleOfNewWide == IF CountUsers <= 1 THEN "admin" ELSE "user"

\* The role of an account that is about to be created.
RoleOfNew == IF CountUsers = 0 THEN "admin" ELSE "user"

\* CountUsers decides the role.
Count(h) ==
  /\ At(h, "count")
  /\ Become(h, [stage |-> "create", email |-> call[h].email, subject |-> call[h].subject,
                late |-> call[h].late, role |-> RoleOfNew])
  /\ Same /\ UNCHANGED <<users, created, sessions, issued, now>>

\* A mutant of MayInsert: the columns are not UNIQUE.
MayInsertAny(email, subject) == TRUE

\* The UNIQUE constraints of users; NULLs differ from each other.
MayInsert(email, subject) ==
  ByEmail(email) = {} /\ (subject = None \/ ByOIDC(subject) = {})

\* CreateUser. Register returns, the callback goes on to a session.
CreateUser(h) ==
  LET c == call[h]
      u == created + 1
  IN  /\ At(h, "create")
      /\ IF MayInsert(c.email, c.subject)
         THEN /\ created < Users
              /\ created' = u
              /\ users' = [users EXCEPT ![u] =
                             [email |-> c.email, subject |-> c.subject, role |-> c.role]]
              /\ IF c.subject = None THEN Return(h)
                 ELSE Become(h, [stage |-> "session", email |-> c.email,
                                 subject |-> c.subject, user |-> u])
         ELSE Return(h) /\ UNCHANGED <<created, users>>
      /\ Same /\ UNCHANGED <<sessions, issued, now>>

\* Login up to GetUserByEmail, with the right password.
BeginLogin(h, u) ==
  /\ mode = "local" /\ At(h, "idle")
  /\ u \in ByOIDC(None)
  /\ Become(h, [stage |-> "session", email |-> users[u].email, subject |-> None, user |-> u])
  /\ Same /\ UNCHANGED <<users, created, sessions, issued, now>>

\* The foreign key of sessions.
MayOpen(u) == u \in Registered

\* CreateSession.
CreateSession(h) ==
  LET u == call[h].user
      s == Len(issued) + 1
  IN
  /\ At(h, "session")
  /\ IF MayOpen(u)
     THEN /\ s \in SessionId
          /\ sessions' = [sessions EXCEPT ![s] = [user |-> u, expires |-> now + Duration]]
          /\ issued' = Append(issued, [user |-> u, expires |-> now + Duration, signedOut |-> FALSE])
     ELSE UNCHANGED <<sessions, issued>>
  /\ Return(h)
  /\ Same /\ UNCHANGED <<users, created, now>>

\* Logout, one statement: the row is deleted if it is there.
Logout(s) ==
  /\ s \in DOMAIN issued
  /\ sessions' = [sessions EXCEPT ![s] = None]
  /\ issued' = [issued EXCEPT ![s].signedOut = TRUE]
  /\ Same /\ UNCHANGED <<users, created, call, now>>

-----------------------------------------------------------------------------
\* validateSession, first statement: GetSession skips a session that has run out.
BeginAdmin(h, s) ==
  /\ At(h, "idle")
  /\ sessions[s] # None /\ sessions[s].expires > now
  /\ Become(h, [stage |-> "whois", user |-> sessions[s].user])
  /\ Same /\ UNCHANGED <<users, created, sessions, issued, now>>

\* The second: GetUser; and RequireAdmin.
RequireAdmin(h) ==
  LET u == call[h].user IN
  /\ At(h, "whois")
  /\ IF u \in Registered /\ users[u].role = "admin"
     THEN Become(h, [stage |-> "admin"]) ELSE Return(h)
  /\ Same /\ UNCHANGED <<users, created, sessions, issued, now>>

\* updateUser up to GetUser. The payload names a role or none.
BeginUpdate(h, u, role) ==
  /\ At(h, "admin")
  /\ u \in Registered
  /\ Become(h, [stage |-> "update", user |-> u, row |-> users[u], role |-> role,
                overtaken |-> FALSE])
  /\ Same /\ UNCHANGED <<users, created, sessions, issued, now>>

\* A mutant of Saved: a payload without a role means the default one.
SavedDefault(row, role) == [row EXCEPT !.role = IF role = None THEN "user" ELSE role]

\* A mutant of Saved: what the payload does not say is written as NULL.
SavedNull(row, role) == [row EXCEPT !.role = role]

\* The row an update writes.
Saved(row, role) == [row EXCEPT !.role = IF role = None THEN @ ELSE role]

\* The other updates of u write back what is no longer there.
Overtaken(h, u) ==
  [g \in Handler |-> IF g = h THEN [stage |-> "idle"]
                     ELSE IF At(g, "update") /\ call[g].user = u
                     THEN [call[g] EXCEPT !.overtaken = TRUE] ELSE call[g]]

\* UpdateUser.
UpdateUser(h) ==
  LET u == call[h].user IN
  /\ At(h, "update")
  /\ IF u \in Registered
     THEN /\ users' = [users EXCEPT ![u] = Saved(call[h].row, call[h].role)]
          /\ call' = Overtaken(h, u)
     ELSE Return(h) /\ UNCHANGED users
  /\ Same /\ UNCHANGED <<created, sessions, issued, now>>

\* DeleteUser. (It fails for a user who has granted access to others: see
\* module Access.) Sessions go with their user.
DeleteUser(h, u) ==
  LET last == Registered = {u} IN
  /\ At(h, "admin")
  /\ u \in Registered
  /\ users' = [users EXCEPT ![u] = None]
  /\ sessions' = [s \in SessionId |->
                    IF sessions[s] # None /\ sessions[s].user = u THEN None ELSE sessions[s]]
  /\ call' = [g \in Handler |->
                IF g = h THEN [stage |-> "idle"]
                ELSE IF last /\ call[g].stage \in {"lookup", "count", "create"}
                THEN [call[g] EXCEPT !.late = FALSE] ELSE call[g]]
  /\ Same /\ UNCHANGED <<created, issued, now>>

\* A handler is given up: its client has left, or the request is malformed.
GiveUp(h) ==
  /\ ~At(h, "idle")
  /\ Return(h)
  /\ Same /\ UNCHANGED <<users, created, sessions, issued, now>>

\* A mutant of Expired: the cleaner asks for the wrong side.
ExpiredEarly(s) == sessions[s].expires <= now + 1

\* WHERE expires_at <= now
Expired(s) == sessions[s].expires <= now

\* RunSessionCleanup.
Cleanup ==
  /\ sessions' = [s \in SessionId |->
                    IF sessions[s] # None /\ Expired(s) THEN None ELSE sessions[s]]
  /\ Same /\ UNCHANGED <<users, created, issued, call, now>>

Tick ==
  /\ now < Now
  /\ now' = now + 1
  /\ Same /\ UNCHANGED <<users, created, sessions, issued, call>>

Next ==
  \/ \E h \in Handler :
       \/ \E email \in Email :
            \/ BeginRegister(h, email)
            \/ \E subject \in Subject : BeginCallback(h, email, subject)
       \/ Lookup(h) \/ Count(h) \/ CreateUser(h) \/ CreateSession(h)
       \/ RequireAdmin(h) \/ UpdateUser(h) \/ GiveUp(h)
       \/ \E u \in Id : BeginLogin(h, u) \/ DeleteUser(h, u)
       \/ \E s \in SessionId : BeginAdmin(h, s)
       \/ \E u \in Id, role \in Role \cup {None} : BeginUpdate(h, u, role)
  \/ \E s \in SessionId : Logout(s)
  \/ Cleanup \/ Tick

Spec == Init /\ [][Next]_vars

-----------------------------------------------------------------------------
\* Every variable has its type; a role in particular is one of the two.
TypeOK ==
  /\ mode \in {"local", "oidc"} /\ open \in BOOLEAN
  /\ users \in [Id -> User \cup {None}]
  /\ created \in 0 .. Users
  /\ sessions \in [SessionId -> Session \cup {None}]
  /\ issued \in Seq(Issue) /\ Len(issued) <= Logins
  /\ call \in [Handler -> Call]
  /\ now \in 0 .. Now

\* GetSession.
Valid(s) == sessions[s] # None /\ sessions[s].expires > now

\* A session signs its user in exactly until it is signed out, runs out or its
\* user is deleted, whenever the cleaner runs and however sign-ins, sign-outs
\* and the deletion of users overlap (GetSession, DeleteExpiredSessions,
\* DeleteSession, and the foreign key of sessions).
SignedInWhile ==
  \A s \in DOMAIN issued :
    Valid(s) <=> /\ ~issued[s].signedOut
                 /\ issued[s].expires > now
                 /\ issued[s].user \in Registered

\* Registrations and callbacks check an email and a subject long before they
\* insert them; still no two accounts share one (Register, resolveUser,
\* CreateUser).
OneAccountPerIdentity ==
  \A u, v \in Registered :
    u # v => /\ users[u].email # users[v].email
             /\ users[u].subject = None \/ users[u].subject # users[v].subject

\* Whoever begins to register while there is an account does not become an
\* administrator by it, unless all accounts are deleted meanwhile (CountUsers
\* in Register and in resolveUser).
OnlyFirstIsAdmin ==
  [][\A h \in Handler :
       At(h, "create") /\ created' > created /\ call'[h] # call[h] /\ call[h].late
         => users'[created'].role = "user"]_vars

\* An update that does not name a role leaves the role that the account had
\* when it was loaded, and nothing but an update changes a role; so a role
\* that was taken away comes back only through an update that asks for it or
\* had loaded the account before (updateUser, UpdateUser).
RoleAsAsked ==
  [][\A u \in Registered :
       users'[u] # None /\ users'[u].role # users[u].role
         => \E h \in Handler :
              /\ At(h, "update") /\ call[h].user = u
              /\ call[h].overtaken \/ call[h].role = users'[u].role]_vars

\* A sign-in opens a session of the account with the identity that was proved:
\* the subject at the provider, or the email whose password was given. No
\* callback reaches the account of somebody else who has the same email
\* (resolveUser, ErrOIDCAccountConflict).
ReachesOwnAccount ==
  [][\A h \in Handler :
       At(h, "session") /\ issued' # issued /\ call'[h] # call[h]
         => LET user == users[issued'[Len(issued')].user] IN
            /\ user.subject = call[h].subject
            /\ user.subject = None => user.email = call[h].email]_vars
=============================================================================
