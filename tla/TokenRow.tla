------------------------------ MODULE TokenRow ------------------------------
(***************************************************************************)
(* One row of the tokens table, as the columns that decide a token's life: *)
(* whether it is persistent, its request quota, the hash of its receive    *)
(* secret, when it was last configured and when it expires. Times are      *)
(* seconds (the store writes RFC 3339); the zero time, which nullableTime  *)
(* stores as NULL, is NoTime. A token is private exactly when it has a     *)
(* secret hash: reconcileReceiveSecret writes the two together.            *)
(***************************************************************************)
EXTENDS Naturals

CONSTANTS
  TTL,      \* Config.TokenTTL, in seconds
  Secret,   \* receive secrets (and, injectively, their hashes)
  None      \* no row, no secret, no request, no handler

ASSUME TTLAssumption == TTL \in Nat \ {0}

NoTime == 0

Row == [persistent : BOOLEAN,
        max        : Nat \ {0},
        hash       : Secret \cup {None},
        updated    : Nat,
        expires    : Nat]

ASSUME NoneAssumption == None \notin Row /\ None \notin Secret

Private(row) == row.hash # None

\* loadActiveToken: a persistent token never expires.
Active(row, at) == row.persistent \/ row.expires > at

\* scanToken: a NULL expires_at of a token that is not persistent reads as
\* the default expiry.
Scan(row) ==
  IF row.expires = NoTime /\ ~row.persistent
  THEN [row EXCEPT !.expires = row.updated + TTL]
  ELSE row

\* A mutant of Defaulted: no default expiry.
NotDefaulted(row) ==
  IF row.persistent THEN [row EXCEPT !.expires = NoTime] ELSE row

\* applyDefaultTokenDefaults, on every insert and update of a token.
Defaulted(row) ==
  IF row.persistent THEN [row EXCEPT !.expires = NoTime]
  ELSE IF row.expires # NoTime THEN row
  ELSE [row EXCEPT !.expires = row.updated + TTL]

\* A mutant of Touched: the expiry is left as it is.
Untouched(row, at) == row

\* TouchTokenExpiry: the UPDATE sets expires_at whatever the row holds.
Touched(row, at) == [row EXCEPT !.expires = at + TTL]

\* The row DELETE FROM tokens WHERE persistent = 0 AND expires_at <= ? takes:
\* a comparison with NULL is not true.
Collectable(row, at) ==
  ~row.persistent /\ row.expires # NoTime /\ row.expires <= at

\* backfillTokenExpiry, on every start: each row whose expires_at is NULL.
Backfilled(row) ==
  IF row.expires = NoTime
  THEN [row EXCEPT !.expires = row.updated + TTL]
  ELSE row

\* A mutant of Reconciled: the hash outlives private mode.
ReconciledKeep(row, private, fresh) ==
  IF Private(row) THEN row.hash ELSE fresh

\* reconcileReceiveSecret: the hash after a token loaded as `row' is saved as
\* private or public. A new secret is drawn only when a public token turns
\* private.
Reconciled(row, private, fresh) ==
  IF ~private THEN None
  ELSE IF Private(row) THEN row.hash
  ELSE fresh

\* updateToken, from the row loaded to the row saved: the payload's quota,
\* persistence and receive mode, the reconciled secret, and a new expiry.
Configured(row, max, persistent, private, fresh, at) ==
  Defaulted([persistent |-> persistent,
             max        |-> max,
             hash       |-> Reconciled(row, private, fresh),
             updated    |-> at,
             expires    |-> IF persistent THEN NoTime ELSE at + TTL])

\* rotateReceiveSecret: the same row with a new hash and, unless the token is
\* persistent, a new expiry.
Rotated(row, fresh, at) ==
  Defaulted([row EXCEPT !.hash    = fresh,
                        !.updated = at,
                        !.expires = IF row.persistent THEN @ ELSE at + TTL])
=============================================================================
