------------------------------ MODULE AdminAuth ------------------------------
(***************************************************************************)
(* Admin sessions and API keys: login, the verification that precedes      *)
(* every admin and /metrics request (read the row, decide, touch the row), *)
(* logout, key creation and revocation, and the hourly session janitor,    *)
(* over the tables admin_sessions and api_keys that all instances share.   *)
(* Each statement is a step.  A login draws a fresh token, so a token      *)
(* names its login too, and a key the request that creates it.             *)
(***************************************************************************)
EXTENDS Naturals

CONSTANTS Tokens,    \* session tokens, and the logins that draw them
          Keys,      \* API keys
          Requests,  \* requests being served at a time
          TTL,       \* sessionTTL, in ticks
          MaxTime,   \* bound: the clock stops here
          Faults,    \* "db": statements may fail; "crash": instances may die
          None       \* no row

Creds == Tokens \cup Keys
Session == [expiresAt : Nat, used : BOOLEAN]     \* used: last_used_at has moved
APIKey == [revoked : BOOLEAN, used : BOOLEAN]

ASSUME AuthAssumption ==
  /\ TTL \in Nat \ {0}
  /\ MaxTime \in Nat
  /\ Tokens \cap Keys = {}
  /\ None \notin Creds \cup Session \cup APIKey

VARIABLES now,       \* the instances' common clock
          sessions,  \* admin_sessions, by token
          keys,      \* api_keys, by key
          login,     \* per token: the login that drew it, and its time
          req,       \* per request: the middleware and handler that serve it
          shown,     \* keys whose creator got to see them
          fate       \* history: has a withdrawal been sent, been answered?

tables == <<sessions, keys>>
vars == <<now, tables, login, req, shown, fate>>

Request == [pc    : {"idle", "decide", "expired", "touch", "touchkey", "accepted"},
            cred  : Creds \cup {None},
            until : Nat,       \* expires_at of the row that was read
            late  : BOOLEAN]   \* history: the credential was over when it was read

NoRequest == [pc |-> "idle", cred |-> None, until |-> 0, late |-> FALSE]

TypeOK ==
  /\ now \in Nat
  /\ sessions \in [Tokens -> Session \cup {None}]
  /\ keys \in [Keys -> APIKey \cup {None}]
  /\ login \in [Tokens -> [pc : {"idle", "touch", "done", "failed"}, at : Nat]]
  /\ req \in [Requests -> Request]
  /\ shown \subseteq Keys
  /\ fate \in [Creds -> {"kept", "sent", "withdrawn"}]

Init ==
  /\ now = 0
  /\ sessions = [t \in Tokens |-> None]
  /\ keys = [k \in Keys |-> None]
  /\ login = [t \in Tokens |-> [pc |-> "idle", at |-> 0]]
  /\ req = [r \in Requests |-> NoRequest]
  /\ shown = {}
  /\ fate = [c \in Creds |-> "kept"]

ExpiresAt(t) == login[t].at + TTL

(* AdminSession.IsExpired: strictly after, unlike the janitor's SQL. *)
IsExpired(expiresAt) == now > expiresAt

IsRevoked(key) == key.revoked

Live(c) ==
  IF c \in Tokens THEN sessions[c] # None /\ ~IsExpired(sessions[c].expiresAt)
                  ELSE keys[c] # None /\ ~IsRevoked(keys[c])

-----------------------------------------------------------------------------
(* metadata.PostgresRepository, admin_sessions and api_keys.  A statement  *)
(* that fails may have had its effect.                                     *)

InsertAdminSession(t, row) == sessions' = [sessions EXCEPT ![t] = row]
InsertAdminSessionErr(t, row) == sessions' = sessions \/ InsertAdminSession(t, row)

FindAdminSessionByTokenHash(t) == sessions[t]

DeleteAdminSession(t) == sessions' = [sessions EXCEPT ![t] = None]
DeleteAdminSessionErr(t) == sessions' = sessions \/ DeleteAdminSession(t)

(* Mutant of TouchAdminSession: an upsert of the session that was read. *)
TouchAdminSessionUpsert(t) ==
  sessions' = [sessions EXCEPT ![t] = [expiresAt |-> ExpiresAt(t), used |-> TRUE]]

(* UPDATE: a session that is gone stays gone, and that is no error. *)
TouchAdminSession(t) ==
  sessions' = IF sessions[t] = None THEN sessions ELSE [sessions EXCEPT ![t].used = TRUE]

(* Mutant of ExpiredSessions: the janitor is one tick early. *)
ExpiredSessionsEarly(before) ==
  {t \in Tokens : sessions[t] # None /\ sessions[t].expiresAt =< before + 1}

ExpiredSessions(before) ==
  {t \in Tokens : sessions[t] # None /\ sessions[t].expiresAt =< before}

DeleteExpiredAdminSessions(before) ==
  sessions' = [t \in Tokens |-> IF t \in ExpiredSessions(before) THEN None ELSE sessions[t]]

FindAPIKeyByTokenHash(k) == keys[k]

InsertAPIKey(k) == keys' = [keys EXCEPT ![k] = [revoked |-> FALSE, used |-> FALSE]]
InsertAPIKeyErr(k) == keys' = keys \/ InsertAPIKey(k)

RevokeAPIKey(k) == keys' = [keys EXCEPT ![k].revoked = TRUE]
RevokeAPIKeyErr(k) == keys' = keys \/ RevokeAPIKey(k)

(* Mutant of TouchAPIKey: the record that was read is written back. *)
TouchAPIKeyRecord(k) == keys' = [keys EXCEPT ![k] = [revoked |-> FALSE, used |-> TRUE]]

TouchAPIKey(k) == keys' = [keys EXCEPT ![k].used = TRUE]

-----------------------------------------------------------------------------
(* Service.Login with a right password; others are refused and change      *)
(* nothing.  Its clock was read at some time before the INSERT.            *)

Login(t) ==
  /\ login[t].pc = "idle"
  /\ \E at \in 0..now :
       LET row == [expiresAt |-> at + TTL, used |-> FALSE]
       IN \/ /\ InsertAdminSession(t, row)
             /\ login' = [login EXCEPT ![t] = [pc |-> "touch", at |-> at]]
          \/ /\ "db" \in Faults
             /\ InsertAdminSessionErr(t, row)
             /\ login' = [login EXCEPT ![t] = [pc |-> "failed", at |-> at]]
  /\ UNCHANGED <<now, keys, req, shown, fate>>

(* TouchAdminLastLogin.  When it fails the client learns no token, but the *)
(* session stays.  A crash here is the same.                               *)
FinishLogin(t) ==
  /\ login[t].pc = "touch"
  /\ \/ login' = [login EXCEPT ![t].pc = "done"]
     \/ Faults # {} /\ login' = [login EXCEPT ![t].pc = "failed"]
  /\ UNCHANGED <<now, tables, req, shown, fate>>

-----------------------------------------------------------------------------
(* RequireAdminSession and metricsAuth: Service.VerifySession.  A refusal  *)
(* makes the request idle again.                                           *)

(* Without a row the request is refused, which changes nothing. *)
FindSession(r, t) ==
  LET row == FindAdminSessionByTokenHash(t)
  IN /\ req[r].pc = "idle"
     /\ login[t].pc = "done"
     /\ row # None
     /\ req' = [req EXCEPT ![r] = [pc |-> "decide", cred |-> t,
                                   until |-> row.expiresAt, late |-> ~Live(t)]]
     /\ UNCHANGED <<now, tables, login, shown, fate>>

(* Mutant of Decide: the expiry is left to the janitor. *)
DecideUnchecked(r) ==
  /\ req[r].pc = "decide"
  /\ \/ req' = [req EXCEPT ![r].pc = "touch"]
     \/ "db" \in Faults /\ req' = [req EXCEPT ![r] = NoRequest]
  /\ UNCHANGED <<now, tables, login, shown, fate>>

(* The clock is read, then the admin, who is there: the program removes no *)
(* admins, and a session goes with its admin.                              *)
Decide(r) ==
  /\ req[r].pc = "decide"
  /\ \/ IsExpired(req[r].until) /\ req' = [req EXCEPT ![r].pc = "expired"]
     \/ ~IsExpired(req[r].until) /\ req' = [req EXCEPT ![r].pc = "touch"]
     \/ /\ "db" \in Faults
        /\ ~IsExpired(req[r].until)
        /\ req' = [req EXCEPT ![r] = NoRequest]
  /\ UNCHANGED <<now, tables, login, shown, fate>>

(* An expired session is deleted; whether that works is ignored. *)
DropExpired(r) ==
  /\ req[r].pc = "expired"
  /\ \/ DeleteAdminSession(req[r].cred)
     \/ "db" \in Faults /\ DeleteAdminSessionErr(req[r].cred)
  /\ req' = [req EXCEPT ![r] = NoRequest]
  /\ UNCHANGED <<now, keys, login, shown, fate>>

Touch(r) ==
  /\ req[r].pc = "touch"
  /\ \/ /\ TouchAdminSession(req[r].cred)
        /\ req' = [req EXCEPT ![r].pc = "accepted"]
     \/ /\ "db" \in Faults
        /\ TouchAdminSession(req[r].cred) \/ UNCHANGED sessions
        /\ req' = [req EXCEPT ![r] = NoRequest]
  /\ UNCHANGED <<now, keys, login, shown, fate>>

(* metricsAuth with an API key: VerifySession finds no session for it,     *)
(* then Service.VerifyAPIKey reads the key and, unless it is revoked, goes *)
(* on to touch it.                                                         *)
FindAPIKey(r, k) ==
  /\ req[r].pc = "idle"
  /\ k \in shown
  /\ ~IsRevoked(FindAPIKeyByTokenHash(k))
  /\ req' = [req EXCEPT ![r] = [pc |-> "touchkey", cred |-> k, until |-> 0,
                                late |-> ~Live(k)]]
  /\ UNCHANGED <<now, tables, login, shown, fate>>

TouchKey(r) ==
  /\ req[r].pc = "touchkey"
  /\ \/ /\ TouchAPIKey(req[r].cred)
        /\ req' = [req EXCEPT ![r].pc = "accepted"]
     \/ /\ "db" \in Faults
        /\ TouchAPIKey(req[r].cred) \/ UNCHANGED keys
        /\ req' = [req EXCEPT ![r] = NoRequest]
  /\ UNCHANGED <<now, sessions, login, shown, fate>>

-----------------------------------------------------------------------------
(* The handlers behind the middleware; each ends its request.  Only the    *)
(* metrics handler is also behind API keys.                                *)

Handles(r) == req[r].pc = "accepted" /\ req' = [req EXCEPT ![r] = NoRequest]
HandlesAdmin(r) == req[r].cred \in Tokens /\ Handles(r)

Withdrawn(c) == fate' = [fate EXCEPT ![c] = "withdrawn"]
Sent(c) == fate' = [fate EXCEPT ![c] = IF @ = "kept" THEN "sent" ELSE @]

(* Handlers that change no credential, and those that find none to change. *)
Serve(r) ==
  /\ Handles(r)
  /\ UNCHANGED <<now, tables, login, shown, fate>>

Logout(r) ==
  LET t == req[r].cred
  IN /\ HandlesAdmin(r)
     /\ \/ DeleteAdminSession(t) /\ Withdrawn(t)
        \/ "db" \in Faults /\ DeleteAdminSessionErr(t) /\ Sent(t)
     /\ UNCHANGED <<now, keys, login, shown>>

CreateKey(r, k) ==
  /\ HandlesAdmin(r)
  /\ keys[k] = None
  /\ \/ InsertAPIKey(k) /\ shown' = shown \cup {k}
     \/ "db" \in Faults /\ InsertAPIKeyErr(k) /\ UNCHANGED shown
  /\ UNCHANGED <<now, sessions, login, fate>>

RevokeKey(r, k) ==
  /\ HandlesAdmin(r)
  /\ keys[k] # None
  /\ \/ RevokeAPIKey(k) /\ Withdrawn(k)
     \/ "db" \in Faults /\ RevokeAPIKeyErr(k) /\ Sent(k)
  /\ UNCHANGED <<now, sessions, login, shown>>

(* The instance dies, or the client goes away. *)
Abandon(r) ==
  /\ "crash" \in Faults
  /\ req[r].pc # "idle"
  /\ req' = [req EXCEPT ![r] = NoRequest]
  /\ UNCHANGED <<now, tables, login, shown, fate>>

-----------------------------------------------------------------------------
(* Mutant of SessionJanitor: its clock is read once, when it starts. *)
SessionJanitorOldClock(before) ==
  /\ DeleteExpiredAdminSessions(0)
  /\ UNCHANGED <<now, keys, login, req, shown, fate>>

(* One of the instances' janitors; its DELETE may arrive late.  A failure  *)
(* changes nothing or what a success changes.                              *)
SessionJanitor(before) ==
  /\ DeleteExpiredAdminSessions(before)
  /\ UNCHANGED <<now, keys, login, req, shown, fate>>

Tick ==
  /\ now < MaxTime
  /\ now' = now + 1
  /\ UNCHANGED <<tables, login, req, shown, fate>>

Next ==
  \/ Tick
  \/ \E before \in 0..now : SessionJanitor(before)
  \/ \E t \in Tokens : Login(t) \/ FinishLogin(t)
  \/ \E r \in Requests :
       \/ \E t \in Tokens : FindSession(r, t)
       \/ Decide(r)
       \/ DropExpired(r)
       \/ Touch(r)
       \/ \E k \in Keys : FindAPIKey(r, k)
       \/ TouchKey(r)
       \/ Serve(r)
       \/ Logout(r)
       \/ \E k \in Keys : CreateKey(r, k) \/ RevokeKey(r, k)
       \/ Abandon(r)

Spec == Init /\ [][Next]_vars

(* Some instance's janitor keeps running and is answered now and then. *)
FairSpec == Spec /\ WF_vars(SessionJanitor(now))

-----------------------------------------------------------------------------
(* README, Log out and Revoke a key: once a withdrawal has been answered   *)
(* the credential cannot be used again; no verification that had read it   *)
(* before, and touches it after, brings it back.                           *)
WithdrawnStaysDead == \A c \in Creds : fate[c] = "withdrawn" => ~Live(c)

(* Nobody is logged out early: a session handed out stays until it expires *)
(* or its own logout was sent, a key until its own revocation was, however *)
(* janitors, logouts and verifications of others interleave.               *)
CredentialsKept ==
  /\ \A t \in Tokens :
       login[t].pc = "done" /\ now < ExpiresAt(t) /\ fate[t] = "kept" => Live(t)
  /\ \A k \in shown : fate[k] = "kept" => Live(k)

(* A session is kept with the expiry of its login, which no use extends.   *)
RowOfLogin(t) ==
  /\ login[t].at =< now
  /\ sessions[t] # None => login[t].pc # "idle" /\ sessions[t].expiresAt = ExpiresAt(t)
  /\ login[t].pc = "touch" /\ now < ExpiresAt(t) => sessions[t] # None
  /\ login[t].pc # "done" => fate[t] = "kept"

(* What a request holds fits the credential it came with, and it gets past *)
(* the check only with one that was live when it was read.                 *)
RequestHolds(q) ==
  /\ q.pc \in {"decide", "expired", "touch"}
       => q.cred \in Tokens /\ login[q.cred].pc = "done" /\ q.until = ExpiresAt(q.cred)
  /\ q.pc = "expired" \/ (q.pc = "decide" /\ q.late) => now > q.until
  /\ q.pc \in {"touch", "touchkey", "accepted"} => ~q.late
  /\ q.pc = "touchkey" => q.cred \in shown
  /\ q.pc = "accepted"
       => (q.cred \in Tokens /\ login[q.cred].pc = "done") \/ q.cred \in shown

(* Keys that were shown exist, and withdrawals are of keys that exist.     *)
KeysExist ==
  /\ \A k \in shown : keys[k] # None
  /\ \A k \in Keys : keys[k] = None => fate[k] = "kept"

(* The inductive invariant: no step of any actor leaves it.                *)
IInv ==
  /\ TypeOK
  /\ \A t \in Tokens : RowOfLogin(t)
  /\ \A r \in Requests : RequestHolds(req[r])
  /\ KeysExist
  /\ WithdrawnStaysDead
  /\ CredentialsKept

(* Design notes: "a background janitor periodically purges expired rows so *)
(* the table doesn't grow unbounded": every session goes in the end, the   *)
(* one of a login that failed after its insert as well.                    *)
SessionsRemoved ==
  \A t \in Tokens :
    sessions[t] # None /\ now >= sessions[t].expiresAt ~> sessions[t] = None

(* Seen from outside, sessions and keys behave as Credentials says.        *)
StatusOf(c) ==
  IF IF c \in Tokens THEN login[c].pc = "idle" ELSE keys[c] = None THEN "new"
  ELSE IF Live(c) THEN "live" ELSE "over"

ViewOf(q) ==
  IF q.pc = "idle" THEN "idle"
  ELSE IF q.late THEN "dead"
  ELSE IF q.pc = "accepted"
       THEN IF q.cred \in Tokens THEN "admin" ELSE "reader"
       ELSE IF q.cred \in Tokens THEN "session" ELSE "key"

Promise == INSTANCE Credentials WITH
  status <- [c \in Creds |-> StatusOf(c)],
  view <- [r \in Requests |-> ViewOf(req[r])]

(* Every behaviour of the admin API is one Credentials allows: a           *)
(* verification, although it reads, decides and touches in separate steps, *)
(* acts as if it had looked once.                                          *)
ImplementsCredentials == Promise!Spec
=============================================================================
