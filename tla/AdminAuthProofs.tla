--------------------------- MODULE AdminAuthProofs ---------------------------
(***************************************************************************)
(* Proofs about AdminAuth, for any number of tokens, keys and requests.    *)
(***************************************************************************)
EXTENDS AdminAuth, TLAPS

USE AuthAssumption

(* A request at rest holds nothing.                                        *)
LEMMA NothingHeld == NoRequest \in Request /\ RequestHolds(NoRequest)
BY DEF NoRequest, Request, RequestHolds

(* Empty tables and idle requests.                                         *)
LEMMA InitInv == Init => IInv
<1> SUFFICES ASSUME Init PROVE IInv
  OBVIOUS
<1>1. TypeOK
  <2>1. req \in [Requests -> Request]
    BY NothingHeld DEF Init
  <2>2. QED BY <2>1 DEF Init, TypeOK
<1>2. \A t \in Tokens : RowOfLogin(t)
  <2>1. ASSUME NEW t \in Tokens
        PROVE  /\ sessions[t] = None /\ fate[t] = "kept" /\ now = 0
               /\ login[t].pc = "idle" /\ login[t].at = 0
    BY DEF Init, Creds
  <2>2. ASSUME NEW t \in Tokens PROVE login[t].at =< now
    <3>1. login[t].at = 0 /\ now = 0 /\ 0 =< 0
      BY <2>1
    <3>2. QED BY <3>1, Zenon
  <2>3. QED BY <2>1, <2>2, Zenon DEF RowOfLogin
<1>3. \A r \in Requests : RequestHolds(req[r])
  BY DEF Init, RequestHolds, NoRequest
<1>4. KeysExist /\ WithdrawnStaysDead /\ CredentialsKept
  BY DEF Init, KeysExist, WithdrawnStaysDead, CredentialsKept, Creds
<1>5. QED BY <1>1, <1>2, <1>3, <1>4 DEF IInv

(* What a request holds stays true while others work: logins that are done *)
(* do not change, keys that were shown stay shown, time passes.            *)
LEMMA HoldsOn ==
  ASSUME IInv, NEW q \in Request, RequestHolds(q),
         now' \in Nat, now =< now', shown \subseteq shown',
         \A t \in Tokens : login[t].pc = "done" => login'[t] = login[t]
  PROVE  RequestHolds(q)'
<1>1. now \in Nat /\ q.until \in Nat
  BY DEF IInv, TypeOK, Request
<1>2. QED BY <1>1 DEF RequestHolds, ExpiresAt

(* Steps that leave all requests as they are.                              *)
LEMMA RequestsStay ==
  ASSUME IInv, req' = req, now' \in Nat, now =< now', shown \subseteq shown',
         \A t \in Tokens : login[t].pc = "done" => login'[t] = login[t]
  PROVE  (\A r \in Requests : RequestHolds(req[r]))'
<1> SUFFICES ASSUME NEW r \in Requests PROVE RequestHolds(req[r])'
  OBVIOUS
<1>1. req[r] \in Request /\ RequestHolds(req[r])
  BY DEF IInv, TypeOK
<1>2. QED BY <1>1, HoldsOn DEF RequestHolds, ExpiresAt

(* Steps of one request.                                                   *)
LEMMA OneRequest ==
  ASSUME IInv, NEW r \in Requests, NEW q \in Request, req' = [req EXCEPT ![r] = q],
         now' = now, login' = login, shown \subseteq shown',
         RequestHolds(q)
  PROVE  /\ req' \in [Requests -> Request]
         /\ (\A s \in Requests : RequestHolds(req[s]))'
<1>1. req' \in [Requests -> Request] /\ now \in Nat
  BY DEF IInv, TypeOK
<1>2. ASSUME NEW s \in Requests PROVE RequestHolds(req[s])'
  <2>1. req'[s] = IF s = r THEN q ELSE req[s]
    BY DEF IInv, TypeOK
  <2>2. req'[s] \in Request /\ RequestHolds(req[s])
    BY <1>1, <1>2 DEF IInv
  <2>3. PICK p \in Request : p = req'[s] /\ RequestHolds(p)
    BY <2>1, <2>2
  <2>4. QED BY <1>1, <2>3, HoldsOn DEF RequestHolds, ExpiresAt
<1>3. QED BY <1>1, <1>2

-----------------------------------------------------------------------------
(* Logins, the janitor and the clock.                                      *)

(* A login inserts the session it computed, or none, and is not over.      *)
LEMMA LoginInv ==
  ASSUME IInv, NEW t \in Tokens, Login(t)
  PROVE  IInv'
<1> DEFINE RowAt(at) == [expiresAt |-> at + TTL, used |-> FALSE]
<1>0. PICK at \in 0..now :
        \/ /\ InsertAdminSession(t, RowAt(at))
           /\ login' = [login EXCEPT ![t] = [pc |-> "touch", at |-> at]]
        \/ /\ InsertAdminSessionErr(t, RowAt(at))
           /\ login' = [login EXCEPT ![t] = [pc |-> "failed", at |-> at]]
  BY DEF Login
<1> DEFINE row == RowAt(at)
<1>1. /\ login[t].pc = "idle" /\ sessions[t] = None /\ fate[t] = "kept"
      /\ now \in Nat /\ at \in Nat /\ at =< now /\ row \in Session /\ t \in Creds
  BY DEF Login, IInv, TypeOK, RowOfLogin, Session, Creds
<1>2. UNCHANGED <<now, keys, req, shown, fate>>
  BY DEF Login
<1>3. PICK pc \in {"touch", "failed"}, s \in {None, row} :
        /\ login' = [login EXCEPT ![t] = [pc |-> pc, at |-> at]]
        /\ sessions' = [sessions EXCEPT ![t] = s]
        /\ pc = "touch" => s = row
  <2>1. sessions = [sessions EXCEPT ![t] = None]
    BY <1>1 DEF IInv, TypeOK
  <2>2. QED BY <1>0, <2>1 DEF InsertAdminSession, InsertAdminSessionErr
<1>4. row.expiresAt = at + TTL
  OBVIOUS
<1> HIDE DEF row, RowAt
<1>5. /\ login'[t].pc = pc /\ login'[t].at = at /\ sessions'[t] = s
      /\ \A u \in Tokens \ {t} : login'[u] = login[u] /\ sessions'[u] = sessions[u]
  BY <1>3 DEF IInv, TypeOK
<1>6. TypeOK'
  <2>1. sessions' \in [Tokens -> Session \cup {None}]
    BY <1>1, <1>3 DEF IInv, TypeOK
  <2>2. login' \in [Tokens -> [pc : {"idle", "touch", "done", "failed"}, at : Nat]]
    BY <1>1, <1>3 DEF IInv, TypeOK
  <2>3. QED BY <1>2, <2>1, <2>2 DEF IInv, TypeOK
<1>7. (\A u \in Tokens : RowOfLogin(u))'
  <2>1. ASSUME NEW u \in Tokens PROVE RowOfLogin(u)'
    <3>1. CASE u = t
      BY <1>1, <1>2, <1>3, <1>4, <1>5, <3>1 DEF RowOfLogin, ExpiresAt
    <3>2. CASE u # t
      BY <1>2, <1>5, <3>2 DEF IInv, RowOfLogin, ExpiresAt
    <3>3. QED BY <3>1, <3>2
  <2>2. QED BY <2>1
<1>8. (\A r \in Requests : RequestHolds(req[r]))'
  <2>1. \A u \in Tokens : login[u].pc = "done" => login'[u] = login[u]
    BY <1>1, <1>5
  <2>2. QED BY <1>1, <1>2, <2>1, RequestsStay
<1>9. KeysExist'
  BY <1>2 DEF IInv, KeysExist
<1>10. WithdrawnStaysDead'
  BY <1>1, <1>2, <1>5 DEF IInv, WithdrawnStaysDead, Live, IsExpired, IsRevoked
<1>11. CredentialsKept'
  <2>1. ASSUME NEW u \in Tokens, login'[u].pc = "done", now' < login'[u].at + TTL, fate'[u] = "kept"
        PROVE  Live(u)'
    <3>1. u # t
      BY <1>3, <1>5, <2>1
    <3>2. Live(u)
      BY <1>2, <1>5, <2>1, <3>1 DEF IInv, CredentialsKept, ExpiresAt
    <3>3. QED BY <1>2, <1>5, <3>1, <3>2 DEF Live, IsExpired
  <2>2. ASSUME NEW k \in shown', fate'[k] = "kept" PROVE Live(k)'
    <3>1. Live(k) /\ k \notin Tokens
      BY <1>2, <2>2 DEF IInv, TypeOK, CredentialsKept
    <3>2. QED BY <1>2, <3>1 DEF Live, IsRevoked
  <2>3. QED BY <2>1, <2>2 DEF CredentialsKept, ExpiresAt
<1>12. QED BY <1>6, <1>7, <1>8, <1>9, <1>10, <1>11 DEF IInv

(* A token is handed out with a row that is as fresh as the login.         *)
LEMMA FinishLoginInv ==
  ASSUME IInv, NEW t \in Tokens, FinishLogin(t)
  PROVE  IInv'
<1>1. /\ login[t].pc = "touch" /\ fate[t] = "kept"
      /\ now < ExpiresAt(t) => sessions[t] # None
      /\ sessions[t] # None => sessions[t].expiresAt = ExpiresAt(t)
  BY DEF FinishLogin, IInv, RowOfLogin
<1>2. /\ UNCHANGED <<now, sessions, keys, req, shown, fate>>
      /\ \E pc \in {"done", "failed"} : login' = [login EXCEPT ![t].pc = pc]
  BY DEF FinishLogin, tables
<1>3. /\ login'[t].at = login[t].at /\ login'[t].pc \in {"done", "failed"}
      /\ \A u \in Tokens \ {t} : login'[u] = login[u]
  BY <1>2 DEF IInv, TypeOK
<1>4. TypeOK'
  BY <1>2 DEF IInv, TypeOK
<1>5. (\A u \in Tokens : RowOfLogin(u))'
  <2>1. ASSUME NEW u \in Tokens PROVE RowOfLogin(u)'
    <3>1. CASE u = t
      BY <1>1, <1>2, <1>3, <3>1 DEF IInv, RowOfLogin, ExpiresAt
    <3>2. CASE u # t
      BY <1>2, <1>3, <3>2 DEF IInv, RowOfLogin, ExpiresAt
    <3>3. QED BY <3>1, <3>2
  <2>2. QED BY <2>1
<1>6. (\A r \in Requests : RequestHolds(req[r]))'
  <2>1. now \in Nat /\ \A u \in Tokens : login[u].pc = "done" => login'[u] = login[u]
    BY <1>1, <1>3 DEF IInv, TypeOK
  <2>2. QED BY <1>2, <2>1, RequestsStay
<1>7. KeysExist' /\ WithdrawnStaysDead'
  BY <1>2 DEF IInv, KeysExist, WithdrawnStaysDead, Live, IsExpired, IsRevoked
<1>8. CredentialsKept'
  <2>1. ASSUME NEW u \in Tokens, login'[u].pc = "done", now' < login'[u].at + TTL, fate'[u] = "kept"
        PROVE  Live(u)'
    <3>1. now \in Nat /\ ExpiresAt(u) \in Nat /\ now < ExpiresAt(u)
      BY <1>2, <1>3, <2>1 DEF IInv, TypeOK, ExpiresAt
    <3>2. Live(u)
      <4>1. CASE u = t
        BY <1>1, <3>1, <4>1 DEF Live, IsExpired
      <4>2. CASE u # t
        BY <1>2, <1>3, <2>1, <3>1, <4>2 DEF IInv, CredentialsKept
      <4>3. QED BY <4>1, <4>2
    <3>3. QED BY <1>2, <3>2 DEF Live, IsExpired
  <2>2. ASSUME NEW k \in shown', fate'[k] = "kept" PROVE Live(k)'
    <3>1. Live(k) /\ k \notin Tokens
      BY <1>2, <2>2 DEF IInv, TypeOK, CredentialsKept
    <3>2. QED BY <1>2, <3>1 DEF Live, IsRevoked
  <2>3. QED BY <2>1, <2>2 DEF CredentialsKept, ExpiresAt
<1>9. QED BY <1>4, <1>5, <1>6, <1>7, <1>8 DEF IInv

(* A session that goes because it is over, or out of a janitor's sight.    *)
LEMMA SessionsGoInv ==
  ASSUME IInv, NEW S \in SUBSET Tokens,
         \A t \in S : sessions[t] # None => now >= sessions[t].expiresAt,
         sessions' = [t \in Tokens |-> IF t \in S THEN None ELSE sessions[t]],
         UNCHANGED <<now, keys, login, shown, fate>>,
         req' \in [Requests -> Request], (\A r \in Requests : RequestHolds(req[r]))'
  PROVE  IInv'
<1>1. TypeOK'
  BY DEF IInv, TypeOK
<1>2. ASSUME NEW t \in Tokens
      PROVE  /\ sessions'[t] \in {None, sessions[t]}
             /\ now < ExpiresAt(t) => sessions'[t] = sessions[t]
  <2>1. now \in Nat /\ ExpiresAt(t) \in Nat
    BY DEF IInv, TypeOK, ExpiresAt
  <2>2. QED BY <2>1 DEF IInv, RowOfLogin
<1>3. (\A t \in Tokens : RowOfLogin(t))'
  BY <1>2 DEF IInv, RowOfLogin, ExpiresAt
<1>4. KeysExist'
  BY DEF IInv, KeysExist
<1>5. WithdrawnStaysDead'
  BY <1>2 DEF IInv, WithdrawnStaysDead, Live, IsExpired, IsRevoked
<1>6. CredentialsKept'
  <2>1. ASSUME NEW t \in Tokens, Live(t), now < ExpiresAt(t) PROVE Live(t)'
    BY <1>2, <2>1 DEF Live, IsExpired
  <2>2. ASSUME NEW k \in shown, Live(k) PROVE Live(k)'
    <3>1. k \notin Tokens
      BY DEF IInv, TypeOK
    <3>2. QED BY <2>2, <3>1 DEF Live, IsRevoked
  <2>3. QED BY <2>1, <2>2 DEF IInv, CredentialsKept, ExpiresAt
<1>7. QED BY <1>1, <1>3, <1>4, <1>5, <1>6 DEF IInv

(* However late its DELETE, the janitor removes sessions that are over.    *)
LEMMA JanitorInv ==
  ASSUME IInv, NEW before \in 0..now, SessionJanitor(before)
  PROVE  IInv'
<1>1. /\ sessions' = [t \in Tokens |-> IF t \in ExpiredSessions(before) THEN None ELSE sessions[t]]
      /\ UNCHANGED <<now, keys, login, req, shown, fate>>
  BY DEF SessionJanitor, DeleteExpiredAdminSessions
<1>2. now \in Nat /\ req \in [Requests -> Request]
  BY DEF IInv, TypeOK
<1>3. ExpiredSessions(before) \subseteq Tokens
  BY DEF ExpiredSessions
<1>4. ASSUME NEW t \in ExpiredSessions(before), sessions[t] # None
      PROVE  now >= sessions[t].expiresAt
  <2>1. sessions[t] \in Session
    BY <1>3, <1>4 DEF IInv, TypeOK
  <2>2. QED BY <1>2, <2>1 DEF ExpiredSessions, Session
<1>5. (\A r \in Requests : RequestHolds(req[r]))'
  BY <1>1, <1>2, RequestsStay
<1>6. QED BY <1>1, <1>2, <1>3, <1>4, <1>5, SessionsGoInv

(* Time brings nothing back.                                               *)
LEMMA TickInv ==
  ASSUME IInv, Tick
  PROVE  IInv'
<1>1. now \in Nat /\ now' = now + 1 /\ UNCHANGED <<sessions, keys, login, req, shown, fate>>
  BY DEF Tick, tables, IInv, TypeOK
<1>2. TypeOK'
  BY <1>1 DEF IInv, TypeOK
<1>3. (\A t \in Tokens : RowOfLogin(t))'
  <2>1. ASSUME NEW t \in Tokens PROVE RowOfLogin(t)'
    <3>1. login[t].at \in Nat
      BY DEF IInv, TypeOK
    <3>2. QED BY <1>1, <3>1 DEF IInv, RowOfLogin, ExpiresAt
  <2>2. QED BY <2>1
<1>4. (\A r \in Requests : RequestHolds(req[r]))'
  BY <1>1, RequestsStay
<1>5. KeysExist'
  BY <1>1 DEF IInv, KeysExist
<1>6. ASSUME NEW t \in Tokens, sessions[t] # None PROVE sessions[t].expiresAt \in Nat
  BY <1>6 DEF IInv, TypeOK, Session
<1>7. WithdrawnStaysDead'
  <2>1. ASSUME NEW c \in Creds, ~Live(c) PROVE ~Live(c)'
    BY <1>1, <1>6, <2>1 DEF Live, IsExpired, IsRevoked
  <2>2. QED BY <1>1, <2>1 DEF IInv, WithdrawnStaysDead
<1>8. CredentialsKept'
  <2>1. ASSUME NEW t \in Tokens, login[t].pc = "done", now + 1 < login[t].at + TTL, fate[t] = "kept"
        PROVE  Live(t)'
    <3>1. now < ExpiresAt(t) /\ now + 1 < ExpiresAt(t) /\ ExpiresAt(t) \in Nat
      BY <1>1, <2>1 DEF IInv, TypeOK, ExpiresAt
    <3>2. sessions[t] # None
      BY <2>1, <3>1 DEF IInv, CredentialsKept, Live
    <3>3. sessions[t].expiresAt = ExpiresAt(t)
      BY <3>2 DEF IInv, RowOfLogin
    <3>4. QED BY <1>1, <3>1, <3>2, <3>3 DEF Live, IsExpired
  <2>2. ASSUME NEW k \in shown, fate[k] = "kept" PROVE Live(k)'
    <3>1. Live(k) /\ k \notin Tokens
      BY <2>2 DEF IInv, TypeOK, CredentialsKept
    <3>2. QED BY <1>1, <3>1 DEF Live, IsRevoked
  <2>3. QED BY <1>1, <2>1, <2>2 DEF CredentialsKept, ExpiresAt
<1>9. QED BY <1>2, <1>3, <1>4, <1>5, <1>7, <1>8 DEF IInv

-----------------------------------------------------------------------------
(* Requests that leave the tables alone.                                   *)

LEMMA TablesKept ==
  ASSUME IInv, NEW r \in Requests, NEW q \in Request, req' = [req EXCEPT ![r] = q],
         UNCHANGED <<now, tables, login, shown, fate>>, RequestHolds(q)
  PROVE  IInv'
<1>1. UNCHANGED <<now, sessions, keys, login, shown, fate>>
  BY DEF tables
<1>2. /\ req' \in [Requests -> Request]
      /\ (\A s \in Requests : RequestHolds(req[s]))'
  BY <1>1, OneRequest
<1>3. sessions' = [t \in Tokens |-> IF t \in {} THEN None ELSE sessions[t]]
  BY <1>1 DEF IInv, TypeOK
<1>4. QED BY <1>1, <1>2, <1>3, SessionsGoInv

LEMMA FindSessionInv ==
  ASSUME IInv, NEW r \in Requests, NEW t \in Tokens, FindSession(r, t)
  PROVE  IInv'
<1> DEFINE q == [pc |-> "decide", cred |-> t, until |-> sessions[t].expiresAt, late |-> ~Live(t)]
<1>1. /\ login[t].pc = "done" /\ sessions[t] # None /\ req' = [req EXCEPT ![r] = q]
      /\ UNCHANGED <<now, tables, login, shown, fate>>
  BY DEF FindSession, FindAdminSessionByTokenHash
<1>2. sessions[t].expiresAt \in Nat /\ sessions[t].expiresAt = ExpiresAt(t)
  BY <1>1 DEF IInv, TypeOK, RowOfLogin, Session
<1>3. Live(t) = ~(now > sessions[t].expiresAt)
  BY <1>1 DEF Live, IsExpired
<1>4. /\ q.pc = "decide" /\ q.cred = t /\ q.until = sessions[t].expiresAt /\ q.late = ~Live(t)
      /\ q \in Request
  BY <1>2, <1>3 DEF Request, Creds
<1> HIDE DEF q
<1>5. RequestHolds(q)
  BY <1>1, <1>2, <1>3, <1>4 DEF RequestHolds
<1>6. QED BY <1>1, <1>4, <1>5, TablesKept

(* The clock decides, and it only moves on: what was over when it was read *)
(* is over now.                                                            *)
LEMMA DecideInv ==
  ASSUME IInv, NEW r \in Requests, Decide(r)
  PROVE  IInv'
<1>1. /\ req[r].pc = "decide" /\ req[r] \in Request /\ RequestHolds(req[r])
      /\ UNCHANGED <<now, tables, login, shown, fate>>
  BY DEF Decide, IInv, TypeOK
<1>2. CASE req' = [req EXCEPT ![r] = NoRequest]
  BY <1>1, <1>2, NothingHeld, TablesKept
<1>3. CASE IsExpired(req[r].until) /\ req' = [req EXCEPT ![r].pc = "expired"]
  <2> DEFINE q == [req[r] EXCEPT !.pc = "expired"]
  <2>1. /\ q \in Request /\ q.pc = "expired" /\ q.cred = req[r].cred /\ q.until = req[r].until
        /\ req' = [req EXCEPT ![r] = q]
    BY <1>1, <1>3 DEF Request
  <2> HIDE DEF q
  <2>2. RequestHolds(q)
    BY <1>1, <1>3, <2>1 DEF RequestHolds, IsExpired
  <2>3. QED BY <1>1, <2>1, <2>2, TablesKept
<1>4. CASE ~IsExpired(req[r].until) /\ req' = [req EXCEPT ![r].pc = "touch"]
  <2> DEFINE q == [req[r] EXCEPT !.pc = "touch"]
  <2>1. /\ q \in Request /\ q.pc = "touch" /\ q.cred = req[r].cred /\ q.until = req[r].until
        /\ q.late = req[r].late /\ req' = [req EXCEPT ![r] = q]
    BY <1>1, <1>4 DEF Request
  <2> HIDE DEF q
  <2>2. RequestHolds(q)
    BY <1>1, <1>4, <2>1 DEF RequestHolds, IsExpired
  <2>3. QED BY <1>1, <2>1, <2>2, TablesKept
<1>5. QED BY <1>2, <1>3, <1>4 DEF Decide

LEMMA FindAPIKeyInv ==
  ASSUME IInv, NEW r \in Requests, NEW k \in Keys, FindAPIKey(r, k)
  PROVE  IInv'
<1> DEFINE q == [pc |-> "touchkey", cred |-> k, until |-> 0, late |-> ~Live(k)]
<1>1. /\ k \in shown /\ ~keys[k].revoked /\ req' = [req EXCEPT ![r] = q]
      /\ UNCHANGED <<now, tables, login, shown, fate>>
  BY DEF FindAPIKey, FindAPIKeyByTokenHash, IsRevoked
<1>2. Live(k)
  BY <1>1 DEF IInv, KeysExist, Live, IsRevoked
<1>3. q \in Request /\ q.pc = "touchkey" /\ q.cred = k /\ ~q.late
  BY <1>2 DEF Request, Creds
<1> HIDE DEF q
<1>4. RequestHolds(q)
  BY <1>1, <1>3 DEF RequestHolds
<1>5. QED BY <1>1, <1>3, <1>4, TablesKept

LEMMA LeaveInv ==
  ASSUME IInv, NEW r \in Requests, Serve(r) \/ Abandon(r)
  PROVE  IInv'
<1>1. req' = [req EXCEPT ![r] = NoRequest] /\ UNCHANGED <<now, tables, login, shown, fate>>
  BY DEF Serve, Handles, Abandon
<1>2. QED BY <1>1, NothingHeld, TablesKept

-----------------------------------------------------------------------------
(* Requests that change a table.                                           *)

(* The row that is deleted is of a session that is over.                   *)
LEMMA DropExpiredInv ==
  ASSUME IInv, NEW r \in Requests, DropExpired(r)
  PROVE  IInv'
<1>1. /\ req[r].pc = "expired" /\ req' = [req EXCEPT ![r] = NoRequest]
      /\ UNCHANGED <<now, keys, login, shown, fate>>
      /\ sessions' = sessions \/ sessions' = [sessions EXCEPT ![req[r].cred] = None]
  BY DEF DropExpired, DeleteAdminSession, DeleteAdminSessionErr
<1>2. /\ req[r].cred \in Tokens /\ now > req[r].until /\ req[r].until = ExpiresAt(req[r].cred)
      /\ req[r].until \in Nat /\ now \in Nat
  BY <1>1 DEF IInv, TypeOK, Request, RequestHolds
<1>3. sessions[req[r].cred] # None => now >= sessions[req[r].cred].expiresAt
  BY <1>2 DEF IInv, RowOfLogin
<1>4. /\ req' \in [Requests -> Request]
      /\ (\A s \in Requests : RequestHolds(req[s]))'
  BY <1>1, NothingHeld, OneRequest
<1>5. PICK S \in {{}, {req[r].cred}} :
        sessions' = [t \in Tokens |-> IF t \in S THEN None ELSE sessions[t]]
  <2>1. sessions = [t \in Tokens |-> IF t \in {} THEN None ELSE sessions[t]]
    BY DEF IInv, TypeOK
  <2>2. [sessions EXCEPT ![req[r].cred] = None]
          = [t \in Tokens |-> IF t \in {req[r].cred} THEN None ELSE sessions[t]]
    BY DEF IInv, TypeOK
  <2>3. QED BY <1>1, <2>1, <2>2
<1>6. S \in SUBSET Tokens /\ \A t \in S : sessions[t] # None => now >= sessions[t].expiresAt
  BY <1>2, <1>3, <1>5
<1>7. QED BY <1>1, <1>4, <1>5, <1>6, SessionsGoInv

(* Marking a row as used changes nothing that others rely on.              *)
LEMMA UseKept ==
  ASSUME IInv, UNCHANGED <<now, login, shown, fate>>,
         sessions' \in [Tokens -> Session \cup {None}], keys' \in [Keys -> APIKey \cup {None}],
         \A t \in Tokens :
           /\ sessions'[t] = None <=> sessions[t] = None
           /\ sessions[t] # None => sessions'[t].expiresAt = sessions[t].expiresAt,
         \A k \in Keys :
           /\ keys'[k] = None <=> keys[k] = None
           /\ keys[k] # None => keys'[k].revoked = keys[k].revoked,
         req' \in [Requests -> Request], (\A r \in Requests : RequestHolds(req[r]))'
  PROVE  IInv'
<1>1. TypeOK'
  BY DEF IInv, TypeOK
<1>2. (\A t \in Tokens : RowOfLogin(t))'
  BY DEF IInv, RowOfLogin, ExpiresAt
<1>3. KeysExist'
  BY DEF IInv, TypeOK, KeysExist
<1>4. ASSUME NEW c \in Creds PROVE Live(c)' <=> Live(c)
  <2>1. CASE c \in Tokens
    BY <2>1 DEF Live, IsExpired
  <2>2. CASE c \notin Tokens
    <3>1. c \in Keys
      BY <2>2 DEF Creds
    <3>2. QED BY <2>2, <3>1 DEF Live, IsRevoked
  <2>3. QED BY <2>1, <2>2
<1>5. WithdrawnStaysDead'
  BY <1>4 DEF IInv, WithdrawnStaysDead
<1>6. CredentialsKept'
  <2>1. Tokens \subseteq Creds /\ shown \subseteq Creds
    BY DEF IInv, TypeOK, Creds
  <2>2. QED BY <1>4, <2>1 DEF IInv, CredentialsKept, ExpiresAt
<1>7. QED BY <1>1, <1>2, <1>3, <1>5, <1>6 DEF IInv

(* A session that was deleted in between is not brought back.              *)
LEMMA TouchInv ==
  ASSUME IInv, NEW r \in Requests, Touch(r)
  PROVE  IInv'
<1> DEFINE t == req[r].cred
<1>1. /\ req[r].pc = "touch" /\ UNCHANGED <<now, keys, login, shown, fate>>
      /\ \/ sessions' = sessions
         \/ sessions[t] # None /\ sessions' = [sessions EXCEPT ![t].used = TRUE]
  BY DEF Touch, TouchAdminSession
<1>2. PICK q \in {[req[r] EXCEPT !.pc = "accepted"], NoRequest} : req' = [req EXCEPT ![r] = q]
  BY DEF Touch, IInv, TypeOK
<1>3. req[r] \in Request /\ RequestHolds(req[r]) /\ t \in Tokens
  BY <1>1 DEF IInv, TypeOK, RequestHolds
<1>4. q \in Request /\ RequestHolds(q)
  <2>1. CASE q = NoRequest
    BY <2>1, NothingHeld
  <2>2. CASE q = [req[r] EXCEPT !.pc = "accepted"]
    <3>1. q \in Request /\ q.pc = "accepted" /\ q.cred = req[r].cred /\ q.late = req[r].late
      BY <1>3, <2>2 DEF Request
    <3>2. QED BY <1>1, <1>3, <3>1 DEF RequestHolds
  <2>3. QED BY <2>1, <2>2
<1>5. /\ req' \in [Requests -> Request]
      /\ (\A s \in Requests : RequestHolds(req[s]))'
  BY <1>1, <1>2, <1>4, OneRequest
<1>6. /\ sessions' \in [Tokens -> Session \cup {None}]
      /\ \A u \in Tokens :
           /\ sessions'[u] = None <=> sessions[u] = None
           /\ sessions[u] # None => sessions'[u].expiresAt = sessions[u].expiresAt
  <2>1. CASE sessions' = sessions
    BY <2>1 DEF IInv, TypeOK
  <2>2. CASE sessions[t] # None /\ sessions' = [sessions EXCEPT ![t].used = TRUE]
    <3> DEFINE row == [sessions[t] EXCEPT !.used = TRUE]
    <3>1. sessions[t] \in Session
      BY <1>3, <2>2 DEF IInv, TypeOK
    <3>2. row \in Session /\ row.expiresAt = sessions[t].expiresAt /\ row # None
      BY <3>1 DEF Session
    <3>3. sessions' = [sessions EXCEPT ![t] = row]
      BY <2>2
    <3> HIDE DEF row
    <3>4. sessions \in [Tokens -> Session \cup {None}]
      BY DEF IInv, TypeOK
    <3>5. \A u \in Tokens : sessions'[u] = IF u = t THEN row ELSE sessions[u]
      BY <3>3, <3>4
    <3>6. sessions' \in [Tokens -> Session \cup {None}]
      BY <1>3, <3>2, <3>3, <3>4
    <3>7. QED BY <2>2, <3>2, <3>5, <3>6
  <2>3. QED BY <1>1, <2>1, <2>2
<1>7. QED BY <1>1, <1>5, <1>6, UseKept DEF IInv, TypeOK

(* A key that was revoked in between stays revoked.                        *)
LEMMA TouchKeyInv ==
  ASSUME IInv, NEW r \in Requests, TouchKey(r)
  PROVE  IInv'
<1> DEFINE k == req[r].cred
<1>1. /\ req[r].pc = "touchkey" /\ UNCHANGED <<now, sessions, login, shown, fate>>
      /\ keys' = keys \/ keys' = [keys EXCEPT ![k].used = TRUE]
  BY DEF TouchKey, TouchAPIKey
<1>2. PICK q \in {[req[r] EXCEPT !.pc = "accepted"], NoRequest} : req' = [req EXCEPT ![r] = q]
  BY DEF TouchKey, IInv, TypeOK
<1>3. req[r] \in Request /\ RequestHolds(req[r]) /\ k \in shown /\ k \in Keys /\ keys[k] # None
  BY <1>1 DEF IInv, TypeOK, RequestHolds, KeysExist
<1>4. q \in Request /\ RequestHolds(q)
  <2>1. CASE q = NoRequest
    BY <2>1, NothingHeld
  <2>2. CASE q = [req[r] EXCEPT !.pc = "accepted"]
    <3>1. q \in Request /\ q.pc = "accepted" /\ q.cred = req[r].cred /\ q.late = req[r].late
      BY <1>3, <2>2 DEF Request
    <3>2. QED BY <1>1, <1>3, <3>1 DEF RequestHolds
  <2>3. QED BY <2>1, <2>2
<1>5. /\ req' \in [Requests -> Request]
      /\ (\A s \in Requests : RequestHolds(req[s]))'
  BY <1>1, <1>2, <1>4, OneRequest
<1>6. /\ keys' \in [Keys -> APIKey \cup {None}]
      /\ \A l \in Keys :
           /\ keys'[l] = None <=> keys[l] = None
           /\ keys[l] # None => keys'[l].revoked = keys[l].revoked
  <2>1. CASE keys' = keys
    BY <2>1 DEF IInv, TypeOK
  <2>2. CASE keys' = [keys EXCEPT ![k].used = TRUE]
    <3> DEFINE row == [keys[k] EXCEPT !.used = TRUE]
    <3>1. keys[k] \in APIKey
      BY <1>3 DEF IInv, TypeOK
    <3>2. row \in APIKey /\ row.revoked = keys[k].revoked /\ row # None
      BY <3>1 DEF APIKey
    <3>3. keys' = [keys EXCEPT ![k] = row]
      BY <2>2
    <3> HIDE DEF row
    <3>4. keys \in [Keys -> APIKey \cup {None}]
      BY DEF IInv, TypeOK
    <3>5. \A l \in Keys : keys'[l] = IF l = k THEN row ELSE keys[l]
      BY <3>3, <3>4
    <3>6. keys' \in [Keys -> APIKey \cup {None}]
      BY <1>3, <3>2, <3>3, <3>4
    <3>7. QED BY <1>3, <3>2, <3>5, <3>6
  <2>3. QED BY <1>1, <2>1, <2>2
<1>7. QED BY <1>1, <1>5, <1>6, UseKept DEF IInv, TypeOK

(* Steps that withdraw one credential, or try to.                          *)
LEMMA WithdrawInv ==
  ASSUME IInv, NEW c \in Creds, UNCHANGED <<now, login, shown>>,
         c \in Tokens => login[c].pc = "done",
         c \notin Tokens => keys[c] # None,
         sessions' \in [Tokens -> Session \cup {None}], keys' \in [Keys -> APIKey \cup {None}],
         \A t \in Tokens : sessions'[t] = sessions[t] \/ (t = c /\ sessions'[t] = None),
         \A k \in Keys : keys'[k] = keys[k] \/ (k = c /\ keys'[k] # None /\ keys'[k].revoked),
         NEW f \in {"sent", "withdrawn"}, fate' = [fate EXCEPT ![c] = f],
         f = "withdrawn" => ~Live(c)',
         req' \in [Requests -> Request], (\A r \in Requests : RequestHolds(req[r]))'
  PROVE  IInv'
<1>1. TypeOK'
  BY DEF IInv, TypeOK
<1>2. /\ fate'[c] = f
      /\ \A d \in Creds \ {c} : fate'[d] = fate[d]
      /\ Creds = Tokens \cup Keys
  BY DEF IInv, TypeOK, Creds
<1>3. (\A t \in Tokens : RowOfLogin(t))'
  <2>1. ASSUME NEW t \in Tokens PROVE RowOfLogin(t)'
    <3>1. CASE t = c
      BY <1>2, <3>1 DEF IInv, RowOfLogin, ExpiresAt
    <3>2. CASE t # c
      BY <1>2, <3>2 DEF IInv, RowOfLogin, ExpiresAt
    <3>3. QED BY <3>1, <3>2
  <2>2. QED BY <2>1
<1>4. KeysExist'
  <2>1. ASSUME NEW k \in Keys PROVE keys'[k] = None <=> keys[k] = None
    BY DEF IInv, TypeOK
  <2>2. ASSUME NEW k \in Keys, keys[k] = None PROVE k # c
    BY <2>2
  <2>3. QED BY <1>2, <2>1, <2>2 DEF IInv, TypeOK, KeysExist
<1>5. ASSUME NEW d \in Creds, d # c PROVE Live(d)' <=> Live(d)
  <2>1. CASE d \in Tokens
    BY <1>5, <2>1 DEF Live, IsExpired
  <2>2. CASE d \notin Tokens
    BY <1>2, <1>5, <2>2 DEF Live, IsRevoked
  <2>3. QED BY <2>1, <2>2
<1>6. WithdrawnStaysDead'
  BY <1>2, <1>5 DEF IInv, WithdrawnStaysDead
<1>7. CredentialsKept'
  BY <1>2, <1>5 DEF IInv, TypeOK, CredentialsKept, ExpiresAt
<1>8. QED BY <1>1, <1>3, <1>4, <1>6, <1>7 DEF IInv

(* The session that was accepted is deleted, by its own request alone.     *)
LEMMA LogoutInv ==
  ASSUME IInv, NEW r \in Requests, Logout(r)
  PROVE  IInv'
<1>1. PICK t \in Tokens : t = req[r].cred
  BY DEF Logout, HandlesAdmin
<1>2. /\ t \in Tokens /\ req[r].pc = "accepted" /\ req' = [req EXCEPT ![r] = NoRequest]
      /\ UNCHANGED <<now, keys, login, shown>>
  BY DEF Logout, HandlesAdmin, Handles
<1>3. login[t].pc = "done" /\ t \in Creds
  BY <1>1, <1>2 DEF IInv, TypeOK, RequestHolds, Creds
<1>4. /\ req' \in [Requests -> Request]
      /\ (\A s \in Requests : RequestHolds(req[s]))'
  BY <1>2, NothingHeld, OneRequest
<1>5. PICK f \in {"sent", "withdrawn"} :
        /\ fate' = [fate EXCEPT ![t] = f]
        /\ f = "withdrawn" => sessions'[t] = None \/ ~Live(t)
        /\ sessions' = sessions \/ sessions' = [sessions EXCEPT ![t] = None]
  <2>1. CASE DeleteAdminSession(t) /\ Withdrawn(t)
    <3>1. sessions'[t] = None
      BY <1>2, <2>1 DEF DeleteAdminSession, IInv, TypeOK
    <3>2. QED BY <2>1, <3>1 DEF DeleteAdminSession, Withdrawn
  <2>2. CASE DeleteAdminSessionErr(t) /\ Sent(t)
    <3>1. PICK f \in {"sent", "withdrawn"} :
            fate' = [fate EXCEPT ![t] = f] /\ (f = "withdrawn" => fate[t] = "withdrawn")
      BY <1>3, <2>2 DEF Sent, IInv, TypeOK
    <3>2. fate[t] = "withdrawn" => ~Live(t)
      BY <1>3 DEF IInv, WithdrawnStaysDead
    <3>3. QED BY <2>2, <3>1, <3>2 DEF DeleteAdminSessionErr, DeleteAdminSession
  <2>3. QED BY <1>1, <2>1, <2>2 DEF Logout
<1>6. /\ sessions' \in [Tokens -> Session \cup {None}]
      /\ \A u \in Tokens : sessions'[u] = sessions[u] \/ (u = t /\ sessions'[u] = None)
  BY <1>5 DEF IInv, TypeOK
<1>7. f = "withdrawn" => ~Live(t)'
  BY <1>2, <1>5, <1>6 DEF Live, IsExpired
<1>8. keys' \in [Keys -> APIKey \cup {None}] /\ \A k \in Keys : keys'[k] = keys[k]
  BY <1>2 DEF IInv, TypeOK
<1>9. UNCHANGED <<now, login, shown>>
  BY <1>2
<1>20. QED BY <1>2, <1>3, <1>4, <1>5, <1>6, <1>7, <1>8, <1>9, WithdrawInv

(* A revocation that was answered has revoked the key.                     *)
LEMMA RevokeKeyInv ==
  ASSUME IInv, NEW r \in Requests, NEW k \in Keys, RevokeKey(r, k)
  PROVE  IInv'
<1>1. /\ keys[k] # None /\ req' = [req EXCEPT ![r] = NoRequest]
      /\ UNCHANGED <<now, sessions, login, shown>>
      /\ k \in Creds /\ k \notin Tokens
  BY DEF RevokeKey, HandlesAdmin, Handles, Creds
<1>2. /\ req' \in [Requests -> Request]
      /\ (\A s \in Requests : RequestHolds(req[s]))'
  BY <1>1, NothingHeld, OneRequest
<1> DEFINE row == [keys[k] EXCEPT !.revoked = TRUE]
<1>3. row \in APIKey /\ row # None /\ row.revoked
  <2>1. keys[k] \in APIKey
    BY <1>1 DEF IInv, TypeOK
  <2>2. QED BY <2>1 DEF APIKey
<1>4. keys' = keys \/ keys' = [keys EXCEPT ![k] = row]
  BY DEF RevokeKey, RevokeAPIKeyErr, RevokeAPIKey
<1>5. PICK f \in {"sent", "withdrawn"} :
        /\ fate' = [fate EXCEPT ![k] = f]
        /\ f = "withdrawn" => keys' = [keys EXCEPT ![k] = row] \/ ~Live(k)
  <2>1. CASE RevokeAPIKey(k) /\ Withdrawn(k)
    BY <2>1 DEF RevokeAPIKey, Withdrawn
  <2>2. CASE RevokeAPIKeyErr(k) /\ Sent(k)
    <3>1. PICK f \in {"sent", "withdrawn"} :
            fate' = [fate EXCEPT ![k] = f] /\ (f = "withdrawn" => fate[k] = "withdrawn")
      BY <1>1, <2>2 DEF Sent, IInv, TypeOK
    <3>2. fate[k] = "withdrawn" => ~Live(k)
      BY <1>1 DEF IInv, WithdrawnStaysDead
    <3>3. QED BY <3>1, <3>2
  <2>3. QED BY <2>1, <2>2 DEF RevokeKey
<1> HIDE DEF row
<1>6. keys' \in [Keys -> APIKey \cup {None}]
  BY <1>3, <1>4 DEF IInv, TypeOK
<1>7. \A l \in Keys : keys'[l] = keys[l] \/ (l = k /\ keys'[l] = row)
  BY <1>4 DEF IInv, TypeOK
<1>8. f = "withdrawn" => ~Live(k)'
  <2>1. CASE keys' = [keys EXCEPT ![k] = row]
    <3>1. keys'[k] = row
      BY <2>1 DEF IInv, TypeOK
    <3>2. QED BY <1>1, <1>3, <3>1 DEF Live, IsRevoked
  <2>2. CASE keys' = keys
    <3>1. keys'[k] = keys[k]
      BY <2>2
    <3>2. row = keys[k] => keys[k].revoked
      BY <1>3
    <3>3. f = "withdrawn" => keys[k] = row \/ ~Live(k)
      <4>1. [keys EXCEPT ![k] = row][k] = row
        BY DEF IInv, TypeOK
      <4>2. QED BY <1>5, <2>2, <4>1
    <3>4. QED BY <1>1, <3>1, <3>2, <3>3 DEF Live, IsRevoked
  <2>3. QED BY <1>4, <2>1, <2>2
<1>9. /\ sessions' \in [Tokens -> Session \cup {None}]
      /\ \A t \in Tokens : sessions'[t] = sessions[t]
      /\ \A l \in Keys : keys'[l] = keys[l] \/ (l = k /\ keys'[l] # None /\ keys'[l].revoked)
  BY <1>1, <1>3, <1>7 DEF IInv, TypeOK
<1>10. QED BY <1>1, <1>2, <1>5, <1>6, <1>8, <1>9, WithdrawInv

(* A key appears, whether or not its creator gets to see it.               *)
LEMMA CreateKeyInv ==
  ASSUME IInv, NEW r \in Requests, NEW k \in Keys, CreateKey(r, k)
  PROVE  IInv'
<1> DEFINE row == [revoked |-> FALSE, used |-> FALSE]
<1>1. /\ keys[k] = None /\ req' = [req EXCEPT ![r] = NoRequest]
      /\ UNCHANGED <<now, sessions, login, fate>>
      /\ k \in Creds /\ k \notin Tokens
  BY DEF CreateKey, HandlesAdmin, Handles, Creds
<1>2. /\ \/ keys' = [keys EXCEPT ![k] = row] /\ shown' = shown \cup {k}
         \/ (keys' = keys \/ keys' = [keys EXCEPT ![k] = row]) /\ shown' = shown
  BY DEF CreateKey, InsertAPIKey, InsertAPIKeyErr
<1>3. /\ req' \in [Requests -> Request]
      /\ (\A s \in Requests : RequestHolds(req[s]))'
  BY <1>1, <1>2, NothingHeld, OneRequest
<1>4. row \in APIKey /\ row # None /\ ~row.revoked
  <2>1. row \in APIKey
    BY DEF APIKey
  <2>2. QED BY <2>1
<1> HIDE DEF row
<1>5. /\ k \notin shown /\ fate[k] = "kept"
      /\ \A l \in Keys \ {k} : keys'[l] = keys[l]
      /\ keys'[k] \in {None, row} /\ (k \in shown' => keys'[k] = row)
  BY <1>1, <1>2 DEF IInv, TypeOK, KeysExist
<1>6. TypeOK'
  <2>1. keys' \in [Keys -> APIKey \cup {None}]
    BY <1>2, <1>4 DEF IInv, TypeOK
  <2>2. QED BY <1>1, <1>2, <1>3, <2>1 DEF IInv, TypeOK
<1>7. (\A t \in Tokens : RowOfLogin(t))'
  BY <1>1 DEF IInv, RowOfLogin, ExpiresAt
<1>8. KeysExist'
  BY <1>1, <1>2, <1>4, <1>5 DEF IInv, TypeOK, KeysExist
<1>9. ASSUME NEW c \in Creds, c # k PROVE Live(c)' <=> Live(c)
  <2>1. CASE c \in Tokens
    BY <1>1, <2>1 DEF Live, IsExpired
  <2>2. CASE c \notin Tokens
    <3>1. c \in Keys
      BY <2>2 DEF Creds
    <3>2. QED BY <1>5, <1>9, <2>2, <3>1 DEF Live, IsRevoked
  <2>3. QED BY <2>1, <2>2
<1>10. WithdrawnStaysDead'
  BY <1>1, <1>5, <1>9 DEF IInv, WithdrawnStaysDead
<1>11. CredentialsKept'
  <2>1. ASSUME NEW t \in Tokens, login[t].pc = "done", now < ExpiresAt(t), fate[t] = "kept"
        PROVE  Live(t)'
    <3>1. t \in Creds /\ t # k
      BY <1>1 DEF Creds
    <3>2. QED BY <1>9, <2>1, <3>1 DEF IInv, CredentialsKept
  <2>2. ASSUME NEW l \in shown', fate[l] = "kept" PROVE Live(l)'
    <3>1. CASE l = k
      BY <1>1, <1>4, <1>5, <3>1 DEF Live, IsRevoked
    <3>2. CASE l # k
      <4>1. l \in shown /\ l \in Creds
        BY <1>2, <3>2 DEF IInv, TypeOK, Creds
      <4>2. QED BY <1>9, <2>2, <3>2, <4>1 DEF IInv, CredentialsKept
    <3>3. QED BY <3>1, <3>2
  <2>3. QED BY <1>1, <2>1, <2>2 DEF CredentialsKept, ExpiresAt
<1>12. QED BY <1>3, <1>6, <1>7, <1>8, <1>10, <1>11 DEF IInv

-----------------------------------------------------------------------------
(* Every step keeps the invariant.                                         *)
LEMMA NextInv == IInv /\ [Next]_vars => IInv'
<1> SUFFICES ASSUME IInv, [Next]_vars PROVE IInv'
  OBVIOUS
<1>1. ASSUME Tick PROVE IInv'
  BY <1>1, TickInv
<1>2. ASSUME NEW before \in 0..now, SessionJanitor(before) PROVE IInv'
  BY <1>2, JanitorInv
<1>3. ASSUME NEW t \in Tokens, Login(t) \/ FinishLogin(t) PROVE IInv'
  BY <1>3, LoginInv, FinishLoginInv
<1>4. ASSUME NEW r \in Requests, NEW t \in Tokens, FindSession(r, t) PROVE IInv'
  BY <1>4, FindSessionInv
<1>5. ASSUME NEW r \in Requests, NEW k \in Keys,
             FindAPIKey(r, k) \/ CreateKey(r, k) \/ RevokeKey(r, k)
      PROVE  IInv'
  BY <1>5, FindAPIKeyInv, CreateKeyInv, RevokeKeyInv
<1>6. ASSUME NEW r \in Requests,
             \/ Decide(r) \/ DropExpired(r) \/ Touch(r) \/ TouchKey(r)
             \/ Serve(r) \/ Logout(r) \/ Abandon(r)
      PROVE  IInv'
  BY <1>6, DecideInv, DropExpiredInv, TouchInv, TouchKeyInv, LeaveInv, LogoutInv
<1>7. CASE UNCHANGED vars
  <2>1. UNCHANGED <<now, sessions, keys, login, req, shown, fate>>
    BY <1>7 DEF vars, tables
  <2>2. sessions' = [t \in Tokens |-> IF t \in {} THEN None ELSE sessions[t]]
    BY <2>1 DEF IInv, TypeOK
  <2>3. req' \in [Requests -> Request] /\ now \in Nat
    BY <2>1 DEF IInv, TypeOK
  <2>4. (\A r \in Requests : RequestHolds(req[r]))'
    BY <2>1, <2>3, RequestsStay
  <2>5. QED BY <2>1, <2>2, <2>3, <2>4, SessionsGoInv
<1>8. QED BY <1>1, <1>2, <1>3, <1>4, <1>5, <1>6, <1>7 DEF Next

(* The invariant of the admin API, under any interleaving of logins,       *)
(* requests, janitors and failures (admin/service.go, middleware.go).      *)
THEOREM AuthInvariant == Spec => []IInv
<1>1. QED BY InitInv, NextInv, PTL DEF Spec

(* Nothing that was logged out or revoked is ever usable again.            *)
THEOREM WithdrawalsAreFinal == Spec => []WithdrawnStaysDead
<1>1. IInv => WithdrawnStaysDead BY DEF IInv
<1>2. QED BY <1>1, AuthInvariant, PTL

(* Nobody loses a session or a key that was not withdrawn or over.         *)
THEOREM NobodyLosesCredentials == Spec => []CredentialsKept
<1>1. IInv => CredentialsKept BY DEF IInv
<1>2. QED BY <1>1, AuthInvariant, PTL

-----------------------------------------------------------------------------
(* Refinement of Credentials, first in terms of what each credential and   *)
(* each request looks like from outside.                                   *)

LEMMA MapIssue ==
  ASSUME NEW t \in Tokens, StatusOf(t) = "new", StatusOf(t)' \in {"live", "over"},
         \A c \in Creds \ {t} : StatusOf(c)' = StatusOf(c), req' = req
  PROVE  Promise!Issue(t)
BY DEF Promise!Issue, Creds

LEMMA MapExpire ==
  ASSUME \A c \in Creds :
           \/ StatusOf(c)' = StatusOf(c)
           \/ c \in Tokens /\ StatusOf(c) = "live" /\ StatusOf(c)' = "over",
         req' = req
  PROVE  Promise!Expire
<1> DEFINE S == {t \in Tokens : StatusOf(t) = "live" /\ StatusOf(t)' = "over"}
<1>1. S \in SUBSET {t \in Tokens : [c \in Creds |-> StatusOf(c)][t] = "live"}
  BY DEF Creds
<1>2. [c \in Creds |-> StatusOf(c)]'
        = [c \in Creds |-> IF c \in S THEN "over" ELSE [d \in Creds |-> StatusOf(d)][c]]
  OBVIOUS
<1> HIDE DEF S
<1>3. QED BY <1>1, <1>2 DEF Promise!Expire, Promise!Creds, Creds

LEMMA MapStutter ==
  ASSUME \A c \in Creds : StatusOf(c)' = StatusOf(c),
         \A r \in Requests : ViewOf(req[r])' = ViewOf(req[r])
  PROVE  UNCHANGED Promise!vars
BY DEF Promise!vars

(* One request's view changes with its record. *)
LEMMA ViewChange ==
  ASSUME IInv, NEW r \in Requests, NEW p \in Request, req' = [req EXCEPT ![r] = p]
  PROVE  [s \in Requests |-> ViewOf(req[s])]'
           = [[s \in Requests |-> ViewOf(req[s])] EXCEPT ![r] = ViewOf(p)]
<1>1. ASSUME NEW s \in Requests
      PROVE  ViewOf(req[s])' = IF s = r THEN ViewOf(p) ELSE ViewOf(req[s])
  <2>1. req'[s] = IF s = r THEN p ELSE req[s]
    BY DEF IInv, TypeOK
  <2>2. CASE s = r
    BY <2>1, <2>2 DEF ViewOf
  <2>3. CASE s # r
    BY <2>1, <2>3 DEF ViewOf
  <2>4. QED BY <2>2, <2>3
<1>2. QED BY <1>1

(* A request that goes from q to p, as its view tells. *)
LEMMA MapRequest ==
  ASSUME IInv, NEW r \in Requests, NEW p \in Request, req' = [req EXCEPT ![r] = p],
         \A c \in Creds : StatusOf(c)' = StatusOf(c)
  PROVE  /\ ViewOf(p) = ViewOf(req[r]) => UNCHANGED Promise!vars
         /\ ViewOf(req[r]) = "session" /\ ViewOf(p) = "admin" => Promise!Accept(r)
         /\ ViewOf(req[r]) = "key" /\ ViewOf(p) = "reader" => Promise!Accept(r)
         /\ ViewOf(req[r]) # "idle" /\ ViewOf(p) = "idle" => Promise!Leave(r)
<1> DEFINE view == [s \in Requests |-> ViewOf(req[s])]
<1>1. [s \in Requests |-> ViewOf(req[s])]' = [view EXCEPT ![r] = ViewOf(p)]
  BY ViewChange
<1>2. ViewOf(p) = ViewOf(req[r]) => [view EXCEPT ![r] = ViewOf(p)] = view
  OBVIOUS
<1>3. [c \in Creds |-> StatusOf(c)]' = [c \in Creds |-> StatusOf(c)]
  OBVIOUS
<1>4. view[r] = ViewOf(req[r])
  OBVIOUS
<1> HIDE DEF view
<1>5. QED BY <1>1, <1>2, <1>3, <1>4
          DEF view, Promise!vars, Promise!Accept, Promise!Leave

LEMMA MapLook ==
  ASSUME IInv, NEW r \in Requests, NEW c \in Creds, NEW p \in Request,
         req' = [req EXCEPT ![r] = p], \A d \in Creds : StatusOf(d)' = StatusOf(d),
         ViewOf(req[r]) = "idle",
         ViewOf(p) = IF StatusOf(c) # "live" THEN "dead"
                     ELSE IF c \in Tokens THEN "session" ELSE "key"
  PROVE  Promise!Look(r, c)
<1>1. [s \in Requests |-> ViewOf(req[s])]'
        = [[s \in Requests |-> ViewOf(req[s])] EXCEPT ![r] = ViewOf(p)]
  BY ViewChange
<1>2. [d \in Creds |-> StatusOf(d)]' = [d \in Creds |-> StatusOf(d)]
  OBVIOUS
<1>3. [d \in Creds |-> StatusOf(d)][c] = StatusOf(c)
  OBVIOUS
<1>4. [s \in Requests |-> ViewOf(req[s])][r] = "idle"
  OBVIOUS
<1>5. QED BY <1>1, <1>2, <1>3, <1>4 DEF Promise!Look

LEMMA MapAdminister ==
  ASSUME IInv, NEW r \in Requests, req' = [req EXCEPT ![r] = NoRequest],
         ViewOf(req[r]) = "admin", NEW c \in Creds,
         \A d \in Creds \ {c} : StatusOf(d)' = StatusOf(d),
         \/ c \in Keys /\ StatusOf(c) = "new" /\ StatusOf(c)' = "live"
         \/ StatusOf(c) # "new" /\ StatusOf(c)' = "over"
  PROVE  Promise!Administer(r)
<1>1. [s \in Requests |-> ViewOf(req[s])]'
        = [[s \in Requests |-> ViewOf(req[s])] EXCEPT ![r] = "idle"]
  <2>1. ViewOf(NoRequest) = "idle"
    BY DEF ViewOf, NoRequest
  <2>2. QED BY <2>1, NothingHeld, ViewChange
<1>2. [d \in Creds |-> StatusOf(d)]'
        = [[d \in Creds |-> StatusOf(d)] EXCEPT ![c] = StatusOf(c)']
  OBVIOUS
<1>3. [d \in Creds |-> StatusOf(d)][c] = StatusOf(c)
  OBVIOUS
<1>4. [s \in Requests |-> ViewOf(req[s])][r] = "admin"
  OBVIOUS
<1> DEFINE status == [d \in Creds |-> StatusOf(d)]
<1>5. \/ \E k \in Keys : status[k] = "new" /\ status' = [status EXCEPT ![k] = "live"]
      \/ \E d \in Creds : status[d] # "new" /\ status' = [status EXCEPT ![d] = "over"]
  <2>1. CASE c \in Keys /\ StatusOf(c) = "new" /\ StatusOf(c)' = "live"
    <3>1. status[c] = "new" /\ status' = [status EXCEPT ![c] = "live"]
      BY <1>2, <1>3, <2>1
    <3> HIDE DEF status
    <3>2. QED BY <2>1, <3>1
  <2>2. CASE StatusOf(c) # "new" /\ StatusOf(c)' = "over"
    <3>1. status[c] # "new" /\ status' = [status EXCEPT ![c] = "over"]
      BY <1>2, <1>3, <2>2
    <3> HIDE DEF status
    <3>2. QED BY <3>1
  <2>3. QED BY <2>1, <2>2
<1>6. QED BY <1>1, <1>4, <1>5 DEF Promise!Administer, Promise!Creds, Creds

(* Which statuses a change of the tables can touch. *)
LEMMA StatusKept ==
  ASSUME IInv, NEW c \in Creds, now' = now,
         c \in Tokens => sessions'[c] = sessions[c],
         c \in Tokens => (login'[c].pc = "idle" <=> login[c].pc = "idle"),
         c \notin Tokens => keys'[c] = keys[c]
  PROVE  StatusOf(c)' = StatusOf(c)
<1>1. CASE c \in Tokens
  BY <1>1 DEF StatusOf, Live, IsExpired
<1>2. CASE c \notin Tokens
  BY <1>2 DEF StatusOf, Live, IsRevoked
<1>3. QED BY <1>1, <1>2

LEMMA StatusesKept ==
  ASSUME IInv, UNCHANGED <<now, tables, login>>
  PROVE  \A c \in Creds : StatusOf(c)' = StatusOf(c)
BY StatusKept DEF tables

(* A login issues its token; afterwards only its client learns more.       *)
LEMMA RefineLogin ==
  ASSUME IInv, NEW t \in Tokens, Login(t) \/ FinishLogin(t)
  PROVE  Promise!Issue(t) \/ UNCHANGED Promise!vars
<1>1. now' = now /\ keys' = keys /\ req' = req
  BY DEF Login, FinishLogin, tables
<1>2. CASE Login(t)
  <2>1. login[t].pc = "idle" /\ login'[t].pc # "idle"
    BY <1>2 DEF Login, IInv, TypeOK
  <2>2. ASSUME NEW u \in Tokens \ {t}
        PROVE  login'[u] = login[u] /\ sessions'[u] = sessions[u]
    BY <1>2 DEF Login, InsertAdminSession, InsertAdminSessionErr, IInv, TypeOK
  <2>3. StatusOf(t) = "new" /\ StatusOf(t)' \in {"live", "over"}
    BY <2>1 DEF StatusOf
  <2>4. ASSUME NEW c \in Creds \ {t} PROVE StatusOf(c)' = StatusOf(c)
    BY <1>1, <2>2, StatusKept
  <2>5. QED BY <1>1, <2>3, <2>4, MapIssue
<1>3. CASE FinishLogin(t)
  <2>1. sessions' = sessions
    BY <1>3 DEF FinishLogin, tables
  <2>2. ASSUME NEW u \in Tokens PROVE login'[u].pc = "idle" <=> login[u].pc = "idle"
    <3>1. PICK pc \in {"done", "failed"} :
            login[t].pc = "touch" /\ login' = [login EXCEPT ![t].pc = pc]
      BY <1>3 DEF FinishLogin
    <3>2. CASE u = t
      BY <3>1, <3>2 DEF IInv, TypeOK
    <3>3. CASE u # t
      BY <3>1, <3>3 DEF IInv, TypeOK
    <3>4. QED BY <3>2, <3>3
  <2>3. ASSUME NEW c \in Creds PROVE StatusOf(c)' = StatusOf(c)
    BY <1>1, <2>1, <2>2, StatusKept
  <2>4. QED BY <1>1, <2>3, MapStutter DEF ViewOf
<1>4. QED BY <1>2, <1>3

(* The clock and the janitors end sessions.                                *)
LEMMA RefineExpiry ==
  ASSUME IInv, Tick \/ \E before \in 0..now : SessionJanitor(before)
  PROVE  Promise!Expire
<1>1. keys' = keys /\ login' = login /\ req' = req
  BY DEF Tick, SessionJanitor, tables
<1>2. ASSUME NEW k \in Creds, k \notin Tokens PROVE StatusOf(k)' = StatusOf(k)
  BY <1>1, <1>2 DEF StatusOf, Live, IsRevoked
<1>3. ASSUME NEW t \in Tokens
      PROVE  \/ StatusOf(t)' = StatusOf(t)
             \/ StatusOf(t) = "live" /\ StatusOf(t)' = "over"
  <2>1. login[t].pc = "idle" => sessions[t] = None
    BY DEF IInv, RowOfLogin
  <2>2. Live(t)' => Live(t)
    <3>1. CASE Tick
      <4>1. now \in Nat /\ now' = now + 1 /\ sessions' = sessions
        BY <3>1 DEF Tick, tables, IInv, TypeOK
      <4>2. sessions[t] # None => sessions[t].expiresAt \in Nat
        BY DEF IInv, TypeOK, Session
      <4>3. QED BY <4>1, <4>2 DEF Live, IsExpired
    <3>2. ASSUME NEW before \in 0..now, SessionJanitor(before) PROVE Live(t)' => Live(t)
      <4>1. now' = now /\ sessions'[t] \in {None, sessions[t]}
        BY <3>2 DEF SessionJanitor, DeleteExpiredAdminSessions
      <4>2. QED BY <4>1 DEF Live, IsExpired
    <3>3. QED BY <3>1, <3>2
  <2>3. QED BY <1>1, <2>1, <2>2 DEF StatusOf, Live
<1>4. ASSUME NEW c \in Creds
      PROVE  \/ StatusOf(c)' = StatusOf(c)
             \/ c \in Tokens /\ StatusOf(c) = "live" /\ StatusOf(c)' = "over"
  BY <1>2, <1>3
<1>5. QED BY <1>1, <1>4, MapExpire

(* Reading the row is the look.                                            *)
LEMMA RefineFind ==
  ASSUME IInv, NEW r \in Requests, NEW c \in Creds,
         (c \in Tokens /\ FindSession(r, c)) \/ (c \in Keys /\ FindAPIKey(r, c))
  PROVE  Promise!Look(r, c)
<1>1. UNCHANGED <<now, tables, login>> /\ req[r].pc = "idle"
  BY DEF FindSession, FindAPIKey
<1>2. \A d \in Creds : StatusOf(d)' = StatusOf(d)
  BY <1>1, StatusesKept
<1>3. ViewOf(req[r]) = "idle"
  BY <1>1 DEF ViewOf
<1>4. CASE c \in Tokens /\ FindSession(r, c)
  <2> DEFINE p == [pc |-> "decide", cred |-> c, until |-> sessions[c].expiresAt, late |-> ~Live(c)]
  <2>1. req' = [req EXCEPT ![r] = p] /\ login[c].pc = "done" /\ sessions[c] # None
    BY <1>4 DEF FindSession, FindAdminSessionByTokenHash
  <2>2. Live(c) \in BOOLEAN /\ sessions[c].expiresAt \in Nat
    BY <1>4, <2>1 DEF Live, IsExpired, IsRevoked, IInv, TypeOK, Session
  <2>3. p \in Request /\ p.pc = "decide" /\ p.cred = c /\ (p.late <=> ~Live(c))
    BY <2>2 DEF Request
  <2>4. StatusOf(c) = "live" <=> Live(c)
    BY <1>4, <2>1 DEF StatusOf
  <2> HIDE DEF p
  <2>5. ViewOf(p) = IF StatusOf(c) # "live" THEN "dead" ELSE IF c \in Tokens THEN "session" ELSE "key"
    BY <1>4, <2>3, <2>4 DEF ViewOf
  <2>6. QED BY <1>2, <1>3, <2>1, <2>3, <2>5, MapLook
<1>5. CASE c \in Keys /\ FindAPIKey(r, c)
  <2> DEFINE p == [pc |-> "touchkey", cred |-> c, until |-> 0, late |-> ~Live(c)]
  <2>1. req' = [req EXCEPT ![r] = p] /\ c \in shown /\ ~IsRevoked(keys[c]) /\ c \notin Tokens
    BY <1>5 DEF FindAPIKey, FindAPIKeyByTokenHash
  <2>2. Live(c) /\ keys[c] # None
    BY <2>1 DEF Live, IInv, KeysExist
  <2>3. p \in Request /\ p.pc = "touchkey" /\ p.cred = c /\ ~p.late
    BY <2>2 DEF Request
  <2>4. StatusOf(c) = "live"
    BY <2>1, <2>2 DEF StatusOf
  <2> HIDE DEF p
  <2>5. ViewOf(p) = IF StatusOf(c) # "live" THEN "dead" ELSE IF c \in Tokens THEN "session" ELSE "key"
    BY <2>1, <2>3, <2>4 DEF ViewOf
  <2>6. QED BY <1>2, <1>3, <2>1, <2>3, <2>5, MapLook
<1>6. QED BY <1>4, <1>5

(* What follows the look changes nothing that can be seen, but for the     *)
(* acceptance or the end of the request.                                   *)
LEMMA RefineVerify ==
  ASSUME IInv, NEW r \in Requests,
         Decide(r) \/ DropExpired(r) \/ Touch(r) \/ TouchKey(r) \/ Serve(r) \/ Abandon(r)
  PROVE  Promise!Accept(r) \/ Promise!Leave(r) \/ UNCHANGED Promise!vars
<1>1. /\ req[r] \in Request /\ RequestHolds(req[r]) /\ req[r].pc # "idle"
      /\ ViewOf(req[r]) # "idle"
  BY DEF Decide, DropExpired, Touch, TouchKey, Serve, Handles, Abandon, IInv, TypeOK, ViewOf
<1>2. \A c \in Creds : StatusOf(c)' = StatusOf(c)
  <2>1. CASE Decide(r) \/ Serve(r) \/ Abandon(r)
    BY <2>1, StatusesKept DEF Decide, Serve, Abandon
  <2>2. CASE DropExpired(r)
    <3>1. /\ req[r].cred \in Tokens /\ UNCHANGED <<now, keys, login>>
          /\ login[req[r].cred].pc = "done" /\ now > ExpiresAt(req[r].cred)
          /\ sessions' \in {sessions, [sessions EXCEPT ![req[r].cred] = None]}
      BY <1>1, <2>2 DEF DropExpired, DeleteAdminSession, DeleteAdminSessionErr, RequestHolds
    <3>2. PICK t \in Tokens : t = req[r].cred
      BY <3>1
    <3>3. \A u \in Tokens \ {t} : sessions'[u] = sessions[u]
      BY <3>1, <3>2 DEF IInv, TypeOK
    <3>4. ~Live(t) /\ ~Live(t)'
      <4>1. sessions[t] # None => IsExpired(sessions[t].expiresAt)
        BY <3>1, <3>2 DEF IInv, RowOfLogin, IsExpired
      <4>2. sessions'[t] \in {sessions[t], None}
        BY <3>1, <3>2 DEF IInv, TypeOK
      <4>3. QED BY <3>1, <4>1, <4>2 DEF Live, IsExpired
    <3>5. StatusOf(t)' = StatusOf(t)
      BY <3>1, <3>4 DEF StatusOf
    <3>6. \A c \in Creds \ {t} : StatusOf(c)' = StatusOf(c)
      BY <3>1, <3>3, StatusKept
    <3>7. QED BY <3>5, <3>6
  <2>3. CASE Touch(r)
    <3>1. /\ UNCHANGED <<now, keys, login>>
          /\ \/ sessions' = sessions
             \/ /\ sessions[req[r].cred] # None
                /\ sessions' = [sessions EXCEPT ![req[r].cred].used = TRUE]
      BY <2>3 DEF Touch, TouchAdminSession
    <3>2. ASSUME NEW t \in Tokens
          PROVE  /\ sessions'[t] = None <=> sessions[t] = None
                 /\ sessions[t] # None => sessions'[t].expiresAt = sessions[t].expiresAt
      <4>1. CASE sessions' = sessions
        BY <4>1
      <4>2. CASE /\ sessions[req[r].cred] # None
                 /\ sessions' = [sessions EXCEPT ![req[r].cred].used = TRUE]
        <5>1. CASE t = req[r].cred
          <6>1. sessions[t] \in Session
            BY <4>2, <5>1 DEF IInv, TypeOK
          <6>2. sessions'[t] = [sessions[t] EXCEPT !.used = TRUE]
            BY <4>2, <5>1 DEF IInv, TypeOK
          <6>3. sessions'[t] \in Session /\ sessions'[t].expiresAt = sessions[t].expiresAt
            BY <6>1, <6>2 DEF Session
          <6>4. QED BY <4>2, <5>1, <6>3
        <5>2. CASE t # req[r].cred
          BY <4>2, <5>2 DEF IInv, TypeOK
        <5>3. QED BY <5>1, <5>2
      <4>3. QED BY <3>1, <4>1, <4>2
    <3>3. ASSUME NEW t \in Tokens PROVE StatusOf(t)' = StatusOf(t)
      BY <3>1, <3>2 DEF StatusOf, Live, IsExpired
    <3>4. ASSUME NEW c \in Creds, c \notin Tokens PROVE StatusOf(c)' = StatusOf(c)
      BY <3>1, <3>4, StatusKept
    <3>5. QED BY <3>3, <3>4
  <2>4. CASE TouchKey(r)
    <3>1. /\ UNCHANGED <<now, sessions, login>> /\ req[r].cred \in Keys
          /\ keys[req[r].cred] # None
          /\ keys' = keys \/ keys' = [keys EXCEPT ![req[r].cred].used = TRUE]
      BY <1>1, <2>4 DEF TouchKey, TouchAPIKey, RequestHolds, IInv, TypeOK, KeysExist
    <3>2. ASSUME NEW k \in Keys
          PROVE  /\ keys'[k] = None <=> keys[k] = None
                 /\ keys[k] # None => keys'[k].revoked = keys[k].revoked
      <4>1. CASE keys' = keys
        BY <4>1
      <4>2. CASE keys' = [keys EXCEPT ![req[r].cred].used = TRUE]
        <5>1. CASE k = req[r].cred
          <6>1. keys[k] \in APIKey
            BY <3>1, <5>1 DEF IInv, TypeOK
          <6>2. keys'[k] = [keys[k] EXCEPT !.used = TRUE]
            BY <4>2, <5>1 DEF IInv, TypeOK
          <6>3. keys'[k] \in APIKey /\ keys'[k].revoked = keys[k].revoked
            BY <6>1, <6>2 DEF APIKey
          <6>4. QED BY <3>1, <5>1, <6>3
        <5>2. CASE k # req[r].cred
          BY <4>2, <5>2 DEF IInv, TypeOK
        <5>3. QED BY <5>1, <5>2
      <4>3. QED BY <3>1, <4>1, <4>2
    <3>3. ASSUME NEW k \in Creds, k \notin Tokens PROVE StatusOf(k)' = StatusOf(k)
      <4>1. k \in Keys
        BY <3>3 DEF Creds
      <4>2. QED BY <3>2, <3>3, <4>1 DEF StatusOf, Live, IsRevoked
    <3>4. ASSUME NEW t \in Tokens PROVE StatusOf(t)' = StatusOf(t)
      BY <3>1 DEF StatusOf, Live, IsExpired
    <3>5. QED BY <3>3, <3>4
  <2>5. QED BY <2>1, <2>2, <2>3, <2>4
<1>3. PICK p \in Request :
        /\ req' = [req EXCEPT ![r] = p]
        /\ \/ ViewOf(p) = "idle"
           \/ ViewOf(p) = ViewOf(req[r])
           \/ ViewOf(req[r]) = "session" /\ ViewOf(p) = "admin"
           \/ ViewOf(req[r]) = "key" /\ ViewOf(p) = "reader"
  <2>1. CASE req' = [req EXCEPT ![r] = NoRequest]
    <3>1. ViewOf(NoRequest) = "idle" /\ NoRequest \in Request
      BY NothingHeld DEF ViewOf, NoRequest
    <3>2. QED BY <2>1, <3>1
  <2>2. ASSUME NEW pc \in {"expired", "touch", "accepted"},
               req' = [req EXCEPT ![r].pc = pc],
               \/ req[r].pc = "decide" /\ pc # "accepted"
               \/ req[r].pc \in {"touch", "touchkey"} /\ pc = "accepted" /\ ~req[r].late
        PROVE  \E p \in Request :
                 /\ req' = [req EXCEPT ![r] = p]
                 /\ \/ ViewOf(p) = ViewOf(req[r])
                    \/ ViewOf(req[r]) = "session" /\ ViewOf(p) = "admin"
                    \/ ViewOf(req[r]) = "key" /\ ViewOf(p) = "reader"
    <3> DEFINE p == [req[r] EXCEPT !.pc = pc]
    <3>1. /\ p \in Request /\ p.pc = pc /\ p.cred = req[r].cred /\ p.late = req[r].late
          /\ req' = [req EXCEPT ![r] = p]
      BY <1>1, <2>2 DEF Request
    <3> HIDE DEF p
    <3>2. \/ ViewOf(p) = ViewOf(req[r])
          \/ ViewOf(req[r]) = "session" /\ ViewOf(p) = "admin"
          \/ ViewOf(req[r]) = "key" /\ ViewOf(p) = "reader"
      BY <2>2, <3>1 DEF ViewOf
    <3>3. QED BY <3>1, <3>2
  <2>3. CASE Decide(r)
    <3>1. /\ req[r].pc = "decide"
          /\ \/ req' = [req EXCEPT ![r] = NoRequest]
             \/ \E pc \in {"expired", "touch"} : req' = [req EXCEPT ![r].pc = pc]
      BY <2>3 DEF Decide
    <3>2. QED BY <2>1, <2>2, <3>1
  <2>4. CASE Touch(r) \/ TouchKey(r)
    <3>1. /\ req[r].pc \in {"touch", "touchkey"}
          /\ \/ req' = [req EXCEPT ![r] = NoRequest]
             \/ req' = [req EXCEPT ![r].pc = "accepted"]
      BY <2>4 DEF Touch, TouchKey
    <3>2. ~req[r].late
      BY <1>1, <3>1 DEF RequestHolds
    <3>3. QED BY <2>1, <2>2, <3>1, <3>2
  <2>5. CASE DropExpired(r) \/ Serve(r) \/ Abandon(r)
    BY <2>1, <2>5 DEF DropExpired, Serve, Handles, Abandon
  <2>6. QED BY <2>3, <2>4, <2>5
<1>4. QED BY <1>1, <1>2, <1>3, MapRequest

(* Only accepted sessions create or withdraw; what had no effect is the    *)
(* end of the request.                                                     *)
LEMMA RefineAdmin ==
  ASSUME IInv, NEW r \in Requests,
         Logout(r) \/ \E k \in Keys : CreateKey(r, k) \/ RevokeKey(r, k)
  PROVE  Promise!Administer(r) \/ Promise!Leave(r)
<1>1. req[r].cred \in Tokens /\ req[r].pc = "accepted" /\ req' = [req EXCEPT ![r] = NoRequest]
  BY DEF Logout, CreateKey, RevokeKey, HandlesAdmin, Handles
<1>2. ViewOf(req[r]) = "admin" /\ ViewOf(NoRequest) = "idle" /\ NoRequest \in Request
  BY <1>1, NothingHeld DEF IInv, RequestHolds, ViewOf, NoRequest
<1>3. ASSUME \A c \in Creds : StatusOf(c)' = StatusOf(c) PROVE Promise!Leave(r)
  BY <1>1, <1>2, <1>3, MapRequest
<1>4. CASE Logout(r)
  <2>1. PICK t \in Tokens : t = req[r].cred
    BY <1>1
  <2>2. /\ UNCHANGED <<now, keys, login>> /\ login[t].pc = "done" /\ t \in Creds
        /\ sessions' \in {sessions, [sessions EXCEPT ![t] = None]}
    BY <1>1, <1>4, <2>1
       DEF Logout, DeleteAdminSession, DeleteAdminSessionErr, IInv, TypeOK, RequestHolds, Creds
  <2>3. ASSUME NEW c \in Creds \ {t} PROVE StatusOf(c)' = StatusOf(c)
    <3>1. c \in Tokens => sessions'[c] = sessions[c]
      BY <2>2 DEF IInv, TypeOK
    <3>2. QED BY <2>2, <3>1, StatusKept
  <2>4. CASE sessions' = sessions
    <3>1. \A c \in Creds : StatusOf(c)' = StatusOf(c)
      BY <2>2, <2>4, StatusKept
    <3>2. QED BY <1>3, <3>1
  <2>5. CASE sessions' = [sessions EXCEPT ![t] = None]
    <3>1. sessions'[t] = None
      BY <2>5 DEF IInv, TypeOK
    <3>2. StatusOf(t) # "new" /\ StatusOf(t)' = "over"
      BY <2>2, <3>1 DEF StatusOf, Live
    <3>3. QED BY <1>1, <1>2, <2>2, <2>3, <3>2, MapAdminister
  <2>6. QED BY <2>2, <2>4, <2>5
<1>5. ASSUME NEW k \in Keys, CreateKey(r, k) PROVE Promise!Administer(r) \/ Promise!Leave(r)
  <2> DEFINE row == [revoked |-> FALSE, used |-> FALSE]
  <2>1. /\ UNCHANGED <<now, sessions, login>> /\ keys[k] = None /\ k \in Creds /\ k \notin Tokens
        /\ keys' \in {keys, [keys EXCEPT ![k] = row]}
    BY <1>5 DEF CreateKey, InsertAPIKey, InsertAPIKeyErr, Creds
  <2>2. ASSUME NEW c \in Creds \ {k} PROVE StatusOf(c)' = StatusOf(c)
    <3>1. c \notin Tokens => keys'[c] = keys[c]
      BY <2>1 DEF IInv, TypeOK, Creds
    <3>2. QED BY <2>1, <3>1, StatusKept
  <2>3. CASE keys' = keys
    <3>1. \A c \in Creds : StatusOf(c)' = StatusOf(c)
      BY <2>1, <2>3, StatusKept
    <3>2. QED BY <1>3, <3>1
  <2>4. CASE keys' = [keys EXCEPT ![k] = row]
    <3>1. row \in APIKey /\ ~row.revoked
      BY DEF APIKey
    <3>2. keys'[k] = row
      BY <2>4 DEF IInv, TypeOK
    <3>3. keys'[k] # None /\ ~keys'[k].revoked
      BY <3>1, <3>2
    <3>4. StatusOf(k) = "new" /\ StatusOf(k)' = "live"
      BY <2>1, <3>3 DEF StatusOf, Live, IsRevoked
    <3>5. QED BY <1>1, <1>2, <2>1, <2>2, <3>4, MapAdminister
  <2>5. QED BY <2>1, <2>3, <2>4
<1>6. ASSUME NEW k \in Keys, RevokeKey(r, k) PROVE Promise!Administer(r) \/ Promise!Leave(r)
  <2> DEFINE row == [keys[k] EXCEPT !.revoked = TRUE]
  <2>1. /\ UNCHANGED <<now, sessions, login>> /\ keys[k] # None /\ k \in Creds /\ k \notin Tokens
        /\ keys' = keys \/ keys' = [keys EXCEPT ![k] = row]
    BY <1>6 DEF RevokeKey, RevokeAPIKey, RevokeAPIKeyErr, Creds
  <2>2. row \in APIKey /\ row.revoked /\ row # None
    <3>1. keys[k] \in APIKey
      BY <2>1 DEF IInv, TypeOK
    <3>2. row \in APIKey /\ row.revoked
      BY <3>1 DEF APIKey
    <3>3. QED BY <3>2
  <2> HIDE DEF row
  <2>3. ASSUME NEW c \in Creds \ {k} PROVE StatusOf(c)' = StatusOf(c)
    <3>1. c \notin Tokens => keys'[c] = keys[c]
      BY <2>1 DEF IInv, TypeOK, Creds
    <3>2. QED BY <2>1, <3>1, StatusKept
  <2>4. CASE keys' = keys
    <3>1. \A c \in Creds : StatusOf(c)' = StatusOf(c)
      BY <2>1, <2>4, StatusKept
    <3>2. QED BY <1>3, <3>1
  <2>5. CASE keys' = [keys EXCEPT ![k] = row]
    <3>1. keys'[k] = row
      BY <2>5 DEF IInv, TypeOK
    <3>2. StatusOf(k) # "new" /\ StatusOf(k)' = "over"
      BY <2>1, <2>2, <3>1 DEF StatusOf, Live, IsRevoked
    <3>3. QED BY <1>1, <1>2, <2>1, <2>3, <3>2, MapAdminister
  <2>6. QED BY <2>1, <2>4, <2>5
<1>7. QED BY <1>4, <1>5, <1>6

LEMMA RefineInit == Init => Promise!Init
<1> SUFFICES ASSUME Init PROVE Promise!Init
  OBVIOUS
<1>1. ASSUME NEW c \in Creds PROVE StatusOf(c) = "new"
  BY DEF Init, StatusOf, Creds
<1>2. ASSUME NEW r \in Requests PROVE ViewOf(req[r]) = "idle"
  BY DEF Init, ViewOf, NoRequest
<1>3. QED BY <1>1, <1>2 DEF Promise!Init, Promise!Creds, Creds

LEMMA RefineNext == IInv /\ [Next]_vars => [Promise!Next]_(Promise!vars)
<1> SUFFICES ASSUME IInv, [Next]_vars PROVE Promise!Next \/ UNCHANGED Promise!vars
  OBVIOUS
<1>1. ASSUME Tick \/ \E before \in 0..now : SessionJanitor(before) PROVE Promise!Next
  BY <1>1, RefineExpiry DEF Promise!Next
<1>2. ASSUME NEW t \in Tokens, Login(t) \/ FinishLogin(t)
      PROVE  Promise!Next \/ UNCHANGED Promise!vars
  BY <1>2, RefineLogin DEF Promise!Next
<1>3. ASSUME NEW r \in Requests, NEW c \in Creds,
             (c \in Tokens /\ FindSession(r, c)) \/ (c \in Keys /\ FindAPIKey(r, c))
      PROVE  Promise!Next
  BY <1>3, RefineFind DEF Promise!Next, Promise!Creds, Creds
<1>4. ASSUME NEW r \in Requests,
             Decide(r) \/ DropExpired(r) \/ Touch(r) \/ TouchKey(r) \/ Serve(r) \/ Abandon(r)
      PROVE  Promise!Next \/ UNCHANGED Promise!vars
  BY <1>4, RefineVerify DEF Promise!Next
<1>5. ASSUME NEW r \in Requests,
             Logout(r) \/ \E k \in Keys : CreateKey(r, k) \/ RevokeKey(r, k)
      PROVE  Promise!Next
  BY <1>5, RefineAdmin DEF Promise!Next
<1>6. CASE UNCHANGED vars
  <2>1. UNCHANGED <<now, tables, login>> /\ req' = req
    BY <1>6 DEF vars
  <2>2. QED BY <2>1, StatusesKept, MapStutter DEF ViewOf
<1>7. Tokens \subseteq Creds /\ Keys \subseteq Creds
  BY DEF Creds
<1>8. QED BY <1>1, <1>2, <1>3, <1>4, <1>5, <1>6, <1>7 DEF Next

(* The admin API keeps the promise of Credentials: a verification, however *)
(* its three statements interleave with logouts, revocations and janitors, *)
(* accepts only what was live when it looked (service.go VerifySession,    *)
(* VerifyAPIKey).                                                          *)
THEOREM Refinement == Spec => ImplementsCredentials
<1>1. Init => Promise!Init
  BY RefineInit
<1>2. IInv /\ [Next]_vars => [Promise!Next]_(Promise!vars)
  BY RefineNext
<1>3. QED BY <1>1, <1>2, AuthInvariant, PTL DEF Spec, ImplementsCredentials, Promise!Spec
=============================================================================
