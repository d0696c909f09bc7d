----------------------------- MODULE Credentials -----------------------------
(***************************************************************************)
(* What the admin API promises of session tokens and API keys, without     *)
(* clocks, tables or failures: a credential is new, then perhaps live,     *)
(* then over for good; a request looks at its credential once, and is      *)
(* accepted only if it was live then; and only accepted requests that came *)
(* with a session create keys or withdraw credentials before their time.   *)
(***************************************************************************)
CONSTANTS Tokens,    \* session tokens
          Keys,      \* API keys
          Requests

VARIABLES status,  \* "new", "live" or "over", for each credential
          view     \* what each request has seen and may do

vars == <<status, view>>

Creds == Tokens \cup Keys

Init ==
  /\ status = [c \in Creds |-> "new"]
  /\ view = [r \in Requests |-> "idle"]

(* A login brings a session to life, or fails and wastes its token. *)
Issue(t) ==
  /\ status[t] = "new"
  /\ \E s \in {"live", "over"} : status' = [status EXCEPT ![t] = s]
  /\ UNCHANGED view

(* Sessions come to their end, any number at a time. *)
Expire ==
  /\ \E S \in SUBSET {t \in Tokens : status[t] = "live"} :
       status' = [c \in Creds |-> IF c \in S THEN "over" ELSE status[c]]
  /\ UNCHANGED view

Look(r, c) ==
  /\ view[r] = "idle"
  /\ view' = [view EXCEPT ![r] = IF status[c] # "live" THEN "dead"
                                 ELSE IF c \in Tokens THEN "session" ELSE "key"]
  /\ UNCHANGED status

Accept(r) ==
  /\ \/ view[r] = "session" /\ view' = [view EXCEPT ![r] = "admin"]
     \/ view[r] = "key" /\ view' = [view EXCEPT ![r] = "reader"]
  /\ UNCHANGED status

(* A request is refused, abandoned or answered; as long as nothing says    *)
(* that it was accepted with a session, it has changed no credential.      *)
Leave(r) ==
  /\ view[r] # "idle"
  /\ view' = [view EXCEPT ![r] = "idle"]
  /\ UNCHANGED status

(* What accepted sessions may do: create a key, end a credential. *)
Administer(r) ==
  /\ view[r] = "admin"
  /\ view' = [view EXCEPT ![r] = "idle"]
  /\ \/ \E k \in Keys : status[k] = "new" /\ status' = [status EXCEPT ![k] = "live"]
     \/ \E c \in Creds : status[c] # "new" /\ status' = [status EXCEPT ![c] = "over"]

Next ==
  \/ \E t \in Tokens : Issue(t)
  \/ Expire
  \/ \E r \in Requests :
       \/ \E c \in Creds : Look(r, c)
       \/ Accept(r)
       \/ Leave(r)
       \/ Administer(r)

Spec == Init /\ [][Next]_vars
=============================================================================
