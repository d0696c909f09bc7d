---------------------------- MODULE UploadService ----------------------------
(***************************************************************************)
(* upload.Service.Upload: one request hashes its content, looks for an     *)
(* active duplicate, stores the object, inserts the row, and deletes the   *)
(* object again when the insert fails.  Each remote call is a step.  All   *)
(* of them run under the request's context, which is cancelled when the    *)
(* client disconnects.                                                     *)
(***************************************************************************)
EXTENDS Stores

VARIABLE up  \* per request: where it is and what it holds

InFlight == {"lookup", "put", "insert", "undo"}

UploadTypeOK ==
  up \in [Uploads -> [pc        : InFlight \cup {"idle", "done", "dup", "failed"},
                      content   : Contents,
                      at        : Nat,        \* `now` of line 94
                      answer    : Uploads,    \* the record it returns
                      connected : BOOLEAN]]   \* its context is not cancelled

UploadInit ==
  \E content \in [Uploads -> Contents] :
    up = [u \in Uploads |-> [pc |-> "idle", content |-> content[u], at |-> 0,
                             answer |-> u, connected |-> TRUE]]

(* A call with a live context may succeed; one may fail when the store is  *)
(* faulty or when the client went away while it was running.               *)
Answers(u) == up[u].connected
Fails(u, kind) == kind \in Faults \/ ~up[u].connected

ExpiresAt(u) == up[u].at + TTL

Goto(u, pc) == up' = [up EXCEPT ![u].pc = pc]

(* Validation, spooling and hashing are local to the request: it is        *)
(* refused, or goes on with the time it read afterwards.                   *)
Receive(u) ==
  /\ up[u].pc = "idle"
  /\ \/ Goto(u, "failed")
     \/ up' = [up EXCEPT ![u].pc = "lookup", ![u].at = now]
  /\ UNCHANGED stores

Lookup(u) ==
  /\ up[u].pc = "lookup"
  /\ \/ /\ Answers(u)
        /\ \E f \in FindActiveByChecksum(up[u].content, up[u].at) :
             up' = [up EXCEPT ![u].pc = "dup", ![u].answer = f]
     \/ /\ Answers(u)
        /\ FindActiveByChecksum(up[u].content, up[u].at) = {}
        /\ Goto(u, "put")
     \/ Fails(u, "db") /\ Goto(u, "failed")
  /\ UNCHANGED stores

(* A failed PutObject is not compensated. *)
Put(u) ==
  /\ up[u].pc = "put"
  /\ \/ Answers(u) /\ PutObject(u) /\ Goto(u, "insert")
     \/ Fails(u, "storage") /\ PutObjectErr(u) /\ Goto(u, "failed")
  /\ UNCHANGED <<now, files, locked, edge>>

NewRow(u) == [checksum |-> up[u].content, expiresAt |-> ExpiresAt(u)]

(* Mutant of Persist: the answer of the database is not looked at. *)
PersistUnchecked(u) ==
  /\ up[u].pc = "insert"
  /\ Insert(u, NewRow(u)) \/ (Fails(u, "db") /\ InsertErr(u, NewRow(u)))
  /\ Goto(u, "done")
  /\ UNCHANGED <<now, locked, objects, edge>>

(* Mutant of Persist: the object stays when the insert fails. *)
PersistNoUndo(u) ==
  /\ up[u].pc = "insert"
  /\ \/ Answers(u) /\ Insert(u, NewRow(u)) /\ Goto(u, "done")
     \/ Fails(u, "db") /\ InsertErr(u, NewRow(u)) /\ Goto(u, "failed")
  /\ UNCHANGED <<now, locked, objects, edge>>

Persist(u) ==
  /\ up[u].pc = "insert"
  /\ \/ Answers(u) /\ Insert(u, NewRow(u)) /\ Goto(u, "done")
     \/ Fails(u, "db") /\ InsertErr(u, NewRow(u)) /\ Goto(u, "undo")
  /\ UNCHANGED <<now, locked, objects, edge>>

(* Mutant of Compensate: the call has a context of its own. *)
CompensateDetached(u) ==
  /\ up[u].pc = "undo"
  /\ DeleteObject(u) \/ ("storage" \in Faults /\ DeleteObjectErr(u))
  /\ Goto(u, "failed")
  /\ UNCHANGED <<now, files, locked, edge>>

(* The compensating DeleteObject ignores its error.  It uses the context   *)
(* of the request: once that is cancelled the call is not even sent.       *)
Compensate(u) ==
  /\ up[u].pc = "undo"
  /\ \/ up[u].connected /\ DeleteObject(u)
     \/ up[u].connected /\ "storage" \in Faults /\ DeleteObjectErr(u)
     \/ ~up[u].connected /\ objects' = objects
  /\ Goto(u, "failed")
  /\ UNCHANGED <<now, files, locked, edge>>

Disconnect(u) ==
  /\ "cancel" \in Faults
  /\ up[u].pc \in InFlight
  /\ up[u].connected
  /\ up' = [up EXCEPT ![u].connected = FALSE]
  /\ UNCHANGED stores

(* The instance that runs the request dies: nothing is undone. *)
CrashUpload(u) ==
  /\ "crash" \in Faults
  /\ up[u].pc \in InFlight
  /\ Goto(u, "failed")
  /\ UNCHANGED stores
=============================================================================
