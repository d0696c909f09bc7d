---------------------------- MODULE FileLifecycle ----------------------------
(***************************************************************************)
(* The life of a file: uploads, early deletions and sweeps of all          *)
(* instances over the stores they share.                                   *)
(***************************************************************************)
EXTENDS UploadService, FileService, Sweeper

CONSTANT Stuck  \* the files whose object R2 may refuse to delete for ever

ASSUME LifecycleAssumption == Stuck \subseteq Uploads

vars == <<stores, up, fileVars, sw>>

Init == StoresInit /\ UploadInit /\ FileInit /\ SweeperInit

(* Only the response to a fresh, successful upload shows its delete token. *)
Token(u) == up[u].pc = "done"

OnlyStores == UNCHANGED <<up, fileVars, sw>>
OnlyUpload == UNCHANGED <<fileVars, sw>>
OnlyDelete == UNCHANGED <<up, sw>>
OnlySweep == UNCHANGED <<up, fileVars>>

Next ==
  \/ Tick /\ OnlyStores
  \/ \E B \in SUBSET Uploads : EndTransactions(B) /\ OnlyStores
  \/ \E u \in Uploads :
       \/ Download(u) /\ OnlyStores
       \/ EdgeEvict(u) /\ OnlyStores
       \/ Receive(u) /\ OnlyUpload
       \/ Lookup(u) /\ OnlyUpload
       \/ Put(u) /\ OnlyUpload
       \/ Persist(u) /\ OnlyUpload
       \/ Compensate(u) /\ OnlyUpload
       \/ Disconnect(u) /\ OnlyUpload
       \/ CrashUpload(u) /\ OnlyUpload
  \/ \E d \in Deleters :
       \/ \E id, token \in Uploads : Token(token) /\ Authorise(d, id, token) /\ OnlyDelete
       \/ EraseObject(d) /\ OnlyDelete
       \/ EraseRow(d) /\ OnlyDelete
       \/ PurgeDeleted(d) /\ OnlyDelete
       \/ AbortDelete(d) /\ OnlyDelete
  \/ \E s \in Sweepers :
       \/ BeginSweep(s) /\ OnlySweep
       \/ SelectExpired(s) /\ OnlySweep
       \/ CommitSelect(s) /\ OnlySweep
       \/ SweepObject(s) /\ OnlySweep
       \/ SweepRow(s) /\ OnlySweep
       \/ FinishSweep(s) /\ OnlySweep
       \/ CrashSweeper(s) /\ OnlySweep

Spec == Init /\ [][Next]_vars

(* Every sweeper's loop keeps running, in an instance that is started      *)
(* again when it ended, and crashes come to an end.  Postgres and R2 may   *)
(* fail any number of calls, but not for ever the same one: what is tried  *)
(* again and again, by whichever instance, succeeds once.  Nothing of the  *)
(* kind is assumed of the records in Stuck.                                *)
Fairness ==
  /\ \A s \in Sweepers :
       WF_vars(/\ \/ BeginSweep(s) \/ SelectExpired(s) \/ CommitSelect(s)
                  \/ SweepObject(s) \/ SweepRow(s) \/ FinishSweep(s)
               /\ OnlySweep)
  /\ <>[][\A s \in Sweepers : ~CrashSweeper(s)]_vars
  /\ \A u \in Uploads \ Stuck :
       /\ WF_vars(\E B \in SUBSET Uploads : u \in B /\ EndTransactions(B) /\ OnlyStores)
       /\ SF_vars(\E s \in Sweepers :
                    SelectExpired(s) /\ u \in Ids(sw'[s].batch) /\ OnlySweep)
       /\ SF_vars(\E s \in Sweepers :
                    CommitSelect(s) /\ u \in Ids(sw'[s].batch) /\ OnlySweep)
       /\ SF_vars(\E s \in Sweepers : SweepObject(s) /\ sw'[s].cur = u /\ OnlySweep)
       /\ SF_vars(\E s \in Sweepers :
                    /\ SweepRow(s) /\ OnlySweep
                    /\ sw[s].cur = u /\ u \in sw'[s].purge)

FairSpec == Spec /\ Fairness

-----------------------------------------------------------------------------
(* Every variable holds what the program can hold there; in particular a   *)
(* sweeper has a current record exactly while its row awaits deletion.     *)
TypeOK == StoresTypeOK /\ UploadTypeOK /\ FileTypeOK /\ SweeperTypeOK

(* A file whose upload was acknowledged stays complete, row and object,    *)
(* until its TTL is over or a deletion that knew its token was accepted:   *)
(* no sweep, retry, compensation, crash or failed call takes it earlier.   *)
AcknowledgedFileServed ==
  \A u \in Uploads :
    up[u].pc = "done" /\ now < ExpiresAt(u) /\ u \notin authorised
      => Exists(u) /\ u \in objects

(* The inductive invariant behind it: its parts, then IInv. *)

(* Nobody but its own upload acts on a file before the insert was tried.   *)
Tried(u) == up[u].pc \in {"undo", "done", "failed"}

(* A row is the one its own upload tried to insert, with its expiry.       *)
RowsOfTriedUploads ==
  \A u \in Uploads : Exists(u) => Tried(u) /\ files[u].expiresAt = ExpiresAt(u)

(* Requests and sweeps compare with a time that has passed.                *)
ClockReadsArePast ==
  /\ \A u \in Uploads : up[u].at =< now
  /\ \A s \in Sweepers : sw[s].at =< now

(* The object is in the bucket when its row is about to be inserted.       *)
StoredBeforeInsert == \A u \in Uploads : up[u].pc = "insert" => u \in objects

(* A file that has expired for good: rows never get a later expiry.        *)
Doomed(u) == Tried(u) /\ ExpiresAt(u) =< now

(* What a sweep holds in memory, however old, has expired.                 *)
SweepersTakeDoomed ==
  \A s \in Sweepers :
    /\ \A r \in sw[s].batch : Doomed(r.id)
    /\ sw[s].cur # None => Doomed(sw[s].cur)

(* A deletion under way had its token checked, of an acknowledged file.    *)
DeletersAreAuthorised ==
  /\ \A d \in Deleters : del[d].pc # "idle" => del[d].id \in authorised
  /\ \A u \in authorised : up[u].pc = "done"

(* The inductive invariant: no step of any actor leaves it.                *)
IInv ==
  /\ TypeOK
  /\ ClockReadsArePast
  /\ RowsOfTriedUploads
  /\ StoredBeforeInsert
  /\ SweepersTakeDoomed
  /\ DeletersAreAuthorised
  /\ AcknowledgedFileServed

(* Such a file, when a "duplicate: true" response points to it.            *)
ServedInTime(f) ==
  now < ExpiresAt(f) /\ f \notin authorised => Exists(f) /\ f \in objects

(* README, Features: uploading identical content twice "will not re-upload *)
(* the object to R2; the existing record is returned instead".             *)
DuplicateServed ==
  \A u \in Uploads : up[u].pc = "dup" => ServedInTime(up[u].answer)

(* What remains of it under every failure.  An insert that fails by itself *)
(* but had effect leaves a row under which Compensate deletes the object.  *)
(* Any other record may be answered with, also of uploads that were never  *)
(* acknowledged: a request whose client goes away may leave a row, and its *)
(* compensation, being cancelled too, leaves the object the row needs.     *)
GivenUp(f) == up[f].pc = "failed" /\ up[f].connected

DuplicateServedUnlessGivenUp ==
  \A u \in Uploads :
    up[u].pc = "dup" /\ ~GivenUp(up[u].answer) => ServedInTime(up[u].answer)

(* No object is lost track of: one without a row is held by a request that *)
(* is about to insert the row or to delete the object again.               *)
NoOrphanObject ==
  \A u \in objects : Exists(u) \/ up[u].pc \in {"insert", "undo"}

(* What remains of it under every failure: only uploads that were not      *)
(* acknowledged and early deletions lose objects.  The object of any other *)
(* file has a row that leads the sweepers to it.                           *)
NoAcknowledgedOrphan ==
  \A u \in objects : up[u].pc = "done" /\ u \notin authorised => Exists(u)

(* The object of a file is deleted, and nobody stores it again.            *)
Gone(u) == Tried(u) /\ u \notin objects

(* Whoever deletes a row, or purges a URL, has deleted the object before.  *)
SweepersDeleteFirst ==
  \A s \in Sweepers, u \in Uploads : sw[s].cur = u \/ u \in sw[s].purge => Gone(u)

DeletersDeleteFirst ==
  \A d \in Deleters, u \in Uploads :
    del[d].id = u /\ del[d].pc \in {"row", "purge"} => Gone(u)

PurgedAreGone == \A u \in Uploads : edge[u] = "purged" => Gone(u)

(* The order that makes retries safe: object, then row, then edge copy.    *)
(* Rows that are about to be deleted and URLs that are or will be purged   *)
(* are of objects that are gone for good, however actors overlap.          *)
ObjectsGoFirst == SweepersDeleteFirst /\ DeletersDeleteFirst /\ PurgedAreGone

(* FOR UPDATE SKIP LOCKED: until its transaction commits, the rows of a    *)
(* batch are still what the query read, although older sweeps and          *)
(* deletions hold some of them in memory and are about to delete them, and *)
(* no other open batch has them.  Transactions left by crashes and failed  *)
(* commits lock rows meanwhile.                                            *)
SelectedRowsStay ==
  \A s \in Sweepers :
    sw[s].pc = "commit" =>
      /\ \A r \in sw[s].batch : Exists(r.id) /\ files[r.id].expiresAt = r.expiresAt
      /\ \A t \in Sweepers \ {s} :
           sw[t].pc = "commit" => Ids(sw[s].batch) \cap Ids(sw[t].batch) = {}

(* A purge is final: no download refills the edge with a purged URL, since *)
(* purges come after the object is deleted and keys are never reused.      *)
PurgeSticks ==
  [][\A u \in Uploads : edge[u] = "purged" => edge'[u] = "purged"]_vars

(* With purging on and nothing failing, an edge copy of a deleted object   *)
(* is always on the list of somebody who will purge it, however sweeps and *)
(* deletions of the same file overlap.                                     *)
EdgeCopyTracked ==
  \A u \in Uploads :
    edge[u] = "cached" =>
      \/ u \in objects
      \/ \E d \in Deleters : del[d].id = u /\ del[d].pc \in {"row", "purge"}
      \/ \E s \in Sweepers : sw[s].cur = u \/ u \in sw[s].purge

(* A row that has expired goes away together with its object, although     *)
(* calls fail, sweepers crash with rows locked or half deleted, and        *)
(* records that R2 refuses to delete come first in every batch, as long as *)
(* the batch has room for one more than these.                             *)
ExpiredFileRemoved ==
  \A u \in Uploads \ Stuck :
    (Exists(u) /\ now >= ExpiresAt(u)) ~> (~Exists(u) /\ u \notin objects)

(* README, Expiry enforcement, of the sweeper: "the DB row is left in      *)
(* place so the record is retried ... rather than the app losing track of  *)
(* an object that's still live in the bucket".                             *)
RowOutlivesObject ==
  [][\A u \in Uploads : Exists(u) /\ ~Exists(u)' => u \notin objects']_vars

(* README, Known Limitations: two instances can never both claim the same  *)
(* expired row in overlapping sweeps.                                      *)
NoDoubleClaim ==
  \A s, t \in Sweepers :
    s # t => Ids(sw[s].batch) \cap Ids(sw[t].batch) = {}

(* README, Upload a file: when the content matches an existing,            *)
(* non-expired file, no new object is uploaded.                            *)
NoSecondObject ==
  [][\A u \in objects' \ objects : FindActiveByChecksum(up[u].content, now) = {}]_vars

(* Seen from outside, the acknowledged files behave as TempStore says.     *)
Acknowledged(u) == up[u].pc = "done"

StatusOf(u) ==
  IF ~Acknowledged(u) THEN "unpublished"
  ELSE IF Exists(u) /\ u \in objects THEN "served" ELSE "removed"

ExpiryOf(u) == IF Acknowledged(u) THEN ExpiresAt(u) ELSE 0

Promise == INSTANCE TempStore WITH
  Files <- Uploads,
  status <- [u \in Uploads |-> StatusOf(u)],
  expiry <- [u \in Uploads |-> ExpiryOf(u)],
  withdrawn <- authorised

(* Every behaviour of the service is one TempStore allows.                 *)
ImplementsTempStore == Promise!Spec
=============================================================================
