---------------------------- MODULE DeletionProofs ----------------------------
(***************************************************************************)
(* Proofs about how files go: object first, then row, then edge copy, with *)
(* nothing lost on the way.  They build on the inductive invariant that    *)
(* FileLifecycleProofs establishes.                                        *)
(***************************************************************************)
EXTENDS FileLifecycleProofs

-----------------------------------------------------------------------------
(* What the actors may do to a file that is gone. *)

UploadStep(u) ==
  \/ Receive(u) \/ Lookup(u) \/ Put(u) \/ Persist(u)
  \/ Compensate(u) \/ Disconnect(u) \/ CrashUpload(u)

DeleteStep(d) ==
  \/ \E id, token \in Uploads : Token(token) /\ Authorise(d, id, token)
  \/ EraseObject(d) \/ EraseRow(d) \/ PurgeDeleted(d) \/ AbortDelete(d)

SweepStep(s) ==
  \/ BeginSweep(s) \/ SelectExpired(s) \/ CommitSelect(s) \/ SweepObject(s)
  \/ SweepRow(s) \/ FinishSweep(s) \/ CrashSweeper(s)

(* A step is one actor's, and leaves the others' variables alone.          *)
LEMMA StepCases ==
  ASSUME [Next]_vars
  PROVE  \/ UNCHANGED vars
         \/ StoreStep /\ OnlyStores
         \/ \E u \in Uploads : UploadStep(u) /\ OnlyUpload
         \/ \E d \in Deleters : DeleteStep(d) /\ OnlyDelete
         \/ \E s \in Sweepers : SweepStep(s) /\ OnlySweep
BY DEF Next, StoreStep, UploadStep, DeleteStep, SweepStep

(* An upload moves alone.                                                  *)
LEMMA UploadOthers ==
  ASSUME TypeOK, NEW u \in Uploads, UploadStep(u)
  PROVE  \A f \in Uploads \ {u} :
           /\ up'[f] = up[f]
           /\ files'[f] = files[f]
           /\ f \in objects' <=> f \in objects
BY DEF UploadStep, Receive, Lookup, Put, Persist, Compensate, Disconnect, CrashUpload, Goto, stores,
       PutObject, PutObjectErr, DeleteObject, DeleteObjectErr, Insert, InsertErr,
       TypeOK, StoresTypeOK, UploadTypeOK

(* Once its insert was tried, an upload stays in a state after it, and     *)
(* only an upload that is still before it stores an object.                *)
LEMMA UploadKeepsGone ==
  ASSUME TypeOK, NEW u \in Uploads, UploadStep(u), NEW f \in Uploads, Gone(f)
  PROVE  Gone(f)'
<1> USE DEF TypeOK, StoresTypeOK, UploadTypeOK, Gone, Tried, Goto, stores
<1>1. CASE f # u
  BY <1>1 DEF UploadStep, Receive, Lookup, Put, Persist, Compensate, Disconnect, CrashUpload,
              PutObject, PutObjectErr, DeleteObject, DeleteObjectErr
<1>2. CASE f = u
  <2>1. CASE Compensate(u)
    BY <1>2, <2>1 DEF Compensate, DeleteObject, DeleteObjectErr
  <2>2. CASE Disconnect(u) \/ CrashUpload(u)
    BY <1>2, <2>2 DEF Disconnect, CrashUpload
  <2>3. QED BY <1>2, <2>1, <2>2 DEF UploadStep, Receive, Lookup, Put, Persist
<1>3. QED BY <1>1, <1>2

(* Nobody else stores objects.                                             *)
LEMMA DeleteStepObjects ==
  ASSUME NEW d \in Deleters, DeleteStep(d)
  PROVE  objects' \subseteq objects
BY DEF DeleteStep, Authorise, EraseObject, EraseRow, PurgeDeleted, AbortDelete, stores,
       DeleteObject, DeleteObjectErr

LEMMA SweepStepObjects ==
  ASSUME NEW s \in Sweepers, SweepStep(s)
  PROVE  objects' \subseteq objects
BY DEF SweepStep, BeginSweep, SelectExpired, CommitSelect, SweepObject, SweepRow, FinishSweep,
       CrashSweeper, stores, DeleteObject, DeleteObjectErr

(* Accepted deletions are not taken back.                                  *)
LEMMA AuthorisedStays == [Next]_vars => authorised \subseteq authorised'
<1> SUFFICES ASSUME [Next]_vars PROVE authorised \subseteq authorised'
  OBVIOUS
<1>1. CASE authorised' = authorised
  BY <1>1
<1>2. CASE \E d \in Deleters : DeleteStep(d)
  BY <1>2 DEF DeleteStep, Authorise, EraseObject, EraseRow, PurgeDeleted, AbortDelete
<1>3. QED BY <1>1, <1>2, StepCases DEF vars, OnlyStores, OnlyUpload, OnlySweep, fileVars

(* An object that is gone stays gone: keys are never used again.           *)
LEMMA GoneStays ==
  ASSUME TypeOK, [Next]_vars, NEW f \in Uploads, Gone(f)
  PROVE  Gone(f)'
<1>1. CASE \E u \in Uploads : UploadStep(u)
  BY <1>1, UploadKeepsGone
<1>2. CASE up' = up /\ objects' \subseteq objects
  BY <1>2 DEF Gone, Tried
<1>3. CASE UNCHANGED vars
  BY <1>2, <1>3 DEF vars, stores
<1>4. CASE StoreStep /\ OnlyStores
  BY <1>2, <1>4 DEF StoreStep, OnlyStores, Tick, EndTransactions, Download, EdgeEvict
<1>5. CASE \E d \in Deleters : DeleteStep(d) /\ OnlyDelete
  BY <1>2, <1>5, DeleteStepObjects DEF OnlyDelete
<1>6. CASE \E s \in Sweepers : SweepStep(s) /\ OnlySweep
  BY <1>2, <1>6, SweepStepObjects DEF OnlySweep
<1>7. QED BY <1>1, <1>3, <1>4, <1>5, <1>6, StepCases

-----------------------------------------------------------------------------
(* Sweepers delete the object first, whatever fails. *)

(* A record becomes a sweeper's current one when its object was deleted.   *)
LEMMA SweepObjectFirst ==
  ASSUME TypeOK, Safe, NEW s \in Sweepers, SweepObject(s), OnlySweep
  PROVE  /\ \A u \in Uploads : sw'[s].cur = u => Gone(u)'
         /\ sw'[s].purge = sw[s].purge
<1>1. PICK r \in Oldest(sw[s].batch) :
        \/ /\ DeleteObject(r.id)
           /\ sw' = [sw EXCEPT ![s].pc = "row", ![s].batch = @ \ {r}, ![s].cur = r.id]
        \/ sw' = [sw EXCEPT ![s].batch = @ \ {r}]
  BY DEF SweepObject
<1>2. r \in sw[s].batch /\ sw[s].pc = "object" /\ up' = up
  BY <1>1, OldestOf DEF SweepObject, OnlySweep
<1>3. Tried(r.id) /\ sw[s].cur = None
  BY <1>2 DEF Safe, SweepersTakeDoomed, Doomed, TypeOK, SweeperTypeOK
<1>4. CASE sw' = [sw EXCEPT ![s].batch = @ \ {r}]
  BY <1>3, <1>4, StoresAssumption DEF TypeOK, SweeperTypeOK
<1>5. CASE /\ DeleteObject(r.id)
           /\ sw' = [sw EXCEPT ![s].pc = "row", ![s].batch = @ \ {r}, ![s].cur = r.id]
  <2>1. sw'[s].cur = r.id /\ sw'[s].purge = sw[s].purge
    BY <1>5 DEF TypeOK, SweeperTypeOK
  <2>2. \A u \in Uploads : u = r.id => Gone(u)'
    BY <1>2, <1>3, <1>5 DEF DeleteObject, Gone, Tried
  <2>3. QED BY <2>1, <2>2
<1>6. QED BY <1>1, <1>4, <1>5

(* The list of URLs to purge grows by the current record only.             *)
LEMMA SweepPurgeList ==
  ASSUME TypeOK, NEW s \in Sweepers, SweepStep(s), ~SweepObject(s)
  PROVE  /\ sw'[s].cur \in {sw[s].cur, None}
         /\ sw'[s].purge \subseteq sw[s].purge \cup ({sw[s].cur} \ {None})
<1> USE DEF TypeOK, SweeperTypeOK, SweepEnd, SweepIdle, SweepDown
<1>1. CASE SweepRow(s)
  BY <1>1 DEF SweepRow
<1>2. CASE ~SweepRow(s)
  BY <1>2 DEF SweepStep, BeginSweep, SelectExpired, CommitSelect, FinishSweep, CrashSweeper
<1>3. QED BY <1>1, <1>2

(* The other sweepers stand still.                                         *)
LEMMA SweepOthers ==
  ASSUME TypeOK, NEW s \in Sweepers, SweepStep(s)
  PROVE  \A t \in Sweepers \ {s} : sw'[t] = sw[t]
<1>1. CASE SweepObject(s)
  BY <1>1, SweepObjectEffect DEF TypeOK
<1>2. CASE ~SweepObject(s)
  BY <1>2 DEF SweepStep, BeginSweep, SelectExpired, CommitSelect, SweepRow, FinishSweep,
              CrashSweeper, SweepEnd, TypeOK, SweeperTypeOK
<1>3. QED BY <1>1, <1>2

(* No step makes a sweeper hold a record whose object may be there.        *)
LEMMA SweepersDeleteFirstStep ==
  ASSUME TypeOK, Safe, SweepersDeleteFirst, [Next]_vars
  PROVE  SweepersDeleteFirst'
<1>1. \A u \in Uploads : Gone(u) => Gone(u)'
  BY GoneStays
<1>2. CASE sw' = sw
  BY <1>1, <1>2 DEF SweepersDeleteFirst
<1>3. ASSUME NEW s \in Sweepers, SweepStep(s), OnlySweep,
             NEW t \in Sweepers, NEW u \in Uploads,
             sw'[t].cur = u \/ u \in sw'[t].purge
      PROVE  Gone(u)'
  <2>1. CASE t # s
    <3>1. sw'[t] = sw[t]
      BY <1>3, <2>1, SweepOthers
    <3>2. QED BY <1>1, <1>3, <3>1 DEF SweepersDeleteFirst
  <2>2. CASE t = s /\ SweepObject(s)
    <3>1. /\ \A f \in Uploads : sw'[s].cur = f => Gone(f)'
          /\ sw'[s].purge = sw[s].purge
      BY <1>3, <2>2, SweepObjectFirst
    <3>2. QED BY <1>1, <1>3, <2>2, <3>1 DEF SweepersDeleteFirst
  <2>3. CASE t = s /\ ~SweepObject(s)
    <3>1. /\ sw'[s].cur \in {sw[s].cur, None}
          /\ sw'[s].purge \subseteq sw[s].purge \cup ({sw[s].cur} \ {None})
      BY <1>3, <2>3, SweepPurgeList
    <3>2. sw[s].cur = u \/ u \in sw[s].purge
      BY <1>3, <2>3, <3>1, StoresAssumption
    <3>3. QED BY <1>1, <3>2 DEF SweepersDeleteFirst
  <2>4. QED BY <2>1, <2>2, <2>3
<1>4. QED BY <1>2, <1>3, StepCases
          DEF vars, OnlyStores, OnlyUpload, OnlyDelete, SweepersDeleteFirst

-----------------------------------------------------------------------------
(* Deletions and purges. *)

(* DeleteBeforeTTL ignores the error of DeleteObject.  The results below   *)
(* are about buckets that answer, or about sweeps alone.                   *)
DeletesSucceed == "storage" \notin Faults \/ Deleters = {}

(* The other deletions stand still; one that reaches the row, or the       *)
(* purge, was a step before there or has just deleted the object.          *)
LEMMA DeletionProgress ==
  ASSUME TypeOK, NEW d \in Deleters, DeleteStep(d)
  PROVE  /\ \A e \in Deleters \ {d} : del'[e] = del[e]
         /\ del'[d].pc \in {"row", "purge"} =>
              /\ del'[d].id = del[d].id
              /\ del[d].pc = "row" \/ EraseObject(d)
<1> USE DEF TypeOK, FileTypeOK, DelGoto, DelEnd, DelIdle
<1>1. CASE \E id, token \in Uploads : Token(token) /\ Authorise(d, id, token)
  BY <1>1 DEF Authorise
<1>2. CASE EraseObject(d)
  BY <1>2 DEF EraseObject
<1>3. CASE EraseRow(d)
  BY <1>3 DEF EraseRow
<1>4. CASE PurgeDeleted(d) \/ AbortDelete(d)
  BY <1>4 DEF PurgeDeleted, AbortDelete
<1>5. QED BY <1>1, <1>2, <1>3, <1>4 DEF DeleteStep

(* When no call of the bucket fails, deletions pass the object only when   *)
(* it is gone.                                                             *)
LEMMA DeletersDeleteFirstStep ==
  ASSUME TypeOK, Safe, DeletesSucceed, DeletersDeleteFirst, [Next]_vars
  PROVE  DeletersDeleteFirst'
<1>1. \A u \in Uploads : Gone(u) => Gone(u)'
  BY GoneStays
<1>2. CASE del' = del
  BY <1>1, <1>2 DEF DeletersDeleteFirst
<1>3. ASSUME NEW d \in Deleters, DeleteStep(d), OnlyDelete,
             NEW e \in Deleters, NEW u \in Uploads,
             del'[e].id = u, del'[e].pc \in {"row", "purge"}
      PROVE  Gone(u)'
  <2>1. CASE e # d
    <3>1. del'[e] = del[e]
      BY <1>3, <2>1, DeletionProgress
    <3>2. QED BY <1>1, <1>3, <3>1 DEF DeletersDeleteFirst
  <2>2. CASE e = d /\ ~EraseObject(d)
    <3>1. del[d].id = u /\ del[d].pc = "row"
      BY <1>3, <2>2, DeletionProgress
    <3>2. QED BY <1>1, <3>1 DEF DeletersDeleteFirst
  <2>3. CASE e = d /\ EraseObject(d)
    <3>1. del[d].id = u /\ del[d].pc = "object"
      BY <1>3, <2>3, DeletionProgress DEF EraseObject
    <3>2. Tried(u)
      BY <3>1 DEF Safe, DeletersAreAuthorised, Tried
    <3>3. up' = up /\ u \notin objects'
      BY <1>3, <2>3, <3>1 DEF EraseObject, DeleteObject, OnlyDelete, DeletesSucceed
    <3>4. QED BY <3>2, <3>3 DEF Gone, Tried
  <2>4. QED BY <2>1, <2>2, <2>3
<1>4. QED BY <1>2, <1>3, StepCases
          DEF vars, fileVars, OnlyStores, OnlyUpload, OnlySweep, DeletersDeleteFirst

(* Purges are of URLs that a sweep or a deletion holds.                    *)
LEMMA PurgedBy ==
  ASSUME TypeOK, [Next]_vars, NEW u \in Uploads, edge'[u] = "purged"
  PROVE  \/ edge[u] = "purged"
         \/ \E d \in Deleters : del[d].id = u /\ del[d].pc = "purge"
         \/ \E s \in Sweepers : u \in sw[s].purge
<1> USE DEF PurgeURLs, PurgeURLsErr, stores
<1>1. CASE edge' = edge
  BY <1>1
<1>2. CASE StoreStep
  BY <1>2 DEF StoreStep, Tick, EndTransactions, Download, EdgeEvict, TypeOK, StoresTypeOK
<1>3. CASE \E f \in Uploads : UploadStep(f)
  BY <1>1, <1>3 DEF UploadStep, Receive, Lookup, Put, Persist, Compensate, Disconnect, CrashUpload
<1>4. CASE \E d \in Deleters : DeleteStep(d)
  BY <1>1, <1>4 DEF DeleteStep, Authorise, EraseObject, EraseRow, PurgeDeleted, AbortDelete
<1>5. CASE \E s \in Sweepers : SweepStep(s)
  BY <1>1, <1>5 DEF SweepStep, BeginSweep, SelectExpired, CommitSelect, SweepObject, SweepRow,
                    FinishSweep, CrashSweeper
<1>6. QED BY <1>1, <1>2, <1>3, <1>4, <1>5, StepCases DEF vars

LEMMA ObjectsGoFirstStep ==
  ASSUME TypeOK, Safe, DeletesSucceed, ObjectsGoFirst, [Next]_vars
  PROVE  ObjectsGoFirst'
<1>1. SweepersDeleteFirst' /\ DeletersDeleteFirst'
  BY SweepersDeleteFirstStep, DeletersDeleteFirstStep DEF ObjectsGoFirst
<1>2. PurgedAreGone'
  BY PurgedBy, GoneStays DEF ObjectsGoFirst, SweepersDeleteFirst, DeletersDeleteFirst, PurgedAreGone
<1>3. QED BY <1>1, <1>2 DEF ObjectsGoFirst

(* Nothing is deleted or purged at the start.                              *)
LEMMA ObjectsGoFirstInit == Init => ObjectsGoFirst
BY StoresAssumption
   DEF Init, StoresInit, FileInit, SweeperInit, DelIdle, SweepIdle,
       ObjectsGoFirst, SweepersDeleteFirst, DeletersDeleteFirst, PurgedAreGone

(* Whatever fails, a sweeper deletes a row, or purges a URL, only after    *)
(* the object is gone for good (sweeper.go, sweepOnce).                    *)
THEOREM SweepersDeleteObjectsFirst == Spec => []SweepersDeleteFirst
<1>1. Init => SweepersDeleteFirst
  BY ObjectsGoFirstInit DEF ObjectsGoFirst
<1>2. IInv /\ SweepersDeleteFirst /\ [Next]_vars => SweepersDeleteFirst'
  BY SweepersDeleteFirstStep DEF IInv, Safe
<1>3. QED BY <1>1, <1>2, InductiveInvariant, PTL DEF Spec

(* Object, row, edge copy: while the bucket answers, every way to delete a *)
(* file keeps this order, whatever else fails and however sweeps and       *)
(* deletions of one file overlap (sweeper.go, file/service.go).            *)
THEOREM ObjectsAreDeletedFirst == DeletesSucceed => (Spec => []ObjectsGoFirst)
<1> SUFFICES ASSUME DeletesSucceed PROVE Spec => []ObjectsGoFirst
  OBVIOUS
<1>1. Init => ObjectsGoFirst
  BY ObjectsGoFirstInit
<1>2. IInv /\ ObjectsGoFirst /\ [Next]_vars => ObjectsGoFirst'
  BY ObjectsGoFirstStep DEF IInv, Safe
<1>3. QED BY <1>1, <1>2, InductiveInvariant, PTL DEF Spec

-----------------------------------------------------------------------------
(* What follows for rows and for edge copies. *)

(* Rows are deleted by the deletion or the sweep that holds their file.    *)
LEMMA RowDeletedBy ==
  ASSUME TypeOK, [Next]_vars, NEW u \in Uploads, Exists(u), ~Exists(u)'
  PROVE  /\ objects' = objects
         /\ \/ \E d \in Deleters : del[d].id = u /\ del[d].pc = "row"
            \/ \E s \in Sweepers : sw[s].cur = u
<1> USE DEF Exists, stores
<1>1. files' # files
  OBVIOUS
<1>2. CASE StoreStep
  BY <1>1, <1>2 DEF StoreStep, Tick, EndTransactions, Download, EdgeEvict
<1>3. ASSUME NEW f \in Uploads, UploadStep(f) PROVE FALSE
  <2>1. Persist(f) /\ InsertErr(f, NewRow(f))
    BY <1>1, <1>3 DEF UploadStep, Receive, Lookup, Put, Persist, Compensate, Disconnect, CrashUpload,
                      InsertErr
  <2>2. NewRow(f) # None
    BY StoresAssumption DEF NewRow, Row, ExpiresAt, TypeOK, UploadTypeOK
  <2>3. QED BY <2>1, <2>2 DEF InsertErr, Insert, TypeOK, StoresTypeOK
<1>4. ASSUME NEW d \in Deleters, DeleteStep(d)
      PROVE  objects' = objects /\ del[d].id = u /\ del[d].pc = "row"
  <2>1. EraseRow(d)
    BY <1>1, <1>4 DEF DeleteStep, Authorise, EraseObject, PurgeDeleted, AbortDelete
  <2>2. QED BY <2>1 DEF EraseRow, DeleteByID, DeleteByIDErr, TypeOK, StoresTypeOK
<1>5. ASSUME NEW s \in Sweepers, SweepStep(s)
      PROVE  objects' = objects /\ sw[s].cur = u
  <2>1. SweepRow(s)
    BY <1>1, <1>5 DEF SweepStep, BeginSweep, SelectExpired, CommitSelect, SweepObject,
                      FinishSweep, CrashSweeper
  <2>2. QED BY <2>1 DEF SweepRow, DeleteByID, DeleteByIDErr, TypeOK, StoresTypeOK
<1>6. QED BY <1>1, <1>2, <1>3, <1>4, <1>5, StepCases DEF vars

LEMMA AcknowledgedOrphanStep ==
  ASSUME TypeOK, Safe, SweepersDeleteFirst, NoAcknowledgedOrphan, [Next]_vars
  PROVE  NoAcknowledgedOrphan'
<1> SUFFICES ASSUME NEW u \in Uploads, u \in objects', up'[u].pc = "done", u \notin authorised'
             PROVE  Exists(u)'
  BY TypeNext DEF NoAcknowledgedOrphan, TypeOK, StoresTypeOK
<1>1. CASE Exists(u)
  <2>1. SUFFICES ASSUME ~Exists(u)' PROVE FALSE
    OBVIOUS
  <2>2. /\ objects' = objects
        /\ \/ \E d \in Deleters : del[d].id = u /\ del[d].pc = "row"
           \/ \E s \in Sweepers : sw[s].cur = u
    BY <1>1, <2>1, RowDeletedBy
  <2>3. CASE \E d \in Deleters : del[d].id = u /\ del[d].pc = "row"
    BY <2>3, AuthorisedStays DEF Safe, DeletersAreAuthorised
  <2>4. CASE \E s \in Sweepers : sw[s].cur = u
    BY <2>2, <2>4 DEF SweepersDeleteFirst, Gone
  <2>5. QED BY <2>2, <2>3, <2>4
<1>2. CASE ~Exists(u)
  <2>1. SUFFICES Persist(u) /\ Insert(u, NewRow(u))
    <3>1. NewRow(u) # None
      BY StoresAssumption DEF NewRow, Row, ExpiresAt, TypeOK, UploadTypeOK
    <3>2. QED BY <2>1, <3>1 DEF Insert, Exists, TypeOK, StoresTypeOK
  <2>2. up[u].pc # "done"
    <3>1. up[u].pc = "done" => u \notin objects
      BY <1>2, AuthorisedStays DEF NoAcknowledgedOrphan
    <3>2. QED BY <3>1, GoneStays DEF Gone, Tried
  <2>3. \E f \in Uploads : UploadStep(f)
    BY <2>2, StepCases DEF vars, OnlyStores, OnlyDelete, OnlySweep
  <2>4. UploadStep(u)
    BY <2>2, <2>3, UploadOthers
  <2>5. QED BY <2>2, <2>4
            DEF UploadStep, Receive, Lookup, Put, Persist, Compensate, Disconnect, CrashUpload,
                Goto, TypeOK, UploadTypeOK
<1>3. QED BY <1>1, <1>2

(* However calls fail and instances crash, the object of an acknowledged   *)
(* file that nobody withdrew has its row: the sweeper will find it, and no *)
(* bucket lifecycle rule is needed for it (sweeper.go, sweepOnce).         *)
THEOREM AcknowledgedFilesAreNotOrphaned == Spec => []NoAcknowledgedOrphan
<1>1. Init => NoAcknowledgedOrphan
  BY DEF Init, StoresInit, NoAcknowledgedOrphan
<1>2. IInv /\ SweepersDeleteFirst /\ NoAcknowledgedOrphan /\ [Next]_vars
        => NoAcknowledgedOrphan'
  BY AcknowledgedOrphanStep DEF IInv, Safe
<1>3. QED BY <1>1, <1>2, InductiveInvariant, SweepersDeleteObjectsFirst, PTL DEF Spec

(* README, Expiry enforcement: no row is given up while its object may     *)
(* still be in the bucket (sweeper.go, sweepOnce).                         *)
THEOREM RowsOutliveObjects == DeletesSucceed => (Spec => RowOutlivesObject)
<1> SUFFICES ASSUME DeletesSucceed PROVE Spec => RowOutlivesObject
  OBVIOUS
<1>1. IInv /\ ObjectsGoFirst /\ [Next]_vars
        => [\A u \in Uploads : Exists(u) /\ ~Exists(u)' => u \notin objects']_vars
  <2> SUFFICES ASSUME IInv, ObjectsGoFirst, [Next]_vars, NEW u \in Uploads, Exists(u), ~Exists(u)'
               PROVE  u \notin objects'
    OBVIOUS
  <2>1. QED BY RowDeletedBy
            DEF IInv, ObjectsGoFirst, SweepersDeleteFirst, DeletersDeleteFirst, Gone
<1>2. QED BY <1>1, InductiveInvariant, ObjectsAreDeletedFirst, PTL DEF Spec, RowOutlivesObject

(* A purged URL is of an object that is gone, so no download brings it     *)
(* back to the edge (cloudflare/purger.go).                                *)
THEOREM PurgesAreFinal == DeletesSucceed => (Spec => PurgeSticks)
<1> SUFFICES ASSUME DeletesSucceed PROVE Spec => PurgeSticks
  OBVIOUS
<1>1. IInv /\ ObjectsGoFirst /\ [Next]_vars
        => [\A u \in Uploads : edge[u] = "purged" => edge'[u] = "purged"]_vars
  <2> SUFFICES ASSUME IInv, ObjectsGoFirst, [Next]_vars, NEW u \in Uploads, edge[u] = "purged"
               PROVE  edge'[u] = "purged"
    OBVIOUS
  <2> USE DEF PurgeURLs, PurgeURLsErr, stores
  <2>1. u \notin objects /\ DOMAIN edge = Uploads
    BY DEF IInv, TypeOK, StoresTypeOK, ObjectsGoFirst, PurgedAreGone, Gone
  <2>2. CASE StoreStep
    BY <2>1, <2>2 DEF StoreStep, Tick, EndTransactions, Download, EdgeEvict
  <2>3. CASE \E f \in Uploads : UploadStep(f)
    BY <2>3 DEF UploadStep, Receive, Lookup, Put, Persist, Compensate, Disconnect, CrashUpload
  <2>4. CASE \E d \in Deleters : DeleteStep(d)
    BY <2>4 DEF DeleteStep, Authorise, EraseObject, EraseRow, PurgeDeleted, AbortDelete
  <2>5. CASE \E s \in Sweepers : SweepStep(s)
    BY <2>5 DEF SweepStep, BeginSweep, SelectExpired, CommitSelect, SweepObject, SweepRow,
                FinishSweep, CrashSweeper
  <2>6. QED BY <2>2, <2>3, <2>4, <2>5, StepCases DEF vars
<1>2. QED BY <1>1, InductiveInvariant, ObjectsAreDeletedFirst, PTL DEF Spec, PurgeSticks

-----------------------------------------------------------------------------
(* Nothing is lost track of. *)

(* Without cancellations every request keeps a context that is alive.      *)
AllConnected == \A u \in Uploads : up[u].connected

LEMMA ConnectedInit == Init => AllConnected
BY DEF Init, UploadInit, AllConnected

LEMMA ConnectedStep ==
  ASSUME TypeOK, "cancel" \notin Faults, AllConnected, [Next]_vars
  PROVE  AllConnected'
<1>1. CASE up' = up
  BY <1>1 DEF AllConnected
<1>2. ASSUME NEW u \in Uploads, UploadStep(u) PROVE AllConnected'
  <2>1. up'[u].connected = up[u].connected
    <3> USE DEF TypeOK, UploadTypeOK, Goto
    <3>1. CASE Receive(u) \/ Lookup(u)
      BY <3>1 DEF Receive, Lookup
    <3>2. CASE Put(u) \/ Persist(u) \/ Compensate(u) \/ CrashUpload(u)
      BY <3>2 DEF Put, Persist, Compensate, CrashUpload
    <3>3. QED BY <1>2, <3>1, <3>2 DEF UploadStep, Disconnect
  <2>2. QED BY <1>2, <2>1, UploadOthers DEF AllConnected
<1>3. QED BY <1>1, <1>2, StepCases DEF vars, OnlyStores, OnlyDelete, OnlySweep

(* What keeps a request from leaving an object behind: the insert makes a  *)
(* row or is compensated, and the compensation deletes the object.         *)
LEMMA UploadLeavesNoOrphan ==
  ASSUME TypeOK, Faults \subseteq {"db", "purge"}, AllConnected, NEW u \in Uploads, UploadStep(u),
         u \in objects => Exists(u) \/ up[u].pc \in {"insert", "undo"},
         u \in objects'
  PROVE  Exists(u)' \/ up'[u].pc \in {"insert", "undo"}
<1> USE DEF Goto, TypeOK, UploadTypeOK, StoresTypeOK, stores, Exists
<1>1. /\ up[u].connected
      /\ "storage" \notin Faults /\ "cancel" \notin Faults /\ "crash" \notin Faults
  BY DEF AllConnected
<1>2. CASE Receive(u) \/ Lookup(u)
  <2>1. u \in objects /\ files' = files /\ up[u].pc \in {"idle", "lookup"}
    BY <1>2 DEF Receive, Lookup
  <2>2. QED BY <2>1
<1>3. CASE Put(u)
  BY <1>1, <1>3 DEF Put, Answers, Fails
<1>4. CASE Persist(u)
  <2>1. NewRow(u) # None
    BY StoresAssumption DEF NewRow, Row, ExpiresAt
  <2>2. CASE Insert(u, NewRow(u))
    BY <2>1, <2>2 DEF Insert
  <2>3. CASE Goto(u, "undo")
    BY <2>3
  <2>4. QED BY <1>4, <2>2, <2>3 DEF Persist
<1>5. CASE Compensate(u)
  BY <1>1, <1>5 DEF Compensate, DeleteObject
<1>6. CASE Disconnect(u) \/ CrashUpload(u)
  BY <1>1, <1>6 DEF Disconnect, CrashUpload
<1>7. QED BY <1>2, <1>3, <1>4, <1>5, <1>6 DEF UploadStep

LEMMA NoOrphanStep ==
  ASSUME TypeOK, Faults \subseteq {"db", "purge"}, AllConnected, ObjectsGoFirst,
         NoOrphanObject, [Next]_vars
  PROVE  NoOrphanObject'
<1> SUFFICES ASSUME NEW u \in Uploads, u \in objects'
             PROVE  Exists(u)' \/ up'[u].pc \in {"insert", "undo"}
  <2>1. objects' \subseteq Uploads
    BY TypeNext DEF TypeOK, StoresTypeOK
  <2>2. QED BY <2>1 DEF NoOrphanObject
<1>1. Exists(u) /\ ~Exists(u)' => u \notin objects'
  BY RowDeletedBy DEF ObjectsGoFirst, SweepersDeleteFirst, DeletersDeleteFirst, Gone
<1>2. CASE up' = up /\ objects' \subseteq objects
  BY <1>1, <1>2 DEF NoOrphanObject
<1>3. ASSUME NEW f \in Uploads, UploadStep(f)
      PROVE  Exists(u)' \/ up'[u].pc \in {"insert", "undo"}
  <2>1. CASE u = f
    BY <1>3, <2>1, UploadLeavesNoOrphan DEF NoOrphanObject
  <2>2. CASE u # f
    BY <1>3, <2>2, UploadOthers DEF NoOrphanObject, Exists
  <2>3. QED BY <2>1, <2>2
<1>4. CASE StoreStep /\ OnlyStores
  BY <1>2, <1>4 DEF StoreStep, OnlyStores, Tick, EndTransactions, Download, EdgeEvict
<1>5. CASE \E d \in Deleters : DeleteStep(d) /\ OnlyDelete
  BY <1>2, <1>5, DeleteStepObjects DEF OnlyDelete
<1>6. CASE \E s \in Sweepers : SweepStep(s) /\ OnlySweep
  BY <1>2, <1>6, SweepStepObjects DEF OnlySweep
<1>7. CASE UNCHANGED vars
  BY <1>2, <1>7 DEF vars, stores
<1>8. QED BY <1>3, <1>4, <1>5, <1>6, <1>7, StepCases

(* Failures of the database alone leave no object without a row: uploads   *)
(* compensate, sweeps and deletions take the object first                  *)
(* (upload/service.go, sweeper.go, file/service.go).                       *)
THEOREM NoObjectIsOrphaned == Faults \subseteq {"db", "purge"} => (Spec => []NoOrphanObject)
<1> SUFFICES ASSUME Faults \subseteq {"db", "purge"} PROVE Spec => []NoOrphanObject
  OBVIOUS
<1>1. Init => AllConnected /\ NoOrphanObject
  BY ConnectedInit DEF Init, StoresInit, NoOrphanObject
<1>2. IInv /\ ObjectsGoFirst /\ AllConnected /\ NoOrphanObject /\ [Next]_vars
        => (AllConnected /\ NoOrphanObject)'
  BY ConnectedStep, NoOrphanStep DEF IInv
<1>3. Spec => []ObjectsGoFirst
  BY ObjectsAreDeletedFirst DEF DeletesSucceed
<1>4. QED BY <1>1, <1>2, <1>3, InductiveInvariant, PTL DEF Spec

-----------------------------------------------------------------------------
(* Duplicates. *)

(* Rows come from inserts.                                                 *)
LEMMA RowInsertedBy ==
  ASSUME TypeOK, [Next]_vars, NEW u \in Uploads, Exists(u)', ~Exists(u)
  PROVE  Persist(u)
<1> USE DEF Exists, stores
<1>1. files' # files
  OBVIOUS
<1>2. CASE StoreStep
  BY <1>1, <1>2 DEF StoreStep, Tick, EndTransactions, Download, EdgeEvict
<1>3. ASSUME NEW f \in Uploads, UploadStep(f) PROVE Persist(u)
  <2>1. Persist(f)
    BY <1>1, <1>3 DEF UploadStep, Receive, Lookup, Put, Compensate, Disconnect, CrashUpload
  <2>2. u = f
    BY <1>3, UploadOthers
  <2>3. QED BY <2>1, <2>2
<1>4. ASSUME NEW d \in Deleters, DeleteStep(d) PROVE FALSE
  BY <1>1, <1>4 DEF DeleteStep, Authorise, EraseObject, EraseRow, PurgeDeleted, AbortDelete,
                    DeleteByID, DeleteByIDErr, TypeOK, StoresTypeOK
<1>5. ASSUME NEW s \in Sweepers, SweepStep(s) PROVE FALSE
  BY <1>1, <1>5 DEF SweepStep, BeginSweep, SelectExpired, CommitSelect, SweepObject, SweepRow,
                    FinishSweep, CrashSweeper, DeleteByID, DeleteByIDErr, TypeOK, StoresTypeOK
<1>6. QED BY <1>1, <1>2, <1>3, <1>4, <1>5, StepCases DEF vars

(* What was inserted keeps its expiry, and until then row and object: who  *)
(* deletes has waited for it or has the token.                             *)
LEMMA YoungKept ==
  ASSUME TypeOK, Safe, [Next]_vars, NEW f \in Uploads, Tried(f)
  PROVE  /\ Tried(f)' /\ ExpiresAt(f)' = ExpiresAt(f)
         /\ now =< now' /\ authorised \subseteq authorised'
         /\ now < ExpiresAt(f) /\ f \notin authorised =>
              /\ files'[f] = files[f]
              /\ f \in objects /\ ~Compensate(f) => f \in objects'
<1>1. now \in Nat /\ ExpiresAt(f) \in Nat
  BY StoresAssumption DEF TypeOK, StoresTypeOK, UploadTypeOK, ExpiresAt
<1>2. now < ExpiresAt(f) => ~Doomed(f)
  BY <1>1 DEF Doomed
<1>3. CASE UNCHANGED vars
  BY <1>1, <1>3 DEF vars, fileVars, stores, Tried, ExpiresAt
<1>4. CASE StoreStep /\ OnlyStores
  BY <1>1, <1>4 DEF StoreStep, OnlyStores, fileVars, Tick, EndTransactions, Download, EdgeEvict, Tried, ExpiresAt
<1>5. ASSUME NEW u \in Uploads, UploadStep(u), OnlyUpload
      PROVE  /\ Tried(f)' /\ ExpiresAt(f)' = ExpiresAt(f)
             /\ now =< now' /\ authorised \subseteq authorised'
             /\ files'[f] = files[f]
             /\ f \in objects /\ ~Compensate(f) => f \in objects'
  <2>1. now' = now /\ authorised' = authorised
    BY <1>5 DEF UploadStep, Receive, Lookup, Put, Persist, Compensate, Disconnect, CrashUpload,
                OnlyUpload, fileVars, stores
  <2>2. CASE u # f
    BY <1>1, <1>5, <2>1, <2>2, UploadOthers DEF Tried, ExpiresAt, Compensate, Goto
  <2>3. CASE u = f
    <3>1. Compensate(f) \/ Disconnect(f) \/ CrashUpload(f)
      BY <1>5, <2>3 DEF UploadStep, Receive, Lookup, Put, Persist, Tried
    <3>2. QED BY <1>1, <2>1, <3>1
              DEF Compensate, Disconnect, CrashUpload, Goto, InFlight, Tried, ExpiresAt, stores,
                  TypeOK, UploadTypeOK
  <2>4. QED BY <2>2, <2>3
<1>6. CASE \E d \in Deleters : DeleteStep(d) /\ OnlyDelete
  <2>1. now' = now /\ up' = up /\ authorised \subseteq authorised'
    BY <1>6 DEF DeleteStep, Authorise, EraseObject, EraseRow, PurgeDeleted, AbortDelete,
                OnlyDelete, stores
  <2>2. f \notin authorised => files'[f] = files[f] /\ (f \in objects' <=> f \in objects)
    BY <1>6, DeleteTouches DEF DeleteStep, Safe
  <2>3. QED BY <1>1, <2>1, <2>2 DEF Tried, ExpiresAt
<1>7. CASE \E s \in Sweepers : SweepStep(s) /\ OnlySweep
  <2>1. now' = now /\ up' = up /\ authorised' = authorised
    BY <1>7 DEF SweepStep, BeginSweep, SelectExpired, CommitSelect, SweepObject, SweepRow,
                FinishSweep, CrashSweeper, OnlySweep, fileVars, stores
  <2>2. ~Doomed(f) => files'[f] = files[f] /\ (f \in objects' <=> f \in objects)
    BY <1>7, SweepTouches DEF SweepStep, Safe
  <2>3. QED BY <1>1, <1>2, <2>1, <2>2 DEF Tried, ExpiresAt
<1>8. QED BY <1>3, <1>4, <1>5, <1>6, <1>7, StepCases

(* A row that may be found has its object, acknowledged or not, until a    *)
(* compensation that can be sent is over.                                  *)
RowsHaveObjects ==
  \A u \in Uploads :
    Exists(u) /\ now < ExpiresAt(u) /\ u \notin authorised /\ ~GivenUp(u)
      => u \in objects

(* A duplicate was answered with a row that is still there.                *)
DupsHaveRows ==
  \A u \in Uploads :
    LET f == up[u].answer
    IN up[u].pc = "dup" =>
         Tried(f) /\ (now < ExpiresAt(f) /\ f \notin authorised => Exists(f))

(* A request that has failed stays as it is.                               *)
LEMMA FinishedStays ==
  ASSUME TypeOK, [Next]_vars, NEW u \in Uploads, up[u].pc = "failed"
  PROVE  up'[u] = up[u]
<1>1. CASE UploadStep(u)
  BY <1>1 DEF UploadStep, Receive, Lookup, Put, Persist, Compensate, Disconnect, CrashUpload,
              InFlight
<1>2. QED BY <1>1, StepCases, UploadOthers DEF vars, OnlyStores, OnlyDelete, OnlySweep

LEMMA RowsHaveObjectsStep ==
  ASSUME TypeOK, Safe, RowsHaveObjects, [Next]_vars
  PROVE  RowsHaveObjects'
<1> SUFFICES ASSUME NEW u \in Uploads, Exists(u)', now' < ExpiresAt(u)', u \notin authorised',
                    ~GivenUp(u)'
             PROVE  u \in objects'
  BY DEF RowsHaveObjects
<1>1. now \in Nat /\ now' \in Nat /\ ExpiresAt(u) \in Nat
  BY TypeNext, StoresAssumption DEF TypeOK, StoresTypeOK, UploadTypeOK, ExpiresAt
<1>2. CASE ~Exists(u)
  BY <1>2, RowInsertedBy DEF Persist, Safe, StoredBeforeInsert
<1>3. CASE Exists(u)
  <2>1. Tried(u)
    BY <1>3 DEF Safe, RowsOfTriedUploads
  <2>2. now < ExpiresAt(u) /\ u \notin authorised
    BY <1>1, <2>1, YoungKept
  <2>3. u \in objects
    BY <1>3, <2>2, FinishedStays DEF RowsHaveObjects, GivenUp
  <2>4. CASE Compensate(u)
    BY <2>3, <2>4 DEF Compensate, GivenUp, Goto, TypeOK, UploadTypeOK
  <2>5. CASE ~Compensate(u)
    BY <2>1, <2>2, <2>3, <2>5, YoungKept
  <2>6. QED BY <2>4, <2>5
<1>4. QED BY <1>2, <1>3

LEMMA DupsHaveRowsStep ==
  ASSUME TypeOK, Safe, DupsHaveRows, [Next]_vars
  PROVE  DupsHaveRows'
<1> SUFFICES ASSUME NEW u \in Uploads, NEW f \in Uploads, up'[u].pc = "dup", up'[u].answer = f
             PROVE  Tried(f)' /\ (now' < ExpiresAt(f)' /\ f \notin authorised' => Exists(f)')
  BY TypeNext DEF DupsHaveRows, TypeOK, UploadTypeOK
<1>1. now \in Nat /\ now' \in Nat /\ ExpiresAt(f) \in Nat
  BY TypeNext, StoresAssumption DEF TypeOK, StoresTypeOK, UploadTypeOK, ExpiresAt
<1>2. ASSUME Tried(f), now < ExpiresAt(f) /\ f \notin authorised => Exists(f)
      PROVE  Tried(f)' /\ (now' < ExpiresAt(f)' /\ f \notin authorised' => Exists(f)')
  BY <1>1, <1>2, YoungKept DEF Exists
<1>3. CASE up[u].pc = "dup" /\ up[u].answer = f
  BY <1>2, <1>3 DEF DupsHaveRows
<1>4. CASE Lookup(u) /\ f \in FindActiveByChecksum(up[u].content, up[u].at)
  BY <1>2, <1>4 DEF FindActiveByChecksum, Safe, RowsOfTriedUploads
<1>5. \/ up[u].pc = "dup" /\ up[u].answer = f
      \/ Lookup(u) /\ f \in FindActiveByChecksum(up[u].content, up[u].at)
  <2>1. CASE UploadStep(u)
    BY <2>1 DEF UploadStep, Receive, Lookup, Put, Persist, Compensate, Disconnect, CrashUpload,
                Goto, TypeOK, UploadTypeOK
  <2>2. CASE up'[u] = up[u]
    BY <2>2
  <2>3. QED BY <2>1, <2>2, StepCases, UploadOthers DEF vars, OnlyStores, OnlyDelete, OnlySweep
<1>6. QED BY <1>3, <1>4, <1>5

(* A "duplicate: true" answer is a file that is served until it expires or *)
(* is withdrawn, whatever fails, unless its own upload was given up while  *)
(* its client was there.  Clients that go away make no difference: a       *)
(* request that is cancelled at the insert may leave a row, but then it    *)
(* leaves the object as well (upload/service.go, Upload).                  *)
THEOREM DuplicatesAreServed == Spec => []DuplicateServedUnlessGivenUp
<1> DEFINE Inv == RowsHaveObjects /\ DupsHaveRows
<1>1. Init => Inv
  <2>1. Init => RowsHaveObjects
    BY DEF Init, StoresInit, Exists, RowsHaveObjects
  <2>2. Init => DupsHaveRows
    BY DEF Init, UploadInit, DupsHaveRows
  <2>3. QED BY <2>1, <2>2
<1>2. IInv /\ Inv /\ [Next]_vars => Inv'
  BY RowsHaveObjectsStep, DupsHaveRowsStep DEF IInv, Safe
<1>3. IInv /\ Inv => DuplicateServedUnlessGivenUp
  BY DEF IInv, TypeOK, UploadTypeOK, RowsHaveObjects, DupsHaveRows, ServedInTime,
         DuplicateServedUnlessGivenUp
<1>4. QED BY <1>1, <1>2, <1>3, InductiveInvariant, PTL DEF Spec

-----------------------------------------------------------------------------
(* Edge copies. *)

(* Nothing is collected for a purge before the batch is there; edge copies *)
(* matter only with purging on; nothing is compensated when no call fails. *)
PurgeListFresh ==
  \A s \in Sweepers : sw[s].pc \in {"idle", "find", "commit", "down"} => sw[s].purge = {}

EdgeUsed == \A u \in Uploads : edge[u] = "cached" => CachePurgeOn

NoUndo == \A u \in Uploads : up[u].pc # "undo"

Calm == AllConnected /\ NoUndo /\ PurgeListFresh /\ EdgeUsed

LEMMA CalmInit == Init => Calm
<1>1. Init => NoUndo
  BY DEF Init, UploadInit, NoUndo
<1>2. Init => PurgeListFresh
  BY DEF Init, SweeperInit, SweepIdle, PurgeListFresh
<1>3. Init => EdgeUsed
  BY DEF Init, StoresInit, EdgeUsed
<1>4. QED BY <1>1, <1>2, <1>3, ConnectedInit DEF Calm

LEMMA NoUndoStep ==
  ASSUME TypeOK, Faults = {}, AllConnected, NoUndo, [Next]_vars
  PROVE  NoUndo'
<1>1. CASE up' = up
  BY <1>1 DEF NoUndo
<1>2. ASSUME NEW u \in Uploads, UploadStep(u) PROVE NoUndo'
  <2>1. up'[u].pc # "undo"
    <3> USE DEF TypeOK, UploadTypeOK, Goto
    <3>1. CASE Receive(u) \/ Lookup(u)
      BY <3>1 DEF Receive, Lookup
    <3>2. CASE Put(u) \/ Persist(u)
      BY <3>2 DEF Put, Persist, Fails, AllConnected
    <3>3. QED BY <1>2, <3>1, <3>2
              DEF UploadStep, Compensate, Disconnect, CrashUpload, NoUndo
  <2>2. QED BY <1>2, <2>1, UploadOthers DEF NoUndo
<1>3. QED BY <1>1, <1>2, StepCases DEF vars, OnlyStores, OnlyDelete, OnlySweep

LEMMA PurgeListFreshStep ==
  ASSUME TypeOK, PurgeListFresh, [Next]_vars
  PROVE  PurgeListFresh'
<1>1. CASE sw' = sw
  BY <1>1 DEF PurgeListFresh
<1>2. ASSUME NEW s \in Sweepers, SweepStep(s)
      PROVE  sw'[s].pc \in {"idle", "find", "commit", "down"} => sw'[s].purge = {}
  <2> USE DEF TypeOK, SweeperTypeOK, SweepEnd, SweepIdle, SweepDown, PurgeListFresh
  <2>1. CASE SweepObject(s)
    BY <2>1, SweepObjectEffect
  <2>2. CASE ~SweepObject(s)
    BY <1>2, <2>2 DEF SweepStep, BeginSweep, SelectExpired, CommitSelect, SweepRow, FinishSweep,
                      CrashSweeper
  <2>3. QED BY <2>1, <2>2
<1>3. QED BY <1>1, <1>2, SweepOthers, StepCases
          DEF vars, OnlyStores, OnlyUpload, OnlyDelete, PurgeListFresh

LEMMA EdgeUsedStep ==
  ASSUME TypeOK, EdgeUsed, [Next]_vars
  PROVE  EdgeUsed'
<1> USE DEF PurgeURLs, PurgeURLsErr, stores, EdgeUsed, TypeOK, StoresTypeOK
<1>1. CASE edge' = edge
  BY <1>1
<1>2. CASE StoreStep
  BY <1>2 DEF StoreStep, Tick, EndTransactions, Download, EdgeEvict
<1>3. CASE \E f \in Uploads : UploadStep(f)
  BY <1>1, <1>3 DEF UploadStep, Receive, Lookup, Put, Persist, Compensate, Disconnect, CrashUpload
<1>4. CASE \E d \in Deleters : DeleteStep(d)
  BY <1>4 DEF DeleteStep, Authorise, EraseObject, EraseRow, PurgeDeleted, AbortDelete
<1>5. CASE \E s \in Sweepers : SweepStep(s)
  BY <1>5 DEF SweepStep, BeginSweep, SelectExpired, CommitSelect, SweepObject, SweepRow,
              FinishSweep, CrashSweeper
<1>6. QED BY <1>1, <1>2, <1>3, <1>4, <1>5, StepCases DEF vars

LEMMA CalmStep ==
  ASSUME TypeOK, Faults = {}, Calm, [Next]_vars
  PROVE  Calm'
BY ConnectedStep, NoUndoStep, PurgeListFreshStep, EdgeUsedStep DEF Calm

(* Somebody holds the file and will purge its URL.                         *)
HeldByDelete(u) == \E d \in Deleters : del[d].id = u /\ del[d].pc \in {"row", "purge"}
HeldBySweep(u) == \E s \in Sweepers : sw[s].cur = u \/ u \in sw[s].purge

(* A deletion takes the file over from the bucket, keeps it through the    *)
(* row, and lets go of it by purging its URL.                              *)
LEMMA DeleteTracks ==
  ASSUME TypeOK, Faults = {}, CachePurgeOn, NEW d \in Deleters, DeleteStep(d), NEW u \in Uploads,
         u \in objects \/ HeldByDelete(u)
  PROVE  u \in objects' \/ HeldByDelete(u)' \/ edge'[u] = "purged"
<1> USE DEF TypeOK, FileTypeOK, StoresTypeOK, DelGoto, DelEnd, DelIdle
<1>1. \A e \in Deleters \ {d} : del'[e] = del[e]
  BY DeletionProgress
<1>2. CASE u \in objects
  <2>1. CASE EraseObject(d)
    <3>1. del'[d].pc = "row" /\ del'[d].id = del[d].id
      BY <2>1 DEF EraseObject
    <3>2. objects' = objects \ {del[d].id}
      BY <2>1 DEF EraseObject, DeleteObject
    <3>3. QED BY <1>2, <3>1, <3>2 DEF HeldByDelete
  <2>2. CASE ~EraseObject(d)
    BY <1>2, <2>2 DEF DeleteStep, Authorise, EraseRow, PurgeDeleted, AbortDelete, stores
  <2>3. QED BY <2>1, <2>2
<1>3. ASSUME NEW e \in Deleters, del[e].id = u, del[e].pc \in {"row", "purge"}
      PROVE  HeldByDelete(u)' \/ edge'[u] = "purged"
  <2>1. CASE e # d
    BY <1>1, <1>3, <2>1 DEF HeldByDelete
  <2>2. CASE e = d /\ EraseRow(d)
    <3>1. del'[d].pc = "purge" /\ del'[d].id = u
      BY <1>3, <2>2 DEF EraseRow
    <3>2. QED BY <3>1 DEF HeldByDelete
  <2>3. CASE e = d /\ PurgeDeleted(d)
    BY <1>3, <2>3 DEF PurgeDeleted, PurgeURLs
  <2>4. QED BY <1>3, <2>1, <2>2, <2>3 DEF DeleteStep, Authorise, EraseObject, AbortDelete
<1>4. QED BY <1>2, <1>3 DEF HeldByDelete

(* So does a sweep, which collects the URLs and purges them at the end.    *)
LEMMA SweepTracks ==
  ASSUME TypeOK, Faults = {}, CachePurgeOn, PurgeListFresh,
         NEW s \in Sweepers, SweepStep(s), NEW u \in Uploads,
         u \in objects \/ HeldBySweep(u)
  PROVE  u \in objects' \/ HeldBySweep(u)' \/ edge'[u] = "purged"
<1> USE DEF TypeOK, SweeperTypeOK, StoresTypeOK
<1>1. \A t \in Sweepers \ {s} : sw'[t] = sw[t]
  BY SweepOthers
<1>2. CASE SweepObject(s)
  <2>1. PICK r \in Oldest(sw[s].batch) :
          /\ DeleteObject(r.id)
          /\ sw' = [sw EXCEPT ![s].pc = "row", ![s].batch = @ \ {r}, ![s].cur = r.id]
    BY <1>2 DEF SweepObject
  <2>2. sw'[s].cur = r.id /\ sw'[s].purge = sw[s].purge
    BY <2>1
  <2>3. sw[s].cur = None
    BY <1>2 DEF SweepObject
  <2>4. QED BY <1>1, <2>1, <2>2, <2>3, StoresAssumption DEF HeldBySweep, DeleteObject
<1>3. CASE SweepRow(s)
  <2>1. sw'[s].purge = sw[s].purge \cup {sw[s].cur} /\ objects' = objects
    BY <1>3 DEF SweepRow
  <2>2. QED BY <1>1, <2>1 DEF HeldBySweep
<1>4. CASE FinishSweep(s)
  <2>1. u \in sw[s].purge => edge'[u] = "purged"
    BY <1>4 DEF FinishSweep, PurgeURLs
  <2>2. sw[s].cur = None /\ objects' = objects
    BY <1>4 DEF FinishSweep
  <2>3. QED BY <1>1, <2>1, <2>2, StoresAssumption DEF HeldBySweep
<1>5. CASE BeginSweep(s) \/ SelectExpired(s) \/ CommitSelect(s)
  <2>1. sw[s].purge = {} /\ sw[s].cur = None /\ objects' = objects
    BY <1>5 DEF BeginSweep, SelectExpired, CommitSelect, PurgeListFresh, stores
  <2>2. QED BY <1>1, <2>1, StoresAssumption DEF HeldBySweep
<1>6. QED BY <1>2, <1>3, <1>4, <1>5 DEF SweepStep, CrashSweeper

LEMMA EdgeCopyStep ==
  ASSUME TypeOK, Faults = {}, Calm, EdgeCopyTracked, [Next]_vars
  PROVE  EdgeCopyTracked'
<1> SUFFICES ASSUME NEW u \in Uploads, edge'[u] = "cached"
             PROVE  u \in objects' \/ HeldByDelete(u)' \/ HeldBySweep(u)'
  BY DEF EdgeCopyTracked, HeldByDelete, HeldBySweep
<1>1. edge[u] = "cached" \/ (StoreStep /\ u \in objects')
  <2> USE DEF PurgeURLs, PurgeURLsErr, stores, TypeOK, StoresTypeOK
  <2>1. CASE StoreStep
    BY <2>1 DEF StoreStep, Tick, EndTransactions, Download, EdgeEvict
  <2>2. CASE \E f \in Uploads : UploadStep(f)
    BY <2>2 DEF UploadStep, Receive, Lookup, Put, Persist, Compensate, Disconnect, CrashUpload
  <2>3. CASE \E d \in Deleters : DeleteStep(d)
    BY <2>3 DEF DeleteStep, Authorise, EraseObject, EraseRow, PurgeDeleted, AbortDelete
  <2>4. CASE \E s \in Sweepers : SweepStep(s)
    BY <2>4 DEF SweepStep, BeginSweep, SelectExpired, CommitSelect, SweepObject, SweepRow,
                FinishSweep, CrashSweeper
  <2>5. QED BY <2>1, <2>2, <2>3, <2>4, StepCases DEF vars
<1>2. CASE edge[u] = "cached"
  <2>1. CachePurgeOn
    BY <1>2 DEF Calm, EdgeUsed
  <2>2. u \in objects \/ HeldByDelete(u) \/ HeldBySweep(u)
    BY <1>2 DEF EdgeCopyTracked, HeldByDelete, HeldBySweep
  <2>3. del' = del => (HeldByDelete(u) => HeldByDelete(u)')
    BY DEF HeldByDelete
  <2>4. sw' = sw => (HeldBySweep(u) => HeldBySweep(u)')
    BY DEF HeldBySweep
  <2>5. CASE objects \subseteq objects' /\ del' = del /\ sw' = sw
    BY <2>2, <2>3, <2>4, <2>5
  <2>6. CASE \E f \in Uploads : UploadStep(f) /\ OnlyUpload
    <3>1. objects \subseteq objects'
      BY <2>6 DEF UploadStep, Receive, Lookup, Put, Persist, Compensate, Disconnect, CrashUpload,
                  PutObject, PutObjectErr, Calm, NoUndo, stores
    <3>2. QED BY <2>5, <2>6, <3>1 DEF OnlyUpload, fileVars
  <2>7. CASE \E d \in Deleters : DeleteStep(d) /\ OnlyDelete
    <3>1. CASE HeldBySweep(u)
      BY <2>4, <2>7, <3>1 DEF OnlyDelete
    <3>2. CASE u \in objects \/ HeldByDelete(u)
      BY <2>1, <2>7, <3>2, DeleteTracks
    <3>3. QED BY <2>2, <3>1, <3>2
  <2>8. CASE \E s \in Sweepers : SweepStep(s) /\ OnlySweep
    <3>1. CASE HeldByDelete(u)
      BY <2>3, <2>8, <3>1 DEF OnlySweep, fileVars
    <3>2. CASE u \in objects \/ HeldBySweep(u)
      BY <2>1, <2>8, <3>2, SweepTracks DEF Calm
    <3>3. QED BY <2>2, <3>1, <3>2
  <2>9. CASE StoreStep /\ OnlyStores
    BY <2>5, <2>9 DEF StoreStep, OnlyStores, fileVars, Tick, EndTransactions, Download, EdgeEvict
  <2>10. CASE UNCHANGED vars
    BY <2>5, <2>10 DEF vars, stores, fileVars
  <2>11. QED BY <2>6, <2>7, <2>8, <2>9, <2>10, StepCases
<1>3. QED BY <1>1, <1>2

(* With purging on and no failures, the edge copy of a deleted object is   *)
(* always held by a deletion or a sweep that purges it, for any number of  *)
(* them on the same file (file/service.go, sweeper.go, purger.go).         *)
THEOREM EdgeCopiesAreTracked == Faults = {} => (Spec => []EdgeCopyTracked)
<1> SUFFICES ASSUME Faults = {} PROVE Spec => []EdgeCopyTracked
  OBVIOUS
<1>1. Init => Calm /\ EdgeCopyTracked
  BY CalmInit DEF Init, StoresInit, EdgeCopyTracked
<1>2. TypeOK /\ Calm /\ EdgeCopyTracked /\ [Next]_vars => (Calm /\ EdgeCopyTracked)'
  BY CalmStep, EdgeCopyStep
<1>3. QED BY <1>1, <1>2, TypeCorrect, PTL DEF Spec

-----------------------------------------------------------------------------
(* Row locks. *)

(* The records of a batch carry the ids it was made from.                  *)
LEMMA ScannedIds == ASSUME NEW B PROVE Ids(Scanned(B)) = B
<1>1. ASSUME NEW r \in Scanned(B) PROVE r.id \in B
  BY DEF Scanned
<1>2. ASSUME NEW u \in B PROVE \E r \in Scanned(B) : r.id = u
  <2>1. [id |-> u, expiresAt |-> files[u].expiresAt] \in Scanned(B)
    BY DEF Scanned
  <2>2. QED BY <2>1
<1>3. QED BY <1>1, <1>2 DEF Ids

(* FindExpired skips locked rows.                                          *)
LEMMA FoundUnlocked ==
  ASSUME NEW before, NEW limit, NEW B \in FindExpired(before, limit)
  PROVE  B \cap locked = {}
BY DEF FindExpired

(* Which rows a sweeper's open transaction has locked.                     *)
Claimed(s) == IF sw[s].pc = "commit" THEN Ids(sw[s].batch) ELSE {}

(* A locked row is left alone: deletions wait, and it is not inserted      *)
(* again.                                                                  *)
LEMMA LockedRowKept ==
  ASSUME TypeOK, Safe, [Next]_vars, NEW u \in Uploads, u \in locked, Exists(u)
  PROVE  files'[u] = files[u]
<1> USE DEF TypeOK, StoresTypeOK, stores
<1>1. CASE StoreStep \/ UNCHANGED vars
  BY <1>1 DEF StoreStep, Tick, EndTransactions, Download, EdgeEvict, vars
<1>2. ASSUME NEW f \in Uploads, UploadStep(f) PROVE files'[u] = files[u]
  <2>1. CASE f = u
    <3>1. up[u].pc # "insert"
      BY DEF Safe, RowsOfTriedUploads, Tried
    <3>2. QED BY <1>2, <2>1, <3>1 DEF UploadStep, Receive, Lookup, Put, Persist, Compensate,
                                      Disconnect, CrashUpload
  <2>2. CASE f # u
    BY <1>2, <2>2, UploadOthers
  <2>3. QED BY <2>1, <2>2
<1>3. CASE \E d \in Deleters : DeleteStep(d)
  BY <1>3 DEF DeleteStep, Authorise, EraseObject, EraseRow, PurgeDeleted, AbortDelete,
              DeleteByID, DeleteByIDErr
<1>4. CASE \E s \in Sweepers : SweepStep(s)
  BY <1>4 DEF SweepStep, BeginSweep, SelectExpired, CommitSelect, SweepObject, SweepRow,
              FinishSweep, CrashSweeper, DeleteByID, DeleteByIDErr
<1>5. QED BY <1>1, <1>2, <1>3, <1>4, StepCases

(* A sweeper has a transaction open only after its query, which locked     *)
(* rows that were free; no step of it gives up the locks of others.        *)
LEMMA SweepClaims ==
  ASSUME TypeOK, NEW s \in Sweepers, SweepStep(s)
  PROVE  /\ sw'[s].pc = "commit" =>
              \E B \in FindExpired(sw[s].at, BatchSize) :
                sw'[s].batch = Scanned(B) /\ locked' = locked \cup B /\ files' = files
         /\ locked \ Claimed(s) \subseteq locked'
         /\ \A u \in locked' \ locked : Exists(u)'
<1> USE DEF TypeOK, SweeperTypeOK, SweepEnd, SweepIdle, SweepDown, stores
<1>1. CASE SelectExpired(s)
  <2>1. PICK B \in FindExpired(sw[s].at, BatchSize) :
          \/ /\ locked' = locked \cup B
             /\ sw' = [sw EXCEPT ![s].pc = "commit", ![s].batch = Scanned(B)]
          \/ locked' \in {locked, locked \cup B} /\ SweepEnd(s)
    BY <1>1 DEF SelectExpired
  <2>2. files' = files
    BY <1>1 DEF SelectExpired
  <2>3. \A u \in B : Exists(u)'
    BY <2>1, <2>2, FoundRows DEF Exists
  <2>4. CASE SweepEnd(s)
    BY <2>1, <2>3, <2>4
  <2>5. CASE /\ locked' = locked \cup B
             /\ sw' = [sw EXCEPT ![s].pc = "commit", ![s].batch = Scanned(B)]
    <3>1. sw'[s].batch = Scanned(B)
      BY <2>5
    <3>2. QED BY <2>2, <2>3, <2>5, <3>1
  <2>6. QED BY <2>1, <2>4, <2>5
<1>2. CASE CommitSelect(s)
  BY <1>2 DEF CommitSelect, Claimed
<1>3. CASE CrashSweeper(s)
  BY <1>3 DEF CrashSweeper
<1>4. CASE SweepObject(s)
  BY <1>4, SweepObjectEffect DEF SweepObject
<1>5. CASE BeginSweep(s) \/ SweepRow(s) \/ FinishSweep(s)
  BY <1>5 DEF BeginSweep, SweepRow, FinishSweep
<1>6. QED BY <1>1, <1>2, <1>3, <1>4, <1>5 DEF SweepStep

(* The inductive part: a batch is locked while it is selected, no two      *)
(* share a row, and its records are copies of rows.                        *)
LockedRowsExist == \A u \in locked : Exists(u)

ClaimsAreLocked ==
  \A s \in Sweepers :
    /\ Claimed(s) \subseteq locked
    /\ \A t \in Sweepers \ {s} : Claimed(s) \cap Claimed(t) = {}

BatchesAreCopies ==
  \A s \in Sweepers :
    sw[s].pc = "commit" => \A r \in sw[s].batch : files[r.id].expiresAt = r.expiresAt

Selected == LockedRowsExist /\ ClaimsAreLocked /\ BatchesAreCopies

(* Steps of others do not touch a sweeper's claims.                        *)
LEMMA ClaimsOfOthers ==
  ASSUME TypeOK, Safe, Selected, [Next]_vars,
         NEW s \in Sweepers, sw'[s] = sw[s], Claimed(s) \subseteq locked'
  PROVE  /\ Claimed(s)' = Claimed(s)
         /\ sw'[s].pc = "commit" => \A r \in sw'[s].batch : files'[r.id].expiresAt = r.expiresAt
<1>1. Claimed(s)' = Claimed(s)
  BY DEF Claimed, Ids
<1>2. ASSUME sw[s].pc = "commit", NEW r \in sw[s].batch
      PROVE  files'[r.id] = files[r.id]
  <2>1. r.id \in locked /\ r.id \in Uploads
    BY <1>2 DEF Selected, ClaimsAreLocked, Claimed, Ids, TypeOK, StoresTypeOK
  <2>2. QED BY <2>1, LockedRowKept DEF Selected, LockedRowsExist
<1>3. QED BY <1>1, <1>2 DEF Selected, BatchesAreCopies

LEMMA SelectedStep ==
  ASSUME TypeOK, Safe, Selected, [Next]_vars
  PROVE  Selected'
<1>1. ASSUME NEW u \in locked PROVE Exists(u)'
  BY <1>1, LockedRowKept DEF Selected, LockedRowsExist, Exists, TypeOK, StoresTypeOK
<1>2. ASSUME sw' = sw, locked' \subseteq locked, \A s \in Sweepers : Claimed(s) \subseteq locked'
      PROVE  Selected'
  <2>1. LockedRowsExist'
    BY <1>1, <1>2 DEF LockedRowsExist
  <2>2. ClaimsAreLocked'
    BY <1>2, ClaimsOfOthers DEF Selected, ClaimsAreLocked
  <2>3. BatchesAreCopies'
    BY <1>2, ClaimsOfOthers DEF BatchesAreCopies
  <2>4. QED BY <2>1, <2>2, <2>3 DEF Selected
<1>3. sw' = sw /\ locked' = locked => Selected'
  BY <1>2 DEF Selected, ClaimsAreLocked
<1>4. ASSUME NEW s \in Sweepers, SweepStep(s)
      PROVE  Selected'
  <2>1. /\ sw'[s].pc = "commit" =>
             \E B \in FindExpired(sw[s].at, BatchSize) :
               sw'[s].batch = Scanned(B) /\ locked' = locked \cup B /\ files' = files
        /\ locked \ Claimed(s) \subseteq locked'
        /\ \A u \in locked' \ locked : Exists(u)'
    BY <1>4, SweepClaims
  <2>2. LockedRowsExist'
    BY <1>1, <2>1 DEF LockedRowsExist
  <2>3. \A t \in Sweepers \ {s} : sw'[t] = sw[t] /\ Claimed(t) \subseteq locked'
    BY <1>4, <2>1, SweepOthers DEF Selected, ClaimsAreLocked
  <2>4. \A t \in Sweepers \ {s} :
          /\ Claimed(t)' = Claimed(t)
          /\ sw'[t].pc = "commit" => \A r \in sw'[t].batch : files'[r.id].expiresAt = r.expiresAt
    BY <2>3, ClaimsOfOthers
  <2>5. /\ Claimed(s)' \subseteq locked'
        /\ \A t \in Sweepers \ {s} : Claimed(s)' \cap Claimed(t) = {}
        /\ sw'[s].pc = "commit" => \A r \in sw'[s].batch : files'[r.id].expiresAt = r.expiresAt
    <3>1. CASE sw'[s].pc # "commit"
      BY <3>1 DEF Claimed
    <3>2. CASE sw'[s].pc = "commit"
      <4>1. PICK B \in FindExpired(sw[s].at, BatchSize) :
              sw'[s].batch = Scanned(B) /\ locked' = locked \cup B /\ files' = files
        BY <2>1, <3>2
      <4>2. Claimed(s)' = B /\ B \cap locked = {}
        BY <3>2, <4>1, ScannedIds, FoundUnlocked DEF Claimed, Ids
      <4>3. \A r \in Scanned(B) : files[r.id].expiresAt = r.expiresAt
        BY DEF Scanned
      <4>4. QED BY <3>2, <4>1, <4>2, <4>3 DEF Selected, ClaimsAreLocked
    <3>3. QED BY <3>1, <3>2
  <2>6. ClaimsAreLocked'
    <3>1. \A t \in Sweepers : Claimed(t)' \subseteq locked'
      BY <2>3, <2>4, <2>5
    <3>2. \A t, v \in Sweepers : t # v => Claimed(t)' \cap Claimed(v)' = {}
      BY <2>4, <2>5 DEF Selected, ClaimsAreLocked
    <3>3. QED BY <3>1, <3>2 DEF ClaimsAreLocked
  <2>7. BatchesAreCopies'
    BY <2>4, <2>5 DEF BatchesAreCopies
  <2>8. QED BY <2>2, <2>6, <2>7 DEF Selected
<1>5. CASE StoreStep /\ OnlyStores
  <2>1. CASE \E B \in SUBSET Uploads : EndTransactions(B)
    BY <1>2, <1>5, <2>1
       DEF EndTransactions, Abandoned, OnlyStores, Selected, ClaimsAreLocked, Claimed
  <2>2. CASE ~\E B \in SUBSET Uploads : EndTransactions(B)
    BY <1>3, <1>5, <2>2 DEF StoreStep, OnlyStores, Tick, Download, EdgeEvict
  <2>3. QED BY <2>1, <2>2
<1>6. CASE \E u \in Uploads : UploadStep(u) /\ OnlyUpload
  BY <1>3, <1>6 DEF OnlyUpload, UploadStep, Receive, Lookup, Put, Persist, Compensate, Disconnect,
                    CrashUpload, stores
<1>7. CASE \E d \in Deleters : DeleteStep(d) /\ OnlyDelete
  BY <1>3, <1>7 DEF OnlyDelete, DeleteStep, Authorise, EraseObject, EraseRow, PurgeDeleted,
                    AbortDelete, stores
<1>8. CASE UNCHANGED vars
  BY <1>3, <1>8 DEF vars, stores
<1>9. QED BY <1>4, <1>5, <1>6, <1>7, <1>8, StepCases

(* Between query and commit nobody deletes or takes a row of the batch,    *)
(* although others hold it in memory from an earlier sweep or lookup, and  *)
(* although transactions of dead clients keep further rows locked          *)
(* (postgres_repository_files.go, FindExpired).                            *)
THEOREM SelectedRowsAreHeld == Spec => []SelectedRowsStay
<1>1. Init => Selected
  BY DEF Init, StoresInit, SweeperInit, SweepIdle, Selected, LockedRowsExist, ClaimsAreLocked,
         BatchesAreCopies, Claimed
<1>2. IInv /\ Selected /\ [Next]_vars => Selected'
  BY SelectedStep DEF IInv, Safe
<1>3. Selected => SelectedRowsStay
  BY DEF Selected, LockedRowsExist, ClaimsAreLocked, BatchesAreCopies, Claimed, Ids,
         SelectedRowsStay
<1>4. QED BY <1>1, <1>2, <1>3, InductiveInvariant, PTL DEF Spec
=============================================================================
