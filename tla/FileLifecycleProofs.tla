------------------------- MODULE FileLifecycleProofs -------------------------
(***************************************************************************)
(* Proofs about FileLifecycle for every number of uploads, deletions,      *)
(* sweepers, every TTL and batch size and every set of faults.             *)
(***************************************************************************)
EXTENDS FileLifecycle, TLAPS

-----------------------------------------------------------------------------
(* Type correctness. *)

(* The state the instances start from is well-formed.                      *)
LEMMA TypeInit == Init => TypeOK
BY StoresAssumption
   DEF Init, StoresInit, UploadInit, FileInit, SweeperInit, DelIdle, SweepIdle,
       TypeOK, StoresTypeOK, UploadTypeOK, FileTypeOK, SweeperTypeOK, InFlight, Row, Record

(* What an upload holds. *)
UploadState == [pc        : InFlight \cup {"idle", "done", "dup", "failed"},
                content   : Contents,
                at        : Nat,
                answer    : Uploads,
                connected : BOOLEAN]

(* The uploads are well-formed when the one that moved is.                 *)
LEMMA UploadChange ==
  ASSUME UploadTypeOK, NEW u \in Uploads, NEW r \in UploadState, up' = [up EXCEPT ![u] = r]
  PROVE  UploadTypeOK'
<1>1. up \in [Uploads -> UploadState]
  BY DEF UploadTypeOK, UploadState
<1>2. up' \in [Uploads -> UploadState]
  BY <1>1
<1>3. QED BY <1>2 DEF UploadTypeOK, UploadState

(* What an upload's step does to the types: it touches one record of up,   *)
(* its own row and its own object.                                         *)
LEMMA TypeUpload ==
  ASSUME TypeOK, NEW u \in Uploads,
         \/ Receive(u) \/ Lookup(u) \/ Put(u) \/ Persist(u)
         \/ Compensate(u) \/ Disconnect(u) \/ CrashUpload(u)
  PROVE  StoresTypeOK' /\ UploadTypeOK'
<1> USE DEF InFlight, stores
<1>0. StoresTypeOK /\ UploadTypeOK /\ up[u] \in UploadState
  BY DEF TypeOK, UploadTypeOK, UploadState
<1>1. UNCHANGED stores => StoresTypeOK'
  BY <1>0 DEF StoresTypeOK
<1>2. ASSUME NEW pc \in InFlight \cup {"idle", "done", "dup", "failed"}, Goto(u, pc)
      PROVE  UploadTypeOK'
  <2>1. up' = [up EXCEPT ![u] = [up[u] EXCEPT !.pc = pc]]
    BY <1>2 DEF Goto
  <2>2. [up[u] EXCEPT !.pc = pc] \in UploadState
    BY <1>0 DEF UploadState
  <2>3. QED BY <1>0, <2>1, <2>2, UploadChange
<1>3. CASE Receive(u)
  <2>1. UNCHANGED stores /\ now \in Nat
    BY <1>0, <1>3 DEF Receive, StoresTypeOK
  <2>2. CASE up' = [up EXCEPT ![u].pc = "lookup", ![u].at = now]
    <3>1. up' = [up EXCEPT ![u] = [up[u] EXCEPT !.pc = "lookup", !.at = now]]
      BY <2>2
    <3>2. [up[u] EXCEPT !.pc = "lookup", !.at = now] \in UploadState
      BY <1>0, <2>1 DEF UploadState
    <3>3. QED BY <1>0, <1>1, <2>1, <3>1, <3>2, UploadChange
  <2>3. CASE Goto(u, "failed")
    BY <1>1, <1>2, <2>1, <2>3
  <2>4. QED BY <1>1, <1>3, <2>1, <2>2, <2>3 DEF Receive
<1>4. CASE Lookup(u)
  <2>1. UNCHANGED stores
    BY <1>4 DEF Lookup
  <2>2. CASE \E f \in Uploads : up' = [up EXCEPT ![u].pc = "dup", ![u].answer = f]
    <3>1. PICK f \in Uploads : up' = [up EXCEPT ![u].pc = "dup", ![u].answer = f]
      BY <2>2
    <3>2. up' = [up EXCEPT ![u] = [up[u] EXCEPT !.pc = "dup", !.answer = f]]
      BY <3>1
    <3>3. [up[u] EXCEPT !.pc = "dup", !.answer = f] \in UploadState
      BY <1>0 DEF UploadState
    <3>4. QED BY <1>0, <1>1, <2>1, <3>2, <3>3, UploadChange
  <2>3. CASE Goto(u, "put") \/ Goto(u, "failed")
    BY <1>1, <1>2, <2>1, <2>3
  <2>4. QED BY <1>1, <1>4, <2>1, <2>2, <2>3 DEF Lookup, FindActiveByChecksum
<1>5. CASE Put(u)
  <2>1. StoresTypeOK'
    BY <1>0, <1>5 DEF Put, PutObject, PutObjectErr, StoresTypeOK
  <2>2. Goto(u, "insert") \/ Goto(u, "failed")
    BY <1>5 DEF Put
  <2>3. QED BY <1>2, <2>1, <2>2
<1>6. CASE Persist(u)
  <2>1. NewRow(u) \in Row
    BY <1>0, StoresAssumption DEF NewRow, ExpiresAt, Row, UploadTypeOK
  <2>2. StoresTypeOK'
    BY <1>0, <1>6, <2>1 DEF Persist, Insert, InsertErr, StoresTypeOK
  <2>3. Goto(u, "done") \/ Goto(u, "undo")
    BY <1>6 DEF Persist
  <2>4. QED BY <1>2, <2>2, <2>3
<1>7. CASE Compensate(u)
  <2>1. StoresTypeOK'
    BY <1>0, <1>7 DEF Compensate, DeleteObject, DeleteObjectErr, StoresTypeOK
  <2>2. Goto(u, "failed")
    BY <1>7 DEF Compensate
  <2>3. QED BY <1>2, <2>1, <2>2
<1>8. CASE Disconnect(u)
  <2>1. UNCHANGED stores /\ up' = [up EXCEPT ![u].connected = FALSE]
    BY <1>8 DEF Disconnect
  <2>2. up' = [up EXCEPT ![u] = [up[u] EXCEPT !.connected = FALSE]]
    BY <2>1
  <2>3. [up[u] EXCEPT !.connected = FALSE] \in UploadState
    BY <1>0 DEF UploadState
  <2>4. QED BY <1>0, <1>1, <2>1, <2>2, <2>3, UploadChange
<1>9. CASE CrashUpload(u)
  BY <1>1, <1>2, <1>9 DEF CrashUpload
<1>10. QED BY <1>3, <1>4, <1>5, <1>6, <1>7, <1>8, <1>9

(* A deletion keeps its request record and the history of accepted ones    *)
(* well-formed.                                                            *)
LEMMA TypeDelete ==
  ASSUME TypeOK, NEW d \in Deleters,
         \/ \E id, token \in Uploads : Authorise(d, id, token)
         \/ EraseObject(d) \/ EraseRow(d) \/ PurgeDeleted(d) \/ AbortDelete(d)
  PROVE  StoresTypeOK' /\ FileTypeOK'
<1> USE StoresAssumption
    DEF TypeOK, StoresTypeOK, FileTypeOK, DelGoto, DelEnd, DelIdle, stores
<1>1. CASE \E id, token \in Uploads : Authorise(d, id, token)
  BY <1>1 DEF Authorise
<1>2. CASE EraseObject(d)
  BY <1>2 DEF EraseObject, DeleteObject, DeleteObjectErr
<1>3. CASE EraseRow(d)
  BY <1>3 DEF EraseRow, DeleteByID, DeleteByIDErr
<1>4. CASE PurgeDeleted(d)
  BY <1>4 DEF PurgeDeleted, PurgeURLs, PurgeURLsErr
<1>5. CASE AbortDelete(d)
  BY <1>5 DEF AbortDelete
<1>6. QED BY <1>1, <1>2, <1>3, <1>4, <1>5

(* A batch holds records, and their ids are uploads. *)
LEMMA OldestOf ==
  ASSUME NEW batch, NEW r \in Oldest(batch)
  PROVE  r \in batch
BY DEF Oldest

(* What FindExpired answers are rows that exist and were due.              *)
LEMMA FoundRows ==
  ASSUME NEW before, NEW limit, NEW B \in FindExpired(before, limit)
  PROVE  /\ B \subseteq Uploads
         /\ \A u \in B : Exists(u) /\ files[u].expiresAt =< before
BY DEF FindExpired, Due

(* SweepObject takes one record off the batch. *)
LEMMA SweepObjectEffect ==
  ASSUME SweeperTypeOK, NEW s \in Sweepers, SweepObject(s)
  PROVE  \E r \in sw[s].batch :
           /\ DeleteObject(r.id) \/ DeleteObjectErr(r.id)
           /\ \A t \in Sweepers \ {s} : sw'[t] = sw[t]
           /\ sw'[s].at = sw[s].at
           /\ sw'[s].batch = sw[s].batch \ {r}
           /\ sw'[s].purge = sw[s].purge
           /\ \/ sw'[s].pc = "row" /\ sw'[s].cur = r.id
              \/ sw'[s].pc = "object" /\ sw'[s].cur = sw[s].cur
<1>1. PICK r \in Oldest(sw[s].batch) :
        \/ /\ DeleteObject(r.id)
           /\ sw' = [sw EXCEPT ![s].pc = "row", ![s].batch = @ \ {r}, ![s].cur = r.id]
        \/ /\ DeleteObjectErr(r.id)
           /\ sw' = [sw EXCEPT ![s].batch = @ \ {r}]
  BY DEF SweepObject
<1>2. r \in sw[s].batch /\ sw[s].pc = "object"
  BY <1>1, OldestOf DEF SweepObject
<1>3. CASE sw' = [sw EXCEPT ![s].batch = @ \ {r}]
  BY <1>1, <1>2, <1>3 DEF SweeperTypeOK
<1>4. CASE sw' = [sw EXCEPT ![s].pc = "row", ![s].batch = @ \ {r}, ![s].cur = r.id]
  BY <1>1, <1>2, <1>4 DEF SweeperTypeOK
<1>5. QED BY <1>1, <1>3, <1>4

(* What a sweeper holds. *)
SweepState == [pc    : {"idle", "find", "commit", "object", "row", "down"},
               at    : Nat,
               batch : SUBSET Record,
               cur   : Uploads \cup {None},
               purge : SUBSET Uploads]

(* A sweeper's state is well-formed when its own record is.                *)
LEMMA SweeperChange ==
  ASSUME SweeperTypeOK, NEW s \in Sweepers, NEW r,
         r \in SweepState,
         (r.pc = "row") <=> (r.cur # None),
         sw' = [sw EXCEPT ![s] = r]
  PROVE  SweeperTypeOK'
<1>1. sw' \in [Sweepers -> SweepState]
  <2>1. sw \in [Sweepers -> SweepState]
    BY DEF SweeperTypeOK, SweepState
  <2>2. QED BY <2>1
<1>2. ASSUME NEW t \in Sweepers PROVE (sw'[t].pc = "row") <=> (sw'[t].cur # None)
  <2>1. CASE t = s
    BY <2>1 DEF SweeperTypeOK
  <2>2. CASE t # s
    BY <2>2 DEF SweeperTypeOK
  <2>3. QED BY <2>1, <2>2
<1>3. QED BY <1>1, <1>2 DEF SweeperTypeOK, SweepState

(* A sweep keeps its batch, its current record and the locks well-formed.  *)
LEMMA TypeSweep ==
  ASSUME TypeOK, NEW s \in Sweepers,
         \/ BeginSweep(s) \/ SelectExpired(s) \/ CommitSelect(s) \/ SweepObject(s)
         \/ SweepRow(s) \/ FinishSweep(s) \/ CrashSweeper(s)
  PROVE  StoresTypeOK' /\ SweeperTypeOK'
<1> USE StoresAssumption
<1>1. StoresTypeOK /\ SweeperTypeOK
  BY DEF TypeOK
<1>2. /\ sw[s] = [pc |-> sw[s].pc, at |-> sw[s].at, batch |-> sw[s].batch,
                  cur |-> sw[s].cur, purge |-> sw[s].purge]
      /\ sw[s] \in SweepState
      /\ (sw[s].pc = "row") <=> (sw[s].cur # None)
  BY <1>1 DEF SweeperTypeOK, SweepState
<1>3. SweepEnd(s) => SweeperTypeOK'
  <2>1. SweepIdle \in SweepState /\ SweepIdle.pc # "row" /\ SweepIdle.cur = None
    BY DEF SweepIdle, SweepState
  <2>2. QED BY <1>1, <2>1, SweeperChange DEF SweepEnd
<1>4. CASE BeginSweep(s)
  <2> DEFINE r == [sw[s] EXCEPT !.pc = "find", !.at = now]
  <2>1. sw' = [sw EXCEPT ![s] = r] /\ sw[s].pc # "row" /\ UNCHANGED stores
    BY <1>4 DEF BeginSweep
  <2>2. now \in Nat
    BY <1>1 DEF StoresTypeOK
  <2>3. r \in SweepState /\ r.pc = "find" /\ r.cur = None
    BY <1>2, <2>1, <2>2 DEF SweepState
  <2>4. SweeperTypeOK'
    BY <1>1, <2>1, <2>3, SweeperChange
  <2>5. QED BY <1>1, <2>1, <2>4 DEF stores, StoresTypeOK
<1>5. CASE SelectExpired(s)
  <2>1. sw[s].pc = "find" /\ UNCHANGED <<now, files, objects, edge>>
    BY <1>5 DEF SelectExpired
  <2>2. CASE SweepEnd(s)
    <3>1. PICK B \in FindExpired(sw[s].at, BatchSize) : locked' \in {locked, locked \cup B}
      BY <1>5 DEF SelectExpired
    <3>2. StoresTypeOK'
      BY <1>1, <2>1, <3>1, FoundRows DEF StoresTypeOK
    <3>3. QED BY <1>3, <2>2, <3>2
  <2>3. ASSUME NEW B \in FindExpired(sw[s].at, BatchSize),
               locked' = locked \cup B,
               sw' = [sw EXCEPT ![s].pc = "commit", ![s].batch = Scanned(B)]
        PROVE  StoresTypeOK' /\ SweeperTypeOK'
    <3> DEFINE r == [sw[s] EXCEPT !.pc = "commit", !.batch = Scanned(B)]
    <3>1. B \subseteq Uploads /\ \A u \in B : files[u] \in Row
      BY <1>1, <2>3, FoundRows DEF Exists, StoresTypeOK
    <3>2. Scanned(B) \subseteq Record
      BY <3>1 DEF Row, Record, Scanned
    <3>3. StoresTypeOK'
      BY <1>1, <2>1, <2>3, <3>1 DEF StoresTypeOK
    <3>4. sw' = [sw EXCEPT ![s] = r]
      BY <2>3
    <3>5. r \in SweepState /\ r.pc = "commit" /\ r.cur = None
      BY <1>2, <2>1, <3>2 DEF SweepState
    <3>6. SweeperTypeOK'
      BY <1>1, <3>4, <3>5, SweeperChange
    <3>7. QED BY <3>3, <3>6
  <2>4. QED BY <1>5, <2>2, <2>3 DEF SelectExpired
<1>6. CASE CommitSelect(s)
  <2>1. StoresTypeOK'
    BY <1>1, <1>6 DEF CommitSelect, StoresTypeOK
  <2>2. CASE sw' = [sw EXCEPT ![s].pc = "object"]
    <3> DEFINE r == [sw[s] EXCEPT !.pc = "object"]
    <3>1. sw' = [sw EXCEPT ![s] = r] /\ sw[s].pc = "commit"
      BY <1>6, <2>2 DEF CommitSelect
    <3>2. r \in SweepState /\ r.pc = "object" /\ r.cur = None
      BY <1>2, <3>1 DEF SweepState
    <3>3. QED BY <1>1, <2>1, <3>1, <3>2, SweeperChange
  <2>3. CASE SweepEnd(s)
    BY <1>3, <2>1, <2>3
  <2>4. QED BY <1>6, <2>2, <2>3 DEF CommitSelect
<1>7. CASE SweepObject(s)
  <2>1. PICK r \in sw[s].batch :
          /\ DeleteObject(r.id) \/ DeleteObjectErr(r.id)
          /\ \/ sw' = [sw EXCEPT ![s].pc = "row", ![s].batch = @ \ {r}, ![s].cur = r.id]
             \/ sw' = [sw EXCEPT ![s].batch = @ \ {r}]
    BY <1>7, OldestOf DEF SweepObject
  <2>2. r.id \in Uploads /\ r.id # None
    BY <1>2 DEF Record, SweepState
  <2>3. StoresTypeOK'
    BY <1>1, <1>7, <2>1 DEF SweepObject, DeleteObject, DeleteObjectErr, StoresTypeOK
  <2>4. sw[s].pc = "object" /\ sw[s].batch \ {r} \in SUBSET Record
    BY <1>2, <1>7 DEF SweepObject, SweepState
  <2>5. CASE sw' = [sw EXCEPT ![s].pc = "row", ![s].batch = @ \ {r}, ![s].cur = r.id]
    <3> DEFINE q == [sw[s] EXCEPT !.pc = "row", !.batch = @ \ {r}, !.cur = r.id]
    <3>1. sw' = [sw EXCEPT ![s] = q]
      BY <2>5
    <3>2. q \in SweepState /\ q.pc = "row" /\ q.cur # None
      BY <1>2, <2>2, <2>4 DEF SweepState
    <3>3. QED BY <1>1, <2>3, <3>1, <3>2, SweeperChange
  <2>6. CASE sw' = [sw EXCEPT ![s].batch = @ \ {r}]
    <3> DEFINE q == [sw[s] EXCEPT !.batch = @ \ {r}]
    <3>1. sw' = [sw EXCEPT ![s] = q]
      BY <2>6
    <3>2. q \in SweepState /\ q.pc = "object" /\ q.cur = None
      BY <1>2, <2>4 DEF SweepState
    <3>3. QED BY <1>1, <2>3, <3>1, <3>2, SweeperChange
  <2>7. QED BY <2>1, <2>5, <2>6
<1>8. CASE SweepRow(s)
  <2>1. /\ sw[s].pc = "row" /\ sw[s].cur \in Uploads
        /\ sw[s].purge \cup {sw[s].cur} \in SUBSET Uploads
    BY <1>2, <1>8 DEF SweepRow, SweepState
  <2>2. StoresTypeOK'
    BY <1>1, <1>8 DEF SweepRow, DeleteByID, DeleteByIDErr, StoresTypeOK
  <2>3. PICK purge \in SUBSET Uploads :
          sw' = [sw EXCEPT ![s] = [@ EXCEPT !.pc = "object", !.cur = None, !.purge = purge]]
    <3>1. CASE sw' = [sw EXCEPT ![s].pc = "object", ![s].cur = None,
                                ![s].purge = @ \cup {sw[s].cur}]
      BY <2>1, <3>1
    <3>2. CASE sw' = [sw EXCEPT ![s].pc = "object", ![s].cur = None]
      <4>1. sw' = [sw EXCEPT ![s] = [@ EXCEPT !.pc = "object", !.cur = None,
                                              !.purge = sw[s].purge]]
        BY <1>2, <3>2
      <4>2. QED BY <1>2, <4>1 DEF SweepState
    <3>3. QED BY <1>8, <3>1, <3>2 DEF SweepRow
  <2> DEFINE r == [sw[s] EXCEPT !.pc = "object", !.cur = None, !.purge = purge]
  <2>4. r \in SweepState /\ r.pc = "object" /\ r.cur = None
    BY <1>2, <2>3 DEF SweepState
  <2>5. QED BY <1>1, <2>2, <2>3, <2>4, SweeperChange
<1>9. CASE FinishSweep(s)
  <2>1. StoresTypeOK'
    BY <1>1, <1>9 DEF FinishSweep, PurgeURLs, PurgeURLsErr, StoresTypeOK
  <2>2. QED BY <1>3, <1>9, <2>1 DEF FinishSweep
<1>10. CASE CrashSweeper(s)
  <2>1. StoresTypeOK'
    BY <1>1, <1>10 DEF CrashSweeper, stores, StoresTypeOK
  <2>2. SweepDown \in SweepState /\ SweepDown.pc # "row" /\ SweepDown.cur = None
    BY DEF SweepDown, SweepIdle, SweepState
  <2>3. QED BY <1>1, <1>10, <2>1, <2>2, SweeperChange DEF CrashSweeper
<1>11. QED BY <1>4, <1>5, <1>6, <1>7, <1>8, <1>9, <1>10

(* What happens to the stores by themselves. *)
StoreStep ==
  \/ Tick
  \/ \E B \in SUBSET Uploads : EndTransactions(B)
  \/ \E u \in Uploads : Download(u) \/ EdgeEvict(u)

(* So do the clock, Postgres and the CDN.                                  *)
LEMMA TypeStores ==
  ASSUME TypeOK, StoreStep
  PROVE  StoresTypeOK'
BY DEF TypeOK, StoresTypeOK, StoreStep, Tick, EndTransactions, Download, EdgeEvict

(* Every step keeps every variable well-formed.                            *)
LEMMA TypeNext == TypeOK /\ [Next]_vars => TypeOK'
<1> SUFFICES ASSUME TypeOK, [Next]_vars PROVE TypeOK'
  OBVIOUS
<1> USE DEF OnlyStores, OnlyUpload, OnlyDelete, OnlySweep, fileVars
<1>1. CASE UNCHANGED vars
  BY <1>1 DEF vars, stores, TypeOK, StoresTypeOK, UploadTypeOK, FileTypeOK, SweeperTypeOK
<1>2. CASE OnlyStores /\ StoreStep
  BY <1>2, TypeStores DEF TypeOK, UploadTypeOK, FileTypeOK, SweeperTypeOK
<1>3. ASSUME NEW u \in Uploads, OnlyUpload,
             \/ Receive(u) \/ Lookup(u) \/ Put(u) \/ Persist(u)
             \/ Compensate(u) \/ Disconnect(u) \/ CrashUpload(u)
      PROVE  TypeOK'
  BY <1>3, TypeUpload DEF TypeOK, FileTypeOK, SweeperTypeOK
<1>4. ASSUME NEW d \in Deleters, OnlyDelete,
             \/ \E id, token \in Uploads : Authorise(d, id, token)
             \/ EraseObject(d) \/ EraseRow(d) \/ PurgeDeleted(d) \/ AbortDelete(d)
      PROVE  TypeOK'
  BY <1>4, TypeDelete DEF TypeOK, UploadTypeOK, SweeperTypeOK
<1>5. ASSUME NEW s \in Sweepers, OnlySweep,
             \/ BeginSweep(s) \/ SelectExpired(s) \/ CommitSelect(s) \/ SweepObject(s)
             \/ SweepRow(s) \/ FinishSweep(s) \/ CrashSweeper(s)
      PROVE  TypeOK'
  BY <1>5, TypeSweep DEF TypeOK, UploadTypeOK, FileTypeOK
<1>6. QED BY <1>1, <1>2, <1>3, <1>4, <1>5 DEF Next, StoreStep

(* Stores, requests and sweepers keep well-formed values: in particular a  *)
(* sweeper holds a current record exactly while its object is deleted and  *)
(* its row is not (sweeper.go, sweepOnce).                                 *)
THEOREM TypeCorrect == Spec => []TypeOK
<1>1. Init => TypeOK
  BY TypeInit
<1>2. TypeOK /\ [Next]_vars => TypeOK'
  BY TypeNext
<1>3. QED BY <1>1, <1>2, PTL DEF Spec
-----------------------------------------------------------------------------
(* Safety. *)

Safe ==
  /\ ClockReadsArePast
  /\ RowsOfTriedUploads
  /\ StoredBeforeInsert
  /\ SweepersTakeDoomed
  /\ DeletersAreAuthorised
  /\ AcknowledgedFileServed

(* Nothing is stored and nobody holds anything at the start.               *)
LEMMA SafeInit == Init => Safe
BY DEF Init, StoresInit, UploadInit, FileInit, SweeperInit, DelIdle, SweepIdle,
       Safe, ClockReadsArePast, RowsOfTriedUploads, StoredBeforeInsert, SweepersTakeDoomed,
       DeletersAreAuthorised, AcknowledgedFileServed, Exists

(* Time only makes rows older, and locks protect nothing that matters here. *)
LEMMA SafeStores ==
  ASSUME TypeOK, Safe, OnlyStores, StoreStep
  PROVE  Safe'
<1> USE DEF Safe, OnlyStores, fileVars, ExpiresAt, Exists, Tried
<1>1. up' = up /\ files' = files /\ objects' = objects /\ now \in Nat /\ now' \in Nat /\ now =< now'
  BY DEF TypeOK, StoresTypeOK, StoreStep, Tick, EndTransactions, Download, EdgeEvict
<1>2. \A u \in Uploads : ExpiresAt(u) \in Nat
  BY StoresAssumption DEF TypeOK, UploadTypeOK
<1>3. RowsOfTriedUploads' /\ StoredBeforeInsert' /\ DeletersAreAuthorised'
  BY <1>1 DEF RowsOfTriedUploads, StoredBeforeInsert, DeletersAreAuthorised
<1>4. \A u \in Uploads : Doomed(u) => Doomed(u)'
  BY <1>1, <1>2 DEF Doomed
<1>5. SweepersTakeDoomed'
  BY <1>1, <1>4 DEF SweepersTakeDoomed, TypeOK, SweeperTypeOK, Record
<1>6. AcknowledgedFileServed'
  BY <1>1, <1>2 DEF AcknowledgedFileServed
<1>7. ClockReadsArePast'
  BY <1>1 DEF ClockReadsArePast, TypeOK, UploadTypeOK, SweeperTypeOK
<1>8. QED BY <1>3, <1>5, <1>6, <1>7

(* An upload changes its own record, row and object only.  What it removes *)
(* is the object of an insert that failed, and it leaves the state         *)
(* "insert" only with a row in place or for good.                          *)
LEMMA SafeUpload ==
  ASSUME TypeOK, Safe, OnlyUpload, NEW u \in Uploads,
         \/ Receive(u) \/ Lookup(u) \/ Put(u) \/ Persist(u)
         \/ Compensate(u) \/ Disconnect(u) \/ CrashUpload(u)
  PROVE  Safe'
<1> USE StoresAssumption
    DEF TypeOK, StoresTypeOK, UploadTypeOK, FileTypeOK, Safe, OnlyUpload, fileVars, stores,
        ExpiresAt, Exists, Tried, Goto
<1>1. now' = now /\ sw' = sw /\ del' = del /\ authorised' = authorised
  BY DEF Receive, Lookup, Put, Persist, Compensate, Disconnect, CrashUpload
<1>2. \A v \in Uploads \ {u} :
        /\ up'[v] = up[v]
        /\ files'[v] = files[v]
        /\ v \in objects' <=> v \in objects
  BY DEF Receive, Lookup, Put, Persist, Compensate, Disconnect, CrashUpload,
         Insert, InsertErr, PutObject, PutObjectErr, DeleteObject, DeleteObjectErr
<1>3. /\ up[u].pc # "done"
      /\ Tried(u) => Tried(u)' /\ ExpiresAt(u)' = ExpiresAt(u)
      /\ up'[u].pc = "done" => Exists(u)' /\ u \in objects'
  <2>1. CASE Receive(u)
    BY <2>1 DEF Receive
  <2>2. CASE Lookup(u)
    BY <2>2 DEF Lookup
  <2>3. CASE Put(u)
    BY <2>3 DEF Put
  <2>4. CASE Persist(u)
    <3>1. NewRow(u) \in Row
      BY DEF NewRow, Row
    <3>2. QED BY <2>4, <3>1 DEF Persist, Insert, StoredBeforeInsert
  <2>5. CASE Compensate(u) \/ Disconnect(u) \/ CrashUpload(u)
    BY <2>5 DEF Compensate, Disconnect, CrashUpload, InFlight
  <2>6. QED BY <2>1, <2>2, <2>3, <2>4, <2>5
<1>4. RowsOfTriedUploads'
  <2>1. Exists(u)' => Tried(u)' /\ files'[u].expiresAt = ExpiresAt(u)'
    BY DEF Receive, Lookup, Put, Persist, Compensate, Disconnect, CrashUpload,
           Insert, InsertErr, InFlight, NewRow, Row, RowsOfTriedUploads
  <2>2. QED BY <1>2, <2>1 DEF RowsOfTriedUploads
<1>5. StoredBeforeInsert'
  <2>1. up'[u].pc = "insert" => u \in objects'
    BY DEF Receive, Lookup, Put, Persist, Compensate, Disconnect, CrashUpload,
           PutObject, StoredBeforeInsert
  <2>2. QED BY <1>2, <2>1 DEF StoredBeforeInsert
<1>6. SweepersTakeDoomed'
  <2>1. \A v \in Uploads : Doomed(v) => Doomed(v)'
    BY <1>1, <1>2, <1>3 DEF Doomed
  <2>2. QED BY <1>1, <2>1 DEF SweepersTakeDoomed, SweeperTypeOK, Record
<1>7. DeletersAreAuthorised'
  BY <1>1, <1>2, <1>3 DEF DeletersAreAuthorised
<1>8. AcknowledgedFileServed'
  BY <1>1, <1>2, <1>3 DEF AcknowledgedFileServed
<1>9. ClockReadsArePast'
  <2>1. up'[u].at =< now
    BY DEF Receive, Lookup, Put, Persist, Compensate, Disconnect, CrashUpload, ClockReadsArePast
  <2>2. QED BY <1>1, <1>2, <2>1 DEF ClockReadsArePast
<1>10. QED BY <1>4, <1>5, <1>6, <1>7, <1>8, <1>9

(* A deletion touches the row and the object of an authorised file only.   *)
LEMMA DeleteTouches ==
  ASSUME TypeOK, DeletersAreAuthorised, NEW d \in Deleters,
         \/ \E id, token \in Uploads : Token(token) /\ Authorise(d, id, token)
         \/ EraseObject(d) \/ EraseRow(d) \/ PurgeDeleted(d) \/ AbortDelete(d)
  PROVE  \A u \in Uploads \ authorised :
           files'[u] = files[u] /\ (u \in objects' <=> u \in objects)
BY DEF TypeOK, StoresTypeOK, stores,
       Authorise, EraseObject, EraseRow, PurgeDeleted, AbortDelete, DeletersAreAuthorised,
       DeleteObject, DeleteObjectErr, DeleteByID, DeleteByIDErr

(* What it removes was acknowledged.                                       *)
LEMMA SafeDelete ==
  ASSUME TypeOK, Safe, OnlyDelete, NEW d \in Deleters,
         \/ \E id, token \in Uploads : Token(token) /\ Authorise(d, id, token)
         \/ EraseObject(d) \/ EraseRow(d) \/ PurgeDeleted(d) \/ AbortDelete(d)
  PROVE  Safe'
<1> USE DEF TypeOK, StoresTypeOK, UploadTypeOK, FileTypeOK, Safe, OnlyDelete, stores,
            ExpiresAt, Exists, Tried, DelGoto, DelEnd, DelIdle
<1>1. now' = now /\ up' = up /\ sw' = sw
  BY DEF Authorise, EraseObject, EraseRow, PurgeDeleted, AbortDelete
<1>2. \A u \in Uploads \ authorised :
        files'[u] = files[u] /\ (u \in objects' <=> u \in objects)
  BY DeleteTouches
<1>3. \A u \in Uploads : files'[u] \in {files[u], None}
  BY DEF Authorise, EraseObject, EraseRow, PurgeDeleted, AbortDelete,
         DeleteByID, DeleteByIDErr
<1>4. authorised \subseteq authorised'
  BY DEF Authorise, EraseObject, EraseRow, PurgeDeleted, AbortDelete
<1>5. RowsOfTriedUploads'
  BY <1>1, <1>3 DEF RowsOfTriedUploads
<1>6. StoredBeforeInsert'
  BY <1>1, <1>2 DEF StoredBeforeInsert, DeletersAreAuthorised
<1>7. SweepersTakeDoomed'
  BY <1>1 DEF SweepersTakeDoomed, Doomed
<1>8. DeletersAreAuthorised'
  <2>1. CASE \E id, token \in Uploads : Token(token) /\ Authorise(d, id, token)
    BY <1>1, <2>1 DEF Authorise, Token, TokenMatches, DeletersAreAuthorised
  <2>2. CASE EraseObject(d) \/ EraseRow(d) \/ PurgeDeleted(d) \/ AbortDelete(d)
    BY <1>1, <2>2 DEF EraseObject, EraseRow, PurgeDeleted, AbortDelete, DeletersAreAuthorised
  <2>3. QED BY <2>1, <2>2
<1>9. AcknowledgedFileServed'
  BY <1>1, <1>2, <1>4 DEF AcknowledgedFileServed
<1>10. ClockReadsArePast'
  BY <1>1 DEF ClockReadsArePast
<1>11. QED BY <1>5, <1>6, <1>7, <1>8, <1>9, <1>10

(* A sweep touches the rows and the objects of doomed files only.          *)
LEMMA SweepTouches ==
  ASSUME TypeOK, SweepersTakeDoomed, NEW s \in Sweepers,
         \/ BeginSweep(s) \/ SelectExpired(s) \/ CommitSelect(s) \/ SweepObject(s)
         \/ SweepRow(s) \/ FinishSweep(s) \/ CrashSweeper(s)
  PROVE  \A u \in Uploads :
           ~Doomed(u) => files'[u] = files[u] /\ (u \in objects' <=> u \in objects)
<1> USE StoresAssumption DEF TypeOK, StoresTypeOK, SweeperTypeOK, stores
<1>1. CASE SweepObject(s)
  <2>1. PICK r \in sw[s].batch : objects' = objects \ {r.id} \/ objects' = objects
    BY <1>1, OldestOf DEF SweepObject, DeleteObject, DeleteObjectErr
  <2>2. Doomed(r.id) /\ files' = files
    BY <1>1 DEF SweepObject, SweepersTakeDoomed
  <2>3. QED BY <2>1, <2>2
<1>2. CASE SweepRow(s)
  <2>1. Doomed(sw[s].cur) /\ objects' = objects
    BY <1>2 DEF SweepRow, SweepersTakeDoomed
  <2>2. \A u \in Uploads \ {sw[s].cur} : files'[u] = files[u]
    BY <1>2 DEF SweepRow, DeleteByID, DeleteByIDErr
  <2>3. QED BY <2>1, <2>2
<1>3. CASE ~SweepObject(s) /\ ~SweepRow(s)
  BY <1>3 DEF BeginSweep, SelectExpired, CommitSelect, FinishSweep, CrashSweeper
<1>4. QED BY <1>1, <1>2, <1>3

(* A batch it takes holds only such files.                                 *)
LEMMA SafeSweep ==
  ASSUME TypeOK, Safe, OnlySweep, NEW s \in Sweepers,
         \/ BeginSweep(s) \/ SelectExpired(s) \/ CommitSelect(s) \/ SweepObject(s)
         \/ SweepRow(s) \/ FinishSweep(s) \/ CrashSweeper(s)
  PROVE  Safe'
<1> USE StoresAssumption
    DEF TypeOK, StoresTypeOK, UploadTypeOK, FileTypeOK, SweeperTypeOK, Safe, OnlySweep,
        fileVars, stores, ExpiresAt, Exists, Tried, SweepEnd, SweepIdle, SweepDown
<1>1. now' = now /\ up' = up /\ del' = del /\ authorised' = authorised
  BY DEF BeginSweep, SelectExpired, CommitSelect, SweepObject, SweepRow, FinishSweep, CrashSweeper
<1>2. \A u \in Uploads :
        ~Doomed(u) => files'[u] = files[u] /\ (u \in objects' <=> u \in objects)
  BY SweepTouches
<1>3. \A u \in Uploads : files'[u] \in {files[u], None}
  <2>1. CASE SweepRow(s)
    BY <2>1 DEF SweepRow, DeleteByID, DeleteByIDErr
  <2>2. CASE ~SweepRow(s)
    <3>1. files' = files
      BY <2>2 DEF BeginSweep, SelectExpired, CommitSelect, SweepObject, FinishSweep,
                  CrashSweeper
    <3>2. QED BY <3>1
  <2>3. QED BY <2>1, <2>2
<1>4. RowsOfTriedUploads'
  BY <1>1, <1>3 DEF RowsOfTriedUploads
<1>5. StoredBeforeInsert'
  BY <1>1, <1>2 DEF StoredBeforeInsert, Doomed
<1>6. \A t \in Sweepers \ {s} : sw'[t] = sw[t]
  <2>1. CASE SweepObject(s)
    BY <2>1, SweepObjectEffect
  <2>2. CASE ~SweepObject(s)
    BY <2>2 DEF BeginSweep, SelectExpired, CommitSelect, SweepRow, FinishSweep, CrashSweeper
  <2>3. QED BY <2>1, <2>2
<1>7. SweepersTakeDoomed'
  <2>1. \A r \in sw'[s].batch : Doomed(r.id)
    <3>1. CASE SelectExpired(s)
      <4>1. CASE sw'[s].batch = {}
        BY <4>1
      <4>2. CASE sw'[s].batch # {}
        <5>1. PICK B \in FindExpired(sw[s].at, BatchSize) : sw'[s].batch = Scanned(B)
          BY <3>1, <4>2 DEF SelectExpired
        <5>2. \A u \in B : u \in Uploads /\ Exists(u) /\ files[u].expiresAt =< sw[s].at
          BY <5>1, FoundRows
        <5>3. \A u \in B : Doomed(u)
          BY <5>2 DEF RowsOfTriedUploads, ClockReadsArePast, Doomed
        <5>4. QED BY <5>1, <5>3 DEF Scanned
      <4>3. QED BY <4>1, <4>2
    <3>2. CASE ~SelectExpired(s)
      <4>1. sw'[s].batch \subseteq sw[s].batch
        <5>1. CASE SweepObject(s)
          BY <5>1, SweepObjectEffect
        <5>2. CASE ~SweepObject(s)
          BY <3>2, <5>2 DEF BeginSweep, CommitSelect, SweepRow, FinishSweep, CrashSweeper
        <5>3. QED BY <5>1, <5>2
      <4>2. QED BY <4>1 DEF SweepersTakeDoomed
    <3>3. QED BY <3>1, <3>2
  <2>2. sw'[s].cur # None => Doomed(sw'[s].cur)
    <3>1. CASE SweepObject(s)
      <4>1. PICK r \in sw[s].batch : sw'[s].cur \in {r.id, sw[s].cur}
        BY <3>1, SweepObjectEffect
      <4>2. QED BY <4>1 DEF SweepersTakeDoomed
    <3>2. CASE ~SweepObject(s)
      BY <3>2 DEF BeginSweep, SelectExpired, CommitSelect, SweepRow, FinishSweep,
                  CrashSweeper, SweepersTakeDoomed
    <3>3. QED BY <3>1, <3>2
  <2>3. QED BY <1>1, <1>6, <2>1, <2>2 DEF SweepersTakeDoomed, Doomed
<1>8. DeletersAreAuthorised'
  BY <1>1 DEF DeletersAreAuthorised
<1>9. AcknowledgedFileServed'
  BY <1>1, <1>2 DEF AcknowledgedFileServed, Doomed
<1>10. ClockReadsArePast'
  <2>1. sw'[s].at =< now
    <3>1. CASE SelectExpired(s)
      BY <3>1 DEF SelectExpired, ClockReadsArePast
    <3>2. CASE SweepObject(s)
      BY <3>2, SweepObjectEffect DEF ClockReadsArePast
    <3>3. CASE ~SelectExpired(s) /\ ~SweepObject(s)
      BY <3>3 DEF BeginSweep, CommitSelect, SweepRow, FinishSweep, CrashSweeper, ClockReadsArePast
    <3>4. QED BY <3>1, <3>2, <3>3
  <2>2. QED BY <1>1, <1>6, <2>1 DEF ClockReadsArePast
<1>11. QED BY <1>4, <1>5, <1>7, <1>8, <1>9, <1>10

(* Every step keeps the strengthened invariant.                            *)
LEMMA SafeNext == TypeOK /\ Safe /\ [Next]_vars => Safe'
<1> SUFFICES ASSUME TypeOK, Safe, [Next]_vars PROVE Safe'
  OBVIOUS
<1>1. CASE UNCHANGED vars
  BY <1>1 DEF vars, stores, fileVars, Safe, ClockReadsArePast, RowsOfTriedUploads, StoredBeforeInsert,
              SweepersTakeDoomed, DeletersAreAuthorised, AcknowledgedFileServed,
              Doomed, Tried, Exists, ExpiresAt
<1>2. CASE Next
  BY <1>2, SafeStores, SafeUpload, SafeDelete, SafeSweep DEF Next, StoreStep
<1>3. QED BY <1>1, <1>2

(* The inductive invariant: rows belong to uploads that reached the        *)
(* insert, sweepers hold only expired files, deletions only authorised     *)
(* ones (upload/service.go, sweeper.go, file/service.go).                  *)
THEOREM InductiveInvariant == Spec => []IInv
<1>1. Init => Safe
  BY SafeInit
<1>2. TypeOK /\ Safe /\ [Next]_vars => Safe'
  BY SafeNext
<1>3. TypeOK /\ Safe => IInv
  BY DEF Safe, IInv
<1>4. QED BY <1>1, <1>2, <1>3, TypeCorrect, PTL DEF Spec

(* No interleaving and no failure takes an acknowledged file away before   *)
(* it expires, unless a deletion with its token was accepted.              *)
THEOREM AcknowledgedFilesAreServed == Spec => []AcknowledgedFileServed
<1>1. IInv => AcknowledgedFileServed
  BY DEF IInv
<1>2. QED BY <1>1, InductiveInvariant, PTL
-----------------------------------------------------------------------------
(* Refinement of TempStore. *)

(* At the start nothing is published.                                      *)
LEMMA RefineInit == Init => Promise!Init
BY DEF Init, StoresInit, UploadInit, FileInit, SweeperInit, Promise!Init,
       StatusOf, ExpiryOf, Acknowledged

(* Whoever takes row or object of one expired or authorised file away      *)
(* removes that file, or one that was not there any more.                  *)
LEMMA RefineRemoval ==
  ASSUME TypeOK, Safe, NEW f \in Uploads, f \in authorised \/ Doomed(f),
         UNCHANGED <<now, up, authorised>>,
         \A u \in Uploads \ {f} : files'[u] = files[u] /\ (u \in objects' <=> u \in objects),
         files'[f] \in {files[f], None},
         f \in objects' => f \in objects
  PROVE  Promise!Remove(f) \/ UNCHANGED Promise!vars
<1> USE DEF Acknowledged, Exists, ExpiresAt
<1>1. \A u \in Uploads : ExpiryOf(u)' = ExpiryOf(u)
  BY DEF ExpiryOf
<1>2. \A u \in Uploads \ {f} : StatusOf(u)' = StatusOf(u)
  BY DEF StatusOf
<1>3. CASE StatusOf(f)' = StatusOf(f)
  BY <1>1, <1>2, <1>3 DEF Promise!vars
<1>4. CASE StatusOf(f)' # StatusOf(f)
  <2>1. StatusOf(f) = "served" /\ StatusOf(f)' = "removed" /\ Acknowledged(f)
    BY <1>4 DEF StatusOf
  <2>2. now >= ExpiryOf(f) \/ f \in authorised
    BY <2>1, StoresAssumption
       DEF ExpiryOf, Doomed, TypeOK, StoresTypeOK, UploadTypeOK
  <2>3. QED BY <1>1, <1>2, <2>1, <2>2 DEF Promise!Remove
<1>5. QED BY <1>3, <1>4

(* Time passing is visible, locks and the CDN are not.                                *)
LEMMA RefineStores ==
  ASSUME TypeOK, OnlyStores, StoreStep
  PROVE  Promise!Tick \/ UNCHANGED Promise!vars
<1>1. \A u \in Uploads : StatusOf(u)' = StatusOf(u) /\ ExpiryOf(u)' = ExpiryOf(u)
  BY DEF OnlyStores, StoreStep, Tick, EndTransactions, Download, EdgeEvict, StatusOf, ExpiryOf, Acknowledged, Exists, ExpiresAt
<1>2. authorised' = authorised /\ now' \in {now, now + 1}
  BY DEF OnlyStores, fileVars, StoreStep, Tick, EndTransactions, Download, EdgeEvict
<1>3. QED BY <1>1, <1>2 DEF Promise!Tick, Promise!vars

(* The insert publishes the file; no other step of an upload is visible.   *)
LEMMA RefineUpload ==
  ASSUME TypeOK, Safe, OnlyUpload, NEW u \in Uploads,
         \/ Receive(u) \/ Lookup(u) \/ Put(u) \/ Persist(u)
         \/ Compensate(u) \/ Disconnect(u) \/ CrashUpload(u)
  PROVE  Promise!Publish(u) \/ UNCHANGED Promise!vars
<1> USE DEF Acknowledged, Exists, ExpiresAt, OnlyUpload, fileVars, stores, Goto
<1>1. now' = now /\ authorised' = authorised
  BY DEF Receive, Lookup, Put, Persist, Compensate, Disconnect, CrashUpload
<1>2. \A v \in Uploads \ {u} :
        /\ up'[v] = up[v]
        /\ files'[v] = files[v]
        /\ v \in objects' <=> v \in objects
  BY DEF Receive, Lookup, Put, Persist, Compensate, Disconnect, CrashUpload,
         Insert, InsertErr, PutObject, PutObjectErr, DeleteObject, DeleteObjectErr,
         TypeOK, StoresTypeOK, UploadTypeOK
<1>3. \A v \in Uploads \ {u} : StatusOf(v)' = StatusOf(v) /\ ExpiryOf(v)' = ExpiryOf(v)
  BY <1>2 DEF StatusOf, ExpiryOf
<1>4. ~Acknowledged(u)
  BY DEF Receive, Lookup, Put, Persist, Compensate, Disconnect, CrashUpload, InFlight
<1>5. StatusOf(u) = "unpublished" /\ ExpiryOf(u) = 0
  BY <1>4 DEF StatusOf, ExpiryOf
<1>6. CASE ~Acknowledged(u)'
  <2>1. StatusOf(u)' = "unpublished" /\ ExpiryOf(u)' = 0
    BY <1>6 DEF StatusOf, ExpiryOf
  <2>2. QED BY <1>1, <1>3, <1>5, <2>1 DEF Promise!vars
<1>7. CASE Acknowledged(u)'
  <2>1. up[u].pc = "insert" /\ Insert(u, NewRow(u)) /\ Goto(u, "done") /\ objects' = objects
    <3>1. Persist(u)
      BY <1>4, <1>7
         DEF Receive, Lookup, Put, Compensate, Disconnect, CrashUpload, TypeOK, UploadTypeOK
    <3>2. QED BY <1>7, <3>1 DEF Persist, TypeOK, UploadTypeOK
  <2>2. Exists(u)' /\ u \in objects'
    <3>1. NewRow(u) \in Row
      BY StoresAssumption DEF NewRow, Row, TypeOK, UploadTypeOK
    <3>2. QED BY <2>1, <3>1, StoresAssumption
              DEF Insert, Safe, StoredBeforeInsert, TypeOK, StoresTypeOK
  <2>3. StatusOf(u)' = "served" /\ ExpiryOf(u)' = up[u].at + TTL
    BY <1>7, <2>1, <2>2 DEF StatusOf, ExpiryOf, TypeOK, UploadTypeOK
  <2>4. up[u].at \in 0..now
    BY DEF Safe, ClockReadsArePast, TypeOK, UploadTypeOK, StoresTypeOK
  <2>5. QED BY <1>1, <1>3, <1>5, <2>3, <2>4 DEF Promise!Publish
<1>8. QED BY <1>6, <1>7

(* An accepted deletion withdraws its file; its further calls remove it.   *)
LEMMA RefineDelete ==
  ASSUME TypeOK, Safe, OnlyDelete, NEW d \in Deleters,
         \/ \E id, token \in Uploads : Token(token) /\ Authorise(d, id, token)
         \/ EraseObject(d) \/ EraseRow(d) \/ PurgeDeleted(d) \/ AbortDelete(d)
  PROVE  (\E f \in Uploads : Promise!Withdraw(f) \/ Promise!Remove(f)) \/ UNCHANGED Promise!vars
<1> USE DEF OnlyDelete, stores
<1>1. CASE \E id, token \in Uploads : Token(token) /\ Authorise(d, id, token)
  <2>1. PICK f \in Uploads : Token(f) /\ Authorise(d, f, f)
    BY <1>1 DEF Authorise, TokenMatches
  <2>2. StatusOf(f) # "unpublished" /\ ExpiryOf(f) = ExpiresAt(f)
    BY <2>1 DEF Token, StatusOf, ExpiryOf, Acknowledged
  <2>3. now =< ExpiryOf(f)
    BY <2>1, <2>2, StoresAssumption
       DEF Authorise, IsExpired, Exists, ExpiresAt, Safe, RowsOfTriedUploads,
           TypeOK, StoresTypeOK, UploadTypeOK
  <2>4. \A u \in Uploads : StatusOf(u)' = StatusOf(u) /\ ExpiryOf(u)' = ExpiryOf(u)
    BY <2>1 DEF Authorise, StatusOf, ExpiryOf, Acknowledged, Exists, ExpiresAt
  <2>5. QED BY <2>1, <2>2, <2>3, <2>4 DEF Authorise, Promise!Withdraw
<1>2. CASE EraseObject(d)
  <2>1. del[d].id \in authorised /\ del[d].id \in Uploads
    BY <1>2 DEF EraseObject, Safe, DeletersAreAuthorised, TypeOK, FileTypeOK
  <2>2. QED BY <1>2, <2>1, RefineRemoval DEF EraseObject, DeleteObject, DeleteObjectErr
<1>3. CASE EraseRow(d)
  <2>1. del[d].id \in authorised /\ del[d].id \in Uploads
    BY <1>3 DEF EraseRow, Safe, DeletersAreAuthorised, TypeOK, FileTypeOK
  <2>2. QED BY <1>3, <2>1, RefineRemoval
            DEF EraseRow, DeleteByID, DeleteByIDErr, TypeOK, StoresTypeOK
<1>4. CASE PurgeDeleted(d) \/ AbortDelete(d)
  <2>1. UNCHANGED <<now, up, authorised, files, objects>>
    BY <1>4 DEF PurgeDeleted, AbortDelete
  <2>2. QED BY <2>1 DEF Promise!vars, StatusOf, ExpiryOf, Acknowledged, Exists, ExpiresAt
<1>5. QED BY <1>1, <1>2, <1>3, <1>4

(* A sweep removes expired files; reading and locking is not visible.      *)
LEMMA RefineSweep ==
  ASSUME TypeOK, Safe, OnlySweep, NEW s \in Sweepers,
         \/ BeginSweep(s) \/ SelectExpired(s) \/ CommitSelect(s) \/ SweepObject(s)
         \/ SweepRow(s) \/ FinishSweep(s) \/ CrashSweeper(s)
  PROVE  (\E f \in Uploads : Promise!Remove(f)) \/ UNCHANGED Promise!vars
<1> USE DEF OnlySweep, fileVars, stores
<1>1. CASE SweepObject(s)
  <2>1. PICK r \in sw[s].batch : DeleteObject(r.id) \/ DeleteObjectErr(r.id)
    BY <1>1, SweepObjectEffect DEF TypeOK
  <2>2. r.id \in Uploads /\ Doomed(r.id)
    BY DEF Safe, SweepersTakeDoomed, TypeOK, SweeperTypeOK, Record
  <2>3. QED BY <1>1, <2>1, <2>2, RefineRemoval DEF SweepObject, DeleteObject, DeleteObjectErr
<1>2. CASE SweepRow(s)
  <2>1. sw[s].cur \in Uploads /\ Doomed(sw[s].cur)
    BY <1>2 DEF SweepRow, Safe, SweepersTakeDoomed, TypeOK, SweeperTypeOK
  <2>2. PICK f \in Uploads : f = sw[s].cur /\ Doomed(f)
    BY <2>1
  <2>3. /\ UNCHANGED <<now, up, authorised, objects>>
        /\ files' = files \/ files' = [files EXCEPT ![f] = None]
    BY <1>2, <2>2 DEF SweepRow, DeleteByID, DeleteByIDErr
  <2>4. /\ \A u \in Uploads \ {f} : files'[u] = files[u]
        /\ files'[f] \in {files[f], None}
    BY <2>3 DEF TypeOK, StoresTypeOK
  <2>5. QED BY <2>2, <2>3, <2>4, RefineRemoval
<1>3. CASE ~SweepObject(s) /\ ~SweepRow(s)
  <2>1. UNCHANGED <<now, up, authorised, files, objects>>
    BY <1>3 DEF BeginSweep, SelectExpired, CommitSelect, FinishSweep, CrashSweeper
  <2>2. QED BY <2>1 DEF Promise!vars, StatusOf, ExpiryOf, Acknowledged, Exists, ExpiresAt
<1>4. QED BY <1>1, <1>2, <1>3

(* Every step of the service is a step of its promise or a stutter.        *)
LEMMA RefineNext == TypeOK /\ Safe /\ [Next]_vars => [Promise!Next]_(Promise!vars)
<1> SUFFICES ASSUME TypeOK, Safe, [Next]_vars PROVE [Promise!Next]_(Promise!vars)
  OBVIOUS
<1>1. CASE UNCHANGED vars
  BY <1>1 DEF vars, stores, fileVars, Promise!vars, StatusOf, ExpiryOf, Acknowledged, Exists, ExpiresAt
<1>2. CASE Next
  BY <1>2, RefineStores, RefineUpload, RefineDelete, RefineSweep DEF Next, StoreStep, Promise!Next
<1>3. QED BY <1>1, <1>2

(* The service keeps the promise of TempStore: an acknowledged file is     *)
(* served, can only be withdrawn with its token before it expires, goes    *)
(* only when it expired or was withdrawn, and never comes back.            *)
THEOREM Refinement == Spec => ImplementsTempStore
<1>1. Init => Promise!Init
  BY RefineInit
<1>2. TypeOK /\ Safe /\ [Next]_vars => [Promise!Next]_(Promise!vars)
  BY RefineNext
<1>3. IInv => TypeOK /\ Safe
  BY DEF IInv, Safe
<1>4. QED BY <1>1, <1>2, <1>3, InductiveInvariant, PTL DEF Spec, ImplementsTempStore, Promise!Spec
=============================================================================
