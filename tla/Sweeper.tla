------------------------------- MODULE Sweeper -------------------------------
(***************************************************************************)
(* sweeper.Sweeper.sweepOnce, one background loop per instance: it reads   *)
(* the clock, takes a batch of expired rows in a transaction that ends     *)
(* before any of them is deleted, deletes object and row of each, and      *)
(* purges the edge copies of those it deleted in one request.              *)
(***************************************************************************)
EXTENDS Stores

CONSTANTS Sweepers,   \* one per instance
          BatchSize   \* batchSize

ASSUME SweeperAssumption == BatchSize \in Nat \ {0}

VARIABLE sw  \* per sweeper: where it is and what it holds

Record == [id : Uploads, expiresAt : Nat]

SweeperTypeOK ==
  /\ sw \in [Sweepers -> [pc    : {"idle", "find", "commit", "object", "row", "down"},
                          at    : Nat,                      \* `now` of line 54, until the query
                          batch : SUBSET Record,            \* records to come
                          cur   : Uploads \cup {None},      \* whose object is deleted
                          purge : SUBSET Uploads]]          \* purgeURLs
  /\ \A s \in Sweepers : (sw[s].pc = "row") <=> (sw[s].cur # None)

SweepIdle == [pc |-> "idle", at |-> 0, batch |-> {}, cur |-> None, purge |-> {}]
SweepDown == [SweepIdle EXCEPT !.pc = "down"]

SweeperInit == sw = [s \in Sweepers |-> SweepIdle]

SweepEnd(s) == sw' = [sw EXCEPT ![s] = SweepIdle]

Ids(batch) == {r.id : r \in batch}

(* Records are handled oldest first. *)
Oldest(batch) == {r \in batch : \A q \in batch : r.expiresAt =< q.expiresAt}

(* A sweep starts at the instance's start and at every tick after it. *)
BeginSweep(s) ==
  /\ sw[s].pc \in {"idle", "down"}
  /\ sw' = [sw EXCEPT ![s].pc = "find", ![s].at = now]
  /\ UNCHANGED stores

(* The copies of the rows that FindExpired answers. *)
Scanned(B) == {[id |-> u, expiresAt |-> files[u].expiresAt] : u \in B}

(* Mutant of SelectExpired: the query without FOR UPDATE SKIP LOCKED. *)
SelectExpiredUnlocked(s) ==
  /\ sw[s].pc = "find"
  /\ \E B \in FindExpired(sw[s].at, BatchSize) :
       \/ sw' = [sw EXCEPT ![s].pc = "commit", ![s].at = 0, ![s].batch = Scanned(B)]
       \/ "db" \in Faults /\ SweepEnd(s)
  /\ UNCHANGED stores

(* FindExpired up to its SELECT ... FOR UPDATE.  When it fails, so may the *)
(* Rollback: the transaction then stays open with what it has locked.      *)
SelectExpired(s) ==
  /\ sw[s].pc = "find"
  /\ \E B \in FindExpired(sw[s].at, BatchSize) :
       \/ /\ locked' = locked \cup B
          /\ sw' = [sw EXCEPT ![s].pc = "commit", ![s].at = 0, ![s].batch = Scanned(B)]
       \/ /\ "db" \in Faults
          /\ locked' \in {locked, locked \cup B}
          /\ SweepEnd(s)
  /\ UNCHANGED <<now, files, objects, edge>>

(* Its Commit: the locks are gone before anything is deleted.  A Commit    *)
(* that fails may leave the transaction open as well.                      *)
CommitSelect(s) ==
  /\ sw[s].pc = "commit"
  /\ \/ /\ locked' = locked \ Ids(sw[s].batch)
        /\ IF sw[s].batch = {} THEN SweepEnd(s) ELSE sw' = [sw EXCEPT ![s].pc = "object"]
     \/ /\ "db" \in Faults
        /\ locked' \in {locked, locked \ Ids(sw[s].batch)}
        /\ SweepEnd(s)
  /\ UNCHANGED <<now, files, objects, edge>>

(* Mutant of SweepObject: a failed DeleteObject does not keep the row. *)
SweepObjectUnchecked(s) ==
  /\ sw[s].pc = "object"
  /\ \E r \in Oldest(sw[s].batch) :
       /\ DeleteObject(r.id) \/ ("storage" \in Faults /\ DeleteObjectErr(r.id))
       /\ sw' = [sw EXCEPT ![s].pc = "row", ![s].batch = @ \ {r}, ![s].cur = r.id]
  /\ UNCHANGED <<now, files, locked, edge>>

(* Mutant of SweepObject: a failed DeleteObject ends the sweep. *)
SweepObjectStops(s) ==
  /\ sw[s].pc = "object"
  /\ \E r \in Oldest(sw[s].batch) :
       \/ /\ DeleteObject(r.id)
          /\ sw' = [sw EXCEPT ![s].pc = "row", ![s].batch = @ \ {r}, ![s].cur = r.id]
       \/ "storage" \in Faults /\ DeleteObjectErr(r.id) /\ SweepEnd(s)
  /\ UNCHANGED <<now, files, locked, edge>>

(* A record whose object cannot be deleted keeps its row for a later sweep. *)
SweepObject(s) ==
  /\ sw[s].pc = "object"
  /\ \E r \in Oldest(sw[s].batch) :
       \/ /\ DeleteObject(r.id)
          /\ sw' = [sw EXCEPT ![s].pc = "row", ![s].batch = @ \ {r}, ![s].cur = r.id]
       \/ /\ "storage" \in Faults
          /\ DeleteObjectErr(r.id)
          /\ sw' = [sw EXCEPT ![s].batch = @ \ {r}]
  /\ UNCHANGED <<now, files, locked, edge>>

(* Mutant of SweepRow: the URL is not collected for the purge. *)
SweepRowNoPurge(s) ==
  /\ sw[s].pc = "row"
  /\ DeleteByID(sw[s].cur) \/ ("db" \in Faults /\ DeleteByIDErr(sw[s].cur))
  /\ sw' = [sw EXCEPT ![s].pc = "object", ![s].cur = None]
  /\ UNCHANGED <<now, locked, objects, edge>>

SweepRow(s) ==
  /\ sw[s].pc = "row"
  /\ \/ /\ DeleteByID(sw[s].cur)
        /\ sw' = [sw EXCEPT ![s].pc = "object", ![s].cur = None,
                            ![s].purge = @ \cup {sw[s].cur}]
     \/ /\ "db" \in Faults
        /\ DeleteByIDErr(sw[s].cur)
        /\ sw' = [sw EXCEPT ![s].pc = "object", ![s].cur = None]
  /\ UNCHANGED <<now, locked, objects, edge>>

(* After the last record; a failed purge is logged and never repeated. *)
FinishSweep(s) ==
  /\ sw[s].pc = "object"
  /\ sw[s].batch = {}
  /\ IF CachePurgeOn /\ sw[s].purge # {}
     THEN PurgeURLs(sw[s].purge) \/ ("purge" \in Faults /\ PurgeURLsErr(sw[s].purge))
     ELSE UNCHANGED edge
  /\ SweepEnd(s)
  /\ UNCHANGED <<now, files, locked, objects>>

(* The instance dies or shuts down in the middle of a sweep.  A            *)
(* transaction that was open stays so until PostgreSQL ends it.            *)
CrashSweeper(s) ==
  /\ "crash" \in Faults
  /\ sw[s].pc \notin {"idle", "down"}
  /\ sw' = [sw EXCEPT ![s] = SweepDown]
  /\ UNCHANGED stores

(* Rows locked by transactions that have no client any more. *)
Abandoned ==
  locked \ UNION {Ids(sw[s].batch) : s \in {t \in Sweepers : sw[t].pc = "commit"}}

(* PostgreSQL notices that clients are gone, and ends their transactions.  *)
EndTransactions(B) ==
  /\ B # {}
  /\ B \subseteq Abandoned
  /\ locked' = locked \ B
  /\ UNCHANGED <<now, files, objects, edge>>
=============================================================================
