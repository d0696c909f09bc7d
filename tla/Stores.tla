------------------------------- MODULE Stores -------------------------------
(***************************************************************************)
(* The state that all tempcdn instances share: the Postgres table `files`  *)
(* with its row locks, the R2 bucket, the CDN edge cache and the clock.    *)
(* Every upload draws a fresh UUID, from which its row id, object key, CDN *)
(* URL and delete token follow, so one element of Uploads names them all.  *)
(*                                                                         *)
(* A remote call succeeds, or fails with an error that does not tell       *)
(* whether it took effect: its ...Err operator leaves both outcomes open.  *)
(***************************************************************************)
EXTENDS Naturals, FiniteSets

CONSTANTS Uploads,   \* upload requests, and the file each of them may create
          Contents,  \* file contents, told apart by their SHA-256
          TTL,       \* FILE_TTL_HOURS, in ticks
          MaxTime,   \* bound: the clock stops here
          Faults,    \* the kinds of failure the environment may inject
          CachePurgeOn,  \* CLOUDFLARE_CACHE_PURGE_ENABLED
          None       \* no row, no file

FaultKinds == {"db", "storage", "purge", "cancel", "crash"}

Row == [checksum : Contents, expiresAt : Nat]

ASSUME StoresAssumption ==
  /\ TTL \in Nat \ {0}
  /\ MaxTime \in Nat
  /\ Faults \subseteq FaultKinds
  /\ CachePurgeOn \in BOOLEAN
  /\ None \notin Uploads
  /\ None \notin Row

VARIABLES now,      \* the instances' common clock
          files,    \* the rows of `files`, by id
          locked,   \* ids whose rows open FindExpired transactions have locked
          objects,  \* keys present in the bucket
          edge      \* what the CDN holds of each URL

stores == <<now, files, locked, objects, edge>>

StoresTypeOK ==
  /\ now \in Nat
  /\ files \in [Uploads -> Row \cup {None}]
  /\ locked \subseteq Uploads
  /\ objects \subseteq Uploads
  /\ edge \in [Uploads -> {"absent", "cached", "purged"}]

StoresInit ==
  /\ now = 0
  /\ files = [u \in Uploads |-> None]
  /\ locked = {}
  /\ objects = {}
  /\ edge = [u \in Uploads |-> "absent"]

Exists(u) == files[u] # None

(* FileRecord.IsExpired: strictly after, unlike the SQL of FindExpired. *)
IsExpired(u) == now > files[u].expiresAt

-----------------------------------------------------------------------------
(* metadata.PostgresRepository, files table. *)

Insert(u, row) == files' = [files EXCEPT ![u] = row]
InsertErr(u, row) == files' = files \/ Insert(u, row)

(* DELETE waits for a row lock, whatever it answers then; no row is        *)
(* ErrFileNotFound, which both callers treat as success.                   *)
DeleteByID(u) ==
  /\ u \notin locked
  /\ files' = [files EXCEPT ![u] = None]
DeleteByIDErr(u) == DeleteByID(u) \/ (u \notin locked /\ files' = files)

(* The ids FindActiveByChecksum may answer: the newest active row.  With   *)
(* one TTL the newest row is the one that expires last.                    *)
FindActiveByChecksum(content, at) ==
  LET active == {u \in Uploads : /\ Exists(u)
                                 /\ files[u].checksum = content
                                 /\ files[u].expiresAt > at}
  IN {u \in active : \A v \in active : files[v].expiresAt =< files[u].expiresAt}

(* Mutant of Due: rows are taken one tick before they expire. *)
DueTooEarly(before) == {u \in Uploads : Exists(u) /\ files[u].expiresAt =< before + 1}

Due(before) == {u \in Uploads : Exists(u) /\ files[u].expiresAt =< before}

(* The batches FindExpired may answer: the `limit` oldest rows that have   *)
(* expired and that no other transaction has locked (SKIP LOCKED).         *)
FindExpired(before, limit) ==
  LET free == Due(before) \ locked
  IN {B \in SUBSET free :
        /\ Cardinality(B) =< limit
        /\ B = free \/ Cardinality(B) = limit
        /\ \A u \in B, v \in free \ B : files[u].expiresAt =< files[v].expiresAt}

-----------------------------------------------------------------------------
(* storage.R2Client, cloudflare.Client *)

PutObject(u) == objects' = objects \cup {u}
PutObjectErr(u) == objects' = objects \/ PutObject(u)

DeleteObject(u) == objects' = objects \ {u}
DeleteObjectErr(u) == objects' = objects \/ DeleteObject(u)

PurgeURLs(U) == edge' = [u \in Uploads |-> IF u \in U THEN "purged" ELSE edge[u]]
PurgeURLsErr(U) == edge' = edge \/ PurgeURLs(U)

-----------------------------------------------------------------------------
(* The environment. *)

Tick ==
  /\ now < MaxTime
  /\ now' = now + 1
  /\ UNCHANGED <<files, locked, objects, edge>>

(* A download through the CDN leaves a copy at the edge.  Without purging  *)
(* the program never touches the edge, which then stays out of the model.  *)
Download(u) ==
  /\ CachePurgeOn
  /\ u \in objects
  /\ edge' = [edge EXCEPT ![u] = "cached"]
  /\ UNCHANGED <<now, files, locked, objects>>

EdgeEvict(u) ==
  /\ edge[u] = "cached"
  /\ edge' = [edge EXCEPT ![u] = "absent"]
  /\ UNCHANGED <<now, files, locked, objects>>
=============================================================================
