----------------------------- MODULE FileService -----------------------------
(***************************************************************************)
(* file.Service.DeleteBeforeTTL: a client deletes a file early.  The row   *)
(* is read and checked once; the object, the row and the edge copy are     *)
(* then removed by three separate calls.                                   *)
(***************************************************************************)
EXTENDS Stores

CONSTANT Deleters  \* DELETE requests in flight at once, over all instances

VARIABLES del,         \* per request: where it is and the id it deletes
          authorised   \* history: the ids whose deletion passed the checks

fileVars == <<del, authorised>>

FileTypeOK ==
  /\ del \in [Deleters -> [pc : {"idle", "object", "row", "purge"},
                           id : Uploads \cup {None}]]
  /\ authorised \subseteq Uploads

DelIdle == [pc |-> "idle", id |-> None]

FileInit ==
  /\ del = [d \in Deleters |-> DelIdle]
  /\ authorised = {}

DelGoto(d, pc) == del' = [del EXCEPT ![d].pc = pc]
DelEnd(d) == del' = [del EXCEPT ![d] = DelIdle]

(* Mutant of TokenMatches: the token is not compared. *)
TokenIgnored(token, id) == token \in Uploads

(* Every file has a token of its own. *)
TokenMatches(token, id) == token = id

(* FindByID and the checks.  A refusal (404, 403, 410, 500) changes        *)
(* nothing.                                                                *)
Authorise(d, id, token) ==
  /\ del[d].pc = "idle"
  /\ Exists(id)
  /\ TokenMatches(token, id)
  /\ ~IsExpired(id)
  /\ del' = [del EXCEPT ![d] = [pc |-> "object", id |-> id]]
  /\ authorised' = authorised \cup {id}
  /\ UNCHANGED stores

(* Mutant of EraseObject: the edge is purged while the object is still     *)
(* there.                                                                  *)
EraseObjectPurgeFirst(d) ==
  /\ del[d].pc = "object"
  /\ PurgeURLs({del[d].id})
  /\ DelGoto(d, "row")
  /\ UNCHANGED <<now, files, locked, objects, authorised>>

(* The error of DeleteObject is ignored. *)
EraseObject(d) ==
  /\ del[d].pc = "object"
  /\ DeleteObject(del[d].id) \/ ("storage" \in Faults /\ DeleteObjectErr(del[d].id))
  /\ DelGoto(d, "row")
  /\ UNCHANGED <<now, files, locked, edge, authorised>>

EraseRow(d) ==
  /\ del[d].pc = "row"
  /\ \/ DeleteByID(del[d].id) /\ (IF CachePurgeOn THEN DelGoto(d, "purge") ELSE DelEnd(d))
     \/ "db" \in Faults /\ DeleteByIDErr(del[d].id) /\ DelEnd(d)
  /\ UNCHANGED <<now, locked, objects, edge, authorised>>

(* A failed purge is logged and never repeated. *)
PurgeDeleted(d) ==
  /\ del[d].pc = "purge"
  /\ PurgeURLs({del[d].id}) \/ ("purge" \in Faults /\ PurgeURLsErr({del[d].id}))
  /\ DelEnd(d)
  /\ UNCHANGED <<now, files, locked, objects, authorised>>

(* The instance dies, or the client goes away: under a cancelled context   *)
(* every call that is left fails, so the request ends where it is.         *)
AbortDelete(d) ==
  /\ Faults \cap {"cancel", "crash"} # {}
  /\ del[d].pc # "idle"
  /\ DelEnd(d)
  /\ UNCHANGED <<stores, authorised>>
=============================================================================
