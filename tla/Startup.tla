------------------------------- MODULE Startup -------------------------------
(***************************************************************************)
(* How instances that share a database start: the migrations under the     *)
(* advisory lock, the first admin, and the seeds of the legal documents    *)
(* (those of the upload settings are in UploadSettings).  Every statement  *)
(* is a step.  A statement that fails ends the process, and so does the    *)
(* same as a crash before or after it; only the unlock's failure is        *)
(* ignored.                                                                *)
(***************************************************************************)
EXTENDS Naturals

CONSTANTS Instances,
          Migrations,  \* number of migration files, applied in order of name
          Names,       \* user names that ADMIN_BOOTSTRAP_USERNAME may have
          None

Docs == {"terms", "privacy"}

ASSUME StartupAssumption == Migrations \in Nat /\ None \notin Instances

VARIABLES pc,       \* how far each instance's main has come
          file,     \* the migration each instance looks at
          lock,     \* whose session holds the migration advisory lock
          applied,  \* schema_migrations
          admins,   \* user names in admins
          docs,     \* legal_documents
          clashed   \* history: instances whose start another one ended

tables == <<applied, admins, docs>>
startup == <<pc, file, lock, tables, clashed>>

Past == {"count", "insert", "terms", "privacy", "join", "up"}
InMigrate == {"check", "apply", "unlock"}

StartupTypeOK ==
  /\ pc \in [Instances -> {"down", "lock"} \cup InMigrate \cup Past]
  /\ file \in [Instances -> 1..Migrations + 1]
  /\ lock \in Instances \cup {None}
  /\ applied \subseteq 1..Migrations
  /\ admins \subseteq Names
  /\ docs \in [Docs -> {"missing", "default", "edited"}]
  /\ clashed \subseteq Instances

StartupInit ==
  /\ pc = [i \in Instances |-> "down"]
  /\ file = [i \in Instances |-> 1]
  /\ lock = None
  /\ applied = {}
  /\ admins = {}
  /\ docs = [d \in Docs |-> "missing"]
  /\ clashed = {}

At(i, from, to) == pc[i] = from /\ pc' = [pc EXCEPT ![i] = to]

Start(i) ==
  /\ At(i, "down", "lock")
  /\ file' = [file EXCEPT ![i] = 1]
  /\ UNCHANGED <<lock, tables, clashed>>

-----------------------------------------------------------------------------
(* PostgresRepository.Migrate. *)

(* Mutant of AcquireLock: pg_try_advisory_lock, whose answer is ignored. *)
TryLock(i) ==
  /\ At(i, "lock", "check")
  /\ lock' = IF lock = None THEN i ELSE lock
  /\ UNCHANGED <<file, tables, clashed>>

(* pg_advisory_lock waits for the lock, and CREATE TABLE IF NOT EXISTS     *)
(* follows.                                                                *)
AcquireLock(i) ==
  /\ lock = None
  /\ At(i, "lock", "check")
  /\ lock' = i
  /\ UNCHANGED <<file, tables, clashed>>

(* Mutant of Check: a file that was applied before ends the loop. *)
CheckBreak(i) ==
  /\ pc[i] = "check"
  /\ pc' = [pc EXCEPT ![i] = IF file[i] > Migrations \/ file[i] \in applied
                              THEN "unlock" ELSE "apply"]
  /\ UNCHANGED <<file, lock, tables, clashed>>

Check(i) ==
  /\ pc[i] = "check"
  /\ IF file[i] > Migrations
     THEN pc' = [pc EXCEPT ![i] = "unlock"] /\ UNCHANGED file
     ELSE IF file[i] \in applied
     THEN file' = [file EXCEPT ![i] = @ + 1] /\ UNCHANGED pc
     ELSE pc' = [pc EXCEPT ![i] = "apply"] /\ UNCHANGED file
  /\ UNCHANGED <<lock, tables, clashed>>

(* The file and its row in schema_migrations are one transaction.  The row *)
(* of a file that another instance has applied in between is a unique      *)
(* violation, which ends the start.                                        *)
Apply(i) ==
  /\ pc[i] = "apply"
  /\ IF file[i] \in applied
     THEN /\ pc' = [pc EXCEPT ![i] = "down"]
          /\ clashed' = clashed \cup {i}
          /\ UNCHANGED <<file, applied>>
     ELSE /\ pc' = [pc EXCEPT ![i] = "check"]
          /\ file' = [file EXCEPT ![i] = @ + 1]
          /\ applied' = applied \cup {file[i]}
          /\ UNCHANGED clashed
  /\ UNCHANGED <<lock, admins, docs>>

(* The deferred unlock; when it fails its connection goes back to the pool *)
(* with the lock.                                                          *)
Unlock(i) ==
  /\ At(i, "unlock", "count")
  /\ lock' \in {None, lock}
  /\ UNCHANGED <<file, tables, clashed>>

(* Mutant of EndSession: the lock is a row, which only its owner removes.  *)
EndSessionAlive(i) ==
  /\ lock = i
  /\ pc[i] \in Past
  /\ lock' = None
  /\ UNCHANGED <<pc, file, tables, clashed>>

(* A session that kept the lock ends: the pool closes its connection, or   *)
(* PostgreSQL notices that the process is gone.                            *)
EndSession(i) ==
  /\ lock = i
  /\ pc[i] \notin InMigrate
  /\ lock' = None
  /\ UNCHANGED <<pc, file, tables, clashed>>

-----------------------------------------------------------------------------
(* admin.Bootstrap. *)

Count(i) ==
  /\ \/ admins = {} /\ At(i, "count", "insert")
     \/ admins # {} /\ At(i, "count", "terms")
  /\ UNCHANGED <<file, lock, tables, clashed>>

(* The user name is UNIQUE. *)
Taken(name) == name \in admins

(* Mutant of InsertAdmin: ErrAdminUsernameTaken is an error as any other. *)
InsertAdminTaken(i) ==
  /\ \E name \in Names :
       \/ /\ ~Taken(name)
          /\ At(i, "insert", "terms")
          /\ admins' = admins \cup {name}
          /\ UNCHANGED clashed
       \/ /\ Taken(name)
          /\ At(i, "insert", "down")
          /\ clashed' = clashed \cup {i}
          /\ UNCHANGED admins
  /\ UNCHANGED <<file, lock, applied, docs>>

(* That the name is taken by now is a success. *)
InsertAdmin(i) ==
  /\ At(i, "insert", "terms")
  /\ \E name \in Names : admins' = IF Taken(name) THEN admins ELSE admins \cup {name}
  /\ UNCHANGED <<file, lock, applied, docs, clashed>>

-----------------------------------------------------------------------------
(* legal_documents. *)

(* Mutant of SeedIfMissing: an upsert. *)
SeedAlways(d) == docs' = [docs EXCEPT ![d] = "default"]

(* INSERT ... ON CONFLICT DO NOTHING. *)
SeedIfMissing(d) == docs' = [docs EXCEPT ![d] = IF @ = "missing" THEN "default" ELSE @]

SeedTerms(i) ==
  /\ At(i, "terms", "privacy")
  /\ SeedIfMissing("terms")
  /\ UNCHANGED <<file, lock, applied, admins, clashed>>

SeedPrivacy(i) ==
  /\ At(i, "privacy", "join")
  /\ SeedIfMissing("privacy")
  /\ UNCHANGED <<file, lock, applied, admins, clashed>>

(* UPDATE ... RETURNING; without a row nothing is done, and it is a 404.   *)
UpdateDocument(d) == docs' = [docs EXCEPT ![d] = IF @ = "missing" THEN @ ELSE "edited"]

(* An admin's PUT, which any instance serves. *)
UpdateLegalDocument(i, d) ==
  /\ pc[i] = "up"
  /\ UpdateDocument(d)
  /\ UNCHANGED <<pc, file, lock, applied, admins, clashed>>

-----------------------------------------------------------------------------
(* The process ends: a failed statement, missing bootstrap credentials, a  *)
(* crash or a shutdown.  Its sessions may end a little later.              *)
Exit(i) ==
  /\ pc[i] # "down"
  /\ pc' = [pc EXCEPT ![i] = "down"]
  /\ lock' = lock \/ (lock = i /\ lock' = None)
  /\ UNCHANGED <<file, tables, clashed>>

(* The statements of a start, but for the one that waits for the lock.     *)
StartStep(i) ==
  \/ Check(i) \/ Apply(i) \/ Unlock(i)
  \/ Count(i) \/ InsertAdmin(i)
  \/ SeedTerms(i) \/ SeedPrivacy(i)
=============================================================================
