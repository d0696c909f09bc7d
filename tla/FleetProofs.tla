----------------------------- MODULE FleetProofs -----------------------------
(***************************************************************************)
(* Proofs about Fleet, for any number of instances, migrations and nodes.  *)
(***************************************************************************)
EXTENDS Fleet, TLAPS

USE StartupAssumption, NodeAssumption

(* The two halves of the invariant: instances that start, and their rows.  *)
StartInv ==
  StartupTypeOK /\ ReadyWhenUp /\ NobodyClashes /\ MigratesAlone /\ DoneSoFar

NodeInv == NodeTypeOK /\ OwnIDs /\ PunctualRow

LEMMA Halves == IInv <=> StartInv /\ NodeInv
BY DEF IInv, StartInv, NodeInv, TypeOK

(* Before the first start there is nothing to be wrong about.              *)
LEMMA InitInv == Init => IInv
<1> SUFFICES ASSUME Init PROVE IInv
  OBVIOUS
<1>1. StartupTypeOK
  BY DEF Init, StartupInit, StartupTypeOK
<1>2. ReadyWhenUp /\ NobodyClashes /\ DoneSoFar
  BY DEF Init, StartupInit, ReadyWhenUp, NobodyClashes, DoneSoFar, Past
<1>3. MigratesAlone
  <2>1. applied = 1..0 /\ 0 \in 0..Migrations
    BY DEF Init, StartupInit
  <2>2. QED BY <2>1 DEF Init, StartupInit, MigratesAlone, InMigrate
<1>4. NodeTypeOK
  BY DEF Init, NodeInit, NodeTypeOK, NoRow, NoBeat, Ages
<1>5. OwnIDs /\ PunctualRow
  BY DEF Init, StartupInit, NodeInit, OwnIDs, PunctualRow, NoBeat
<1>6. QED BY <1>1, <1>2, <1>3, <1>4, <1>5 DEF IInv, TypeOK

-----------------------------------------------------------------------------
(* Starting.                                                               *)

(* A step of main that leaves the migrations, the lock and the tables alone. *)
LEMMA StartStepInv ==
  ASSUME StartInv, NEW i \in Instances, Start(i)
  PROVE  StartInv'
<1>1. StartupTypeOK'
  BY DEF StartInv, StartupTypeOK, Start, At, tables
<1>2. ReadyWhenUp' /\ NobodyClashes' /\ DoneSoFar'
  BY DEF StartInv, StartupTypeOK, Start, At, tables, ReadyWhenUp, NobodyClashes, DoneSoFar, Past
<1>3. MigratesAlone'
  BY DEF StartInv, StartupTypeOK, Start, At, tables, MigratesAlone, InMigrate
<1>4. QED BY <1>1, <1>2, <1>3 DEF StartInv

(* The lock is free, so nobody else migrates.                              *)
LEMMA AcquireLockInv ==
  ASSUME StartInv, NEW i \in Instances, AcquireLock(i)
  PROVE  StartInv'
<1>1. StartupTypeOK'
  BY DEF StartInv, StartupTypeOK, AcquireLock, At, tables, InMigrate
<1>2. ReadyWhenUp' /\ NobodyClashes' /\ DoneSoFar'
  BY DEF StartInv, StartupTypeOK, AcquireLock, At, tables, ReadyWhenUp, NobodyClashes,
         DoneSoFar, Past
<1>3. MigratesAlone'
  <2>1. /\ pc' = [pc EXCEPT ![i] = "check"] /\ lock' = i
        /\ file' = file /\ applied' = applied /\ file[i] = 1
    BY DEF StartInv, AcquireLock, At, tables, MigratesAlone
  <2>2. \A j \in Instances : pc[j] \notin InMigrate
    BY DEF StartInv, AcquireLock, MigratesAlone
  <2>3. 1..file[i] - 1 = {}
    BY <2>1
  <2>4. QED BY <2>1, <2>2, <2>3 DEF StartInv, StartupTypeOK, MigratesAlone, InMigrate
<1>4. QED BY <1>1, <1>2, <1>3 DEF StartInv

(* A file that is there is passed, one that is missing is the next.        *)
LEMMA CheckInv ==
  ASSUME StartInv, NEW i \in Instances, Check(i)
  PROVE  StartInv'
<1> USE DEF tables
<1>1. /\ pc[i] = "check" /\ lock = i /\ 1..file[i] - 1 \subseteq applied
      /\ file[i] \in 1..Migrations + 1 /\ file[i] \in Nat
      /\ lock' = lock /\ tables' = tables /\ clashed' = clashed
  BY DEF StartInv, StartupTypeOK, MigratesAlone, Check, InMigrate
<1>2. PICK n \in 0..Migrations : applied = 1..n
  BY DEF StartInv, MigratesAlone
<1>3. \/ /\ file[i] = Migrations + 1
         /\ pc' = [pc EXCEPT ![i] = "unlock"] /\ file' = file
      \/ /\ file[i] =< Migrations /\ file[i] \in applied
         /\ file' = [file EXCEPT ![i] = file[i] + 1] /\ pc' = pc
         /\ 1..(file[i] + 1) - 1 \subseteq applied
      \/ /\ file[i] =< Migrations /\ applied = 1..file[i] - 1
         /\ pc' = [pc EXCEPT ![i] = "apply"] /\ file' = file
  <2>1. CASE file[i] > Migrations
    BY <1>1, <2>1 DEF Check
  <2>2. CASE file[i] =< Migrations /\ file[i] \in applied
    <3>1. 1..(file[i] + 1) - 1 \subseteq applied
      BY <1>1, <1>2, <2>2
    <3>2. QED BY <1>1, <2>2, <3>1 DEF Check
  <2>3. CASE file[i] =< Migrations /\ file[i] \notin applied
    <3>1. n = file[i] - 1
      <4>1. n < file[i]
        BY <1>1, <1>2, <2>3
      <4>2. file[i] # 1 => file[i] - 1 \in applied
        BY <1>1
      <4>3. QED BY <1>1, <1>2, <4>1, <4>2
    <3>2. QED BY <1>1, <1>2, <2>3, <3>1 DEF Check
  <2>4. QED BY <1>1, <2>1, <2>2, <2>3
<1>4. StartupTypeOK'
  <2>1. file' \in [Instances -> 1..Migrations + 1]
    <3>1. file[i] =< Migrations => file[i] + 1 \in 1..Migrations + 1
      BY <1>1
    <3>2. QED BY <1>3, <3>1 DEF StartInv, StartupTypeOK
  <2>2. pc' \in [Instances -> {"down", "lock"} \cup InMigrate \cup Past]
    BY <1>3 DEF StartInv, StartupTypeOK, InMigrate
  <2>3. QED BY <1>1, <2>1, <2>2 DEF StartInv, StartupTypeOK
<1>5. ReadyWhenUp' /\ NobodyClashes' /\ DoneSoFar'
  BY <1>1, <1>3 DEF StartInv, StartupTypeOK, ReadyWhenUp, NobodyClashes, DoneSoFar, Past
<1>6. MigratesAlone'
  <2>1. (\E m \in 0..Migrations : applied = 1..m)'
    BY <1>1, <1>2
  <2>2. ASSUME NEW j \in Instances
        PROVE  /\ pc'[j] = "lock" => file'[j] = 1
               /\ pc'[j] \in InMigrate => lock' = j /\ 1..file'[j] - 1 \subseteq applied'
               /\ pc'[j] = "apply" => file'[j] =< Migrations /\ applied' = 1..file'[j] - 1
               /\ pc'[j] = "unlock" => file'[j] = Migrations + 1
    <3>1. CASE j = i
      BY <1>1, <1>3, <3>1 DEF StartInv, StartupTypeOK, InMigrate
    <3>2. CASE j # i
      <4>1. pc'[j] = pc[j] /\ file'[j] = file[j]
        BY <1>3, <3>2 DEF StartInv, StartupTypeOK
      <4>2. QED BY <1>1, <4>1 DEF StartInv, MigratesAlone
    <3>3. QED BY <3>1, <3>2
  <2>3. QED BY <2>1, <2>2 DEF MigratesAlone
<1>7. QED BY <1>4, <1>5, <1>6 DEF StartInv

(* The file that is applied extends the prefix that is there by one, and   *)
(* nobody else has applied it in between.                                  *)
LEMMA ApplyInv ==
  ASSUME StartInv, NEW i \in Instances, Apply(i)
  PROVE  StartInv'
<1>1. /\ pc[i] = "apply" /\ lock = i /\ applied = 1..file[i] - 1
      /\ file[i] \in 1..Migrations
  BY DEF StartInv, StartupTypeOK, MigratesAlone, Apply, InMigrate
<1>2. file[i] \notin applied
  BY <1>1
<1>3. /\ pc' = [pc EXCEPT ![i] = "check"]
      /\ file' = [file EXCEPT ![i] = file[i] + 1]
      /\ applied' = applied \cup {file[i]}
      /\ clashed' = clashed /\ lock' = lock /\ admins' = admins /\ docs' = docs
  BY <1>2 DEF Apply
<1>4. applied' = 1..(file[i] + 1) - 1 /\ applied \subseteq applied' /\ applied' = 1..file[i]
  BY <1>1, <1>3
<1>5. StartupTypeOK'
  BY <1>1, <1>3, <1>4 DEF StartInv, StartupTypeOK, InMigrate
<1>6. ASSUME NEW j \in Instances, j # i
      PROVE  /\ pc'[j] = pc[j] /\ file'[j] = file[j] /\ pc[j] \notin InMigrate
             /\ pc[j] \notin Past
  <2>1. pc'[j] = pc[j] /\ file'[j] = file[j]
    BY <1>3, <1>6 DEF StartInv, StartupTypeOK
  <2>2. pc[j] \notin InMigrate
    BY <1>1, <1>6 DEF StartInv, MigratesAlone
  <2>3. pc[j] \in Past => applied = 1..Migrations
    BY DEF StartInv, ReadyWhenUp
  <2>4. pc[j] \notin Past
    BY <1>1, <1>2, <2>3
  <2>5. QED BY <2>1, <2>2, <2>4
<1>7. pc'[i] = "check" /\ file'[i] = file[i] + 1
  BY <1>3 DEF StartInv, StartupTypeOK
<1>8. ReadyWhenUp' /\ NobodyClashes' /\ DoneSoFar'
  BY <1>3, <1>6, <1>7 DEF StartInv, ReadyWhenUp, NobodyClashes, DoneSoFar, Past
<1>9. MigratesAlone'
  <2>1. (\E m \in 0..Migrations : applied = 1..m)'
    BY <1>1, <1>4
  <2>2. ASSUME NEW j \in Instances
        PROVE  /\ pc'[j] = "lock" => file'[j] = 1
               /\ pc'[j] \in InMigrate => lock' = j /\ 1..file'[j] - 1 \subseteq applied'
               /\ pc'[j] = "apply" => file'[j] =< Migrations /\ applied' = 1..file'[j] - 1
               /\ pc'[j] = "unlock" => file'[j] = Migrations + 1
    <3>1. CASE j = i
      BY <1>1, <1>3, <1>4, <1>7, <3>1
    <3>2. CASE j # i
      BY <1>6, <3>2 DEF StartInv, MigratesAlone, InMigrate
    <3>3. QED BY <3>1, <3>2
  <2>3. QED BY <2>1, <2>2 DEF MigratesAlone
<1>10. QED BY <1>5, <1>8, <1>9 DEF StartInv

(* Whoever gives the lock back has seen every file applied.                *)
LEMMA UnlockInv ==
  ASSUME StartInv, NEW i \in Instances, Unlock(i)
  PROVE  StartInv'
<1>1. /\ pc[i] = "unlock" /\ pc' = [pc EXCEPT ![i] = "count"]
      /\ lock = i /\ lock' \in {None, lock}
      /\ file' = file /\ applied' = applied /\ admins' = admins /\ docs' = docs
      /\ clashed' = clashed
  BY DEF StartInv, MigratesAlone, Unlock, At, tables, InMigrate
<1>2. applied = 1..Migrations
  <2>1. file[i] = Migrations + 1 /\ 1..file[i] - 1 \subseteq applied
    BY <1>1 DEF StartInv, MigratesAlone, InMigrate
  <2>2. 1..Migrations \subseteq applied
    BY <2>1
  <2>3. QED BY <2>2 DEF StartInv, StartupTypeOK
<1>3. ASSUME NEW j \in Instances, j # i
      PROVE  pc'[j] = pc[j] /\ pc[j] \notin InMigrate
  BY <1>1, <1>3 DEF StartInv, StartupTypeOK, MigratesAlone
<1>4. pc'[i] = "count"
  BY <1>1 DEF StartInv, StartupTypeOK
<1>5. StartupTypeOK'
  BY <1>1 DEF StartInv, StartupTypeOK, Past
<1>6. ReadyWhenUp' /\ NobodyClashes' /\ DoneSoFar'
  BY <1>1, <1>2, <1>3, <1>4 DEF StartInv, ReadyWhenUp, NobodyClashes, DoneSoFar, Past
<1>7. MigratesAlone'
  BY <1>1, <1>3, <1>4 DEF StartInv, MigratesAlone, InMigrate
<1>8. QED BY <1>5, <1>6, <1>7 DEF StartInv

(* The sessions that end are of instances that do not migrate.             *)
LEMMA EndSessionInv ==
  ASSUME StartInv, NEW i \in Instances, EndSession(i)
  PROVE  StartInv'
<1>1. /\ lock = i /\ pc[i] \notin InMigrate /\ lock' = None
      /\ pc' = pc /\ file' = file /\ applied' = applied /\ admins' = admins
      /\ docs' = docs /\ clashed' = clashed
  BY DEF EndSession, tables
<1>2. \A j \in Instances : pc[j] \notin InMigrate
  BY <1>1 DEF StartInv, MigratesAlone
<1>3. StartupTypeOK'
  BY <1>1 DEF StartInv, StartupTypeOK
<1>4. ReadyWhenUp' /\ NobodyClashes' /\ DoneSoFar'
  BY <1>1 DEF StartInv, ReadyWhenUp, NobodyClashes, DoneSoFar
<1>5. MigratesAlone'
  BY <1>1, <1>2 DEF StartInv, MigratesAlone, InMigrate
<1>6. QED BY <1>3, <1>4, <1>5 DEF StartInv

(* A step of one start after the migrations: admins and documents only     *)
(* grow, and nothing else changes but how far the instance is.             *)
LEMMA SeedingInv ==
  ASSUME StartInv, NEW i \in Instances,
         NEW from \in Past \cup {"down"}, NEW to \in Past \cup {"down"},
         pc[i] = from, pc' = [pc EXCEPT ![i] = to], to \in Past => from \in Past,
         UNCHANGED <<file, lock, applied, clashed>>,
         admins' \subseteq Names, admins # {} => admins' # {},
         docs' \in [Docs -> {"missing", "default", "edited"}],
         \A d \in Docs : docs[d] # "missing" => docs'[d] # "missing",
         to \in {"terms", "privacy", "join", "up"} => admins' # {},
         to \in {"privacy", "join", "up"} => docs'["terms"] # "missing",
         to \in {"join", "up"} => docs'["privacy"] # "missing"
  PROVE  StartInv'
<1>1. ASSUME NEW j \in Instances, j # i PROVE pc'[j] = pc[j]
  BY <1>1 DEF StartInv, StartupTypeOK
<1>2. pc'[i] = to /\ to \notin InMigrate /\ to # "lock"
  BY DEF StartInv, StartupTypeOK, Past, InMigrate
<1>3. StartupTypeOK'
  BY DEF StartInv, StartupTypeOK
<1>4. "terms" \in Docs /\ "privacy" \in Docs /\ Docs = {"terms", "privacy"}
  BY DEF Docs
<1>5. ReadyWhenUp'
  BY <1>1, <1>2, <1>4 DEF StartInv, ReadyWhenUp
<1>6. NobodyClashes' /\ DoneSoFar'
  BY <1>1, <1>2, <1>4 DEF StartInv, NobodyClashes, DoneSoFar
<1>7. MigratesAlone'
  BY <1>1, <1>2 DEF StartInv, MigratesAlone, InMigrate
<1>8. QED BY <1>3, <1>5, <1>6, <1>7 DEF StartInv

(* Bootstrap finds an admin or inserts one; the seeds add what is missing. *)
LEMMA BootstrapInv ==
  ASSUME StartInv, NEW i \in Instances,
         \/ Count(i) \/ InsertAdmin(i) \/ SeedTerms(i) \/ SeedPrivacy(i)
         \/ At(i, "join", "up") /\ UNCHANGED <<file, lock, tables, clashed>>
  PROVE  StartInv'
<1>1. /\ admins \subseteq Names /\ docs \in [Docs -> {"missing", "default", "edited"}]
      /\ pc[i] \in {"terms", "privacy", "join"} => admins # {}
      /\ pc[i] \in {"privacy", "join"} => docs["terms"] # "missing"
      /\ pc[i] = "join" => docs["privacy"] # "missing"
  BY DEF StartInv, StartupTypeOK, DoneSoFar
<1>2. CASE Count(i)
  <2>1. \/ pc[i] = "count" /\ pc' = [pc EXCEPT ![i] = "insert"]
        \/ pc[i] = "count" /\ pc' = [pc EXCEPT ![i] = "terms"] /\ admins # {}
    BY <1>2 DEF Count, At
  <2>2. UNCHANGED <<file, lock, applied, admins, docs, clashed>>
    BY <1>2 DEF Count, tables
  <2>3. "count" \in Past /\ "insert" \in Past /\ "terms" \in Past
    BY DEF Past
  <2>4. QED BY <1>1, <2>1, <2>2, <2>3, SeedingInv
<1>3. CASE InsertAdmin(i)
  <2>1. /\ pc[i] = "insert" /\ pc' = [pc EXCEPT ![i] = "terms"]
        /\ UNCHANGED <<file, lock, applied, docs, clashed>>
    BY <1>3 DEF InsertAdmin, At
  <2>2. admins' \subseteq Names /\ admins' # {}
    BY <1>1, <1>3 DEF InsertAdmin, Taken
  <2>3. "insert" \in Past /\ "terms" \in Past
    BY DEF Past
  <2>4. QED BY <1>1, <2>1, <2>2, <2>3, SeedingInv
<1>4. ASSUME NEW d \in Docs, SeedIfMissing(d)
      PROVE  /\ docs' \in [Docs -> {"missing", "default", "edited"}]
             /\ docs'[d] # "missing"
             /\ \A e \in Docs : docs[e] # "missing" => docs'[e] # "missing"
  BY <1>1, <1>4 DEF SeedIfMissing
<1>5. CASE SeedTerms(i)
  <2>1. /\ pc[i] = "terms" /\ pc' = [pc EXCEPT ![i] = "privacy"]
        /\ UNCHANGED <<file, lock, applied, admins, clashed>>
        /\ SeedIfMissing("terms")
    BY <1>5 DEF SeedTerms, At
  <2>2. "terms" \in Past /\ "privacy" \in Past /\ "terms" \in Docs
    BY DEF Past, Docs
  <2>3. /\ docs' \in [Docs -> {"missing", "default", "edited"}]
        /\ docs'["terms"] # "missing"
        /\ \A e \in Docs : docs[e] # "missing" => docs'[e] # "missing"
    BY <1>4, <2>1, <2>2
  <2>4. QED BY <1>1, <2>1, <2>2, <2>3, SeedingInv
<1>6. CASE SeedPrivacy(i)
  <2>1. /\ pc[i] = "privacy" /\ pc' = [pc EXCEPT ![i] = "join"]
        /\ UNCHANGED <<file, lock, applied, admins, clashed>>
        /\ SeedIfMissing("privacy")
    BY <1>6 DEF SeedPrivacy, At
  <2>2. /\ "join" \in Past /\ "privacy" \in Past
        /\ "privacy" \in Docs /\ "terms" \in Docs
    BY DEF Past, Docs
  <2>3. /\ docs' \in [Docs -> {"missing", "default", "edited"}]
        /\ docs'["privacy"] # "missing" /\ docs'["terms"] # "missing"
        /\ \A e \in Docs : docs[e] # "missing" => docs'[e] # "missing"
    BY <1>1, <1>4, <2>1, <2>2
  <2>4. QED BY <1>1, <2>1, <2>2, <2>3, SeedingInv
<1>7. CASE At(i, "join", "up") /\ UNCHANGED <<file, lock, tables, clashed>>
  <2>1. /\ pc[i] = "join" /\ pc' = [pc EXCEPT ![i] = "up"]
        /\ UNCHANGED <<file, lock, applied, admins, docs, clashed>>
    BY <1>7 DEF At, tables
  <2>2. "join" \in Past /\ "up" \in Past
    BY DEF Past
  <2>3. QED BY <1>1, <2>1, <2>2, SeedingInv
<1>8. QED BY <1>2, <1>3, <1>5, <1>6, <1>7

(* An edit needs a document and leaves one.                                *)
LEMMA UpdateDocumentInv ==
  ASSUME StartInv, NEW i \in Instances, NEW d \in Docs, UpdateLegalDocument(i, d)
  PROVE  StartInv'
<1>1. /\ pc[i] = "up" /\ pc' = [pc EXCEPT ![i] = "up"]
      /\ UNCHANGED <<file, lock, applied, admins, clashed>>
  BY DEF UpdateLegalDocument, StartInv, StartupTypeOK
<1>2. /\ docs' \in [Docs -> {"missing", "default", "edited"}]
      /\ \A e \in Docs : docs[e] # "missing" => docs'[e] # "missing"
  BY DEF UpdateLegalDocument, UpdateDocument, StartInv, StartupTypeOK
<1>3. /\ admins \subseteq Names /\ admins # {}
      /\ docs["terms"] # "missing" /\ docs["privacy"] # "missing"
      /\ "terms" \in Docs /\ "privacy" \in Docs /\ "up" \in Past
  BY <1>1 DEF StartInv, StartupTypeOK, ReadyWhenUp, Docs, Past
<1>4. QED BY <1>1, <1>2, <1>3, SeedingInv

(* A process that ends leaves the tables as they are; a lock it held stays *)
(* with its session or goes.                                               *)
LEMMA ExitInv ==
  ASSUME StartInv, NEW i \in Instances, Exit(i)
  PROVE  StartInv'
<1>1. /\ pc' = [pc EXCEPT ![i] = "down"]
      /\ lock' = lock \/ (lock = i /\ lock' = None)
      /\ file' = file /\ applied' = applied /\ admins' = admins /\ docs' = docs
      /\ clashed' = clashed
  BY DEF Exit, tables
<1>2. ASSUME NEW j \in Instances
      PROVE  pc'[j] = pc[j] \/ (j = i /\ pc'[j] = "down")
  BY <1>1 DEF StartInv, StartupTypeOK
<1>3. StartupTypeOK'
  BY <1>1 DEF StartInv, StartupTypeOK
<1>4. ReadyWhenUp' /\ NobodyClashes' /\ DoneSoFar'
  <2>1. ReadyWhenUp'
    BY <1>1, <1>2 DEF StartInv, ReadyWhenUp, Past
  <2>2. NobodyClashes' /\ DoneSoFar'
    BY <1>1, <1>2 DEF StartInv, NobodyClashes, DoneSoFar
  <2>3. QED BY <2>1, <2>2
<1>5. MigratesAlone'
  <2>1. ASSUME NEW j \in Instances, pc'[j] \in InMigrate
        PROVE  lock' = j
    <3>1. pc'[j] = pc[j] /\ j # i
      BY <1>1, <1>2, <2>1 DEF InMigrate, StartInv, StartupTypeOK
    <3>2. lock = j
      BY <2>1, <3>1 DEF StartInv, MigratesAlone
    <3>3. QED BY <1>1, <3>1, <3>2
  <2>2. QED BY <1>1, <1>2, <2>1 DEF StartInv, MigratesAlone, InMigrate
<1>6. QED BY <1>3, <1>4, <1>5 DEF StartInv

(* What no start changes keeps the first half.                             *)
LEMMA StartupKept ==
  ASSUME StartInv, UNCHANGED startup
  PROVE  StartInv'
BY DEF StartInv, startup, tables, StartupTypeOK, ReadyWhenUp, NobodyClashes, MigratesAlone,
       DoneSoFar

-----------------------------------------------------------------------------
(* Heartbeats.                                                             *)

(* Only Join and EndInstance change who is up.                             *)
LEMMA StartersAreNotUp ==
  ASSUME StartInv, NEW i \in Instances,
         Start(i) \/ AcquireLock(i) \/ StartStep(i) \/ EndSession(i)
  PROVE  \A j \in Instances : pc'[j] = "up" <=> pc[j] = "up"
<1>1. \/ pc' = pc
      \/ \E to \in {"lock", "check", "unlock", "apply", "down", "count", "insert", "terms",
                    "privacy", "join"} :
           pc[i] # "up" /\ pc' = [pc EXCEPT ![i] = to]
  <2>1. CASE Start(i) \/ AcquireLock(i) \/ EndSession(i)
    BY <2>1 DEF Start, AcquireLock, EndSession, At
  <2>2. CASE Check(i)
    BY <2>2 DEF Check
  <2>3. CASE Apply(i)
    BY <2>3 DEF Apply
  <2>4. CASE Unlock(i) \/ Count(i) \/ InsertAdmin(i) \/ SeedTerms(i) \/ SeedPrivacy(i)
    BY <2>4 DEF Unlock, Count, InsertAdmin, SeedTerms, SeedPrivacy, At
  <2>5. QED BY <2>1, <2>2, <2>3, <2>4 DEF StartStep
<1>2. QED BY <1>1 DEF StartInv, StartupTypeOK

(* The second half depends on the first by who is up alone.                *)
LEMMA NodesKept ==
  ASSUME NodeInv, UNCHANGED nodes,
         \A j \in Instances : pc'[j] = "up" <=> pc[j] = "up"
  PROVE  NodeInv'
<1>1. NodeTypeOK'
  BY DEF NodeInv, nodes, NodeTypeOK
<1>2. OwnIDs'
  BY DEF NodeInv, nodes, OwnIDs
<1>3. PunctualRow'
  BY DEF NodeInv, nodes, PunctualRow, InTime
<1>4. QED BY <1>1, <1>2, <1>3 DEF NodeInv

(* An instance that joins takes its own id, or one nobody has.             *)
LEMMA JoinInv ==
  ASSUME StartInv, NodeInv, NEW i \in Instances, Join(i)
  PROVE  NodeInv'
<1>1. PICK n \in ResolveNodeID(i) : id' = [id EXCEPT ![i] = n]
  BY DEF Join
<1>2. /\ pc[i] = "join" /\ pc' = [pc EXCEPT ![i] = "up"]
      /\ beat' = [beat EXCEPT ![i] = NoBeat] /\ rows' = rows
  BY DEF Join, At
<1>3. id[i] = None
  BY <1>2 DEF NodeInv, OwnIDs
<1>4. /\ n \in NodeIDs
      /\ \A j \in Instances \ {i} : id[j] # n /\ NodeID[j] # n
  <2>1. CASE NodeID[i] # None
    <3>1. n = NodeID[i]
      BY <1>1, <2>1 DEF ResolveNodeID
    <3>2. \A j \in Instances \ {i} : NodeID[j] # n
      BY <2>1, <3>1
    <3>3. ASSUME NEW j \in Instances \ {i} PROVE id[j] # n
      BY <2>1, <3>1 DEF NodeInv, OwnIDs
    <3>4. QED BY <2>1, <3>1, <3>2, <3>3
  <2>2. CASE NodeID[i] = None
    BY <1>1, <2>2 DEF ResolveNodeID, Drawn
  <2>3. QED BY <2>1, <2>2
<1>5. NodeTypeOK'
  BY <1>1, <1>2, <1>4 DEF NodeInv, NodeTypeOK, NoBeat, Ages
<1>6. OwnIDs'
  <2>1. ASSUME NEW j \in Instances
        PROVE  /\ pc'[j] = "up" <=> id'[j] # None
               /\ pc'[j] # "up" => beat'[j] = NoBeat
    BY <1>1, <1>2, <1>4 DEF StartInv, StartupTypeOK, NodeInv, NodeTypeOK, OwnIDs
  <2>2. ASSUME NEW j \in Instances, NEW k \in Instances \ {j}, id'[j] # None
        PROVE  id'[k] # id'[j] /\ NodeID[k] # id'[j]
    <3>1. CASE j = i
      BY <1>1, <1>4, <2>2, <3>1 DEF NodeInv, NodeTypeOK
    <3>2. CASE j # i
      BY <1>1, <1>4, <2>2, <3>2 DEF NodeInv, NodeTypeOK, OwnIDs
    <3>3. QED BY <3>1, <3>2
  <2>3. QED BY <2>1, <2>2 DEF OwnIDs
<1>7. PunctualRow'
  <2>1. ASSUME NEW j \in Instances, beat'[j].punctual
        PROVE  j # i /\ beat'[j] = beat[j] /\ id'[j] = id[j]
    BY <1>1, <1>2, <2>1 DEF NodeInv, NodeTypeOK, NoBeat
  <2>2. QED BY <1>2, <2>1 DEF NodeInv, PunctualRow, InTime
<1>8. QED BY <1>5, <1>6, <1>7 DEF NodeInv

(* One that ends has no id and no heartbeats any more.                     *)
LEMMA LeaveInv ==
  ASSUME StartInv, NodeInv, NEW i \in Instances, Exit(i), LeaveNode(i)
  PROVE  NodeInv'
<1>1. /\ pc' = [pc EXCEPT ![i] = "down"] /\ id' = [id EXCEPT ![i] = None]
      /\ beat' = [beat EXCEPT ![i] = NoBeat] /\ rows' = rows
  BY DEF Exit, LeaveNode
<1>2. NodeTypeOK'
  BY <1>1 DEF NodeInv, NodeTypeOK, NoBeat, Ages
<1>3. OwnIDs'
  <2>1. ASSUME NEW j \in Instances
        PROVE  /\ pc'[j] = "up" <=> id'[j] # None
               /\ pc'[j] # "up" => beat'[j] = NoBeat
    BY <1>1 DEF StartInv, StartupTypeOK, NodeInv, NodeTypeOK, OwnIDs
  <2>2. ASSUME NEW j \in Instances, NEW k \in Instances \ {j}, id'[j] # None
        PROVE  id'[k] # id'[j] /\ NodeID[k] # id'[j]
    BY <1>1, <2>2 DEF NodeInv, NodeTypeOK, OwnIDs
  <2>3. QED BY <2>1, <2>2 DEF OwnIDs
<1>4. PunctualRow'
  <2>1. ASSUME NEW j \in Instances, beat'[j].punctual
        PROVE  j # i /\ beat'[j] = beat[j] /\ id'[j] = id[j]
    BY <1>1, <2>1 DEF NodeInv, NodeTypeOK, NoBeat
  <2>2. QED BY <1>1, <2>1 DEF NodeInv, PunctualRow, InTime
<1>5. QED BY <1>2, <1>3, <1>4 DEF NodeInv

(* A step of one reporter, which writes its own row or none.               *)
LEMMA ReporterInv ==
  ASSUME NodeInv, NEW i \in Instances, pc[i] = "up", pc' = pc, id' = id,
         NEW b \in [sent : BOOLEAN, age : Ages, punctual : BOOLEAN],
         beat' = [beat EXCEPT ![i] = b],
         NEW row \in [status : {"none", "online", "offline"}, age : Ages],
         rows' = [rows EXCEPT ![id[i]] = row],
         b.punctual => /\ InTime(b)
                       /\ RoomForSlack => row.status = "online"
                       /\ row.age =< b.age + IF b.sent THEN Interval ELSE 0
  PROVE  NodeInv'
<1>1. id[i] \in NodeIDs /\ id[i] # None
  BY DEF NodeInv, NodeTypeOK, OwnIDs
<1>2. beat'[i] = b /\ rows'[id[i]] = row
  BY <1>1 DEF NodeInv, NodeTypeOK
<1>3. NodeTypeOK'
  BY <1>1 DEF NodeInv, NodeTypeOK
<1>4. OwnIDs'
  BY DEF NodeInv, NodeTypeOK, OwnIDs
<1>5. ASSUME NEW j \in Instances, beat'[j].punctual
      PROVE  /\ id'[j] # None
             /\ InTime(beat'[j])
             /\ RoomForSlack => rows'[id'[j]].status = "online"
             /\ rows'[id'[j]].age =< beat'[j].age + IF beat'[j].sent THEN Interval ELSE 0
  <2>1. CASE j = i
    BY <1>1, <1>2, <1>5, <2>1
  <2>2. CASE j # i
    <3>1. beat'[j] = beat[j] /\ id[j] # id[i]
      BY <1>1, <2>2 DEF NodeInv, NodeTypeOK, OwnIDs
    <3>2. id[j] \in NodeIDs
      BY <1>5, <3>1 DEF NodeInv, NodeTypeOK, PunctualRow
    <3>3. rows'[id[j]] = rows[id[j]]
      BY <3>1, <3>2 DEF NodeInv, NodeTypeOK
    <3>4. QED BY <1>5, <3>1, <3>3 DEF NodeInv, PunctualRow
  <2>3. QED BY <2>1, <2>2
<1>6. PunctualRow'
  BY <1>5 DEF PunctualRow, InTime
<1>7. QED BY <1>3, <1>4, <1>6 DEF NodeInv

(* Begun, answered or failed: the row is as old as the beats say.          *)
LEMMA BeatInv ==
  ASSUME StartInv, NodeInv, NEW i \in Instances,
         BeginBeat(i) \/ LandBeat(i) \/ FailBeat(i)
  PROVE  NodeInv'
<1> DEFINE Beat == [sent : BOOLEAN, age : Ages, punctual : BOOLEAN]
           Row == [status : {"none", "online", "offline"}, age : Ages]
<1>1. /\ beat[i] \in Beat /\ rows \in [NodeIDs -> Row] /\ 0 \in Ages
      /\ \A a \in Ages : a \in Nat
      /\ beat \in [Instances -> Beat]
  BY DEF NodeInv, NodeTypeOK, Ages
<1>2. pc[i] = "up"
  <2>1. beat[i] = NoBeat => ~beat[i].sent
    BY DEF NoBeat
  <2>2. QED BY <2>1 DEF BeginBeat, LandBeat, FailBeat, NodeInv, OwnIDs
<1>3. id[i] \in NodeIDs /\ rows[id[i]] \in Row
  BY <1>1, <1>2 DEF NodeInv, NodeTypeOK, OwnIDs
<1>4. pc' = pc /\ id' = id
  BY DEF BeginBeat, LandBeat, FailBeat, startup
<1>5. rows = [rows EXCEPT ![id[i]] = rows[id[i]]]
  BY <1>1, <1>3
<1>6. beat[i].punctual => /\ InTime(beat[i])
                          /\ RoomForSlack => rows[id[i]].status = "online"
                          /\ rows[id[i]].age =< beat[i].age + IF beat[i].sent THEN Interval ELSE 0
  BY DEF NodeInv, PunctualRow
<1>7. Slack \in Nat
  OBVIOUS
<1>8. CASE BeginBeat(i)
  <2> DEFINE b == [beat[i] EXCEPT !.sent = TRUE, !.age = 0]
  <2>1. rows' = rows /\ ~beat[i].sent
    BY <1>8 DEF BeginBeat
  <2>2. beat' = [beat EXCEPT ![i] = b]
    BY <1>1, <1>8 DEF BeginBeat
  <2>3. b \in Beat /\ b.age = 0 /\ b.sent /\ b.punctual = beat[i].punctual
    BY <1>1
  <2>4. InTime(b)
    BY <1>7, <2>3 DEF InTime
  <2>5. beat[i].punctual => rows[id[i]].age =< 0 + Interval
    BY <1>1, <1>3, <1>6, <2>1 DEF InTime
  <2> HIDE DEF b
  <2>6. rows' = [rows EXCEPT ![id[i]] = rows[id[i]]]
    BY <1>5, <2>1
  <2>7. b.punctual => /\ InTime(b)
                      /\ RoomForSlack => rows[id[i]].status = "online"
                      /\ rows[id[i]].age =< b.age + IF b.sent THEN Interval ELSE 0
    BY <1>6, <2>3, <2>4, <2>5
  <2>8. b \in Beat
    BY <2>3
  <2>9. QED BY <1>2, <1>3, <1>4, <2>2, <2>6, <2>7, <2>8, ReporterInv
<1>9. CASE LandBeat(i)
  <2> DEFINE done == [beat[i] EXCEPT !.sent = FALSE]
             b == [done EXCEPT !.punctual = InTime(beat[i]) /\ InTime(done)]
             row == [status |-> "online", age |-> beat[i].age]
  <2>1. beat' = [beat EXCEPT ![i] = b] /\ rows' = [rows EXCEPT ![id[i]] = row]
    BY <1>9 DEF LandBeat, Heartbeat
  <2>2. b.age = beat[i].age /\ b.sent = FALSE /\ b.punctual = (InTime(beat[i]) /\ InTime(done))
    BY <1>1
  <2>3. InTime(beat[i]) \in BOOLEAN /\ InTime(done) \in BOOLEAN
    BY DEF InTime
  <2>4. b \in Beat /\ row \in Row
    BY <1>1, <2>3
  <2>5. b.punctual => InTime(b)
    BY <1>1, <2>2 DEF InTime
  <2>6. row.status = "online" /\ row.age =< b.age + IF b.sent THEN Interval ELSE 0
    BY <1>1, <2>2
  <2> HIDE DEF b, row
  <2>7. QED BY <1>2, <1>4, <2>1, <2>4, <2>5, <2>6, ReporterInv
<1>10. CASE FailBeat(i)
  <2> DEFINE b == [beat[i] EXCEPT !.sent = FALSE, !.punctual = FALSE]
  <2>1. beat' = [beat EXCEPT ![i] = b]
    BY <1>10 DEF FailBeat
  <2>2. PICK row \in Row : rows' = [rows EXCEPT ![id[i]] = row]
    <3>1. [status |-> "online", age |-> beat[i].age] \in Row
      BY <1>1
    <3>2. QED BY <1>3, <1>5, <1>10, <3>1 DEF FailBeat, Heartbeat
  <2>3. b \in Beat /\ ~b.punctual
    BY <1>1
  <2> HIDE DEF b
  <2>4. QED BY <1>2, <1>4, <2>1, <2>2, <2>3, ReporterInv
<1>11. QED BY <1>8, <1>9, <1>10

(* No punctual node's row is old enough to be marked.                      *)
LEMMA JanitorInv ==
  ASSUME NodeInv, NEW i \in Instances, MarkStaleOffline(i)
  PROVE  NodeInv'
<1>1. PICK S \in SUBSET {n \in NodeIDs : IsStale(n)} : rows' = MarkOffline(S)
  BY DEF MarkStaleOffline
<1>2. pc' = pc /\ id' = id /\ beat' = beat
  BY DEF MarkStaleOffline, startup
<1>3. NodeTypeOK'
  BY <1>1, <1>2 DEF NodeInv, NodeTypeOK, MarkOffline
<1>4. OwnIDs'
  BY <1>2 DEF NodeInv, OwnIDs
<1>5. ASSUME NEW j \in Instances, beat[j].punctual
      PROVE  /\ RoomForSlack => rows'[id[j]].status = "online"
             /\ rows'[id[j]].age = rows[id[j]].age
  <2>1. id[j] \in NodeIDs /\ rows[id[j]].age \in Nat /\ beat[j].age \in Nat
    BY <1>5 DEF NodeInv, NodeTypeOK, PunctualRow, Ages
  <2>2. ASSUME RoomForSlack PROVE ~IsStale(id[j]) /\ rows[id[j]].status = "online"
    BY <1>5, <2>1, <2>2 DEF NodeInv, PunctualRow, InTime, RoomForSlack, IsStale
  <2>3. /\ rows'[id[j]].age = rows[id[j]].age
        /\ ~IsStale(id[j]) => rows'[id[j]] = rows[id[j]]
    BY <1>1, <2>1 DEF MarkOffline, NodeInv, NodeTypeOK
  <2>4. QED BY <2>2, <2>3
<1>6. PunctualRow'
  BY <1>2, <1>5 DEF NodeInv, PunctualRow, InTime
<1>7. QED BY <1>3, <1>4, <1>6 DEF NodeInv

(* A tick makes row and beat older alike, unless the beat is too late.     *)
LEMMA TickInv ==
  ASSUME StartInv, NodeInv, Tick
  PROVE  NodeInv'
<1> DEFINE Aged(i) == [beat[i] EXCEPT !.age = Older(@)]
           Ticked(i) == [Aged(i) EXCEPT !.punctual = @ /\ InTime(Aged(i))]
<1>1. /\ pc' = pc /\ id' = id
      /\ rows' = [n \in NodeIDs |-> IF rows[n].status = "none" THEN NoRow
                                    ELSE [rows[n] EXCEPT !.age = Older(@)]]
      /\ beat' = [i \in Instances |-> IF pc[i] # "up" THEN NoBeat ELSE Ticked(i)]
  BY DEF Tick, startup
<1>2. \A a \in Ages : Older(a) \in Ages
  BY DEF Older, Ages
<1>3. ASSUME NEW j \in Instances
      PROVE  /\ Ticked(j) \in [sent : BOOLEAN, age : Ages, punctual : BOOLEAN]
             /\ Ticked(j).age = Older(beat[j].age) /\ Ticked(j).sent = beat[j].sent
             /\ Ticked(j).punctual => beat[j].punctual /\ InTime(Ticked(j))
  <2>1. beat[j] \in [sent : BOOLEAN, age : Ages, punctual : BOOLEAN]
    BY DEF NodeInv, NodeTypeOK
  <2>2. Older(beat[j].age) \in Ages
    BY <1>2, <2>1
  <2>3. /\ Aged(j) \in [sent : BOOLEAN, age : Ages, punctual : BOOLEAN]
        /\ Aged(j).age = Older(beat[j].age) /\ Aged(j).sent = beat[j].sent
        /\ Aged(j).punctual = beat[j].punctual
    BY <2>1, <2>2
  <2>4. InTime(Aged(j)) \in BOOLEAN
    BY DEF InTime
  <2> HIDE DEF Aged
  <2>5. /\ Ticked(j) \in [sent : BOOLEAN, age : Ages, punctual : BOOLEAN]
        /\ Ticked(j).age = Aged(j).age /\ Ticked(j).sent = Aged(j).sent
        /\ Ticked(j).punctual = (Aged(j).punctual /\ InTime(Aged(j)))
    BY <2>3, <2>4
  <2> HIDE DEF Ticked
  <2>6. QED BY <2>3, <2>5 DEF InTime
<1>4. ASSUME NEW n \in NodeIDs
      PROVE  /\ rows'[n] \in [status : {"none", "online", "offline"}, age : Ages]
             /\ rows'[n].status = rows[n].status
             /\ rows'[n].age =< Older(rows[n].age)
  <2>1. rows[n] \in [status : {"none", "online", "offline"}, age : Ages]
    BY DEF NodeInv, NodeTypeOK
  <2>2. Older(rows[n].age) \in Ages /\ 0 \in Ages
    BY <1>2, <2>1 DEF Ages
  <2>3. rows'[n] = IF rows[n].status = "none" THEN NoRow
                   ELSE [rows[n] EXCEPT !.age = Older(rows[n].age)]
    BY <1>1
  <2>4. QED BY <2>1, <2>2, <2>3 DEF NoRow, Ages
<1> HIDE DEF Ticked, Aged
<1>5. NodeTypeOK'
  <2>1. NoBeat \in [sent : BOOLEAN, age : Ages, punctual : BOOLEAN]
    BY DEF NoBeat, Ages
  <2>2. beat' \in [Instances -> [sent : BOOLEAN, age : Ages, punctual : BOOLEAN]]
    BY <1>1, <1>3, <2>1
  <2>3. rows' \in [NodeIDs -> [status : {"none", "online", "offline"}, age : Ages]]
    BY <1>1, <1>4
  <2>4. QED BY <1>1, <2>2, <2>3 DEF NodeInv, NodeTypeOK
<1>6. OwnIDs'
  BY <1>1 DEF NodeInv, OwnIDs
<1>7. ASSUME NEW j \in Instances, beat'[j].punctual
      PROVE  /\ id'[j] # None
             /\ InTime(beat'[j])
             /\ RoomForSlack => rows'[id'[j]].status = "online"
             /\ rows'[id'[j]].age =< beat'[j].age + IF beat'[j].sent THEN Interval ELSE 0
  <2>1. beat'[j] = Ticked(j) /\ beat[j].punctual /\ InTime(Ticked(j))
    BY <1>1, <1>3, <1>7 DEF NoBeat
  <2>2. /\ id[j] # None
        /\ RoomForSlack => rows[id[j]].status = "online"
        /\ rows[id[j]].age =< beat[j].age + IF beat[j].sent THEN Interval ELSE 0
    BY <2>1 DEF NodeInv, PunctualRow
  <2>3. id[j] \in NodeIDs /\ beat[j].age \in Ages /\ rows[id[j]].age \in Ages
        /\ beat[j].sent \in BOOLEAN
    BY <2>2 DEF NodeInv, NodeTypeOK
  <2>4. /\ rows'[id[j]].status = rows[id[j]].status
        /\ rows'[id[j]].age =< Older(rows[id[j]].age) /\ rows'[id[j]].age \in Ages
    BY <1>4, <2>3
  <2>5. Ticked(j).age = Older(beat[j].age) /\ Ticked(j).sent = beat[j].sent
    BY <1>3
  <2>6. Ticked(j).age < Stale
    BY <2>1, <2>3, <2>5, <1>2 DEF InTime, Ages
  <2>7. Ticked(j).age = beat[j].age + 1
    BY <2>3, <2>5, <2>6 DEF Older, Ages
  <2>8. Older(rows[id[j]].age) =< rows[id[j]].age + 1
    BY <2>3 DEF Older, Ages
  <2>9. Older(rows[id[j]].age) =< Ticked(j).age + IF Ticked(j).sent THEN Interval ELSE 0
    BY <1>2, <2>2, <2>3, <2>5, <2>7, <2>8 DEF Ages
  <2>10. rows'[id[j]].age =< Ticked(j).age + IF Ticked(j).sent THEN Interval ELSE 0
    <3>1. /\ rows'[id[j]].age \in Nat /\ Older(rows[id[j]].age) \in Nat
          /\ Ticked(j).age \in Nat
      BY <1>2, <2>3, <2>4, <2>5 DEF Ages
    <3>2. QED BY <2>4, <2>9, <3>1
  <2>11. QED BY <1>1, <2>1, <2>2, <2>4, <2>10
<1>8. PunctualRow'
  BY <1>7 DEF PunctualRow, InTime
<1>9. QED BY <1>5, <1>6, <1>8 DEF NodeInv

-----------------------------------------------------------------------------
(* Every step keeps both halves.                                           *)
LEMMA NextInv == IInv /\ [Next]_vars => IInv'
<1> SUFFICES ASSUME StartInv, NodeInv, [Next]_vars PROVE StartInv' /\ NodeInv'
  BY Halves DEF IInv, TypeOK, StartInv, NodeInv
<1>1. CASE Tick
  BY <1>1, StartupKept, TickInv DEF Tick
<1>2. ASSUME NEW i \in Instances, StartInstance(i) PROVE StartInv' /\ NodeInv'
  <2>1. Start(i) \/ AcquireLock(i) \/ StartStep(i) \/ EndSession(i)
    BY <1>2 DEF StartInstance
  <2>2. StartInv'
    BY <2>1, StartStepInv, AcquireLockInv, EndSessionInv, CheckInv, ApplyInv, UnlockInv,
       BootstrapInv DEF StartStep
  <2>3. UNCHANGED nodes
    BY <1>2 DEF StartInstance
  <2>4. NodeInv'
    BY <2>1, <2>3, StartersAreNotUp, NodesKept
  <2>5. QED BY <2>2, <2>4
<1>3. ASSUME NEW i \in Instances, Join(i) PROVE StartInv' /\ NodeInv'
  <2>1. At(i, "join", "up") /\ UNCHANGED <<file, lock, tables, clashed>>
    BY <1>3 DEF Join
  <2>2. QED BY <1>3, <2>1, BootstrapInv, JoinInv
<1>4. ASSUME NEW i \in Instances, EndInstance(i) PROVE StartInv' /\ NodeInv'
  BY <1>4, ExitInv, LeaveInv DEF EndInstance
<1>5. ASSUME NEW i \in Instances, NEW d \in Docs,
             UpdateLegalDocument(i, d), UNCHANGED nodes
      PROVE  StartInv' /\ NodeInv'
  <2>1. \A j \in Instances : pc'[j] = "up" <=> pc[j] = "up"
    BY <1>5 DEF UpdateLegalDocument
  <2>2. QED BY <1>5, <2>1, UpdateDocumentInv, NodesKept
<1>6. ASSUME NEW i \in Instances, BeginBeat(i) \/ LandBeat(i) \/ FailBeat(i)
      PROVE  StartInv' /\ NodeInv'
  <2>1. UNCHANGED startup
    BY <1>6 DEF BeginBeat, LandBeat, FailBeat
  <2>2. QED BY <1>6, <2>1, StartupKept, BeatInv
<1>7. ASSUME NEW i \in Instances, MarkStaleOffline(i) PROVE StartInv' /\ NodeInv'
  <2>1. UNCHANGED startup
    BY <1>7 DEF MarkStaleOffline
  <2>2. QED BY <1>7, <2>1, StartupKept, JanitorInv
<1>8. CASE UNCHANGED vars
  <2>1. UNCHANGED startup /\ UNCHANGED nodes /\ pc' = pc
    BY <1>8 DEF vars, startup
  <2>2. QED BY <2>1, StartupKept, NodesKept
<1>9. QED BY <1>1, <1>2, <1>3, <1>4, <1>5, <1>6, <1>7, <1>8 DEF Next

(* The invariant of the fleet, whichever instances start, end or beat      *)
(* (postgres_repository.go Migrate, bootstrap.go, nodestatus).             *)
THEOREM FleetInvariant == Spec => []IInv
<1>1. QED BY InitInv, NextInv, PTL DEF Spec

(* Who serves has the schema, an admin and the legal documents (main.go).  *)
THEOREM ServersAreReady == Spec => []ReadyWhenUp
<1>1. IInv => ReadyWhenUp BY DEF IInv
<1>2. QED BY <1>1, FleetInvariant, PTL

(* The lock keeps concurrent starts from failing each other (Migrate).     *)
THEOREM StartsDoNotClash == Spec => []NobodyClashes
<1>1. IInv => NobodyClashes BY DEF IInv
<1>2. QED BY <1>1, FleetInvariant, PTL

(* Whenever the stale limit leaves room for the interval and for a slow    *)
(* heartbeat, no janitor takes a node offline whose heartbeats are begun   *)
(* and land in time (reporter.go, janitor.go, config.go validate).         *)
THEOREM PunctualNodesStayOnline == Spec => []PunctualStaysOnline
<1>1. IInv => PunctualStaysOnline
  BY DEF IInv, PunctualRow, PunctualStaysOnline
<1>2. QED BY <1>1, FleetInvariant, PTL

(* Documents change through seeds and edits alone.                         *)
LEMMA DocumentSteps ==
  ASSUME Next
  PROVE  docs' = docs \/ \E d \in Docs : SeedIfMissing(d) \/ UpdateDocument(d)
<1>1. CASE Tick
  BY <1>1 DEF Tick, startup, tables
<1>2. ASSUME NEW i \in Instances, StartInstance(i)
      PROVE  docs' = docs \/ \E d \in Docs : SeedIfMissing(d)
  <2>1. CASE Start(i) \/ AcquireLock(i) \/ EndSession(i)
    BY <2>1 DEF Start, AcquireLock, EndSession, tables
  <2>2. CASE Check(i) \/ Unlock(i) \/ Count(i)
    BY <2>2 DEF Check, Unlock, Count, tables
  <2>3. CASE Apply(i) \/ InsertAdmin(i)
    BY <2>3 DEF Apply, InsertAdmin
  <2>4. CASE SeedTerms(i) \/ SeedPrivacy(i)
    BY <2>4 DEF SeedTerms, SeedPrivacy, Docs
  <2>5. QED BY <1>2, <2>1, <2>2, <2>3, <2>4 DEF StartInstance, StartStep
<1>3. ASSUME NEW i \in Instances,
             \/ Join(i) \/ EndInstance(i) \/ BeginBeat(i) \/ LandBeat(i) \/ FailBeat(i)
             \/ MarkStaleOffline(i)
      PROVE  docs' = docs
  BY <1>3 DEF Join, EndInstance, Exit, BeginBeat, LandBeat, FailBeat, MarkStaleOffline,
              startup, tables
<1>4. ASSUME NEW i \in Instances, NEW d \in Docs, UpdateLegalDocument(i, d)
      PROVE  UpdateDocument(d)
  BY <1>4 DEF UpdateLegalDocument
<1>5. QED BY <1>1, <1>2, <1>3, <1>4 DEF Next

(* No start replaces a legal document that was edited (SeedIfMissing).     *)
THEOREM EditsSurviveStarts == Spec => EditsKept
<1>1. IInv /\ [Next]_vars
        => [\A d \in Docs : docs[d] = "edited" => docs'[d] = "edited"]_vars
  <2> SUFFICES ASSUME IInv, Next, NEW d \in Docs, docs[d] = "edited"
               PROVE  docs'[d] = "edited"
    OBVIOUS
  <2>1. DOMAIN docs = Docs
    BY DEF IInv, TypeOK, StartupTypeOK
  <2>2. QED BY <2>1, DocumentSteps DEF SeedIfMissing, UpdateDocument
<1>2. QED BY <1>1, FleetInvariant, PTL DEF Spec, EditsKept
=============================================================================
