------------------------- MODULE UploadSettingsProofs -------------------------
(***************************************************************************)
(* Proofs about UploadSettings, for any number of instances and requests.  *)
(***************************************************************************)
EXTENDS UploadSettings, TLAPS

USE SettingsAssumption

(* The empty database and the instances that are down are well-formed.     *)
LEMMA InitInv == Init => IInv
BY DEF Init, IInv, TypeOK, EnforcedWasCommitted, Running, Down, NoPut, Up

(* A settings row that is there holds settings.                            *)
LEMMA RowHolds ==
  ASSUME IInv, row # None
  PROVE  row.settings \in Settings /\ row.settings \in committed
BY DEF IInv, TypeOK, Running, Row

(* Seeding writes a row only where there was none.                         *)
LEMMA SeedStep ==
  ASSUME IInv, NEW i \in Instances, Seed(i)
  PROVE  IInv'
<1>1. PICK defaults \in Settings :
        /\ SeedIfMissing(i, defaults)
        /\ node' = [node EXCEPT ![i].pc = "seeded"] \/ UNCHANGED node
  BY DEF Seed
<1>2. /\ node[i].pc = "down" /\ put' = put /\ node[i].rules = None
      /\ node[i].seen = None
  BY DEF Seed, IInv, Running, EnforcedWasCommitted, Up
<1>3. row' \in Row /\ row'.settings \in committed' /\ committed \subseteq committed'
  BY <1>1, RowHolds DEF SeedIfMissing, Write, UnchangedRow, Row, IInv, TypeOK
<1>4. row' # None
  BY <1>1, <1>3 DEF SeedIfMissing, Write, UnchangedRow
<1>5. TypeOK'
  BY <1>1, <1>2, <1>3 DEF IInv, TypeOK, SeedIfMissing, Write, UnchangedRow
<1>6. EnforcedWasCommitted'
  BY <1>1, <1>2, <1>3 DEF IInv, TypeOK, EnforcedWasCommitted
<1>7. Running'
  BY <1>1, <1>2, <1>3, <1>4 DEF IInv, TypeOK, Running, Up
<1>8. QED BY <1>5, <1>6, <1>7 DEF IInv

(* An instance that starts reads what is in the row.                       *)
LEMMA LoadStep ==
  ASSUME IInv, NEW i \in Instances, Load(i)
  PROVE  IInv'
<1>1. row # None /\ row.settings \in Settings /\ row.settings \in committed
  BY RowHolds DEF Load, IInv, Running
<1>2. /\ row' = row /\ put' = put /\ committed' = committed
      /\ node[i].pc = "seeded"
  BY DEF Load
<1>3. ASSUME NEW p \in Puts, put[p].pc = "callback" PROVE put[p].at # i
  BY <1>2, <1>3 DEF IInv, Running, Up
<1>4. TypeOK'
  BY <1>1 DEF Load, IInv, TypeOK, Down
<1>5. EnforcedWasCommitted'
  BY <1>1 DEF Load, IInv, TypeOK, EnforcedWasCommitted, Down
<1>6. Running'
  <2>1. node[i].rules = None
    BY <1>2 DEF IInv, Running, Up
  <2>2. row.settings # None
    BY <1>1
  <2>3. QED BY <1>1, <1>2, <1>3, <2>1, <2>2 DEF Load, IInv, TypeOK, Running, Down, Up
<1>7. QED BY <1>4, <1>5, <1>6 DEF IInv

(* What it read, whatever has become of the row, are the rules it serves   *)
(* with.                                                                   *)
LEMMA GoUpStep ==
  ASSUME IInv, NEW i \in Instances, GoUp(i)
  PROVE  IInv'
<1>1. /\ row' = row /\ put' = put /\ committed' = committed
      /\ node[i].pc = "loaded"
  BY DEF GoUp
<1>2. /\ node[i].seen \in Settings /\ node[i].seen # None
      /\ node[i].seen \in committed /\ row # None
  BY <1>1 DEF IInv, TypeOK, EnforcedWasCommitted, Running
<1>3. ASSUME NEW p \in Puts, put[p].pc = "callback" PROVE put[p].at # i
  BY <1>1, <1>3 DEF IInv, Running, Up
<1>4. TypeOK'
  BY <1>2 DEF GoUp, IInv, TypeOK, Down
<1>5. EnforcedWasCommitted'
  BY <1>2 DEF GoUp, IInv, TypeOK, EnforcedWasCommitted, Down
<1>6. Running'
  BY <1>1, <1>2, <1>3 DEF GoUp, IInv, TypeOK, Running, Down, Up
<1>7. QED BY <1>4, <1>5, <1>6 DEF IInv

(* A crash takes the handlers of its instance with it.                     *)
LEMMA CrashStep ==
  ASSUME IInv, NEW i \in Instances, Crash(i)
  PROVE  IInv'
<1>1. row' = row /\ committed' = committed
  BY DEF Crash, UnchangedRow
<1>2. ASSUME NEW p \in Puts
      PROVE  /\ put'[p].pc = "callback" => put'[p] = put[p] /\ put[p].at # i
             /\ put'[p] \in [pc : {"idle", "callback", "done", "failed"},
                             at : Instances \cup {None},
                             settings : Settings \cup {None}]
  BY DEF Crash, IInv, TypeOK
<1>3. TypeOK'
  <2>1. DOMAIN put' = Puts /\ put' = [p \in Puts |-> put'[p]]
    BY DEF Crash
  <2>2. QED BY <1>1, <1>2, <2>1 DEF Crash, IInv, TypeOK, Down
<1>4. EnforcedWasCommitted'
  BY <1>1, <1>2 DEF Crash, IInv, TypeOK, EnforcedWasCommitted, Down
<1>5. Running'
  BY <1>1, <1>2 DEF Crash, IInv, TypeOK, Running, Down, Up
<1>6. QED BY <1>3, <1>4, <1>5 DEF IInv

(* The synchronizer carries the row's settings to the validator.           *)
LEMMA PollStep ==
  ASSUME IInv, NEW i \in Instances, Poll(i) \/ Sync(i)
  PROVE  IInv'
<1>1. /\ row' = row /\ put' = put /\ committed' = committed /\ Up(i)
  BY DEF Poll, Sync
<1>2. row.settings \in Settings /\ row.settings \in committed
  BY <1>1, RowHolds DEF IInv, Running, Up
<1>3. node[i].rules \in Settings
  BY <1>1 DEF IInv, TypeOK, Running
<1>4. \E rules, seen \in {node[i].rules, node[i].seen, row.settings, None} :
        /\ node' = [node EXCEPT ![i].rules = rules, ![i].seen = seen]
        /\ rules # None
  <2>1. CASE Poll(i)
    <3>1. node' = [node EXCEPT ![i].rules = node[i].rules, ![i].seen = row.settings]
      BY <2>1 DEF Poll, IInv, TypeOK
    <3>2. QED BY <1>3, <3>1
  <2>2. CASE Sync(i)
    BY <1>3, <2>2 DEF Sync
  <2>3. QED BY <2>1, <2>2
<1>5. PICK rules, seen \in {node[i].rules, node[i].seen, row.settings, None} :
        /\ node' = [node EXCEPT ![i].rules = rules, ![i].seen = seen]
        /\ rules # None
  BY <1>4
<1>6. TypeOK'
  <2>1. rules \in Settings \cup {None} /\ seen \in Settings \cup {None}
    BY <1>2, <1>5 DEF IInv, TypeOK
  <2>2. node' = [node EXCEPT ![i].rules = rules, ![i].seen = seen]
    BY <1>5
  <2>3. node' \in [Instances -> [pc    : {"down", "seeded", "loaded", "up"},
                                rules : Settings \cup {None},
                                seen  : Settings \cup {None}]]
    <3> DEFINE State == [pc    : {"down", "seeded", "loaded", "up"},
                         rules : Settings \cup {None},
                         seen  : Settings \cup {None}]
    <3>1. node \in [Instances -> State] /\ node[i] \in State
      BY DEF IInv, TypeOK
    <3>2. [node[i] EXCEPT !.rules = rules, !.seen = seen] \in State
      BY <2>1, <3>1
    <3>3. node' = [node EXCEPT ![i] = [node[i] EXCEPT !.rules = rules, !.seen = seen]]
      BY <2>2
    <3> HIDE DEF State
    <3>4. node' \in [Instances -> State]
      BY <3>1, <3>2, <3>3
    <3>5. QED BY <3>4 DEF State
  <2>4. QED BY <1>1, <2>3 DEF IInv, TypeOK
<1>7. EnforcedWasCommitted'
  BY <1>1, <1>2, <1>5 DEF IInv, TypeOK, EnforcedWasCommitted
<1>8. Running'
  BY <1>1, <1>5 DEF IInv, TypeOK, Running, Up
<1>9. QED BY <1>6, <1>7, <1>8 DEF IInv

(* A PUT goes on to its callback only with settings it has committed.      *)
LEMMA UpdateStep ==
  ASSUME IInv, NEW p \in Puts, NEW i \in Instances, NEW settings \in Settings,
         Update(p, i, settings)
  PROVE  IInv'
<1>1. node' = node /\ Up(i)
  BY DEF Update
<1>2. /\ row' = row /\ committed' = committed
      \/ /\ row' = [settings |-> settings, by |-> p]
         /\ committed' = committed \cup {settings}
  BY DEF Update, Write, WriteErr, UnchangedRow
<1>3. /\ committed \subseteq committed' /\ committed' \subseteq Settings
      /\ row # None => row' # None
      /\ row' # None => row' \in Row /\ row'.settings \in committed'
  <2>1. [settings |-> settings, by |-> p] \in Row
    BY DEF Row
  <2>2. QED BY <1>2, <2>1, RowHolds DEF IInv, TypeOK
<1>4. \/ /\ put' = [put EXCEPT ![p] = [pc |-> "callback", at |-> i,
                                       settings |-> settings]]
         /\ settings \in committed'
      \/ put' = [put EXCEPT ![p].pc = "failed"]
  BY DEF Update, Write
<1>5. TypeOK'
  BY <1>1, <1>3, <1>4 DEF IInv, TypeOK
<1>6. EnforcedWasCommitted'
  BY <1>1, <1>3, <1>4 DEF IInv, TypeOK, EnforcedWasCommitted
<1>7. Running'
  BY <1>1, <1>3, <1>4 DEF IInv, TypeOK, Running, Up
<1>8. QED BY <1>5, <1>6, <1>7 DEF IInv

(* The callback hands a running instance committed settings.               *)
LEMMA CallbackStep ==
  ASSUME IInv, NEW p \in Puts, Callback(p)
  PROVE  IInv'
<1>1. /\ row' = row /\ committed' = committed
      /\ put' = [put EXCEPT ![p].pc = "done"]
      /\ node' = [node EXCEPT ![put[p].at].rules = put[p].settings]
  BY DEF Callback, UnchangedRow
<1>2. /\ put[p].at \in Instances /\ Up(put[p].at)
      /\ put[p].settings \in Settings /\ put[p].settings \in committed
  BY DEF Callback, IInv, TypeOK, Running, EnforcedWasCommitted
<1>3. TypeOK'
  BY <1>1, <1>2 DEF IInv, TypeOK
<1>4. EnforcedWasCommitted'
  BY <1>1, <1>2 DEF IInv, TypeOK, EnforcedWasCommitted
<1>5. Running'
  BY <1>1, <1>2 DEF IInv, TypeOK, Running, Up
<1>6. QED BY <1>3, <1>4, <1>5 DEF IInv

(* Every step keeps the invariant.                                         *)
LEMMA NextInv == IInv /\ [Next]_vars => IInv'
<1> SUFFICES ASSUME IInv, [Next]_vars PROVE IInv'
  OBVIOUS
<1>1. ASSUME NEW i \in Instances,
             Seed(i) \/ Load(i) \/ GoUp(i) \/ Crash(i) \/ Poll(i) \/ Sync(i)
      PROVE  IInv'
  BY <1>1, SeedStep, LoadStep, GoUpStep, CrashStep, PollStep
<1>2. ASSUME NEW p \in Puts, NEW i \in Instances, NEW settings \in Settings,
             Update(p, i, settings)
      PROVE  IInv'
  BY <1>2, UpdateStep
<1>3. ASSUME NEW p \in Puts, Callback(p) PROVE IInv'
  BY <1>3, CallbackStep
<1>4. CASE UNCHANGED vars
  BY <1>4 DEF vars, IInv, TypeOK, EnforcedWasCommitted, Running, Up
<1>5. QED BY <1>1, <1>2, <1>3, <1>4 DEF Next

(* Instances that run have rules, pending callbacks an instance, and all   *)
(* of them come from the row (settings_synchronizer.go, main.go).          *)
THEOREM SettingsInvariant == Spec => []IInv
<1>1. QED BY InitInv, NextInv, PTL DEF Spec

(* No instance enforces settings that were never the deployment's.         *)
THEOREM OnlyCommittedEnforced == Spec => []EnforcedWasCommitted
<1>1. IInv => EnforcedWasCommitted BY DEF IInv
<1>2. QED BY <1>1, SettingsInvariant, PTL

(* Once seeded, the row changes through PUT requests alone.                *)
THEOREM SeedsNeverOverwrite == Spec => OnlyPutsChangeSettings
<1>1. [Next]_vars => [row # None /\ row' # row => row'.by \in Puts]_vars
  <2> SUFFICES ASSUME Next, row # None, row' # row PROVE row'.by \in Puts
    OBVIOUS
  <2>1. ASSUME NEW i \in Instances,
               Seed(i) \/ Load(i) \/ GoUp(i) \/ Crash(i) \/ Poll(i) \/ Sync(i)
        PROVE  row' = row
    BY <2>1 DEF Seed, SeedIfMissing, Load, GoUp, Crash, Poll, Sync, UnchangedRow
  <2>2. ASSUME NEW p \in Puts, NEW i \in Instances, NEW settings \in Settings,
               Update(p, i, settings)
        PROVE  row' = row \/ row'.by = p
    BY <2>2 DEF Update, Write, WriteErr, UnchangedRow
  <2>3. ASSUME NEW p \in Puts, Callback(p) PROVE row' = row
    BY <2>3 DEF Callback, UnchangedRow
  <2>4. QED BY <2>1, <2>2, <2>3 DEF Next
<1>2. QED BY <1>1, PTL DEF Spec, OnlyPutsChangeSettings

(* An agreement with the row, of the instances that run and of those on    *)
(* their way up, ends with the next change of the row, and not before:     *)
(* what instances start with, poll or are called back with is from the row *)
(* (settings_synchronizer.go, admin/handler.go, main.go).                  *)
THEOREM AgreementsLast == Spec => AgreementLasts
<1>1. IInv /\ [Next]_vars => [Agreed /\ row' = row => Agreed']_vars
  <2> SUFFICES ASSUME IInv, Next, Agreed, row' = row PROVE Agreed'
    OBVIOUS
  <2> USE DEF IInv, TypeOK, Agreed, Down
  <2>1. ASSUME NEW i \in Instances,
               Seed(i) \/ Load(i) \/ GoUp(i) \/ Crash(i) \/ Poll(i) \/ Sync(i)
        PROVE  Agreed'
    <3>1. CASE Seed(i)
      BY <2>1, <3>1 DEF Seed
    <3>2. CASE Load(i) \/ Poll(i)
      BY <3>2 DEF Load, Poll
    <3>3. CASE Sync(i)
      BY <3>3 DEF Sync
    <3>4. CASE Crash(i)
      BY <3>4 DEF Crash
    <3>5. CASE GoUp(i)
      BY <3>5 DEF GoUp
    <3>6. QED BY <2>1, <3>1, <3>2, <3>3, <3>4, <3>5
  <2>2. ASSUME NEW p \in Puts, NEW i \in Instances, NEW settings \in Settings,
               Update(p, i, settings)
        PROVE  Agreed'
    <3>1. node' = node
      BY <2>2 DEF Update
    <3>2. \A q \in Puts : put'[q].pc = "callback" => put'[q].settings = row.settings
      BY <2>2 DEF Update, Write
    <3>3. QED BY <3>1, <3>2
  <2>3. ASSUME NEW p \in Puts, Callback(p) PROVE Agreed'
    BY <2>3 DEF Callback, Running
  <2>4. QED BY <2>1, <2>2, <2>3 DEF Next
<1>2. QED BY <1>1, SettingsInvariant, PTL DEF Spec, AgreementLasts
=============================================================================
