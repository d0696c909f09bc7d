--------------------------- MODULE UploadSettings ---------------------------
(***************************************************************************)
(* The upload limits: one row of Postgres, seeded by the first instance    *)
(* that starts and changed by PUT requests, and in every instance a        *)
(* validator whose rules are replaced as a whole, by the callback of a PUT *)
(* the instance handled and by a poll of the row every ten seconds.        *)
(***************************************************************************)
CONSTANTS Instances,
          Puts,      \* PUT requests; bound: each is sent at most once
          Limits,    \* values of max_upload_size_mb
          Lists,     \* values of the two lists, taken together
          Faults,    \* "db": statements may fail; "crash": instances may die
          None       \* no row, no rules

Settings == [limit : Limits, lists : Lists]
Row == [settings : Settings, by : Instances \cup Puts]

ASSUME SettingsAssumption == None \notin Settings \cup Row

VARIABLES row,        \* upload_settings: its values and who wrote them
          node,       \* per instance: validator and synchronizer
          put,        \* per PUT: the handler
          committed   \* history: the settings that have been in the row

vars == <<row, node, put, committed>>

Down == [pc |-> "down", rules |-> None, seen |-> None]
NoPut == [pc |-> "idle", at |-> None, settings |-> None]

TypeOK ==
  /\ row \in Row \cup {None}
  /\ node \in [Instances -> [pc    : {"down", "seeded", "loaded", "up"},
                             rules : Settings \cup {None},
                             seen  : Settings \cup {None}]]
  /\ put \in [Puts -> [pc       : {"idle", "callback", "done", "failed"},
                       at       : Instances \cup {None},
                       settings : Settings \cup {None}]]
  /\ committed \subseteq Settings

Init ==
  /\ row = None
  /\ node = [i \in Instances |-> Down]
  /\ put = [p \in Puts |-> NoPut]
  /\ committed = {}

Up(i) == node[i].pc = "up"

Write(settings, writer) ==
  /\ row' = [settings |-> settings, by |-> writer]
  /\ committed' = committed \cup {settings}

UnchangedRow == UNCHANGED <<row, committed>>

(* A statement that fails may have had its effect. *)
WriteErr(settings, writer) == UnchangedRow \/ Write(settings, writer)

-----------------------------------------------------------------------------
(* cmd/server/main.go: an instance starts. *)

(* Mutant of SeedIfMissing: the row is overwritten. *)
SeedAlways(i, defaults) == Write(defaults, i)

(* INSERT ... ON CONFLICT DO NOTHING *)
SeedIfMissing(i, defaults) ==
  IF row = None THEN Write(defaults, i) ELSE UnchangedRow

(* The defaults are those of its environment.  An error ends the process. *)
Seed(i) ==
  /\ node[i].pc = "down"
  /\ \E defaults \in Settings :
       \/ SeedIfMissing(i, defaults) /\ node' = [node EXCEPT ![i].pc = "seeded"]
       \/ "db" \in Faults /\ SeedIfMissing(i, defaults) /\ UNCHANGED node
  /\ UNCHANGED put

(* Seeding goes on to GetUploadSettings; its error ends the process. *)
Load(i) ==
  /\ node[i].pc = "seeded"
  /\ \/ node' = [node EXCEPT ![i].pc = "loaded", ![i].seen = row.settings]
     \/ "db" \in Faults /\ node' = [node EXCEPT ![i] = Down]
  /\ UNCHANGED <<row, put, committed>>

(* Only after the legal documents and the storage client, whose errors end *)
(* the process too, what was read becomes the validator's rules.           *)
GoUp(i) ==
  /\ node[i].pc = "loaded"
  /\ \/ node' = [node EXCEPT ![i] = [pc |-> "up", rules |-> node[i].seen, seen |-> None]]
     \/ "db" \in Faults /\ node' = [node EXCEPT ![i] = Down]
  /\ UNCHANGED <<row, put, committed>>

Crash(i) ==
  /\ "crash" \in Faults
  /\ node[i].pc # "down"
  /\ node' = [node EXCEPT ![i] = Down]
  /\ put' = [p \in Puts |-> IF put[p].pc = "callback" /\ put[p].at = i
                            THEN [put[p] EXCEPT !.pc = "failed"] ELSE put[p]]
  /\ UnchangedRow

-----------------------------------------------------------------------------
(* SettingsSynchronizer.syncOnce *)

(* The row is read; a failed read leaves the rules as they are. *)
Poll(i) ==
  /\ Up(i)
  /\ node[i].seen = None
  /\ node' = [node EXCEPT ![i].seen = row.settings]
  /\ UNCHANGED <<row, put, committed>>

(* Mutant of SameRules: the lists are not compared. *)
SameLimit(rules, settings) == rules.limit = settings.limit

SameRules(rules, settings) == rules = settings

(* What was read replaces rules that differ from it, however old it is. *)
Sync(i) ==
  /\ Up(i)
  /\ node[i].seen # None
  /\ LET rules == IF SameRules(node[i].rules, node[i].seen)
                  THEN node[i].rules ELSE node[i].seen
     IN node' = [node EXCEPT ![i].rules = rules, ![i].seen = None]
  /\ UNCHANGED <<row, put, committed>>

-----------------------------------------------------------------------------
(* admin.Handler.UpdateUploadSettings, for settings that passed validation *)

(* Mutant of Update: the handler goes on after an error. *)
UpdateUnchecked(p, i, settings) ==
  /\ put[p].pc = "idle"
  /\ Up(i)
  /\ WriteErr(settings, p)
  /\ put' = [put EXCEPT ![p] = [pc |-> "callback", at |-> i, settings |-> settings]]
  /\ UNCHANGED node

Update(p, i, settings) ==
  /\ put[p].pc = "idle"
  /\ Up(i)
  /\ \/ /\ Write(settings, p)
        /\ put' = [put EXCEPT ![p] = [pc |-> "callback", at |-> i, settings |-> settings]]
     \/ /\ "db" \in Faults
        /\ WriteErr(settings, p)
        /\ put' = [put EXCEPT ![p].pc = "failed"]
  /\ UNCHANGED node

(* onUploadSettingsUpdated, then the response. *)
Callback(p) ==
  /\ put[p].pc = "callback"
  /\ node' = [node EXCEPT ![put[p].at].rules = put[p].settings]
  /\ put' = [put EXCEPT ![p].pc = "done"]
  /\ UnchangedRow

-----------------------------------------------------------------------------
Next ==
  \/ \E i \in Instances :
       \/ Seed(i)
       \/ Load(i)
       \/ GoUp(i)
       \/ Crash(i)
       \/ Poll(i)
       \/ Sync(i)
  \/ \E p \in Puts :
       \/ \E i \in Instances, settings \in Settings : Update(p, i, settings)
       \/ Callback(p)

Spec == Init /\ [][Next]_vars

(* The synchronizer of a running instance keeps polling, and is answered   *)
(* now and then; a handler that updated the row goes on to its callback.   *)
FairSpec ==
  /\ Spec
  /\ \A i \in Instances : SF_vars(Poll(i)) /\ WF_vars(Sync(i))
  /\ \A p \in Puts : WF_vars(Callback(p))

-----------------------------------------------------------------------------
(* No instance ever enforces settings, nor is about to, that were not the  *)
(* deployment's settings at some time: not those of a PUT that failed, nor *)
(* the environment's of an instance that was not the first to start.       *)
EnforcedWasCommitted ==
  /\ \A i \in Instances : {node[i].rules, node[i].seen} \subseteq committed \cup {None}
  /\ \A p \in Puts : put[p].pc = "callback" => put[p].settings \in committed

(* A running instance has rules and one that has read the row something    *)
(* to make them of, a pending callback a running instance to go to, and    *)
(* nothing but the row's first writer leaves it empty.                     *)
Running ==
  /\ \A i \in Instances :
       /\ Up(i) <=> node[i].rules # None
       /\ node[i].seen # None => Up(i) \/ node[i].pc = "loaded"
       /\ node[i].pc = "loaded" => node[i].seen # None
       /\ node[i].pc # "down" => row # None
  /\ \A p \in Puts :
       put[p].pc = "callback" => /\ put[p].at \in Instances
                                 /\ Up(put[p].at)
                                 /\ put[p].settings # None
  /\ row # None => row.settings \in committed

IInv == TypeOK /\ EnforcedWasCommitted /\ Running

(* README, Upload Settings: the environment seeds the row the very first   *)
(* time; after that the API is the source of truth.  No restart, however   *)
(* many instances start at once, takes the settings of an admin back.      *)
OnlyPutsChangeSettings ==
  [][row # None /\ row' # row => row'.by \in Puts]_vars

(* When the admins stop changing the row, every instance that runs comes   *)
(* to enforce it and stays with it, whatever polls and callbacks raced.    *)
Converges ==
  \A i \in Instances : <>[](Up(i) => node[i].rules = row.settings)

(* Whatever is enforced, was read by a poll or by an instance that is      *)
(* starting, or waits for its callback is what the row says.  That the     *)
(* running instances enforce the row is not enough: one that read the row  *)
(* before the last PUT may still be on its way up with what it read.       *)
Agreed ==
  /\ row # None
  /\ \A i \in Instances : {node[i].rules, node[i].seen} \subseteq {row.settings, None}
  /\ \A p \in Puts : put[p].pc = "callback" => put[p].settings = row.settings

(* Once the instances, those that are starting included, agree with the    *)
(* row they stay with it until a PUT changes it: no later start, restart,  *)
(* poll, failed PUT or late callback brings other settings back.           *)
AgreementLasts == [][Agreed /\ row' = row => Agreed']_vars

(* README, Upload Settings: "Changes take effect immediately on the        *)
(* instance that handled the PUT request."                                 *)
TakesEffectImmediately ==
  \A p \in Puts :
    put[p].pc = "done" /\ row.by = p
      => ~Up(put[p].at) \/ node[put[p].at].rules = row.settings
=============================================================================
