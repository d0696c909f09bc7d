----------------------------- MODULE NodeStatus ------------------------------
(***************************************************************************)
(* The table node_status: heartbeats of the instances that are up, and the *)
(* janitor of each, which marks rows offline whose heartbeat is stale.     *)
(* Times are ages, in ticks: how long ago a heartbeat read its clock.      *)
(***************************************************************************)
EXTENDS Startup

CONSTANTS NodeIDs,   \* node ids, configured or drawn
          NodeID,    \* NODE_ID of each instance, None where it is not set
          Interval,  \* NODE_HEARTBEAT_INTERVAL_SECONDS
          Stale,     \* NODE_STALE_AFTER_SECONDS
          Slack      \* how long a heartbeat in time takes at most to land

(* Config.validate refuses an Interval of 0 and a Stale that does not      *)
(* exceed it.  It knows nothing of the other instances: that no two are    *)
(* given the same NODE_ID is assumed of the deployment, and of Slack that  *)
(* a heartbeat older than Stale is not called in time.                     *)
ASSUME NodeAssumption ==
  /\ Interval \in Nat \ {0}
  /\ Stale \in Nat
  /\ Interval < Stale
  /\ Slack \in Nat
  /\ Slack < Stale
  /\ NodeID \in [Instances -> NodeIDs \cup {None}]
  /\ \A i, j \in Instances : NodeID[i] # None /\ NodeID[i] = NodeID[j] => i = j
  /\ None \notin NodeIDs

(* Ages beyond Stale make no difference. *)
Ages == 0..Stale
Older(age) == IF age < Stale THEN age + 1 ELSE age

VARIABLES rows,  \* node_status, by id: what it says and the heartbeat's age
          id,    \* the id of each instance that is up
          beat   \* each reporter: is a heartbeat under way, age of the last
                 \* one begun, and history: have the recent ones been in time

nodes == <<rows, id, beat>>

NoRow == [status |-> "none", age |-> 0]
NoBeat == [sent |-> FALSE, age |-> 0, punctual |-> FALSE]

NodeTypeOK ==
  /\ rows \in [NodeIDs -> [status : {"none", "online", "offline"}, age : Ages]]
  /\ id \in [Instances -> NodeIDs \cup {None}]
  /\ beat \in [Instances -> [sent : BOOLEAN, age : Ages, punctual : BOOLEAN]]

NodeInit ==
  /\ rows = [n \in NodeIDs |-> NoRow]
  /\ id = [i \in Instances |-> None]
  /\ beat = [i \in Instances |-> NoBeat]

(* ResolveNodeID; an id with random digits is new. *)
Drawn(n) ==
  /\ rows[n].status = "none"
  /\ \A j \in Instances : n \notin {id[j], NodeID[j]}

ResolveNodeID(i) ==
  IF NodeID[i] # None THEN {NodeID[i]} ELSE {n \in NodeIDs : Drawn(n)}

(* The last part of main: the loops are started, the server listens.       *)
Join(i) ==
  /\ At(i, "join", "up")
  /\ \E n \in ResolveNodeID(i) : id' = [id EXCEPT ![i] = n]
  /\ beat' = [beat EXCEPT ![i] = NoBeat]
  /\ UNCHANGED <<file, lock, tables, clashed, rows>>

LeaveNode(i) ==
  /\ id' = [id EXCEPT ![i] = None]
  /\ beat' = [beat EXCEPT ![i] = NoBeat]
  /\ UNCHANGED rows

-----------------------------------------------------------------------------
(* Mutant of Heartbeat: the conflict updates the time only. *)
HeartbeatTimeOnly(n, age) ==
  rows' = [rows EXCEPT ![n] =
             [status |-> IF @.status = "none" THEN "online" ELSE @.status, age |-> age]]

Heartbeat(n, age) == rows' = [rows EXCEPT ![n] = [status |-> "online", age |-> age]]

(* Reporter.beat reads the clock.  The ticker keeps one tick for a loop    *)
(* that is late, so two beats may follow each other closely.               *)
BeginBeat(i) ==
  /\ pc[i] = "up"
  /\ ~beat[i].sent
  /\ beat' = [beat EXCEPT ![i].sent = TRUE, ![i].age = 0]
  /\ UNCHANGED <<startup, rows, id>>

InTime(b) == b.age =< IF b.sent THEN Slack ELSE Interval

LandBeat(i) ==
  LET done == [beat[i] EXCEPT !.sent = FALSE]
  IN /\ beat[i].sent
     /\ Heartbeat(id[i], beat[i].age)
     /\ beat' = [beat EXCEPT ![i] =
                   [done EXCEPT !.punctual = InTime(beat[i]) /\ InTime(done)]]
     /\ UNCHANGED <<startup, id>>

(* An error is logged and the next tick awaited. *)
FailBeat(i) ==
  /\ beat[i].sent
  /\ Heartbeat(id[i], beat[i].age) \/ UNCHANGED rows
  /\ beat' = [beat EXCEPT ![i].sent = FALSE, ![i].punctual = FALSE]
  /\ UNCHANGED <<startup, id>>

-----------------------------------------------------------------------------
(* Mutant of IsStale: one interval without a heartbeat is enough. *)
IsStaleEarly(n) == rows[n].status = "online" /\ rows[n].age >= Interval

IsStale(n) == rows[n].status = "online" /\ rows[n].age >= Stale

MarkOffline(S) == [n \in NodeIDs |-> IF n \in S THEN [rows[n] EXCEPT !.status = "offline"]
                                     ELSE rows[n]]

(* Janitor.sweepOnce on some instance; a statement that took its time      *)
(* passes over what was not stale when it was sent.                        *)
MarkStaleOffline(i) ==
  /\ pc[i] = "up"
  /\ \E S \in SUBSET {n \in NodeIDs : IsStale(n)} : rows' = MarkOffline(S)
  /\ UNCHANGED <<startup, id, beat>>

(* One that came through at once. *)
MarkAllStaleOffline ==
  /\ \E i \in Instances : pc[i] = "up"
  /\ rows' = MarkOffline({n \in NodeIDs : IsStale(n)})
  /\ UNCHANGED <<startup, id, beat>>

Tick ==
  /\ rows' = [n \in NodeIDs |-> IF rows[n].status = "none" THEN NoRow
                                ELSE [rows[n] EXCEPT !.age = Older(@)]]
  /\ beat' = [i \in Instances |->
       IF pc[i] # "up" THEN NoBeat
       ELSE LET b == [beat[i] EXCEPT !.age = Older(@)]
            IN [b EXCEPT !.punctual = @ /\ InTime(b)]]
  /\ UNCHANGED <<startup, id>>
=============================================================================
