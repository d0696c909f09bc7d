-------------------------------- MODULE Fleet --------------------------------
(***************************************************************************)
(* Instances that share a database: they start, serve, send heartbeats and *)
(* watch each other, and any of them may end and be started again at any   *)
(* point.                                                                  *)
(***************************************************************************)
EXTENDS NodeStatus

vars == <<startup, nodes>>

TypeOK == StartupTypeOK /\ NodeTypeOK

Init == StartupInit /\ NodeInit

EndInstance(i) == Exit(i) /\ LeaveNode(i)

StartInstance(i) ==
  /\ Start(i) \/ AcquireLock(i) \/ StartStep(i) \/ EndSession(i)
  /\ UNCHANGED nodes

Next ==
  \/ Tick
  \/ \E i \in Instances :
       \/ StartInstance(i)
       \/ Join(i)
       \/ EndInstance(i)
       \/ \E d \in Docs : UpdateLegalDocument(i, d) /\ UNCHANGED nodes
       \/ BeginBeat(i) \/ LandBeat(i) \/ FailBeat(i)
       \/ MarkStaleOffline(i)

Spec == Init /\ [][Next]_vars

(* Statements are answered; PostgreSQL queues those who wait for the lock  *)
(* and notices sessions that are gone; the pool closes old connections;    *)
(* time passes; some heartbeat of an instance that stays up arrives, and   *)
(* some janitor's statement.                                               *)
FairSpec ==
  /\ Spec
  /\ WF_vars(Tick)
  /\ SF_vars(MarkAllStaleOffline)
  /\ \A i \in Instances :
       /\ WF_vars(StartStep(i) /\ UNCHANGED nodes)
       /\ SF_vars(AcquireLock(i) /\ UNCHANGED nodes)
       /\ WF_vars(EndSession(i) /\ UNCHANGED nodes)
       /\ WF_vars(BeginBeat(i))
       /\ SF_vars(LandBeat(i))

-----------------------------------------------------------------------------
(* Whoever is past the migrations finds the whole schema, whoever is up an *)
(* admin to log in as and both documents ("never 404"), in whatever order  *)
(* the instances started, crashed and started again.                       *)
ReadyWhenUp ==
  \A i \in Instances :
    /\ pc[i] \in Past => applied = 1..Migrations
    /\ pc[i] = "up" => admins # {} /\ \A d \in Docs : docs[d] # "missing"

(* No instance's start fails because another one starts at the same time.  *)
NobodyClashes == clashed = {}

(* Files are applied in the order of their names, by one instance at a     *)
(* time.                                                                   *)
MigratesAlone ==
  /\ \E n \in 0..Migrations : applied = 1..n
  /\ \A i \in Instances :
       /\ pc[i] = "lock" => file[i] = 1
       /\ pc[i] \in InMigrate => lock = i /\ 1..file[i] - 1 \subseteq applied
       /\ pc[i] = "apply" => file[i] =< Migrations /\ applied = 1..file[i] - 1
       /\ pc[i] = "unlock" => file[i] = Migrations + 1

(* What a start has done so far stays done.                                *)
DoneSoFar ==
  \A i \in Instances :
    /\ pc[i] \in {"terms", "privacy", "join"} => admins # {}
    /\ pc[i] \in {"privacy", "join"} => docs["terms"] # "missing"
    /\ pc[i] = "join" => docs["privacy"] # "missing"

(* A node that begins its heartbeats every Interval and whose heartbeats   *)
(* land within Slack is never shown offline, by no janitor however many    *)
(* there are, if the stale limit leaves room for both.  That the limit     *)
(* exceeds the interval alone, as Config.validate demands, is not enough:  *)
(* then it holds only of heartbeats that land at once.                     *)
RoomForSlack == Interval + Slack < Stale

PunctualStaysOnline ==
  RoomForSlack =>
    \A i \in Instances : beat[i].punctual => rows[id[i]].status = "online"

(* Its row is never older than its reporter's beats allow.                 *)
PunctualRow ==
  \A i \in Instances :
    beat[i].punctual =>
      /\ id[i] # None
      /\ InTime(beat[i])
      /\ RoomForSlack => rows[id[i]].status = "online"
      /\ rows[id[i]].age =< beat[i].age + IF beat[i].sent THEN Interval ELSE 0

(* Those who are up have an id that nobody else has.                       *)
OwnIDs ==
  \A i \in Instances :
    /\ pc[i] = "up" <=> id[i] # None
    /\ pc[i] # "up" => beat[i] = NoBeat
    /\ id[i] # None => \A j \in Instances \ {i} : id[j] # id[i] /\ NodeID[j] # id[i]

(* The inductive invariant: no step of any instance leaves it.             *)
IInv ==
  /\ TypeOK
  /\ ReadyWhenUp
  /\ NobodyClashes
  /\ MigratesAlone
  /\ DoneSoFar
  /\ OwnIDs
  /\ PunctualRow

(* What an admin has written is not replaced by an instance that starts.   *)
EditsKept ==
  [][\A d \in Docs : docs[d] = "edited" => docs'[d] = "edited"]_vars

(* An instance that starts comes up or ends; it does not wait forever for  *)
(* the lock of one that ended, or that failed to give it back.             *)
StartsEnd == \A i \in Instances : pc[i] = "lock" ~> pc[i] \in {"join", "up", "down"}

(* README, Node Status: while some instance is up, the row of a node that  *)
(* is gone is marked offline, and a node that is up is shown online again, *)
(* whoever marked it offline before.                                       *)
Unowned(n) == \A i \in Instances : id[i] # n

NodesSettle ==
  /\ ([]<>(\E i \in Instances : pc[i] = "up"))
       => \A n \in NodeIDs : (rows[n].status = "online" /\ Unowned(n))
                               ~> (rows[n].status = "offline" \/ ~Unowned(n))
  /\ \A i \in Instances : pc[i] = "up" ~> (pc[i] # "up" \/ rows[id[i]].status = "online")
=============================================================================
