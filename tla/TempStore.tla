------------------------------ MODULE TempStore ------------------------------
(***************************************************************************)
(* What tempcdn promises of a file whose upload it acknowledged: it is     *)
(* served until it expires, unless its owner withdraws it, and once it has *)
(* gone it never comes back.  Instances, requests, sweeps and failures are *)
(* not visible here.                                                       *)
(***************************************************************************)
EXTENDS Naturals

CONSTANTS Files, TTL

VARIABLES now, status, expiry, withdrawn

vars == <<now, status, expiry, withdrawn>>

Init ==
  /\ now = 0
  /\ status = [f \in Files |-> "unpublished"]
  /\ expiry = [f \in Files |-> 0]
  /\ withdrawn = {}

Tick == now' = now + 1 /\ UNCHANGED <<status, expiry, withdrawn>>

(* The time to live counts from a moment before the acknowledgement. *)
Publish(f) ==
  /\ status[f] = "unpublished"
  /\ status' = [status EXCEPT ![f] = "served"]
  /\ \E since \in 0..now : expiry' = [expiry EXCEPT ![f] = since + TTL]
  /\ UNCHANGED <<now, withdrawn>>

(* Only an acknowledged file that has not expired can be withdrawn. *)
Withdraw(f) ==
  /\ status[f] # "unpublished"
  /\ now =< expiry[f]
  /\ withdrawn' = withdrawn \cup {f}
  /\ UNCHANGED <<now, status, expiry>>

Remove(f) ==
  /\ status[f] = "served"
  /\ now >= expiry[f] \/ f \in withdrawn
  /\ status' = [status EXCEPT ![f] = "removed"]
  /\ UNCHANGED <<now, expiry, withdrawn>>

Next == Tick \/ \E f \in Files : Publish(f) \/ Withdraw(f) \/ Remove(f)

Spec == Init /\ [][Next]_vars
=============================================================================
