------------------------------- MODULE MCFleet -------------------------------
(* Small instances of Fleet for TLC.                                       *)
EXTENDS Fleet, TLC

CONSTANTS i1, i2, n1, n2

(* One instance has a configured node id, the other draws the one that is  *)
(* left, and can do so only once.                                          *)
OneNamed == i1 :> n1 @@ i2 :> None
=============================================================================
