---------------------------- MODULE MCIncidents ----------------------------
(***************************************************************************)
(* Bounded instances of Incidents.                                         *)
(***************************************************************************)
EXTENDS Incidents

(* The alerts of devices and services have the empty entity_key.           *)
EmptyKeys == [e \in Entities |-> "empty"]
ThreeSteps == <<1, 2, 3>>
NoLadder == <<>>
=============================================================================
