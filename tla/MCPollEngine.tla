---------------------------- MODULE MCPollEngine ----------------------------
(***************************************************************************)
(* Bounded instances of PollEngine.                                        *)
(***************************************************************************)
EXTENDS PollEngine

(* Jitter one for the interval 2, none for the interval 3.                 *)
ThreeHash == [j \in Jobs |-> 3]
OneHeavy == {CHOOSE j \in Jobs : TRUE}
=============================================================================
