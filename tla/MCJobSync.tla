------------------------------ MODULE MCJobSync ------------------------------
(***************************************************************************)
(* Bounded instances of JobSync: two collectors; of the two weight vectors *)
(* one gives every job to the first collector and one to the second.       *)
(***************************************************************************)
EXTENDS JobSync, TLC
CONSTANTS c1, c2, skewed
MCRank == [w \in Weights |-> [j \in Jobs |->
            IF w = Equal THEN (c1 :> 1 @@ c2 :> 2) ELSE (c1 :> 2 @@ c2 :> 1)]]
=============================================================================
