-------------------------- MODULE MCResultPipeline --------------------------
(***************************************************************************)
(* Bounded instances of ResultPipeline.                                    *)
(***************************************************************************)
EXTENDS ResultPipeline, TLC

(* Odd rows go to one table, even rows to the other.                       *)
AlternatingTables == [r \in Rows |-> IF r % 2 = 1 THEN "t1" ELSE "t2"]
OneTable == [r \in Rows |-> "t1"]
=============================================================================
