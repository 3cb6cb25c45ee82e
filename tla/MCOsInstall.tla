----------------------------- MODULE MCOsInstall -----------------------------
(***************************************************************************)
(* Bounded instances of OsInstall: jobs of each strategy on one or two     *)
(* nodes.                                                                  *)
(***************************************************************************)
EXTENDS OsInstall
CONSTANTS i1, i2, c1, c2

Job(strategy, nodes, restart) ==
    [strategy |-> strategy, nodes |-> nodes, restart |-> restart]

(* For a rolling job of a collector and one that restarts a central node   *)
(* the lease may fail; for every job a process may die.                    *)
RollingCollector == Job("rolling", {c1}, FALSE)
RollingRestart == Job("rolling", {i1}, TRUE)

MixedJobs == {
    RollingCollector, RollingRestart,
    Job("rolling", {c1, i1}, FALSE),
    Job("rolling", {c1, c2}, FALSE),
    Job("test_first", {i1, i2}, FALSE),
    Job("test_first", {c1, i1}, FALSE),
    Job("all_at_once", {c1, i1}, FALSE),
    Job("all_at_once", {c1, c2}, FALSE)}

FaultsOf == [r \in MixedJobs |->
    [crash |-> 1, lease |-> IF r \in {RollingCollector, RollingRestart} THEN 1 ELSE 0]]
=============================================================================
