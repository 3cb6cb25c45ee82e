-------------------------- MODULE MCLeaderElection --------------------------
(***************************************************************************)
(* Bounded instances of LeaderElection.                                    *)
(***************************************************************************)
EXTENDS LeaderElection
=============================================================================
