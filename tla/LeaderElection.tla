--------------------------- MODULE LeaderElection ---------------------------
(***************************************************************************)
(* Which central node runs the scheduler                                   *)
(* (monctl_central/scheduler/leader.py, class LeaderElection, and the      *)
(* cycle of SchedulerRunner._run in scheduler/tasks.py).                   *)
(*                                                                         *)
(* Every node tries SET key id NX EX ttl each period, and when the key is  *)
(* taken renews it if it holds its own id.  A Redis call takes effect in   *)
(* one step and is answered in a later one, or its caller gets an          *)
(* exception, whether it took effect or not.  The two asyncio tasks of a   *)
(* node share only _is_leader, which the scheduler reads once per cycle.   *)
(* The names of the specification carry the component's, so that the       *)
(* module can stand beside another one in CoordinationProofs.              *)
(***************************************************************************)
EXTENDS Integers

CONSTANTS
    Nodes,   \* central nodes, by instance id
    TTL,     \* _LEADER_TTL, in units of time
    Period,  \* _LEADER_TTL // 3
    Nobody   \* the key is not there

ASSUME LeaderAssumption ==
    /\ TTL \in Nat \ {0} /\ Period \in Nat
    /\ Nobody \notin Nodes

VARIABLES
    owner,   \* Redis: the id the key holds
    ttl,     \* Redis: its time to live
    up,      \* the nodes whose process runs
    pc,      \* _run: "sleep", "set", "renew", "renewed" (awaiting an answer)
             \* or "error" (an exception is on its way out of _try_acquire)
    answer,  \* the answer on its way to the node
    wait,    \* time left of the sleep between two attempts
    flag,    \* the nodes with _is_leader
    cycle,   \* the nodes inside a scheduler cycle
    age      \* time since Redis last granted the key to the node, up to TTL

leaderVars == <<owner, ttl, up, pc, answer, wait, flag, cycle, age>>

LeaderInit ==
    /\ owner = Nobody /\ ttl = 0
    /\ up = Nodes
    /\ pc = [n \in Nodes |-> "sleep"]
    /\ answer = [n \in Nodes |-> FALSE]
    /\ wait = [n \in Nodes |-> 0]
    /\ flag = {} /\ cycle = {}
    /\ age = [n \in Nodes |-> TTL]

-----------------------------------------------------------------------------
(* Redis grants or refreshes the key.                                      *)
Grant(n) ==
    /\ owner' = n /\ ttl' = TTL
    /\ age' = [age EXCEPT ![n] = 0]

Refuse == UNCHANGED <<owner, ttl, age>>

(***************************************************************************)
(* _try_acquire: SET NX EX, its answer or its exception, then compare and  *)
(* renew, its answer or its exception.  An exception of the SET resets     *)
(* _is_leader, one of the renewal does not.                                *)
(***************************************************************************)
TrySet(n) ==
    /\ n \in up /\ pc[n] = "sleep" /\ wait[n] = 0
    /\ pc' = [pc EXCEPT ![n] = "set"]
    /\ answer' = [answer EXCEPT ![n] = owner = Nobody]
    /\ IF owner = Nobody THEN Grant(n) ELSE Refuse
    /\ UNCHANGED <<up, wait, flag, cycle>>

Sleep(n) ==
    /\ pc' = [pc EXCEPT ![n] = "sleep"]
    /\ wait' = [wait EXCEPT ![n] = Period]

SetReply(n) ==
    /\ pc[n] = "set"
    /\ IF answer[n]
       THEN flag' = flag \cup {n} /\ Sleep(n)
       ELSE pc' = [pc EXCEPT ![n] = "renew"] /\ UNCHANGED <<flag, wait>>
    /\ UNCHANGED <<owner, ttl, up, answer, cycle, age>>

RenewAnyones(n) == owner # Nobody
Renews(n) == owner = n

Renew(n) ==
    /\ pc[n] = "renew"
    /\ pc' = [pc EXCEPT ![n] = "renewed"]
    /\ answer' = [answer EXCEPT ![n] = Renews(n)]
    /\ IF Renews(n) THEN Grant(n) ELSE Refuse
    /\ UNCHANGED <<up, wait, flag, cycle>>

RenewReply(n) ==
    /\ pc[n] = "renewed"
    /\ flag' = IF answer[n] THEN flag \cup {n} ELSE flag \ {n}
    /\ Sleep(n)
    /\ UNCHANGED <<owner, ttl, up, answer, cycle, age>>

(* The call failed before or after it took effect.                         *)
Raise(n) == pc' = [pc EXCEPT ![n] = "error"] /\ UNCHANGED wait

SetFails(n) ==
    /\ \/ pc[n] = "set"
       \/ n \in up /\ pc[n] = "sleep" /\ wait[n] = 0
    /\ flag' = flag \ {n}
    /\ Raise(n)
    /\ UNCHANGED <<owner, ttl, up, answer, cycle, age>>

RenewFails(n) ==
    /\ pc[n] \in {"renew", "renewed"}
    /\ Raise(n)
    /\ UNCHANGED <<owner, ttl, up, answer, flag, cycle, age>>

(* _run catches the exception and sleeps as after any attempt.             *)
DieOfError(n) == pc' = [pc EXCEPT ![n] = "dead"] /\ UNCHANGED wait
AfterError(n) == Sleep(n)

CatchError(n) ==
    /\ pc[n] = "error"
    /\ AfterError(n)
    /\ UNCHANGED <<owner, ttl, up, answer, flag, cycle, age>>

-----------------------------------------------------------------------------
(***************************************************************************)
(* SchedulerRunner._run: a cycle starts if _is_leader holds then, runs to  *)
(* its end whatever happens to the lease, and survives its errors.         *)
(***************************************************************************)
BeginCycle(n) ==
    /\ n \in flag \ cycle
    /\ cycle' = cycle \cup {n}
    /\ UNCHANGED <<owner, ttl, up, pc, answer, wait, flag, age>>

EndCycle(n) ==
    /\ n \in cycle
    /\ cycle' = cycle \ {n}
    /\ UNCHANGED <<owner, ttl, up, pc, answer, wait, flag, age>>

-----------------------------------------------------------------------------
(***************************************************************************)
(* Shutdown stops the scheduler, then the election: a node with _is_leader *)
(* deletes the key if it holds its id, or fails to reach Redis.  A crash   *)
(* leaves the key.  A node starts again with the same id.                  *)
(***************************************************************************)
ReleasesAny(n) == n \in flag
Releases(n) == n \in flag /\ owner = n

Exit(n) ==
    /\ n \in up
    /\ up' = up \ {n}
    /\ pc' = [pc EXCEPT ![n] = "sleep"]
    /\ answer' = [answer EXCEPT ![n] = FALSE]
    /\ wait' = [wait EXCEPT ![n] = 0]
    /\ flag' = flag \ {n}
    /\ cycle' = cycle \ {n}
    /\ UNCHANGED age

Stop(n) ==
    /\ Exit(n)
    /\ IF Releases(n) THEN owner' = Nobody /\ ttl' = 0 ELSE UNCHANGED <<owner, ttl>>

Crash(n) == Exit(n) /\ UNCHANGED <<owner, ttl>>

Start(n) ==
    /\ n \in Nodes \ up
    /\ up' = up \cup {n}
    /\ UNCHANGED <<owner, ttl, pc, answer, wait, flag, cycle, age>>

Dec(i) == IF i > 0 THEN i - 1 ELSE 0

Tick ==
    /\ ttl' = Dec(ttl)
    /\ owner' = IF ttl' = 0 THEN Nobody ELSE owner
    /\ wait' = [n \in Nodes |-> Dec(wait[n])]
    /\ age' = [n \in Nodes |-> IF age[n] < TTL THEN age[n] + 1 ELSE TTL]
    /\ UNCHANGED <<up, pc, answer, flag, cycle>>

Attempt(n) ==
    TrySet(n) \/ SetReply(n) \/ Renew(n) \/ RenewReply(n) \/ CatchError(n)

LeaderNext ==
    \/ \E n \in Nodes :
          \/ Attempt(n) \/ SetFails(n) \/ RenewFails(n)
          \/ BeginCycle(n) \/ EndCycle(n)
          \/ Stop(n) \/ Crash(n) \/ Start(n)
    \/ Tick

LeaderSpec == LeaderInit /\ [][LeaderNext]_leaderVars

(***************************************************************************)
(* Time passes, and a node that runs goes on with its attempts.            *)
(***************************************************************************)
LeaderFairness ==
    /\ WF_leaderVars(Tick)
    /\ \A n \in Nodes :
          /\ WF_leaderVars(TrySet(n)) /\ WF_leaderVars(SetReply(n))
          /\ WF_leaderVars(Renew(n)) /\ WF_leaderVars(RenewReply(n))
          /\ WF_leaderVars(CatchError(n))

LeaderFairSpec == LeaderSpec /\ LeaderFairness

-----------------------------------------------------------------------------
(* Every variable has its type.                                            *)
LeaderTypeOK ==
    /\ owner \in Nodes \cup {Nobody} /\ ttl \in 0..TTL
    /\ up \subseteq Nodes /\ flag \subseteq up /\ cycle \subseteq up
    /\ pc \in [Nodes -> {"sleep", "set", "renew", "renewed", "error"}]
    /\ answer \in [Nodes -> BOOLEAN]
    /\ wait \in [Nodes -> 0..Period]
    /\ age \in [Nodes -> 0..TTL]

(***************************************************************************)
(* The lease: a node that takes itself for the leader, or is still inside  *)
(* a cycle it started as the leader, holds the key, or Redis last granted  *)
(* it the key at least a whole TTL ago.  Releases, lost answers, failed    *)
(* renewals and restarts never break a lease that is in force.             *)
(***************************************************************************)
LeaseHolds == \A n \in flag \cup cycle : owner = n \/ age[n] = TTL

(***************************************************************************)
(* Hence "only one Central API instance runs the scheduler" (leader.py:3)  *)
(* but for this: two nodes run scheduler cycles at the same time only      *)
(* while one of them has not renewed for a whole TTL.                      *)
(***************************************************************************)
OverlapOnlyAfterLease ==
    \A m, n \in cycle : m # n => age[m] = TTL \/ age[n] = TTL

(***************************************************************************)
(* A fleet that keeps a node running has a leader again and again,         *)
(* whatever failed before, once Redis calls no longer fail and no process  *)
(* ends in the middle of an attempt: keys of dead nodes expire, errors do  *)
(* not end the election, and a node whose SET took effect without an       *)
(* answer finds its own key.  The second condition is needed: a node that  *)
(* comes back with its id renews the key before it knows that it leads,    *)
(* and if it dies there each time, the standby is refused for ever         *)
(* (leader.py:107).                                                        *)
(***************************************************************************)
CallsSucceed == \A n \in Nodes : pc[n] # "error"
NoExitInAttempt == \A n \in up : n \notin up' => pc[n] = "sleep"

AlwaysLedAgain ==
    <>[]CallsSucceed /\ <>[][NoExitInAttempt]_leaderVars =>
        \A n \in Nodes : <>[](n \in up) => []<>(flag # {})
=============================================================================
