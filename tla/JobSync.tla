------------------------------- MODULE JobSync -------------------------------
(***************************************************************************)
(* How the jobs of a collector group reach its cache-nodes: GET /jobs and  *)
(* the heartbeat of central (collector_api/router.py), its health check    *)
(* and rebalancing (scheduler/tasks.py), and the JobScheduler of each      *)
(* collector (jobs/scheduler.py) with its SQLite table of jobs.            *)
(*                                                                         *)
(* A definition of a job is a number, 0 where there is none.  No clock is  *)
(* kept: what a request with a timestamp asks for is the set of jobs whose *)
(* updated_at lies behind that timestamp.  The two come from the clocks of *)
(* two hosts, and updated_at is set before its transaction commits, so     *)
(* that an edit may lie on either side of any timestamp; only the clock of *)
(* one collector is taken to go forwards, and at the start no job is ahead *)
(* of it.                                                                  *)
(***************************************************************************)
EXTENDS Integers, FiniteSets

CONSTANTS
    Collectors,   \* the collectors of one group, approved
    SharedSecret, \* those that authenticate with the shared secret
    Reloaded,     \* those that a config_reload command can reach
    Jobs,         \* unpinned assignments of the group's devices
    Weights,      \* weight vectors the rebalancer may compute
    Equal,        \* the one of equal weights
    Rank,         \* Rank[w][j][c]: how early the ring of w meets c after j
    FullEvery,    \* _full_sync_every
    MaxDef,       \* bound: definitions of a job are 1 .. MaxDef
    MaxChanges,   \* bound: changes at central
    MaxFaults     \* bound: failed calls and faults of collectors

Defs == [Jobs -> 0 .. MaxDef]
Tasks == {"loop", "force"}
NoSnapshot == [hosts |-> {}, w |-> Equal]

ASSUME JobSyncAssumption ==
    /\ IsFiniteSet(Collectors) /\ SharedSecret \subseteq Collectors
    /\ Reloaded \subseteq Collectors
    /\ Equal \in Weights
    /\ FullEvery \in Nat \ {0} /\ MaxDef \in Nat \ {0}
    /\ MaxChanges \in Nat /\ MaxFaults \in Nat
    /\ \A w \in Weights, j \in Jobs, c, d \in Collectors :
         Rank[w][j][c] \in Nat /\ (Rank[w][j][c] = Rank[w][j][d] => c = d)

VARIABLES
    active,   \* central: collectors with status ACTIVE, the others are DOWN
    snapshot, \* central: CollectorGroup.weight_snapshot
    def,      \* central: the enabled definition of a job
    mem,      \* _my_jobs of each collector
    db,       \* its SQLite rows with deleted = 0
    delta,    \* the collectors whose _last_sync is set
    fresh,    \* jobs with updated_at later than the collector's last stamp
    count,    \* _sync_count modulo FullEvery
    task,     \* the runs of _sync_jobs: the loop's and force_sync's
    changes, faults, \* the bounds' counters
    blind     \* history: jobs changed since a collector was last told of them
              \*   that its next delta request will not be told of

vars == <<active, snapshot, def, mem, db, delta, fresh, count, task, changes,
          faults, blind>>

Nothing == [i \in Jobs |-> 0]

(* pc: "idle", "asked", "answered" (central has read the jobs), "apply".   *)
(* since: the jobs behind the request's timestamp.  late: history, the     *)
(* jobs changed since central read them for this request.                  *)
Idle == [pc |-> "idle", full |-> FALSE, since |-> {}, got |-> Nothing,
         drop |-> {}, put |-> {}, half |-> {}, late |-> {}]

Init ==
    /\ active = Collectors /\ snapshot = NoSnapshot
    /\ def \in [Jobs -> {0, 1}]
    /\ mem = [c \in Collectors |-> Nothing]
    /\ db = [c \in Collectors |-> Nothing]
    /\ delta = {} /\ fresh = [c \in Collectors |-> {}]
    /\ count = [c \in Collectors |-> 0]
    /\ task = [c \in Collectors |-> [t \in Tasks |-> Idle]]
    /\ changes = 0 /\ faults = 0
    /\ blind = [c \in Collectors |-> {}]

-----------------------------------------------------------------------------
(***************************************************************************)
(* Who polls a job: with two ACTIVE collectors or more, the one the ring   *)
(* of the weights meets first; the weights are the snapshot's if it is for *)
(* exactly the ACTIVE collectors.  Otherwise, and for a caller that is not *)
(* ACTIVE, nothing is filtered out.                                        *)
(***************************************************************************)
CurrentWeights(a, s) == IF s.hosts = a THEN s.w ELSE Equal

Owner(j, a, w) == CHOOSE c \in a : \A d \in a : Rank[w][j][c] <= Rank[w][j][d]

MineOfAll(c, j, a, s) == TRUE

Mine(c, j, a, s) ==
    \/ Cardinality(a) < 2
    \/ c \notin a
    \/ Owner(j, a, CurrentWeights(a, s)) = c

Share(c) ==
    [i \in Jobs |-> IF Mine(c, i, active, snapshot) THEN def[i] ELSE 0]

(***************************************************************************)
(* What a change of js at central does to the requests under way and to    *)
(* the history.  The timestamps of the collectors in told, and those of    *)
(* the requests of the collectors in seen, lie before the new updated_at   *)
(* of js; the others' next delta request is not told of the change.        *)
(***************************************************************************)
Changed(js, told) ==
    /\ blind' = [c \in Collectors |-> IF c \in told THEN blind[c] ELSE blind[c] \cup js]
    /\ changes < MaxChanges /\ changes' = changes + 1
    /\ UNCHANGED <<mem, db, delta, count, faults>>

Overtaken(r, js) ==
    [r EXCEPT !.late = IF r.pc = "answered" THEN @ \cup js ELSE @]

Unseen(js) ==
    /\ Changed(js, {})
    /\ fresh' = fresh
    /\ task' = [c \in Collectors |-> [t \in Tasks |-> Overtaken(task[c][t], js)]]

Redated(j, told, seen) ==
    /\ Changed({j}, told)
    /\ fresh' = [c \in Collectors |->
         IF c \in told THEN fresh[c] \cup {j} ELSE fresh[c] \ {j}]
    /\ task' = [c \in Collectors |-> [t \in Tasks |->
         [Overtaken(task[c][t], {j}) EXCEPT
            !.since = IF task[c][t].pc = "asked" /\ ~task[c][t].full
                      THEN (IF c \in seen THEN @ \cup {j} ELSE @ \ {j}) ELSE @]]]

(* An assignment is edited: updated_at moves.  A request under way carries *)
(* a _last_sync that is no later than its collector's present one.         *)
AskingSince == {c \in Collectors : \E t \in Tasks :
                  task[c][t].pc = "asked" /\ ~task[c][t].full}

EditAssignment(j) ==
    /\ \E v \in 1 .. MaxDef : v # def[j] /\ def' = [def EXCEPT ![j] = v]
    /\ \E told \in SUBSET Collectors, seen \in SUBSET AskingSince :
         told \cap AskingSince \subseteq seen /\ Redated(j, told, seen)
    /\ UNCHANGED <<active, snapshot>>

(* An assignment is disabled or deleted, its device is disabled or enabled *)
(* again: no row that a delta request would select says so.                *)
HideAssignment(j) ==
    /\ def[j] # 0 /\ def' = [def EXCEPT ![j] = 0]
    /\ Unseen({j})
    /\ UNCHANGED <<active, snapshot>>

EnableDevice(j) ==
    /\ def[j] = 0 /\ def' = [def EXCEPT ![j] = 1]
    /\ Unseen({j})
    /\ UNCHANGED <<active, snapshot>>

(* _health_check: a collector not heard of for 90 s is DOWN.               *)
HealthCheck(c) ==
    /\ c \in active
    /\ active' = active \ {c} /\ snapshot' = NoSnapshot
    /\ Unseen(Jobs)
    /\ UNCHANGED def

(* collector_heartbeat: the collector is ACTIVE again.                     *)
Heartbeat(c) ==
    /\ c \notin active
    /\ active' = active \cup {c}
    /\ fresh' = fresh
    /\ blind' = [d \in Collectors |-> blind[d] \cup Jobs]
    /\ task' = [d \in Collectors |-> [t \in Tasks |->
         IF task[d][t].pc = "answered"
         THEN [task[d][t] EXCEPT !.late = Jobs] ELSE task[d][t]]]
    /\ UNCHANGED <<snapshot, def, mem, db, delta, count, changes, faults>>

(* _rebalance_group: the weights move, or are kept and recorded.           *)
Rebalance ==
    /\ Cardinality(active) >= 2
    /\ \E w \in Weights : snapshot' = [hosts |-> active, w |-> w]
    /\ snapshot' # snapshot
    /\ Unseen(Jobs)
    /\ UNCHANGED <<active, def>>

-----------------------------------------------------------------------------
(***************************************************************************)
(* _sync_jobs begins: by the loop, or by force_sync, which forgets         *)
(* _last_sync first.  The loop and a forced sync run side by side; the     *)
(* command channel runs one command at a time.                             *)
(***************************************************************************)
NextCount(n) == (n + 1) % FullEvery

Begin(c, t, full) ==
    /\ task[c][t].pc = "idle"
    /\ task' = [task EXCEPT ![c][t] =
         [Idle EXCEPT !.pc = "asked", !.full = full,
                      !.since = IF full THEN {} ELSE fresh[c]]]
    /\ delta' = IF full THEN delta \ {c} ELSE delta
    /\ count' = [count EXCEPT ![c] = NextCount(@)]
    /\ UNCHANGED <<active, snapshot, def, mem, db, fresh, changes, faults, blind>>

NeverFullAgain(c) == c \notin delta
FullSync(c) == c \notin delta \/ NextCount(count[c]) = 0

SyncLoop(c) == Begin(c, "loop", FullSync(c))

ForceSync(c) == c \in Reloaded /\ Begin(c, "force", TRUE)

(***************************************************************************)
(* get_jobs: a collector with its own key must be ACTIVE.                  *)
(***************************************************************************)
Admitted(c) == c \in active \/ c \in SharedSecret

Selected(c, r) ==
    [i \in Jobs |-> IF r.full \/ i \in r.since THEN Share(c)[i] ELSE 0]

GetJobs(c, t) ==
    LET r == task[c][t] IN
    /\ r.pc = "asked" /\ Admitted(c)
    /\ task' = [task EXCEPT ![c][t] =
         [r EXCEPT !.pc = "answered", !.got = Selected(c, r), !.since = {}]]
    /\ UNCHANGED <<active, snapshot, def, mem, db, delta, fresh, count,
                   changes, faults, blind>>

(* 403 for a collector with a key of its own that is not ACTIVE.           *)
Refused(c, t) ==
    /\ task[c][t].pc = "asked" /\ ~Admitted(c)
    /\ task' = [task EXCEPT ![c][t] = Idle]
    /\ UNCHANGED <<active, snapshot, def, mem, db, delta, fresh, count,
                   changes, faults, blind>>

(* An error of central, a timeout, a lost answer.                          *)
SyncFails(c, t) ==
    /\ task[c][t].pc \in {"asked", "answered"}
    /\ faults < MaxFaults /\ faults' = faults + 1
    /\ task' = [task EXCEPT ![c][t] = Idle]
    /\ UNCHANGED <<active, snapshot, def, mem, db, delta, fresh, count,
                   changes, blind>>

-----------------------------------------------------------------------------
(***************************************************************************)
(* The answer is applied.  _last_sync is stamped when it arrives; jobs     *)
(* whose updated_at is ahead of the collector's clock stay behind it.      *)
(* A full answer removes what it does not list: from memory, then, after   *)
(* an await, from SQLite.  Then every job listed is stored in SQLite and,  *)
(* after an await, in memory.                                              *)
(***************************************************************************)
Pending(r) == r.drop \cup r.put

NoneStale(c, r) == {}
Stale(c, r) ==
    IF r.full THEN {i \in Jobs : mem[c][i] # 0 /\ r.got[i] = 0} ELSE {}

Listed(r) == {i \in Jobs : r.got[i] # 0}

(* The run ends with its last removal and upsert.                          *)
Rest(r) == IF Pending(r) = {} THEN Idle ELSE r

StampAndApply(c, t) ==
    LET r == task[c][t]
        other == UNION {Pending(task[c][u]) : u \in Tasks \ {t}}
        Then(half) == [task EXCEPT ![c][t] =
            Rest([r EXCEPT !.pc = "apply", !.drop = Stale(c, r),
                           !.put = Listed(r), !.half = half,
                           !.full = FALSE, !.late = {}])]
    IN
    /\ r.pc = "answered"
    /\ \/ /\ Stale(c, r) = {}
          /\ task' = Then({})
          /\ UNCHANGED mem
       \/ \E i \in Stale(c, r) :
            /\ task' = Then({i})
            /\ mem' = [mem EXCEPT ![c][i] = 0]
    /\ delta' = delta \cup {c}
    /\ \E ahead \in SUBSET fresh[c] : fresh' = [fresh EXCEPT ![c] = ahead]
    /\ blind' = [blind EXCEPT ![c] =
         (IF r.full THEN {} ELSE @ \ Listed(r)) \cup r.late \cup other]
    /\ UNCHANGED <<active, snapshot, def, db, count, changes, faults>>

(* Removals first, one at a time; half holds the one not yet in SQLite.    *)
Forget(c, t, i) ==
    /\ task[c][t].half = {} /\ i \in task[c][t].drop
    /\ mem' = [mem EXCEPT ![c][i] = 0]
    /\ task' = [task EXCEPT ![c][t].half = {i}]
    /\ UNCHANGED db

MarkNothing(c, t, i) ==
    LET r == task[c][t] IN
    /\ i \in r.drop \cap r.half
    /\ task' = [task EXCEPT ![c][t] =
         Rest([r EXCEPT !.half = {}, !.drop = @ \ {i}])]
    /\ UNCHANGED <<mem, db>>

MarkJobDeleted(c, t, i) ==
    LET r == task[c][t] IN
    /\ i \in r.drop \cap r.half
    /\ db' = [db EXCEPT ![c][i] = 0]
    /\ task' = [task EXCEPT ![c][t] =
         Rest([r EXCEPT !.half = {}, !.drop = @ \ {i}])]
    /\ UNCHANGED mem

(* Then upserts; half holds the one that is in SQLite and not in memory.   *)
UpsertJob(c, t, i) ==
    LET r == task[c][t] IN
    /\ r.drop = {} /\ r.half = {} /\ i \in r.put
    /\ db' = [db EXCEPT ![c][i] = r.got[i]]
    /\ task' = [task EXCEPT ![c][t].half = {i}]
    /\ UNCHANGED mem

ListJob(c, t, i) ==
    LET r == task[c][t] IN
    /\ r.drop = {} /\ i \in r.put \cap r.half
    /\ mem' = [mem EXCEPT ![c][i] = r.got[i]]
    /\ task' = [task EXCEPT ![c][t] =
         Rest([r EXCEPT !.half = {}, !.put = @ \ {i}])]
    /\ UNCHANGED db

Apply(c, t) ==
    /\ \E i \in Jobs : \/ Forget(c, t, i) \/ MarkJobDeleted(c, t, i)
                        \/ UpsertJob(c, t, i) \/ ListJob(c, t, i)
    /\ UNCHANGED <<active, snapshot, def, delta, fresh, count, changes,
                   faults, blind>>

(* The process ends at any point and starts from SQLite.                   *)
Restart(c) ==
    /\ faults < MaxFaults /\ faults' = faults + 1
    /\ mem' = [mem EXCEPT ![c] = db[c]]
    /\ task' = [task EXCEPT ![c] = [t \in Tasks |-> Idle]]
    /\ delta' = delta \ {c}
    /\ count' = [count EXCEPT ![c] = 0]
    /\ blind' = [blind EXCEPT ![c] = {}]
    /\ UNCHANGED <<active, snapshot, def, db, fresh, changes>>

-----------------------------------------------------------------------------
Admin ==
    \/ \E j \in Jobs : EditAssignment(j) \/ HideAssignment(j) \/ EnableDevice(j)
    \/ \E c \in Collectors : HealthCheck(c) \/ Restart(c)
    \/ Rebalance

Sync(c, t) ==
    \/ GetJobs(c, t) \/ Refused(c, t) \/ SyncFails(c, t)
    \/ StampAndApply(c, t) \/ Apply(c, t)

Next ==
    \/ Admin
    \/ \E c \in Collectors :
         \/ Heartbeat(c) \/ SyncLoop(c) \/ ForceSync(c)
         \/ \E t \in Tasks : Sync(c, t)

(***************************************************************************)
(* The heartbeat and sync loops of a collector go on for ever, a call to   *)
(* central or SQLite returns or raises, and the changes at central and the *)
(* failures are finitely many.  The sync loop has a step to take in every  *)
(* state, so that weak fairness of it is to take steps again and again.    *)
(***************************************************************************)
Fairness ==
    /\ \A c \in Collectors :
         WF_vars(Heartbeat(c)) /\ []<><<SyncLoop(c) \/ Sync(c, "loop")>>_vars
    /\ \A c \in Reloaded : WF_vars(Sync(c, "force"))

Spec == Init /\ [][Next]_vars /\ Fairness

-----------------------------------------------------------------------------
TaskType == [pc : {"idle", "asked", "answered", "apply"},
             full : BOOLEAN, since : SUBSET Jobs, got : Defs,
             drop : SUBSET Jobs, put : SUBSET Jobs, half : SUBSET Jobs,
             late : SUBSET Jobs]

(* The types of the state.                                                 *)
TypeOK ==
    /\ active \subseteq Collectors
    /\ snapshot \in [hosts : SUBSET Collectors, w : Weights]
    /\ def \in [Jobs -> 0 .. MaxDef]
    /\ mem \in [Collectors -> Defs] /\ db \in [Collectors -> Defs]
    /\ delta \subseteq Collectors /\ fresh \in [Collectors -> SUBSET Jobs]
    /\ count \in [Collectors -> 0 .. FullEvery - 1]
    /\ task \in [Collectors -> [Tasks -> TaskType]]
    /\ changes \in 0 .. MaxChanges /\ faults \in 0 .. MaxFaults
    /\ blind \in [Collectors -> SUBSET Jobs]

(* No run of _sync_jobs of c has i still to write.                         *)
Settled(c, i) == \A t \in Tasks : i \notin Pending(task[c][t])

(* A collector that is still admitted, has synced since its start and has  *)
(* nothing to learn about j.                                               *)
Informed(c, j) ==
    /\ c \in delta /\ Admitted(c) /\ Settled(c, j)
    /\ j \notin fresh[c] \cup blind[c]

(* What a cache-node lists for a job is central's present answer, except   *)
(* for a job with an updated_at behind its timestamp (the next delta       *)
(* brings it), one edited with an updated_at that is not (the clocks       *)
(* differ, or the commit came late), changed without a trace that a delta  *)
(* would show, changed between central's query and the stamp of _last_sync *)
(* or written by a run of _sync_jobs that overlapped a later one (a full   *)
(* sync brings it).                                                        *)
ListsItsShare ==
    \A c \in Collectors, j \in Jobs : Informed(c, j) => mem[c][j] = Share(c)[j]

(* SQLite holds what memory lists, unless a run is between its two writes  *)
(* or two runs overlapped: a restart without central goes on with the list *)
(* of before.                                                              *)
StoredAsListed ==
    \A c \in Collectors, i \in Jobs :
      Settled(c, i) /\ i \notin blind[c] /\ c \in delta => db[c][i] = mem[c][i]

(* The types, and the two copies of the list agree.                        *)
StoreInvariant == TypeOK /\ StoredAsListed

(* "each job is executed by exactly one collector": once every ACTIVE      *)
(* collector is informed, one of them lists the job and no other.          *)
ExactlyOneLists ==
    \A j \in Jobs :
      def[j] # 0 /\ active # {} /\ (\A c \in active : Informed(c, j))
        => Cardinality({c \in active : mem[c][j] # 0}) = 1

(* After the last change every collector comes back, and lists its share   *)
(* of the jobs for good, in memory and in SQLite.                          *)
EventuallyShared ==
    <>[](\A c \in Collectors, j \in Jobs :
           c \in active /\ mem[c][j] = Share(c)[j] /\ db[c][j] = Share(c)[j])

=============================================================================
