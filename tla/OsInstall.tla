------------------------------ MODULE OsInstall ------------------------------
(***************************************************************************)
(* One OS install job of central (monctl_central/upgrades/os_service.py,   *)
(* os_collector_api.py, the job endpoints of upgrades/router.py, and       *)
(* _resume_orphaned_os_jobs of scheduler/tasks.py).                        *)
(*                                                                         *)
(* A driver (execute_os_install_job, under a lease in Redis) walks through *)
(* the steps of the job.  Steps of central nodes are run through their     *)
(* sidecars; a step of a collector is left to it, and its report moves the *)
(* job on (advance_collector_job, without a lease).  Every driver works on *)
(* the rows it read when it started: the sessions do not expire them.      *)
(***************************************************************************)
EXTENDS Integers, FiniteSets

CONSTANTS
    Instances,  \* central processes, by the host they run on
    Collectors, \* nodes with the role collector
    Requests,   \* jobs that an administrator may ask for
    Nobody,     \* the lease is free
    MaxFaults   \* bound, by request and kind: crashes; lapses and Redis errors

Tasks == Instances \X {"exec", "free"}
FaultKinds == {"crash", "lease"}

ASSUME OsInstallAssumption ==
    /\ Nobody \notin Instances /\ Instances \cap Collectors = {}
    /\ \A r \in Requests :
         /\ r.strategy \in {"rolling", "test_first", "all_at_once"}
         /\ r.nodes \subseteq Instances \cup Collectors /\ IsFiniteSet(r.nodes)
         /\ r.restart \in BOOLEAN /\ MaxFaults[r] \in [FaultKinds -> Nat]

(***************************************************************************)
(* create_os_install_job: collectors first, the creating node last; each   *)
(* node has an install step and, if it is to be restarted, a reboot and a  *)
(* health check.  The first node is the test node of test_first.           *)
(***************************************************************************)
NodeOrders(nodes, current) ==
    LET Rank(n) == IF n \in Collectors THEN 0 ELSE IF n = current THEN 2 ELSE 1
        N == 1 .. Cardinality(nodes) IN
    {o \in [N -> nodes] : \A i, j \in N :
       i < j => o[i] # o[j] /\ Rank(o[i]) <= Rank(o[j])}

CreateJob(request, order) ==
    LET per == IF request.restart THEN 3 ELSE 1
        S == 1 .. per * Cardinality(request.nodes) IN
    [request |-> request, strategy |-> request.strategy,
     host |-> [s \in S |-> order[((s - 1) \div per) + 1]],
     action |-> [s \in S |-> <<"install", "reboot", "health_check">>[((s - 1) % per) + 1]],
     test |-> IF request.strategy = "test_first" THEN 1 .. per ELSE {}]

VARIABLES
    plan,     \* the job as created
    job,      \* OsInstallJob.status
    st,       \* status of each step
    saved,    \* steps with sidecar_job_id
    lease,    \* Redis: the holder of the driver lease
    task,     \* the drivers: execute (exec), advance and resume (free)
    due,      \* background tasks that have not begun
    doing,    \* steps that a collector has fetched
    faults,
    launches, \* history: installs started for a step (0, 1, or 2: more)
    gap,      \* history: steps whose driver died between start and save
    unleased, \* history: the lease lapsed, or was done without
    overlap,  \* history: a driver or an advance began beside a driver
    ahead,    \* history: one began while a step was under way
    rebooted  \* history: a driver asked for the reboot of its own node

vars == <<plan, job, st, saved, lease, task, due, doing, faults, launches, gap,
          unleased, overlap, ahead, rebooted>>

Steps == DOMAIN plan.host
Host(s) == plan.host[s]
Act(s) == plan.action[s]
Test == plan.test
Strategy == plan.strategy
Central(s) == Host(s) \in Instances
InOrder == Strategy \in {"rolling", "test_first"}

Terminal == {"completed", "failed", "skipped"}

Pending == [s \in Steps |-> "pending"]

(* view, ids: the rows as read and as written by this driver; lost: the    *)
(* cancel_event that the refresher of the lease sets.                      *)
Off == [pc |-> "off", view |-> Pending, ids |-> {}, failed |-> FALSE, i |-> 1,
        cur |-> 0, lost |-> FALSE]

Init ==
    /\ \E r \in Requests, i \in Instances :
         /\ \E order \in NodeOrders(r.nodes, i) : plan = CreateJob(r, order)
         /\ due = {<<i, "exec">>}
    /\ job = "pending" /\ st = Pending /\ saved = {} /\ lease = Nobody
    /\ task = [t \in Tasks |-> Off]
    /\ doing = {} /\ faults = 0
    /\ launches = [s \in Steps |-> 0] /\ gap = {}
    /\ unleased = FALSE /\ overlap = FALSE /\ ahead = FALSE /\ rebooted = FALSE

Working(t) == task[t].pc # "off"

Limit(kind) == MaxFaults[plan.request][kind]
Fault(kind) == faults < Limit(kind) /\ faults' = faults + 1

-----------------------------------------------------------------------------
(* A driver starts from the rows as they are.                              *)
Begin(t, at) ==
    task' = [task EXCEPT ![t] = [Off EXCEPT !.pc = at, !.view = st, !.ids = saved]]

UnderWay(s) == st[s] \in {"running", "awaiting_collector"}

BesideDriver ==
    /\ overlap' = (overlap \/ \E t \in Tasks : Working(t))
    /\ ahead' = (ahead \/ \E s \in Steps : UnderWay(s))

(* _acquire_driver_lease: SET NX.                                          *)
AcquiresAnyway(i) == TRUE
Acquires(i) == lease = Nobody

(***************************************************************************)
(* _resume_orphaned_os_jobs: each cycle, the scheduler of the leader takes *)
(* a job with status running that it is not driving for an orphan, and     *)
(* creates a task that is to execute it.                                   *)
(***************************************************************************)
NeverOrphaned == FALSE
OrphanedUnlessDone == job \notin {"completed", "failed"}
Orphaned == job = "running"

LookForOrphans(i) ==
    /\ Orphaned
    /\ ~Working(<<i, "exec">>) /\ <<i, "exec">> \notin due
    /\ due' = due \cup {<<i, "exec">>}
    /\ UNCHANGED <<job, st, saved, lease, task, doing, faults, launches, gap,
                   unleased, overlap, ahead, rebooted>>

(***************************************************************************)
(* execute_os_install_job, as begun by the API that created the job or by  *)
(* a leader.  If the lease is taken it returns at once; if Redis fails it  *)
(* goes on without a lease.                                                *)
(***************************************************************************)
Execute(i) ==
    /\ ~Working(<<i, "exec">>) /\ <<i, "exec">> \in due
    /\ \/ Acquires(i) /\ lease' = i /\ UNCHANGED <<faults, unleased>>
       \/ Fault("lease") /\ unleased' = TRUE /\ UNCHANGED lease
    /\ due' = due \ {<<i, "exec">>}
    /\ job' = "running"
    /\ Begin(<<i, "exec">>, "loop") /\ BesideDriver
    /\ UNCHANGED <<st, saved, doing, launches, gap, rebooted>>

TurnedAway(i) ==
    /\ <<i, "exec">> \in due /\ ~Acquires(i)
    /\ due' = due \ {<<i, "exec">>}
    /\ UNCHANGED <<job, st, saved, lease, task, doing, faults, launches, gap,
                   unleased, overlap, ahead, rebooted>>

(* The end of a driver; one that holds the lease releases it.              *)
Return(t) ==
    /\ task' = [task EXCEPT ![t] = Off]
    /\ lease' = IF t = <<lease, "exec">> THEN Nobody ELSE lease

(* _refresh_driver_lease finds another holder, or none; the driver stops   *)
(* before its next step.                                                   *)
NoteLost(i) ==
    LET t == <<i, "exec">> IN
    /\ Working(t) /\ lease # i /\ ~task[t].lost
    /\ task' = [task EXCEPT ![t].lost = TRUE]
    /\ UNCHANGED <<job, st, saved, lease, due, doing, faults, launches, gap,
                   unleased, overlap, ahead, rebooted>>

Yield(t) ==
    /\ task[t].pc = "loop" /\ task[t].lost
    /\ Return(t)
    /\ UNCHANGED <<job, st, saved, due, doing, faults, launches, gap, unleased,
                   overlap, ahead, rebooted>>

-----------------------------------------------------------------------------
(***************************************************************************)
(* _pick_next_pending: the next step that is pending, or a central install *)
(* left running; the reboot and health check of the own node come last.    *)
(***************************************************************************)
Actionable(t) == {s \in Steps :
    /\ s >= task[t].i
    /\ \/ task[t].view[s] = "pending"
       \/ task[t].view[s] = "running" /\ Central(s) /\ Act(s) = "install"}

OwnRestart(t, s) == Act(s) # "install" /\ Host(s) = t[1]

Picked(t, s) ==
    /\ task[t].pc = "loop" /\ ~task[t].lost
    /\ s \in Actionable(t)
    /\ LET first == {r \in Actionable(t) : ~OwnRestart(t, r)}
           choice == IF first # {} THEN first ELSE Actionable(t)
       IN s \in choice /\ \A r \in choice : s <= r

(* The driver writes a status and goes on behind the step.                 *)
Write(t, s, status, i) ==
    /\ st' = [st EXCEPT ![s] = status]
    /\ task' = [task EXCEPT ![t].view[s] = status, ![t].i = i]

FailsFast(t) == task[t].failed /\ InOrder

SkipStep(t, s) ==
    /\ Picked(t, s) /\ FailsFast(t)
    /\ Write(t, s, "skipped", s + 1)
    /\ UNCHANGED <<job, saved, lease, due, doing, faults, launches, gap,
                   unleased, overlap, ahead, rebooted>>

(* A collector's step waits for its collector; in order, so does the job.  *)
DelegateAndGoOn(t, s) ==
    /\ Picked(t, s) /\ ~FailsFast(t) /\ ~Central(s)
    /\ Write(t, s, "awaiting_collector", s + 1) /\ UNCHANGED lease
    /\ UNCHANGED <<job, saved, due, doing, faults, launches, gap, unleased,
                   overlap, ahead, rebooted>>

Delegate(t, s) ==
    /\ Picked(t, s) /\ ~FailsFast(t) /\ ~Central(s)
    /\ IF InOrder
       THEN st' = [st EXCEPT ![s] = "awaiting_collector"] /\ Return(t)
       ELSE Write(t, s, "awaiting_collector", s + 1) /\ UNCHANGED lease
    /\ UNCHANGED <<job, saved, due, doing, faults, launches, gap, unleased,
                   overlap, ahead, rebooted>>

(***************************************************************************)
(* A step of the driver's own node that reboots it: everything is written  *)
(* before, and the instance goes down.  If the reboot cannot be asked for, *)
(* the step is failed after all, and the driver goes on.                   *)
(***************************************************************************)
OwnCheck(t, r) ==
    Host(r) = t[1] /\ Act(r) = "health_check" /\ task[t].view[r] = "pending"

AsksForReboot(t, s) ==
    /\ Picked(t, s) /\ ~FailsFast(t) /\ Act(s) = "reboot" /\ Host(s) = t[1]
    /\ job' = "completed" /\ rebooted' = TRUE

OwnReboot(t, s) ==
    /\ AsksForReboot(t, s)
    /\ st' = [r \in Steps |-> IF r = s \/ OwnCheck(t, r) THEN "completed" ELSE st[r]]
    /\ task' = [u \in Tasks |-> IF u[1] = t[1] THEN Off ELSE task[u]]
    /\ due' = {u \in due : u[1] # t[1]}
    /\ UNCHANGED <<saved, lease, doing, faults, launches, gap, unleased,
                   overlap, ahead>>

OwnRebootFails(t, s) ==
    LET New(old) == [r \in Steps |->
          IF r = s THEN "failed" ELSE IF OwnCheck(t, r) THEN "completed" ELSE old[r]] IN
    /\ AsksForReboot(t, s)
    /\ st' = New(st)
    /\ task' = [task EXCEPT ![t].view = New(@), ![t].i = s + 1, ![t].failed = TRUE]
    /\ UNCHANGED <<saved, lease, due, doing, faults, launches, gap, unleased,
                   overlap, ahead>>

RunStep(t, s) ==
    /\ Picked(t, s) /\ ~FailsFast(t) /\ Central(s)
    /\ ~(Act(s) = "reboot" /\ Host(s) = t[1])
    /\ st' = IF task[t].view[s] = "running" THEN st ELSE [st EXCEPT ![s] = "running"]
    /\ task' = [task EXCEPT ![t].view[s] = "running", ![t].i = s, ![t].cur = s,
         ![t].pc = IF Act(s) # "install" THEN "wait"
                   ELSE IF task[t].view[s] = "running" /\ s \in task[t].ids
                   THEN "wait" ELSE "launch"]
    /\ UNCHANGED <<job, saved, lease, due, doing, faults, launches, gap,
                   unleased, overlap, ahead, rebooted>>

(* install_packages_on_node: POST, then on_launch saves the sidecar's id.  *)
Launch(t) ==
    /\ task[t].pc = "launch"
    /\ launches' = [launches EXCEPT ![task[t].cur] = IF @ < 2 THEN @ + 1 ELSE @]
    /\ task' = [task EXCEPT ![t].pc = "save"]
    /\ UNCHANGED <<job, st, saved, lease, due, doing, faults, gap, unleased,
                   overlap, ahead, rebooted>>

SaveSidecarJob(t) ==
    /\ task[t].pc = "save"
    /\ saved' = saved \cup {task[t].cur}
    /\ task' = [task EXCEPT ![t].pc = "wait", ![t].ids = @ \cup {task[t].cur}]
    /\ UNCHANGED <<job, st, lease, due, doing, faults, launches, gap, unleased,
                   overlap, ahead, rebooted>>

(***************************************************************************)
(* The step ends.  With test_first, the end of the last step of the test   *)
(* node suspends the job.                                                  *)
(***************************************************************************)
Suspends(t, s, ok) ==
    LET rest == {r \in Steps : r > s /\ task[t].view[r] = "pending"} IN
    /\ Strategy = "test_first" /\ s \in Test /\ ok
    /\ rest # {} /\ \A r \in rest : (\A q \in rest : r <= q) => r \notin Test

StepEnds(t, ok) ==
    LET s == task[t].cur
        status == IF ok THEN "completed" ELSE "failed" IN
    /\ task[t].pc = "wait"
    /\ st' = [st EXCEPT ![s] = status]
    /\ IF Suspends(t, s, ok)
       THEN job' = "awaiting_approval" /\ Return(t)
       ELSE /\ task' = [task EXCEPT ![t].pc = "loop", ![t].view[s] = status,
                          ![t].i = s + 1, ![t].cur = 0, ![t].failed = @ \/ ~ok]
            /\ UNCHANGED <<job, lease>>
    /\ UNCHANGED <<saved, due, doing, faults, launches, gap, unleased, overlap,
                   ahead, rebooted>>

VerdictWhenIdle(v) ==
    IF \A s \in Steps : v[s] \in Terminal THEN "completed" ELSE "failed"

Verdict(v) ==
    IF \A s \in Steps : v[s] \in {"completed", "skipped"} THEN "completed" ELSE "failed"

(* No step is left.  The job ends unless the driver knows of a collector   *)
(* at work.                                                                *)
Finish(t) ==
    /\ task[t].pc = "loop" /\ ~task[t].lost /\ Actionable(t) = {}
    /\ job' = IF \E s \in Steps : task[t].view[s] = "awaiting_collector"
              THEN job ELSE Verdict(task[t].view)
    /\ Return(t)
    /\ UNCHANGED <<st, saved, due, doing, faults, launches, gap, unleased,
                   overlap, ahead, rebooted>>

-----------------------------------------------------------------------------
(***************************************************************************)
(* A collector fetches a step that awaits it (get_my_tasks) and reports    *)
(* its result (report_step_result), which some instance takes further.     *)
(* The report is lost if the agent dies at its step (docker-ce upgrades    *)
(* restart it) or the call fails: it is not repeated, but the step still   *)
(* awaits its collector and is handed out again at the next poll.          *)
(***************************************************************************)
FetchStep(s) ==
    /\ st[s] = "awaiting_collector" /\ job = "running"
    /\ doing' = doing \cup {s}
    /\ UNCHANGED <<job, st, saved, lease, task, due, faults, launches, gap,
                   unleased, overlap, ahead, rebooted>>

ReportStep(s, ok) ==
    /\ s \in doing
    /\ doing' = doing \ {s}
    /\ IF st[s] = "awaiting_collector"
       THEN /\ st' = [st EXCEPT ![s] = IF ok THEN "completed" ELSE "failed"]
            /\ \E i \in Instances : due' = due \cup {<<i, "free">>}
       ELSE UNCHANGED <<st, due>>
    /\ UNCHANGED <<job, saved, lease, task, faults, launches, gap, unleased,
                   overlap, ahead, rebooted>>

(* Losing a report that nobody awaits is ReportStep without effect.        *)
ReportLost(s) ==
    /\ s \in doing /\ st[s] = "awaiting_collector"
    /\ doing' = doing \ {s}
    /\ UNCHANGED <<job, st, saved, lease, task, due, faults, launches, gap,
                   unleased, overlap, ahead, rebooted>>

(***************************************************************************)
(* advance_collector_job reads the job and its steps, and goes on only if  *)
(* the job is running; what it then commits is decided on what it read.    *)
(***************************************************************************)
ReadForAdvance(i) ==
    LET t == <<i, "free">> IN
    /\ t \in due /\ ~Working(t)
    /\ due' = due \ {t}
    /\ IF job = "running" THEN Begin(t, "advance") /\ BesideDriver
                          ELSE UNCHANGED <<task, overlap, ahead>>
    /\ UNCHANGED <<job, st, saved, lease, doing, faults, launches, gap, unleased,
                   rebooted>>

Some(S) == CHOOSE s \in S : \A r \in S : s <= r
With(v, status) == {s \in Steps : v[s] = status}

TestDone(v) ==
    /\ Strategy = "test_first"
    /\ With(v, "completed") \cap Test # {} /\ With(v, "pending") \ Test # {}

Advance(t) ==
    LET v == task[t].view
        next == Some(With(v, "pending")) IN
    /\ task[t].pc = "advance"
    /\ IF TestDone(v)
       THEN job' = "awaiting_approval" /\ UNCHANGED st /\ Return(t)
       ELSE IF InOrder /\ With(v, "failed") # {}
       THEN /\ job' = "failed" /\ Return(t)
            /\ st' = [s \in Steps |->
                 IF v[s] \in {"pending", "awaiting_collector"} THEN "skipped" ELSE st[s]]
       ELSE IF InOrder /\ With(v, "pending") # {}
       THEN IF Central(next)
            THEN task' = [task EXCEPT ![t].pc = "loop"] /\ UNCHANGED <<job, st, lease>>
            ELSE /\ st' = [st EXCEPT ![next] = "awaiting_collector"]
                 /\ Return(t) /\ UNCHANGED job
       ELSE /\ job' = IF \A s \in Steps : v[s] \in Terminal THEN Verdict(v) ELSE job
            /\ UNCHANGED st /\ Return(t)
    /\ UNCHANGED <<saved, due, doing, faults, launches, gap, unleased, overlap,
                   ahead, rebooted>>

(* The administrator: approve (resume_os_install_job) and cancel.          *)
Approve(i) ==
    /\ job = "awaiting_approval" /\ ~Working(<<i, "free">>)
    /\ job' = "running"
    /\ Begin(<<i, "free">>, "loop") /\ BesideDriver
    /\ UNCHANGED <<st, saved, lease, due, doing, faults, launches, gap,
                   unleased, rebooted>>

Cancel ==
    /\ job \in {"pending", "running", "awaiting_approval"}
    /\ job' = "cancelled"
    /\ st' = [s \in Steps |-> IF st[s] = "pending" THEN "skipped" ELSE st[s]]
    /\ UNCHANGED <<saved, lease, task, due, doing, faults, launches, gap,
                   unleased, overlap, ahead, rebooted>>

-----------------------------------------------------------------------------
(* A process dies; the lease of a dead driver expires, and that of a       *)
(* living one if Redis does not hear of it in time.                        *)
Crash(i) ==
    /\ Fault("crash")
    /\ gap' = gap \cup {task[t].cur : t \in {u \in Tasks : u[1] = i /\ task[u].pc = "save"}}
    /\ task' = [t \in Tasks |-> IF t[1] = i THEN Off ELSE task[t]]
    /\ due' = {t \in due : t[1] # i}
    /\ UNCHANGED <<job, st, saved, lease, doing, launches, unleased, overlap,
                   ahead, rebooted>>

LeaseExpires ==
    /\ lease # Nobody
    /\ IF Working(<<lease, "exec">>) THEN Fault("lease") /\ unleased' = TRUE
                                     ELSE UNCHANGED <<faults, unleased>>
    /\ lease' = Nobody
    /\ UNCHANGED <<job, st, saved, task, due, doing, launches, gap, overlap,
                   ahead, rebooted>>

Same == UNCHANGED plan

Drive(t) == Same /\
    \/ Launch(t) \/ SaveSidecarJob(t) \/ Finish(t) \/ Yield(t) \/ Advance(t)
    \/ \E ok \in BOOLEAN : StepEnds(t, ok)
    \/ \E s \in Steps : \/ SkipStep(t, s) \/ Delegate(t, s) \/ RunStep(t, s)
                         \/ OwnReboot(t, s) \/ OwnRebootFails(t, s)

Report == Same /\ \E s \in Steps :
    FetchStep(s) \/ \E ok \in BOOLEAN : ReportStep(s, ok)

Lose == Same /\ \E s \in Steps : ReportLost(s)

Start(i) == Same /\ (Execute(i) \/ TurnedAway(i) \/ ReadForAdvance(i))

Tick == Same /\ \E i \in Instances : LookForOrphans(i)

Notice(i) == Same /\ NoteLost(i)

Expire == Same /\ LeaseExpires

Next ==
    \/ Report \/ Lose \/ Expire \/ Tick
    \/ \E i \in Instances : Start(i) \/ Notice(i)
    \/ \E t \in Tasks : Drive(t)
    \/ Same /\ (Cancel \/ \E i \in Instances : Approve(i) \/ Crash(i))

(* Drivers, background tasks, the scheduler of some leader and the         *)
(* collectors go on, and a dead driver's lease expires.                    *)
Spec ==
    /\ Init /\ [][Next]_vars
    /\ \A t \in Tasks : WF_vars(Drive(t))
    /\ \A i \in Instances : WF_vars(Start(i))
    /\ WF_vars(Report) /\ WF_vars(Expire) /\ WF_vars(Tick)

-----------------------------------------------------------------------------
StepStatus == {"pending", "running", "awaiting_collector"} \cup Terminal

(* The types of the state.                                                 *)
TypeOK ==
    /\ \E r \in Requests, i \in Instances : \E order \in NodeOrders(r.nodes, i) :
         plan = CreateJob(r, order)
    /\ job \in {"pending", "running", "awaiting_approval", "completed", "failed",
                "cancelled"}
    /\ st \in [Steps -> StepStatus] /\ saved \subseteq Steps /\ doing \subseteq Steps
    /\ lease \in Instances \cup {Nobody} /\ due \subseteq Tasks
    /\ task \in [Tasks -> [pc : {"off", "advance", "loop", "launch", "save", "wait"},
         view : [Steps -> StepStatus], ids : SUBSET Steps, failed : BOOLEAN,
         i : 1 .. Cardinality(Steps) + 1, cur : 0 .. Cardinality(Steps), lost : BOOLEAN]]
    /\ \E kind \in FaultKinds : faults \in 0 .. Limit(kind)
    /\ launches \in [Steps -> 0 .. 2] /\ gap \subseteq Steps
    /\ {unleased, overlap, ahead, rebooted} \subseteq BOOLEAN

(* "keep only one driver at a time": two processes execute the job at once *)
(* only after the lease lapsed under its holder or Redis could not be      *)
(* asked for it.                                                           *)
OneLeasedDriver ==
    \A i, j \in Instances :
      Working(<<i, "exec">>) /\ Working(<<j, "exec">>) => i = j \/ unleased

(* A driver that takes over an install follows the one that runs, by the   *)
(* id saved for it.  It is started again only if its driver died before    *)
(* the id was saved, or if two drivers were at work.                       *)
ResumedNotRelaunched ==
    \A s \in Steps : launches[s] > 1 => s \in gap \/ overlap

(* A job that is completed has no step that failed or is still going on,   *)
(* unless two drivers worked on it, or a driver came to the reboot of its  *)
(* own node, before which it calls the job completed whatever the others.  *)
CompletedIsComplete ==
    job = "completed" =>
      \/ \A s \in Steps : st[s] \in {"completed", "skipped"}
      \/ overlap \/ rebooted

(* The types, and the rows tell what was done.                             *)
JobInvariant == TypeOK /\ ResumedNotRelaunched /\ CompletedIsComplete

(* A cancelled job stays cancelled for good, once no driver and no advance *)
(* is left that read the job before and no task that is about to execute   *)
(* it: neither late reports nor the leader's scheduler revive it.          *)
CancelSettled ==
    /\ job = "cancelled"
    /\ \A t \in Tasks : ~Working(t) /\ (t \in due => t[2] = "free")

CancelHolds == [][CancelSettled => CancelSettled']_vars

(***************************************************************************)
(* A job that was begun ends or asks for approval, although processes of   *)
(* central die and their background tasks are lost with them, and although *)
(* reports of collectors were lost, if that ceases: a step whose reports   *)
(* are always lost is handed out at every poll and its job never ends.     *)
(***************************************************************************)
JobEnds == <>[][~Lose]_vars => (job = "running" ~> job # "running")

(***************************************************************************)
(* "For rolling/test_first: pause and let the collector complete before    *)
(* advancing to the next step": two steps are under way at once only if    *)
(* two drivers worked on the job, or one was begun while a step was under  *)
(* way.  The leader does begin one at each cycle: it takes a job that      *)
(* waits for a collector for an orphan.                                    *)
(***************************************************************************)
OneStepAtATime ==
    InOrder => overlap \/ ahead \/
      \A r, s \in Steps : UnderWay(r) /\ UnderWay(s) => r = s
=============================================================================
