--------------------------- MODULE OsInstallProofs ---------------------------
(***************************************************************************)
(* The driver lease of an OS install job, and the job itself, for any      *)
(* number of instances, any request and any number of faults.              *)
(***************************************************************************)
EXTENDS OsInstall, TLAPS, FiniteSetTheorems

TaskRecord ==
    [pc : {"off", "advance", "loop", "launch", "save", "wait"}, view : [Steps -> StepStatus],
     ids : SUBSET Int, failed : BOOLEAN, i : Int, cur : Int, lost : BOOLEAN]

Typed ==
    /\ Steps \subseteq Int
    /\ st \in [Steps -> StepStatus] /\ saved \subseteq Int
    /\ task \in [Tasks -> TaskRecord]
    /\ unleased \in BOOLEAN

(* The inductive invariant: a process that executes the job holds the      *)
(* lease, unless the lease failed some driver before.                      *)
DriverHolds ==
    \A i \in Instances : task[<<i, "exec">>].pc # "off" => lease = i \/ unleased

IInv == Typed /\ DriverHolds

(* A job as create_os_install_job leaves it has no driver.                *)
LEMMA InitIInv == Init => IInv
<1> SUFFICES ASSUME Init PROVE IInv
  OBVIOUS
<1>1. PICK r \in Requests, i \in Instances :
        \E order \in NodeOrders(r.nodes, i) : plan = CreateJob(r, order)
  BY DEF Init
<1>2. PICK order : plan = CreateJob(r, order)
  BY <1>1
<1>3. Steps \subseteq Int
  <2> DEFINE per == IF r.restart THEN 3 ELSE 1
             S == 1 .. per * Cardinality(r.nodes)
  <2>1. Steps = S
    BY <1>2 DEF Steps, CreateJob
  <2> QED BY <2>1
<1>4. Off \in TaskRecord
  <2>1. Pending \in [Steps -> StepStatus]
    BY DEF Pending, StepStatus
  <2> QED BY <2>1 DEF Off, TaskRecord
<1>5. Typed
  BY <1>3, <1>4 DEF Init, Typed, Pending, StepStatus
<1>6. DriverHolds
  BY DEF Init, DriverHolds, Off, Tasks
<1> QED BY <1>5, <1>6 DEF IInv

USE DEF Working

(* The driver that execute_os_install_job runs is one of the tasks.        *)
LEMMA ExecIsTask == \A i \in Instances : <<i, "exec">> \in Tasks
BY DEF Tasks

(* One driver moves on to a record that has its type.                      *)
LEMMA MoveDriver ==
  ASSUME Typed, NEW t \in Tasks, NEW r \in TaskRecord, task' = [task EXCEPT ![t] = r],
         r.pc # "off" => task[t].pc # "off"
  PROVE  /\ task' \in [Tasks -> TaskRecord]
         /\ \A u \in Tasks : task'[u].pc # "off" => task[u].pc # "off"
BY DEF Typed

(* A step that starts no driver and leaves the lease alone, or takes it    *)
(* from a driver that ends or is marked as having lost it.                 *)
LEMMA NoNewDriver ==
  ASSUME IInv, Same, task' \in [Tasks -> TaskRecord],
         st' \in [Steps -> StepStatus], saved' \subseteq Int,
         \A u \in Tasks : task'[u].pc # "off" => task[u].pc # "off",
         unleased' \in BOOLEAN, unleased => unleased',
         \A i \in Instances :
           lease = i /\ task'[<<i, "exec">>].pc # "off" => lease' = i \/ unleased'
  PROVE  IInv'
<1>1. Steps' = Steps /\ TaskRecord' = TaskRecord /\ StepStatus' = StepStatus
  BY DEF Same, Steps, TaskRecord, StepStatus, Terminal
<1>2. Typed'
  BY <1>1 DEF IInv, Typed
<1>3. DriverHolds'
  BY ExecIsTask DEF IInv, DriverHolds
<1> QED BY <1>2, <1>3 DEF IInv

(* The record of a driver that goes on behind a step.                      *)
LEMMA NextLoop ==
  ASSUME NEW q \in TaskRecord, NEW w \in [Steps -> StepStatus], NEW n \in Int,
         NEW c \in Int, NEW f \in BOOLEAN
  PROVE  [q EXCEPT !.pc = "loop", !.view = w, !.i = n, !.cur = c, !.failed = f]
           \in TaskRecord
<1> DEFINE u == [q EXCEPT !.pc = "loop", !.view = w, !.i = n, !.cur = c]
           v == [u EXCEPT !.failed = f]
<1>1. u \in TaskRecord
  BY DEF TaskRecord
<1>2. [q EXCEPT !.pc = "loop", !.view = w, !.i = n, !.cur = c, !.failed = f] = v
  BY DEF TaskRecord
<1> HIDE DEF u
<1>3. v \in TaskRecord
  <2>1. [u EXCEPT !.failed = TRUE] \in TaskRecord
    BY <1>1 DEF TaskRecord
  <2>2. [u EXCEPT !.failed = FALSE] \in TaskRecord
    BY <1>1 DEF TaskRecord
  <2>3. f = TRUE \/ f = FALSE
    OBVIOUS
  <2> QED BY <2>1, <2>2, <2>3, Zenon
<1> QED BY <1>2, <1>3, Zenon

(* The steps of a driver.                                                  *)
LEMMA DriveIInv ==
  ASSUME IInv, NEW t \in Tasks, Drive(t)
  PROVE  IInv'
<1>0. Same /\ Typed /\ task[t] \in TaskRecord
  BY DEF Drive, IInv, Typed
<1>a. Off \in TaskRecord /\ Off.pc = "off"
  <2>1. Pending \in [Steps -> StepStatus]
    BY DEF Pending, StepStatus
  <2> QED BY <2>1 DEF Off, TaskRecord
<1>b. {"running", "awaiting_collector", "completed", "failed", "skipped"} \subseteq StepStatus
  BY DEF StepStatus, Terminal
<1>c. ASSUME Return(t)
      PROVE  /\ task' \in [Tasks -> TaskRecord]
             /\ \A u \in Tasks : task'[u].pc # "off" => task[u].pc # "off"
             /\ \A i \in Instances :
                  lease = i /\ task'[<<i, "exec">>].pc # "off" => lease' = i
  <2>1. task' = [task EXCEPT ![t] = Off]
    BY <1>c DEF Return
  <2>2. /\ task' \in [Tasks -> TaskRecord]
        /\ \A u \in Tasks : task'[u].pc # "off" => task[u].pc # "off"
    BY <2>1, <1>0, <1>a, MoveDriver
  <2>3. \A i \in Instances :
          lease = i /\ task'[<<i, "exec">>].pc # "off" => lease' = i
    BY <1>c, <2>1, <1>0, <1>a, ExecIsTask DEF Return, Typed
  <2> QED BY <2>2, <2>3
(* advance_collector_job decides: it ends, or drives the steps itself.     *)
<1>d. ASSUME Advance(t) PROVE IInv'
  <2>1. task[t].pc # "off" /\ saved' = saved /\ unleased' = unleased
    BY <1>d DEF Advance
  <2>2. st' \in [Steps -> StepStatus]
    <3>1. \/ st' = st
          \/ \E v : st' = [s \in Steps |->
               IF v[s] \in {"pending", "awaiting_collector"} THEN "skipped" ELSE st[s]]
          \/ \E q : st' = [st EXCEPT ![q] = "awaiting_collector"]
      BY <1>d DEF Advance
    <3> QED BY <3>1, <1>0, <1>b DEF Typed
  <2>3. CASE Return(t)
    BY <2>1, <2>2, <2>3, <1>c, <1>0, NoNewDriver DEF IInv, Typed
  <2>4. CASE task' = [task EXCEPT ![t].pc = "loop"] /\ lease' = lease
    <3>1. [task[t] EXCEPT !.pc = "loop"] \in TaskRecord
      BY <1>0 DEF TaskRecord
    <3>2. task' = [task EXCEPT ![t] = [task[t] EXCEPT !.pc = "loop"]]
      BY <2>4
    <3>3. /\ task' \in [Tasks -> TaskRecord]
          /\ \A u \in Tasks : task'[u].pc # "off" => task[u].pc # "off"
      BY <2>1, <3>1, <3>2, <1>0, MoveDriver
    <3> QED BY <2>1, <2>2, <2>4, <3>3, <1>0, NoNewDriver DEF IInv, Typed
  <2> QED BY <1>d, <2>3, <2>4 DEF Advance
<1>1. CASE Launch(t)
  <2>1. [task[t] EXCEPT !.pc = "save"] \in TaskRecord
    BY <1>0 DEF TaskRecord
  <2>2. task' = [task EXCEPT ![t] = [task[t] EXCEPT !.pc = "save"]]
    BY <1>1 DEF Launch
  <2>3. /\ task' \in [Tasks -> TaskRecord]
        /\ \A u \in Tasks : task'[u].pc # "off" => task[u].pc # "off"
    BY <1>1, <2>1, <2>2, <1>0, MoveDriver DEF Launch
  <2> QED BY <1>1, <2>3, <1>0, NoNewDriver DEF Launch, IInv, Typed
<1>2. CASE SaveSidecarJob(t)
  <2> DEFINE r == [task[t] EXCEPT !.pc = "wait", !.ids = @ \cup {task[t].cur}]
  <2>1. task[t].cur \in Int
    BY <1>0 DEF TaskRecord
  <2>2. r \in TaskRecord
    BY <1>0, <2>1 DEF TaskRecord
  <2>3. task' = [task EXCEPT ![t] = r]
    BY <1>2 DEF SaveSidecarJob
  <2>4. /\ task' \in [Tasks -> TaskRecord]
        /\ \A u \in Tasks : task'[u].pc # "off" => task[u].pc # "off"
    BY <1>2, <2>2, <2>3, <1>0, MoveDriver DEF SaveSidecarJob
  <2> QED BY <1>2, <2>1, <2>4, <1>0, NoNewDriver DEF SaveSidecarJob, IInv, Typed
<1>3. CASE Finish(t)
  BY <1>3, <1>c, <1>0, NoNewDriver DEF Finish, IInv, Typed
<1>4. CASE Yield(t)
  BY <1>4, <1>c, <1>0, NoNewDriver DEF Yield, IInv, Typed
<1>5. ASSUME NEW s \in Steps, NEW v \in StepStatus, NEW i \in Int, Write(t, s, v, i),
             task[t].pc # "off"
      PROVE  /\ task' \in [Tasks -> TaskRecord] /\ st' \in [Steps -> StepStatus]
             /\ \A u \in Tasks : task'[u].pc # "off" => task[u].pc # "off"
  <2> DEFINE r == [task[t] EXCEPT !.view[s] = v, !.i = i]
  <2>1. r \in TaskRecord /\ r.pc = task[t].pc
    BY <1>0 DEF TaskRecord
  <2>2. task' = [task EXCEPT ![t] = r]
    BY <1>5 DEF Write
  <2>3. /\ task' \in [Tasks -> TaskRecord]
        /\ \A u \in Tasks : task'[u].pc # "off" => task[u].pc # "off"
    BY <2>1, <2>2, <1>0, MoveDriver
  <2> QED BY <1>5, <2>3, <1>0 DEF Write, Typed
<1>6. ASSUME NEW ok \in BOOLEAN, StepEnds(t, ok) PROVE IInv'
  <2> DEFINE s == task[t].cur
             v == IF ok THEN "completed" ELSE "failed"
             r == [task[t] EXCEPT !.pc = "loop", !.view[s] = v, !.i = s + 1,
                                  !.cur = 0, !.failed = @ \/ ~ok]
  <2>1. st' \in [Steps -> StepStatus] /\ v \in StepStatus
    BY <1>6, <1>0, <1>b DEF StepEnds, Typed
  <2>2. CASE Suspends(t, s, ok)
    BY <1>6, <2>1, <2>2, <1>c, <1>0, NoNewDriver DEF StepEnds, IInv, Typed
  <2>3. CASE ~Suspends(t, s, ok)
    <3>1. r \in TaskRecord
      <4>1. s \in Int /\ s + 1 \in Int
        BY <1>0 DEF TaskRecord
      <4>2. [task[t].view EXCEPT ![s] = v] \in [Steps -> StepStatus]
        BY <1>0, <2>1 DEF TaskRecord
      <4>3. task[t].failed \in BOOLEAN
        BY <1>0 DEF TaskRecord
      <4>4. (task[t].failed \/ ~ok) \in BOOLEAN
        BY <4>3
      <4> DEFINE f == task[t].failed \/ ~ok
                 w == [task[t].view EXCEPT ![s] = v]
      <4>5. f \in BOOLEAN /\ w \in [Steps -> StepStatus]
        BY <4>2, <4>4
      <4>6. r = [task[t] EXCEPT !.pc = "loop", !.view = w, !.i = s + 1,
                                !.cur = 0, !.failed = f]
        BY <1>0 DEF TaskRecord
      <4>7. 0 \in Int
        OBVIOUS
      <4> HIDE DEF f, w, r
      <4> QED BY <1>0, <4>1, <4>5, <4>6, <4>7, NextLoop, Zenon
    <3>2. task' = [task EXCEPT ![t] = r]
      BY <1>6, <2>3 DEF StepEnds
    <3>3. /\ task' \in [Tasks -> TaskRecord]
          /\ \A u \in Tasks : task'[u].pc # "off" => task[u].pc # "off"
      BY <1>6, <3>1, <3>2, <1>0, MoveDriver DEF StepEnds
    <3> QED BY <1>6, <2>1, <2>3, <3>3, <1>0, NoNewDriver DEF StepEnds, IInv, Typed
  <2> QED BY <2>2, <2>3
<1>7. ASSUME NEW s \in Steps, SkipStep(t, s) PROVE IInv'
  <2>1. s + 1 \in Int /\ task[t].pc # "off" /\ "skipped" \in StepStatus
    BY <1>7, <1>0, <1>b DEF SkipStep, Picked, Typed
  <2>2. Write(t, s, "skipped", s + 1)
    BY <1>7 DEF SkipStep
  <2> QED BY <1>7, <2>1, <2>2, <1>5, <1>0, NoNewDriver DEF SkipStep, IInv, Typed
<1>8. ASSUME NEW s \in Steps, Delegate(t, s) PROVE IInv'
  <2>1. s + 1 \in Int /\ task[t].pc # "off" /\ "awaiting_collector" \in StepStatus
    BY <1>8, <1>0, <1>b DEF Delegate, Picked, Typed
  <2>2. CASE InOrder
    <3>1. st' \in [Steps -> StepStatus]
      BY <1>8, <2>1, <2>2, <1>0 DEF Delegate, Typed
    <3> QED BY <1>8, <2>2, <3>1, <1>c, <1>0, NoNewDriver DEF Delegate, IInv, Typed
  <2>3. CASE ~InOrder
    <3>1. Write(t, s, "awaiting_collector", s + 1) /\ lease' = lease
      BY <1>8, <2>3 DEF Delegate
    <3> QED BY <1>8, <2>1, <3>1, <1>5, <1>0, NoNewDriver DEF Delegate, IInv, Typed
  <2> QED BY <2>2, <2>3
<1>9. ASSUME NEW s \in Steps, OwnReboot(t, s) PROVE IInv'
  <2>1. /\ task' \in [Tasks -> TaskRecord]
        /\ \A u \in Tasks : task'[u].pc # "off" => task[u].pc # "off"
    BY <1>9, <1>0, <1>a DEF OwnReboot, Typed
  <2>2. st' \in [Steps -> StepStatus]
    BY <1>9, <1>0, <1>b DEF OwnReboot, Typed
  <2> QED BY <1>9, <2>1, <2>2, <1>0, NoNewDriver DEF OwnReboot, IInv, Typed
<1>11. ASSUME NEW s \in Steps, OwnRebootFails(t, s) PROVE IInv'
  <2> DEFINE New(old) == [r \in Steps |->
               IF r = s THEN "failed" ELSE IF OwnCheck(t, r) THEN "completed" ELSE old[r]]
             w == New(task[t].view)
             r == [task[t] EXCEPT !.view = w, !.i = s + 1, !.failed = TRUE]
  <2>1. w \in [Steps -> StepStatus] /\ st' \in [Steps -> StepStatus] /\ s + 1 \in Int
    <3>1. task[t].view \in [Steps -> StepStatus] /\ st \in [Steps -> StepStatus]
      BY <1>0 DEF TaskRecord, Typed
    <3>2. st' = New(st)
      BY <1>11 DEF OwnRebootFails
    <3> QED BY <3>1, <3>2, <1>0, <1>b DEF Typed
  <2>2. task' = [task EXCEPT ![t] = r] /\ task[t].pc # "off"
    BY <1>11 DEF OwnRebootFails, AsksForReboot, Picked
  <2> HIDE DEF w
  <2>3. r \in TaskRecord
    BY <1>0, <2>1 DEF TaskRecord
  <2>4. /\ task' \in [Tasks -> TaskRecord]
        /\ \A u \in Tasks : task'[u].pc # "off" => task[u].pc # "off"
    BY <2>2, <2>3, <1>0, MoveDriver
  <2> QED BY <1>11, <2>1, <2>4, <1>0, NoNewDriver DEF OwnRebootFails, IInv, Typed
<1>10. ASSUME NEW s \in Steps, RunStep(t, s) PROVE IInv'
  <2> DEFINE p == IF Act(s) # "install" THEN "wait"
                  ELSE IF task[t].view[s] = "running" /\ s \in task[t].ids
                  THEN "wait" ELSE "launch"
             r == [task[t] EXCEPT !.view[s] = "running", !.i = s, !.cur = s, !.pc = p]
  <2>1. r \in TaskRecord
    BY <1>0, <1>b DEF TaskRecord, Typed
  <2>2. task' = [task EXCEPT ![t] = r] /\ task[t].pc # "off"
    BY <1>10 DEF RunStep, Picked
  <2>3. /\ task' \in [Tasks -> TaskRecord]
        /\ \A u \in Tasks : task'[u].pc # "off" => task[u].pc # "off"
    BY <2>1, <2>2, <1>0, MoveDriver
  <2>4. st' \in [Steps -> StepStatus]
    BY <1>10, <1>0, <1>b DEF RunStep, Typed
  <2> QED BY <1>10, <2>3, <2>4, <1>0, NoNewDriver DEF RunStep, IInv, Typed
<1> QED
  BY <1>1, <1>2, <1>3, <1>4, <1>d, <1>6, <1>7, <1>8, <1>9, <1>10, <1>11 DEF Drive

(* The other steps: of the collectors, the administrator and the lease,    *)
(* and those that start a driver.                                          *)
LEMMA StepIInv == IInv /\ [Next]_vars => IInv'
<1> SUFFICES ASSUME IInv, [Next]_vars PROVE IInv'
  OBVIOUS
<1>a. Off \in TaskRecord /\ Off.pc = "off"
  <2>1. Pending \in [Steps -> StepStatus]
    BY DEF Pending, StepStatus
  <2> QED BY <2>1 DEF Off, TaskRecord
<1>b. {"awaiting_collector", "completed", "failed", "skipped"} \subseteq StepStatus
  BY DEF StepStatus, Terminal
<1>c. Typed
  BY DEF IInv
<1>d. ASSUME NEW t \in Tasks, NEW at \in {"loop", "advance"}, Begin(t, at)
      PROVE  /\ task' \in [Tasks -> TaskRecord]
             /\ \A u \in Tasks \ {t} : task'[u] = task[u]
  <2> DEFINE r == [Off EXCEPT !.pc = at, !.view = st, !.ids = saved]
  <2>1. r \in TaskRecord
    BY <1>a, <1>c DEF TaskRecord, Typed
  <2>2. task' = [task EXCEPT ![t] = r]
    BY <1>d DEF Begin
  <2> HIDE DEF r
  <2> QED BY <2>1, <2>2, <1>c DEF Typed
<1>0. CASE UNCHANGED vars
  BY <1>0 DEF IInv, Typed, DriverHolds, TaskRecord, Steps, StepStatus, Terminal, vars
<1>1. ASSUME NEW t \in Tasks, Drive(t) PROVE IInv'
  BY <1>1, DriveIInv
<1>2. CASE Report
  <2>1. ASSUME NEW s \in Steps, FetchStep(s) PROVE IInv'
    BY <1>2, <2>1, <1>c, NoNewDriver DEF Report, FetchStep, IInv, Typed
  <2>2. ASSUME NEW s \in Steps, NEW ok \in BOOLEAN, ReportStep(s, ok) PROVE IInv'
    <3>1. st' \in [Steps -> StepStatus]
      BY <2>2, <1>b, <1>c DEF ReportStep, Typed
    <3> QED BY <1>2, <2>2, <3>1, <1>c, NoNewDriver DEF Report, ReportStep, IInv, Typed
  <2> QED BY <1>2, <2>1, <2>2 DEF Report
<1>10. CASE Lose
  BY <1>10, <1>c, NoNewDriver DEF Lose, ReportLost, IInv, Typed
<1>e. ASSUME NEW i \in Instances, NEW at \in {"loop", "advance"}, Same,
             Begin(<<i, "free">>, at), lease' = lease,
             unleased' = unleased, st' = st, saved' = saved
      PROVE  IInv'
  <2>1. <<i, "free">> \in Tasks /\ \A j \in Instances : <<j, "exec">> # <<i, "free">>
    BY DEF Tasks
  <2>2. /\ task' \in [Tasks -> TaskRecord]
        /\ \A u \in Tasks \ {<<i, "free">>} : task'[u] = task[u]
    BY <1>d, <1>e, <2>1
  <2>3. DriverHolds'
    BY <1>e, <2>1, <2>2, ExecIsTask DEF IInv, DriverHolds
  <2>4. Steps' = Steps /\ TaskRecord' = TaskRecord /\ StepStatus' = StepStatus
    BY <1>e DEF Same, Steps, TaskRecord, StepStatus, Terminal
  <2>5. Typed'
    BY <1>c, <1>e, <2>2, <2>4 DEF Typed
  <2> QED BY <2>3, <2>5 DEF IInv
<1>f. ASSUME NEW i \in Instances, Same, ReadForAdvance(i) PROVE IInv'
  <2>1. UNCHANGED <<lease, unleased, st, saved>>
    BY <1>f DEF ReadForAdvance
  <2>2. CASE Begin(<<i, "free">>, "advance")
    BY <1>e, <1>f, <2>1, <2>2
  <2>3. CASE task' = task
    BY <1>f, <2>1, <2>3, <1>c, NoNewDriver DEF IInv, Typed
  <2> QED BY <1>f, <2>2, <2>3 DEF ReadForAdvance
<1>3. ASSUME NEW i \in Instances, Start(i) PROVE IInv'
  <2>1. CASE Execute(i)
    <3>1. Same /\ Begin(<<i, "exec">>, "loop") /\ st' = st /\ saved' = saved
      BY <1>3, <2>1 DEF Start, Execute
    <3>2. /\ task' \in [Tasks -> TaskRecord]
          /\ \A u \in Tasks \ {<<i, "exec">>} : task'[u] = task[u]
      BY <1>d, <3>1, ExecIsTask
    <3>3. \/ lease = Nobody /\ lease' = i /\ unleased' = unleased
          \/ unleased' = TRUE
      BY <2>1 DEF Execute, Acquires
    <3>4. DriverHolds'
      <4> SUFFICES ASSUME NEW j \in Instances, task'[<<j, "exec">>].pc # "off"
                   PROVE  lease' = j \/ unleased'
        BY DEF DriverHolds
      <4>1. CASE j = i
        BY <3>3, <4>1
      <4>2. CASE j # i
        <5>1. task'[<<j, "exec">>] = task[<<j, "exec">>]
          BY <3>2, <4>2, ExecIsTask
        <5>2. lease = j \/ unleased
          BY <5>1 DEF IInv, DriverHolds
        <5> QED BY <3>3, <5>2, OsInstallAssumption
      <4> QED BY <4>1, <4>2
    <3>5. Steps' = Steps /\ TaskRecord' = TaskRecord /\ StepStatus' = StepStatus
      BY <3>1 DEF Same, Steps, TaskRecord, StepStatus, Terminal
    <3>6. unleased' \in BOOLEAN
      BY <3>3, <1>c DEF Typed
    <3>7. Typed'
      BY <1>c, <3>1, <3>2, <3>5, <3>6 DEF Typed
    <3> QED BY <3>4, <3>7 DEF IInv
  <2>2. CASE TurnedAway(i)
    BY <1>3, <2>2, <1>c, NoNewDriver DEF Start, TurnedAway, IInv, Typed
  <2>3. CASE ReadForAdvance(i)
    BY <1>3, <2>3, <1>f DEF Start
  <2> QED BY <1>3, <2>1, <2>2, <2>3 DEF Start
<1>9. CASE Tick
  BY <1>9, <1>c, NoNewDriver DEF Tick, LookForOrphans, IInv, Typed
<1>4. ASSUME NEW i \in Instances, Notice(i) PROVE IInv'
  <2> DEFINE t == <<i, "exec">>
             r == [task[t] EXCEPT !.lost = TRUE]
  <2>1. t \in Tasks /\ r \in TaskRecord /\ r.pc = task[t].pc
    BY ExecIsTask, <1>c DEF TaskRecord, Typed
  <2>2. task' = [task EXCEPT ![t] = r]
    BY <1>4 DEF Notice, NoteLost
  <2>3. /\ task' \in [Tasks -> TaskRecord]
        /\ \A u \in Tasks : task'[u].pc # "off" => task[u].pc # "off"
    BY <2>1, <2>2, <1>c, MoveDriver
  <2> QED BY <1>4, <2>3, <1>c, NoNewDriver DEF Notice, NoteLost, IInv, Typed
<1>5. CASE Expire
  <2>1. unleased' \in BOOLEAN /\ (unleased => unleased')
    BY <1>5, <1>c DEF Expire, LeaseExpires, Typed
  <2>2. \A i \in Instances : lease = i /\ task[<<i, "exec">>].pc # "off" => unleased'
    BY <1>5 DEF Expire, LeaseExpires
  <2> QED BY <1>5, <2>1, <2>2, <1>c, NoNewDriver DEF Expire, LeaseExpires, IInv, Typed
<1>6. CASE Same /\ Cancel
  <2>1. st' \in [Steps -> StepStatus]
    BY <1>6, <1>b, <1>c DEF Cancel, Typed
  <2> QED BY <1>6, <2>1, <1>c, NoNewDriver DEF Cancel, IInv, Typed
<1>7. ASSUME NEW i \in Instances, Same, Approve(i) PROVE IInv'
  BY <1>7, <1>e DEF Approve
<1>8. ASSUME NEW i \in Instances, Same, Crash(i) PROVE IInv'
  <2>1. /\ task' \in [Tasks -> TaskRecord]
        /\ \A u \in Tasks : task'[u].pc # "off" => task[u].pc # "off"
    BY <1>8, <1>a, <1>c DEF Crash, Typed
  <2> QED BY <1>8, <2>1, <1>c, NoNewDriver DEF Crash, IInv, Typed
<1> QED
  BY <1>0, <1>1, <1>2, <1>3, <1>4, <1>5, <1>6, <1>7, <1>8, <1>9, <1>10 DEF Next

(***************************************************************************)
(* Two processes execute the job at once only after the lease lapsed under *)
(* its holder, or Redis could not be asked for it: for any number of       *)
(* central nodes, any job and any number of faults.                        *)
(***************************************************************************)
THEOREM LeaseExclusive == Spec => []OneLeasedDriver
<1>1. IInv => OneLeasedDriver
  BY DEF IInv, DriverHolds, OneLeasedDriver
<1> QED BY InitIInv, StepIInv, <1>1, PTL DEF Spec

-----------------------------------------------------------------------------
(***************************************************************************)
(* The inductive invariant of the job.  Its types, and that a step that    *)
(* was launched or is being worked on is never pending again, hold always. *)
(* The rest holds as long as no driver began beside another (Alone).       *)
(***************************************************************************)
Busy == {"launch", "save", "wait"}

Created ==
    \E r \in Requests, i \in Instances : \E order \in NodeOrders(r.nodes, i) :
      plan = CreateJob(r, order)

Bounded == \E kind \in FaultKinds : faults \in 0 .. Limit(kind)

Shape ==
    /\ Created
    /\ job \in {"pending", "running", "awaiting_approval", "completed", "failed",
                "cancelled"}
    /\ saved \subseteq Steps /\ doing \subseteq Steps /\ gap \subseteq Steps
    /\ lease \in Instances \cup {Nobody} /\ due \subseteq Tasks
    /\ Bounded /\ launches \in [Steps -> 0 .. 2]
    /\ overlap \in BOOLEAN /\ ahead \in BOOLEAN /\ rebooted \in BOOLEAN
    /\ \A t \in Tasks :
         /\ task[t].ids \subseteq Steps /\ task[t].i \in 1 .. Cardinality(Steps) + 1
         /\ task[t].cur \in 0 .. Cardinality(Steps)
         /\ task[t].pc \in Busy => task[t].cur \in Steps

NotPendingAgain ==
    /\ \A s \in Steps : launches[s] > 0 => st[s] # "pending"
    /\ \A t \in Tasks : task[t].pc \in Busy => st[task[t].cur] # "pending"
    /\ \A t \in Tasks, s \in Steps : task[t].view[s] # "pending" => st[s] # "pending"

(* One driver at most, which knows the statuses but for a cancellation and *)
(* the reports of collectors.                                              *)
OneDriver == \A t, u \in Tasks : Working(t) /\ Working(u) => t = u

ViewHolds ==
    \A t \in Tasks : Working(t) => \A s \in Steps :
      \/ task[t].view[s] = st[s]
      \/ task[t].view[s] = "pending" /\ st[s] = "skipped"
      \/ task[t].view[s] = "awaiting_collector" /\ st[s] \in {"completed", "failed"}

EndsComplete ==
    job = "completed" =>
      \/ rebooted
      \/ /\ \A t \in Tasks : ~Working(t)
         /\ \A s \in Steps : st[s] \in {"completed", "skipped"}

(* An install that was started is known by its id, to the driver too,      *)
(* unless its driver died before it could save it.                         *)
Follows ==
    /\ \A t \in Tasks : Working(t) =>
         /\ saved \subseteq task[t].ids
         /\ \A s \in Steps : launches[s] > 0 => task[t].view[s] # "pending"
         /\ task[t].pc \in Busy => task[t].view[task[t].cur] # "pending"
    /\ \A s \in Steps \ gap : launches[s] > 0 =>
         s \in saved \/ \E t \in Tasks : task[t].pc = "save" /\ task[t].cur = s
    /\ \A t \in Tasks : task[t].pc = "launch" =>
         launches[task[t].cur] = 0 \/ task[t].cur \in gap
    /\ \A s \in Steps : launches[s] > 1 => s \in gap

(* Steps in order: the only step under way is the one its driver is at.    *)
InTurn ==
    InOrder => ahead \/
      /\ \A r, s \in Steps : UnderWay(r) /\ UnderWay(s) => r = s
      /\ \A t \in Tasks : Working(t) => \A s \in Steps :
           UnderWay(s) => task[t].pc \in Busy /\ s = task[t].cur

Alone == OneDriver /\ ViewHolds /\ EndsComplete /\ Follows /\ InTurn

JInv == Shape /\ NotPendingAgain /\ (overlap \/ Alone)

(* The steps of a job are numbered from 1.                                 *)
LEMMA StepsInterval ==
    ASSUME Created
    PROVE  Cardinality(Steps) \in Nat /\ Steps = 1 .. Cardinality(Steps)
<1>1. PICK r \in Requests : \E order : plan = CreateJob(r, order)
  BY DEF Created
<1>2. PICK order : plan = CreateJob(r, order)
  BY <1>1
<1> DEFINE n == (IF r.restart THEN 3 ELSE 1) * Cardinality(r.nodes)
<1>3. Steps = 1 .. n
  BY <1>2 DEF Steps, CreateJob
<1>4. Cardinality(r.nodes) \in Nat
  BY OsInstallAssumption, FS_CardinalityType
<1>5. n \in Nat
  BY <1>4
<1> HIDE DEF n
<1>6. Cardinality(1 .. n) = n
  <2>1. Cardinality(1 .. n) = IF 1 > n THEN 0 ELSE n - 1 + 1
    BY <1>5, FS_Interval
  <2> QED BY <2>1, <1>5
<1> QED BY <1>3, <1>5, <1>6

(* The job itself is written once.                                         *)
LEMMA SameJob ==
    ASSUME Same
    PROVE  /\ Steps' = Steps /\ (Created' <=> Created) /\ Strategy' = Strategy
           /\ (InOrder' <=> InOrder)
           /\ \A s : Act(s)' = Act(s) /\ (Central(s)' <=> Central(s))
BY DEF Same, Steps, Created, Strategy, InOrder, Act, Central, Host

(* So is the bound of its faults.                                          *)
LEMMA LimitsKept ==
    ASSUME Same
    PROVE  \A kind : Limit(kind)' = Limit(kind)
BY DEF Same, Limit

LEMMA FaultsKept ==
    ASSUME Same, Bounded, faults' = faults
    PROVE  Bounded'
BY LimitsKept DEF Bounded, FaultKinds

LEMMA InitJInv == Init => JInv
<1> SUFFICES ASSUME Init PROVE JInv
  OBVIOUS
<1>1. Created
  BY DEF Init, Created
<1>2. Cardinality(Steps) \in Nat /\ Steps = 1 .. Cardinality(Steps)
  BY <1>1, StepsInterval
<1>3. \A t \in Tasks : task[t] = Off
  BY DEF Init
<1>4. /\ Off.pc = "off" /\ Off.ids = {} /\ Off.i = 1 /\ Off.cur = 0
      /\ \A s \in Steps : Off.view[s] = "pending"
  BY DEF Off, Pending
<1>5. due \subseteq Tasks
  BY DEF Init, Tasks
<1>6. Limit("crash") \in Nat
  <2>1. PICK r \in Requests : \E order : plan = CreateJob(r, order)
    BY <1>1 DEF Created
  <2>2. plan.request = r
    BY <2>1 DEF CreateJob
  <2> QED BY <2>2, OsInstallAssumption DEF Limit, FaultKinds
<1>7. Shape
  <2>1. \A t \in Tasks :
          /\ task[t].ids \subseteq Steps /\ task[t].i \in 1 .. Cardinality(Steps) + 1
          /\ task[t].cur \in 0 .. Cardinality(Steps)
          /\ task[t].pc \in Busy => task[t].cur \in Steps
    BY <1>2, <1>3, <1>4 DEF Busy
  <2>2. /\ job = "pending" /\ saved = {} /\ doing = {} /\ gap = {} /\ lease = Nobody
        /\ faults = 0 /\ launches = [s \in Steps |-> 0]
        /\ overlap = FALSE /\ ahead = FALSE /\ rebooted = FALSE
    BY DEF Init
  <2>3. launches \in [Steps -> 0 .. 2] /\ Bounded
    BY <2>2, <1>6 DEF Bounded, FaultKinds
  <2> QED BY <1>1, <1>5, <2>1, <2>2, <2>3 DEF Shape
<1>8. NotPendingAgain
  BY <1>3, <1>4 DEF Init, NotPendingAgain, Busy
<1>9. \A t \in Tasks : ~Working(t)
  BY <1>3, <1>4
<1>10. Alone
  <2>1. \A s \in Steps : ~UnderWay(s) /\ launches[s] = 0
    BY DEF Init, Pending, UnderWay
  <2>2. OneDriver /\ ViewHolds /\ EndsComplete
    BY <1>9 DEF Init, OneDriver, ViewHolds, EndsComplete
  <2>3. Follows /\ InTurn
    BY <2>1, <1>9 DEF Follows, InTurn
  <2> QED BY <2>2, <2>3 DEF Alone
<1> QED BY <1>7, <1>8, <1>10 DEF JInv

(***************************************************************************)
(* A driver that was alone has returned: nobody works on the job.          *)
(***************************************************************************)
LEMMA LastDriverLeaves ==
    ASSUME IInv, JInv, Alone, Same,
           \A u \in Tasks : task'[u].pc = "off",
           \A u \in Tasks : task[u].pc # "save",
           UNCHANGED <<saved, launches, gap, ahead>>,
           job' = "completed" =>
             rebooted' \/ \A s \in Steps : st'[s] \in {"completed", "skipped"},
           InOrder => ahead \/ \A r, s \in Steps : UnderWay(r)' /\ UnderWay(s)' => r = s
    PROVE  Alone'
<1>s. /\ Steps' = Steps /\ (InOrder' <=> InOrder)
      /\ \A s : Act(s)' = Act(s) /\ (Central(s)' <=> Central(s))
  BY SameJob
<1>1. OneDriver' /\ ViewHolds' /\ EndsComplete'
  BY <1>s DEF OneDriver, ViewHolds, EndsComplete
<1>2. Follows'
  BY <1>s DEF Alone, Follows
<1>3. InTurn'
  BY <1>s DEF InTurn
<1> QED BY <1>1, <1>2, <1>3 DEF Alone

(***************************************************************************)
(* A driver that is alone goes on: what it must show about itself.         *)
(***************************************************************************)
LEMMA DriverGoesOn ==
    ASSUME Alone, Same, NEW t \in Tasks, Working(t),
           \A u \in Tasks : u # t => task'[u] = task[u],
           Working(t)' ,
           (job' = job /\ rebooted' = rebooted) \/ rebooted',
           ahead' = ahead, gap' = gap,
           \A s \in Steps :
             \/ task'[t].view[s] = st'[s]
             \/ task'[t].view[s] = "pending" /\ st'[s] = "skipped"
             \/ task'[t].view[s] = "awaiting_collector" /\ st'[s] \in {"completed", "failed"},
           saved' \subseteq task'[t].ids,
           \A s \in Steps : launches'[s] > 0 => task'[t].view[s] # "pending",
           task'[t].pc \in Busy => task'[t].view[task'[t].cur] # "pending",
           \A s \in Steps \ gap : launches'[s] > 0 =>
             s \in saved' \/ (task'[t].pc = "save" /\ task'[t].cur = s),
           task'[t].pc = "launch" =>
             launches'[task'[t].cur] = 0 \/ task'[t].cur \in gap,
           \A s \in Steps : launches'[s] > 1 => s \in gap,
           InOrder => ahead \/ \A s \in Steps :
             UnderWay(s)' => task'[t].pc \in Busy /\ s = task'[t].cur
    PROVE  Alone'
<1>s. /\ Steps' = Steps /\ (InOrder' <=> InOrder)
      /\ \A s : Act(s)' = Act(s) /\ (Central(s)' <=> Central(s))
  BY SameJob
<1>1. \A u \in Tasks : task'[u].pc # "off" => u = t
  BY DEF Alone, OneDriver
<1>2. OneDriver' /\ ViewHolds' /\ EndsComplete'
  <2>1. OneDriver'
    BY <1>1 DEF OneDriver
  <2>2. ViewHolds'
    BY <1>1, <1>s DEF ViewHolds
  <2>3. EndsComplete'
    BY DEF Alone, EndsComplete
  <2> QED BY <2>1, <2>2, <2>3
<1>3. Follows'
  <2>1. \A u \in Tasks : Working(u)' =>
         /\ saved' \subseteq task'[u].ids
         /\ \A s \in Steps : launches'[s] > 0 => task'[u].view[s] # "pending"
         /\ task'[u].pc \in Busy => task'[u].view[task'[u].cur] # "pending"
    BY <1>1
  <2>2. \A u \in Tasks : task'[u].pc = "launch" =>
         launches'[task'[u].cur] = 0 \/ task'[u].cur \in gap
    BY <1>1
  <2>3. \A s \in Steps \ gap : launches'[s] > 0 =>
         s \in saved' \/ \E u \in Tasks : task'[u].pc = "save" /\ task'[u].cur = s
    OBVIOUS
  <2> QED BY <2>1, <2>2, <2>3, <1>s DEF Follows, Busy
<1>4. InTurn'
  BY <1>1, <1>s DEF InTurn
<1> QED BY <1>2, <1>3, <1>4 DEF Alone

(* What a driver's step leaves of Shape, if its own record fits.           *)
LEMMA DriverFits ==
    ASSUME Shape, Same, NEW t \in Tasks,
           \A u \in Tasks : u # t => task'[u] = task[u],
           task'[t].ids \subseteq Steps, task'[t].i \in 1 .. Cardinality(Steps) + 1,
           task'[t].cur \in 0 .. Cardinality(Steps),
           task'[t].pc \in Busy => task'[t].cur \in Steps,
           job' \in {"pending", "running", "awaiting_approval", "completed", "failed",
                     "cancelled"},
           saved' \subseteq Steps, lease' \in Instances \cup {Nobody},
           launches' \in [Steps -> 0 .. 2],
           UNCHANGED <<due, doing, faults, gap, overlap, ahead>>,
           rebooted' \in {rebooted, TRUE}
    PROVE  Shape'
<1>1. Steps' = Steps /\ Created' /\ Bounded'
  BY SameJob, FaultsKept DEF Shape
<1>2. \A u \in Tasks :
         /\ task'[u].ids \subseteq Steps /\ task'[u].i \in 1 .. Cardinality(Steps) + 1
         /\ task'[u].cur \in 0 .. Cardinality(Steps)
         /\ task'[u].pc \in Busy => task'[u].cur \in Steps
  BY DEF Shape
<1> QED BY <1>1, <1>2 DEF Shape, Busy

(* Nor is a step pending again, if the driver itself does not make it so.  *)
LEMMA DriverKeepsNotPending ==
    ASSUME NotPendingAgain, Shape, Same, NEW t \in Tasks,
           \A u \in Tasks : u # t => task'[u] = task[u],
           \A s \in Steps : st[s] # "pending" => st'[s] # "pending",
           \A s \in Steps : launches'[s] > 0 => launches[s] > 0 \/ st'[s] # "pending",
           task'[t].pc \in Busy => st'[task'[t].cur] # "pending",
           \A s \in Steps : task'[t].view[s] # "pending" =>
             task[t].view[s] # "pending" \/ st'[s] # "pending"
    PROVE  NotPendingAgain'
<1>1. Steps' = Steps
  BY SameJob
<1>2. \A s \in Steps : launches'[s] > 0 => st'[s] # "pending"
  BY DEF NotPendingAgain
<1>3. \A u \in Tasks : task'[u].pc \in Busy => st'[task'[u].cur] # "pending"
  BY DEF NotPendingAgain, Shape
<1>4. \A u \in Tasks, s \in Steps : task'[u].view[s] # "pending" => st'[s] # "pending"
  BY DEF NotPendingAgain
<1> QED BY <1>1, <1>2, <1>3, <1>4 DEF NotPendingAgain, Busy

LEMMA OffFields ==
    /\ Off.pc = "off" /\ Off.ids = {} /\ Off.i = 1 /\ Off.cur = 0
    /\ \A s \in Steps : Off.view[s] = "pending"
BY DEF Off, Pending

LEMMA DriveJInv ==
  ASSUME IInv, JInv, NEW t \in Tasks, Drive(t)
  PROVE  JInv'
<1>0. /\ Same /\ Typed /\ task[t] \in TaskRecord /\ Shape /\ NotPendingAgain
      /\ task \in [Tasks -> TaskRecord] /\ st \in [Steps -> StepStatus]
      /\ task[t].view \in [Steps -> StepStatus]
  BY DEF Drive, IInv, Typed, JInv, TaskRecord
<1>n. Cardinality(Steps) \in Nat /\ Steps = 1 .. Cardinality(Steps) /\ Steps' = Steps
  BY <1>0, StepsInterval, SameJob DEF Shape
<1>f. /\ task[t].ids \subseteq Steps /\ task[t].i \in 1 .. Cardinality(Steps) + 1
      /\ task[t].cur \in 0 .. Cardinality(Steps)
      /\ job \in {"pending", "running", "awaiting_approval", "completed", "failed",
                  "cancelled"}
      /\ saved \subseteq Steps /\ lease \in Instances \cup {Nobody}
      /\ launches \in [Steps -> 0 .. 2]
  BY <1>0 DEF Shape
<1>w. ASSUME task[t].pc # "off", ~overlap
      PROVE  /\ Alone /\ \A u \in Tasks : task[u].pc # "off" => u = t
             /\ job = "completed" => rebooted
             /\ \A s \in Steps :
                  \/ task[t].view[s] = st[s]
                  \/ task[t].view[s] = "pending" /\ st[s] = "skipped"
                  \/ task[t].view[s] = "awaiting_collector" /\ st[s] \in {"completed", "failed"}
             /\ saved \subseteq task[t].ids
             /\ \A s \in Steps : launches[s] > 0 => task[t].view[s] # "pending"
             /\ task[t].pc \in Busy => task[t].view[task[t].cur] # "pending"
             /\ \A s \in Steps \ gap : launches[s] > 0 =>
                  s \in saved \/ (task[t].pc = "save" /\ task[t].cur = s)
             /\ \A s \in Steps : launches[s] > 1 => s \in gap
             /\ InOrder => ahead \/ \A s \in Steps :
                  UnderWay(s) => task[t].pc \in Busy /\ s = task[t].cur
  <2>1. Alone
    BY <1>w DEF JInv
  <2>2. \A u \in Tasks : task[u].pc # "off" => u = t
    BY <2>1, <1>w DEF Alone, OneDriver
  <2>3. job = "completed" => rebooted
    BY <2>1, <1>w DEF Alone, EndsComplete
  <2>4. \A s \in Steps :
          \/ task[t].view[s] = st[s]
          \/ task[t].view[s] = "pending" /\ st[s] = "skipped"
          \/ task[t].view[s] = "awaiting_collector" /\ st[s] \in {"completed", "failed"}
    BY <2>1, <1>w DEF Alone, ViewHolds
  <2>5. /\ saved \subseteq task[t].ids
        /\ \A s \in Steps : launches[s] > 0 => task[t].view[s] # "pending"
        /\ task[t].pc \in Busy => task[t].view[task[t].cur] # "pending"
        /\ \A s \in Steps \ gap : launches[s] > 0 =>
             s \in saved \/ (task[t].pc = "save" /\ task[t].cur = s)
        /\ \A s \in Steps : launches[s] > 1 => s \in gap
    BY <2>1, <2>2, <1>w DEF Alone, Follows
  <2>6. InOrder => ahead \/ \A s \in Steps :
          UnderWay(s) => task[t].pc \in Busy /\ s = task[t].cur
    BY <2>1, <1>w DEF Alone, InTurn
  <2> QED BY <2>1, <2>2, <2>3, <2>4, <2>5, <2>6
<1>r. ASSUME Return(t)
      PROVE  /\ task'[t].pc = "off" /\ task'[t].ids = {} /\ task'[t].i = 1 /\ task'[t].cur = 0
             /\ \A s \in Steps : task'[t].view[s] = "pending"
             /\ \A u \in Tasks : u # t => task'[u] = task[u]
             /\ lease' \in Instances \cup {Nobody}
             /\ 1 \in 1 .. Cardinality(Steps) + 1 /\ 0 \in 0 .. Cardinality(Steps)
  BY <1>r, <1>0, <1>n, OffFields DEF Return, Shape
(* A driver that is alone and returns from its loop or from a step.        *)
<1>e. ASSUME Return(t), task[t].pc \in {"advance", "loop", "wait"}, ~overlap,
             UNCHANGED <<saved, launches, gap, ahead>>,
             job' = "completed" =>
               rebooted' \/ \A s \in Steps : st'[s] \in {"completed", "skipped"},
             InOrder => ahead \/ \A r, s \in Steps : UnderWay(r)' /\ UnderWay(s)' => r = s
      PROVE  Alone'
  <2>1. /\ Alone /\ \A u \in Tasks : task[u].pc # "off" => u = t
    BY <1>e, <1>w
  <2>2. \A u \in Tasks : task'[u].pc = "off" /\ task[u].pc # "save"
    BY <2>1, <1>e, <1>r
  <2> QED BY <2>1, <2>2, <1>e, <1>0, LastDriverLeaves
<1>1. CASE Launch(t)
  <2> DEFINE c == task[t].cur
  <2>1. /\ task[t].pc = "launch"
        /\ task'[t].pc = "save" /\ task'[t].view = task[t].view /\ task'[t].ids = task[t].ids
        /\ task'[t].i = task[t].i /\ task'[t].cur = c
        /\ \A u \in Tasks : u # t => task'[u] = task[u]
        /\ UNCHANGED <<job, st, saved, lease, due, doing, faults, gap, overlap, ahead, rebooted>>
    BY <1>1, <1>0 DEF Launch, TaskRecord
  <2>2. c \in Steps /\ launches[c] \in 0 .. 2
    BY <2>1, <1>0 DEF Shape, Busy
  <2>3. /\ launches' \in [Steps -> 0 .. 2]
        /\ launches'[c] = IF launches[c] < 2 THEN launches[c] + 1 ELSE launches[c]
        /\ \A s \in Steps : s # c => launches'[s] = launches[s]
    BY <1>1, <2>2, <1>0 DEF Launch, Shape
  <2> HIDE DEF c
  <2>4. Shape'
    BY <2>1, <2>2, <2>3, <1>0, <1>f, DriverFits DEF c
  <2>5. NotPendingAgain'
    <3>1. st[c] # "pending"
      BY <2>1, <1>0 DEF NotPendingAgain, Busy, c
    <3> QED BY <2>1, <2>2, <2>3, <3>1, <1>0, DriverKeepsNotPending
  <2>6. ASSUME ~overlap PROVE Alone'
    <3>1. task[t].pc # "off" /\ task[t].pc \in Busy /\ task'[t].pc # "off" /\ task'[t].pc \in Busy
      BY <2>1 DEF Busy
    <3>2. launches[c] = 0 \/ c \in gap
      BY <2>1, <2>6, <3>1, <1>w DEF Alone, Follows, c
    <3>3. /\ \A s \in Steps : launches'[s] > 1 => s \in gap
          /\ \A s \in Steps \ gap : launches'[s] > 0 => s \in saved \/ s = c
      BY <2>1, <2>2, <2>3, <2>6, <3>1, <3>2, <1>w
    <3>4. /\ \A s \in Steps : launches'[s] > 0 => task[t].view[s] # "pending"
          /\ task[t].view[c] # "pending"
      BY <2>3, <2>6, <3>1, <1>w DEF c
    <3>5. InOrder => ahead \/ \A s \in Steps : UnderWay(s)' => s = c
      BY <2>1, <2>6, <3>1, <1>w DEF UnderWay, c
    <3> QED BY <2>1, <2>6, <3>1, <3>3, <3>4, <3>5, <1>0, <1>w, DriverGoesOn
  <2> QED BY <2>1, <2>4, <2>5, <2>6 DEF JInv
<1>2. CASE SaveSidecarJob(t)
  <2> DEFINE c == task[t].cur
  <2>1. /\ task[t].pc = "save"
        /\ task'[t].pc = "wait" /\ task'[t].view = task[t].view
        /\ task'[t].ids = task[t].ids \cup {c}
        /\ task'[t].i = task[t].i /\ task'[t].cur = c
        /\ \A u \in Tasks : u # t => task'[u] = task[u]
        /\ saved' = saved \cup {c}
        /\ UNCHANGED <<job, st, lease, due, doing, faults, launches, gap, overlap, ahead, rebooted>>
    BY <1>2, <1>0 DEF SaveSidecarJob, TaskRecord
  <2>2. c \in Steps
    BY <2>1, <1>0 DEF Shape, Busy
  <2> HIDE DEF c
  <2>4. Shape'
    BY <2>1, <2>2, <1>0, DriverFits DEF Shape, c
  <2>5. NotPendingAgain'
    <3>1. st[c] # "pending"
      BY <2>1, <1>0 DEF NotPendingAgain, Busy, c
    <3> QED BY <2>1, <3>1, <1>0, DriverKeepsNotPending
  <2>6. ASSUME ~overlap PROVE Alone'
    <3>1. task[t].pc # "off" /\ task[t].pc \in Busy /\ task'[t].pc # "off" /\ task'[t].pc \in Busy
      BY <2>1 DEF Busy
    <3>2. \A s \in Steps \ gap : launches'[s] > 0 => s \in saved'
      BY <2>1, <2>6, <3>1, <1>w DEF c
    <3>3. task[t].view[c] # "pending" /\ saved' \subseteq task'[t].ids
      BY <2>1, <2>6, <3>1, <1>w DEF c
    <3>4. InOrder => ahead \/ \A s \in Steps : UnderWay(s)' => s = c
      BY <2>1, <2>6, <3>1, <1>w DEF UnderWay, c
    <3> QED BY <2>1, <2>6, <3>1, <3>2, <3>3, <3>4, <1>0, <1>w, DriverGoesOn
  <2> QED BY <2>1, <2>4, <2>5, <2>6 DEF JInv
<1>3. CASE Yield(t)
  <2>1. /\ Return(t) /\ task[t].pc = "loop"
        /\ UNCHANGED <<job, st, saved, due, doing, faults, launches, gap, overlap, ahead, rebooted>>
    BY <1>3 DEF Yield
  <2>2. Shape'
    BY <2>1, <1>r, <1>0, DriverFits DEF Shape, Busy
  <2>3. NotPendingAgain'
    BY <2>1, <1>r, <1>0, DriverKeepsNotPending DEF Busy
  <2>4. ASSUME ~overlap PROVE Alone'
    <3>1. (job = "completed" => rebooted) /\ Alone
      BY <2>1, <2>4, <1>w
    <3>2. InOrder => ahead \/ \A r, s \in Steps : UnderWay(r)' /\ UnderWay(s)' => r = s
      BY <2>1, <3>1 DEF Alone, InTurn, UnderWay
    <3> QED BY <2>1, <2>4, <3>1, <3>2, <1>e
  <2> QED BY <2>1, <2>2, <2>3, <2>4 DEF JInv
<1>4. CASE Finish(t)
  <2>1. /\ Return(t) /\ task[t].pc = "loop"
        /\ UNCHANGED <<st, saved, due, doing, faults, launches, gap, overlap, ahead, rebooted>>
        /\ job' = job \/ job' = Verdict(task[t].view)
    BY <1>4 DEF Finish
  <2>2. Shape'
    <3>1. job' \in {"pending", "running", "awaiting_approval", "completed", "failed", "cancelled"}
      BY <2>1, <1>0 DEF Shape, Verdict
    <3> QED BY <2>1, <3>1, <1>r, <1>0, DriverFits DEF Shape, Busy
  <2>3. NotPendingAgain'
    BY <2>1, <1>r, <1>0, DriverKeepsNotPending DEF Busy
  <2>4. ASSUME ~overlap PROVE Alone'
    <3>1. (job = "completed" => rebooted) /\ Alone
      BY <2>1, <2>4, <1>w
    <3>2. InOrder => ahead \/ \A r, s \in Steps : UnderWay(r)' /\ UnderWay(s)' => r = s
      BY <2>1, <3>1 DEF Alone, InTurn, UnderWay
    <3>3. job' = "completed" =>
            rebooted' \/ \A s \in Steps : st'[s] \in {"completed", "skipped"}
      <4>1. job' = "completed" =>
              rebooted' \/ \A s \in Steps : task[t].view[s] \in {"completed", "skipped"}
        BY <2>1, <3>1 DEF Verdict
      <4> QED BY <2>1, <2>4, <4>1, <1>w
    <3> QED BY <2>1, <2>4, <3>1, <3>2, <3>3, <1>e
  <2> QED BY <2>1, <2>2, <2>3, <2>4 DEF JInv
<1>5. ASSUME NEW ok \in BOOLEAN, StepEnds(t, ok) PROVE JInv'
  <2> DEFINE s == task[t].cur
             v == IF ok THEN "completed" ELSE "failed"
  <2>0. /\ task[t].pc = "wait" /\ task[t].pc \in Busy /\ s \in Steps /\ v \in {"completed", "failed"}
    BY <1>5, <1>0 DEF StepEnds, Shape, Busy
  <2>1. /\ st'[s] = v /\ \A r \in Steps : r # s => st'[r] = st[r]
        /\ UNCHANGED <<saved, due, doing, faults, launches, gap, overlap, ahead, rebooted>>
    BY <1>5, <2>0, <1>0 DEF StepEnds
  <2>2. ASSUME ~overlap PROVE InOrder => ahead \/ \A r \in Steps : ~UnderWay(r)'
    BY <2>0, <2>1, <2>2, <1>w DEF UnderWay
  <2>3. CASE Suspends(t, s, ok)
    <3>1. Return(t) /\ job' = "awaiting_approval"
      BY <1>5, <2>3 DEF StepEnds
    <3> HIDE DEF s, v
    <3>2. Shape'
      BY <2>1, <3>1, <1>r, <1>0, DriverFits DEF Shape, Busy
    <3>3. NotPendingAgain'
      BY <2>0, <2>1, <3>1, <1>r, <1>0, DriverKeepsNotPending DEF Busy
    <3>4. ASSUME ~overlap PROVE Alone'
      BY <2>0, <2>1, <2>2, <3>1, <3>4, <1>e
    <3> QED BY <2>1, <3>2, <3>3, <3>4 DEF JInv
  <2>4. CASE ~Suspends(t, s, ok)
    <3>1. /\ task'[t].pc = "loop" /\ task'[t].view = [task[t].view EXCEPT ![s] = v]
          /\ task'[t].ids = task[t].ids /\ task'[t].i = s + 1 /\ task'[t].cur = 0
          /\ \A u \in Tasks : u # t => task'[u] = task[u]
          /\ UNCHANGED <<job, lease>>
      BY <1>5, <2>4, <1>0 DEF StepEnds, TaskRecord
    <3>2. /\ task'[t].view[s] = v
          /\ \A r \in Steps : r # s => task'[t].view[r] = task[t].view[r]
      BY <2>0, <3>1, <1>0
    <3> HIDE DEF s, v
    <3>3. Shape'
      <4>1. s + 1 \in 1 .. Cardinality(Steps) + 1 /\ 0 \in 0 .. Cardinality(Steps)
        BY <2>0, <1>n
      <4>2. task'[t].pc \notin Busy
        BY <3>1 DEF Busy
      <4> QED BY <2>1, <3>1, <4>1, <4>2, <1>0, <1>f, DriverFits
    <3>4. NotPendingAgain'
      BY <2>0, <2>1, <3>1, <3>2, <1>0, DriverKeepsNotPending DEF Busy
    <3>5. ASSUME ~overlap PROVE Alone'
      <4>1. task[t].pc # "off" /\ task'[t].pc # "off" /\ task'[t].pc \notin Busy
        BY <2>0, <3>1 DEF Busy
      <4>2. \A r \in Steps :
             \/ task'[t].view[r] = st'[r]
             \/ task'[t].view[r] = "pending" /\ st'[r] = "skipped"
             \/ task'[t].view[r] = "awaiting_collector" /\ st'[r] \in {"completed", "failed"}
        BY <2>1, <3>2, <3>5, <4>1, <1>w
      <4>3. \A r \in Steps : launches'[r] > 0 => task'[t].view[r] # "pending"
        BY <2>0, <2>1, <3>2, <3>5, <4>1, <1>w
      <4>4. /\ \A r \in Steps \ gap : launches'[r] > 0 => r \in saved'
            /\ \A r \in Steps : launches'[r] > 1 => r \in gap
            /\ saved' \subseteq task'[t].ids /\ Alone
        BY <2>0, <2>1, <3>1, <3>5, <4>1, <1>w
      <4> QED BY <2>1, <2>2, <3>1, <3>5, <4>1, <4>2, <4>3, <4>4, <1>0, DriverGoesOn DEF Busy
    <3> QED BY <2>1, <3>3, <3>4, <3>5 DEF JInv
  <2> QED BY <2>3, <2>4
(* The driver writes a status other than pending and stays in its loop.    *)
<1>6. ASSUME NEW s \in Steps, NEW v \in {"skipped", "awaiting_collector"},
             Write(t, s, v, s + 1), task[t].pc = "loop",
             v = "awaiting_collector" => ~InOrder,
             UNCHANGED <<job, saved, lease, due, doing, faults, launches, gap, overlap, ahead, rebooted>>
      PROVE  JInv'
  <2>1. /\ st'[s] = v /\ \A r \in Steps : r # s => st'[r] = st[r]
        /\ task'[t].pc = "loop" /\ task'[t].view = [task[t].view EXCEPT ![s] = v]
        /\ task'[t].ids = task[t].ids /\ task'[t].i = s + 1 /\ task'[t].cur = task[t].cur
        /\ \A u \in Tasks : u # t => task'[u] = task[u]
    BY <1>6, <1>0 DEF Write, TaskRecord
  <2>2. /\ task'[t].view[s] = v
        /\ \A r \in Steps : r # s => task'[t].view[r] = task[t].view[r]
    BY <2>1, <1>0
  <2>3. Shape'
    <3>1. s + 1 \in 1 .. Cardinality(Steps) + 1 /\ task'[t].pc \notin Busy
      BY <2>1, <1>n DEF Busy
    <3> QED BY <2>1, <3>1, <1>6, <1>0, <1>f, DriverFits
  <2>4. NotPendingAgain'
    BY <2>1, <2>2, <1>6, <1>0, DriverKeepsNotPending DEF Busy
  <2>5. ASSUME ~overlap PROVE Alone'
    <3>1. /\ task[t].pc # "off" /\ task'[t].pc # "off"
          /\ task'[t].pc \notin Busy /\ task[t].pc \notin Busy
      BY <2>1, <1>6 DEF Busy
    <3>2. \A r \in Steps :
           \/ task'[t].view[r] = st'[r]
           \/ task'[t].view[r] = "pending" /\ st'[r] = "skipped"
           \/ task'[t].view[r] = "awaiting_collector" /\ st'[r] \in {"completed", "failed"}
      BY <2>1, <2>2, <2>5, <3>1, <1>w
    <3>3. \A r \in Steps : launches'[r] > 0 => task'[t].view[r] # "pending"
      BY <2>1, <2>2, <2>5, <3>1, <1>6, <1>w
    <3>4. /\ \A r \in Steps \ gap : launches'[r] > 0 => r \in saved'
          /\ \A r \in Steps : launches'[r] > 1 => r \in gap
          /\ saved' \subseteq task'[t].ids /\ Alone
      BY <2>1, <2>5, <3>1, <1>6, <1>w
    <3>5. InOrder => ahead \/ \A r \in Steps : ~UnderWay(r)'
      BY <2>1, <2>5, <3>1, <1>6, <1>w DEF UnderWay
    <3> QED BY <2>1, <2>5, <3>1, <3>2, <3>3, <3>4, <3>5, <1>6, <1>0, DriverGoesOn DEF Busy
  <2> QED BY <2>3, <2>4, <2>5, <1>6 DEF JInv
<1>7. ASSUME NEW s \in Steps, SkipStep(t, s) PROVE JInv'
  BY <1>6, <1>7 DEF SkipStep, Picked
<1>8. ASSUME NEW s \in Steps, Delegate(t, s) PROVE JInv'
  <2>1. task[t].pc = "loop"
    BY <1>8 DEF Delegate, Picked
  <2>2. CASE InOrder
    <3>1. /\ Return(t)
          /\ st'[s] = "awaiting_collector" /\ \A r \in Steps : r # s => st'[r] = st[r]
          /\ UNCHANGED <<job, saved, due, doing, faults, launches, gap, overlap, ahead, rebooted>>
      BY <1>8, <2>2, <1>0 DEF Delegate
    <3>2. Shape'
      BY <3>1, <1>r, <1>0, DriverFits DEF Shape, Busy
    <3>3. NotPendingAgain'
      BY <3>1, <1>r, <1>0, DriverKeepsNotPending DEF Busy
    <3>4. ASSUME ~overlap PROVE Alone'
      <4>1. (job = "completed" => rebooted) /\ (ahead \/ \A r \in Steps : ~UnderWay(r))
        BY <2>1, <2>2, <3>4, <1>w DEF Busy
      <4>2. ahead \/ \A q, r \in Steps : UnderWay(q)' /\ UnderWay(r)' => q = r
        BY <3>1, <4>1 DEF UnderWay
      <4> QED BY <2>1, <3>1, <3>4, <4>1, <4>2, <1>e
    <3> QED BY <3>1, <3>2, <3>3, <3>4 DEF JInv
  <2>3. CASE ~InOrder
    <3>1. Write(t, s, "awaiting_collector", s + 1) /\ lease' = lease
      BY <1>8, <2>3 DEF Delegate
    <3> QED BY <2>1, <2>3, <3>1, <1>6, <1>8 DEF Delegate
  <2> QED BY <2>2, <2>3
<1>9. ASSUME NEW s \in Steps, OwnReboot(t, s) PROVE JInv'
  <2>1. /\ task[t].pc = "loop" /\ job' = "completed" /\ rebooted' = TRUE
        /\ \A r \in Steps : st'[r] = "completed" \/ st'[r] = st[r]
        /\ \A u \in Tasks : task'[u] = Off \/ task'[u] = task[u]
        /\ task'[t] = Off
        /\ due' \subseteq due
        /\ UNCHANGED <<saved, lease, doing, faults, launches, gap, overlap, ahead>>
    BY <1>9, <1>0 DEF OwnReboot, AsksForReboot, Picked, Tasks
  <2>2. Shape'
    <3>1. \A u \in Tasks :
            /\ task'[u].ids \subseteq Steps /\ task'[u].i \in 1 .. Cardinality(Steps) + 1
            /\ task'[u].cur \in 0 .. Cardinality(Steps)
            /\ task'[u].pc \in Busy => task'[u].cur \in Steps
      <4>1. /\ Off.ids \subseteq Steps /\ Off.i \in 1 .. Cardinality(Steps) + 1
            /\ Off.cur \in 0 .. Cardinality(Steps) /\ Off.pc \notin Busy
        BY <1>n, OffFields DEF Busy
      <4> QED BY <2>1, <4>1, <1>0 DEF Shape
    <3>2. Bounded' /\ Created' /\ Steps' = Steps
      BY <2>1, <1>0, SameJob, FaultsKept DEF Shape
    <3> QED BY <2>1, <3>1, <3>2, <1>0 DEF Shape, Busy
  <2>3. NotPendingAgain'
    <3>1. \A u \in Tasks : task'[u].pc \in Busy => st'[task'[u].cur] # "pending"
      BY <2>1, <1>0, OffFields DEF NotPendingAgain, Shape, Busy
    <3>2. \A r \in Steps : launches'[r] > 0 => st'[r] # "pending"
      BY <2>1, <1>0 DEF NotPendingAgain
    <3>3. \A u \in Tasks, r \in Steps : task'[u].view[r] # "pending" => st'[r] # "pending"
      BY <2>1, <1>0, OffFields DEF NotPendingAgain
    <3> QED BY <3>1, <3>2, <3>3, <1>n DEF NotPendingAgain, Busy
  <2>4. ASSUME ~overlap PROVE Alone'
    <3>1. Alone /\ \A u \in Tasks : task[u].pc # "off" => u = t
      BY <2>1, <2>4, <1>w
    <3>2. \A u \in Tasks : task'[u].pc = "off" /\ task[u].pc # "save"
      BY <2>1, <3>1, OffFields
    <3>3. InOrder => ahead \/ \A q, r \in Steps : UnderWay(q)' /\ UnderWay(r)' => q = r
      BY <2>1, <3>1 DEF Alone, InTurn, UnderWay
    <3> QED BY <2>1, <3>1, <3>2, <3>3, <1>0, LastDriverLeaves
  <2> QED BY <2>1, <2>2, <2>3, <2>4 DEF JInv
<1>10. ASSUME NEW s \in Steps, RunStep(t, s) PROVE JInv'
  <2> DEFINE p == IF Act(s) # "install" THEN "wait"
                  ELSE IF task[t].view[s] = "running" /\ s \in task[t].ids
                  THEN "wait" ELSE "launch"
  <2>1. /\ st'[s] = IF task[t].view[s] = "running" THEN st[s] ELSE "running"
        /\ \A r \in Steps : r # s => st'[r] = st[r]
        /\ task[t].pc = "loop" /\ task'[t].pc = p
        /\ task'[t].view = [task[t].view EXCEPT ![s] = "running"]
        /\ task'[t].ids = task[t].ids /\ task'[t].i = s /\ task'[t].cur = s
        /\ \A u \in Tasks : u # t => task'[u] = task[u]
        /\ UNCHANGED <<job, saved, lease, due, doing, faults, launches, gap, overlap, ahead, rebooted>>
    BY <1>10, <1>0 DEF RunStep, Picked, TaskRecord
  <2>2. /\ task'[t].view[s] = "running"
        /\ \A r \in Steps : r # s => task'[t].view[r] = task[t].view[r]
    BY <2>1, <1>0
  <2>3. /\ task[t].view[s] \in {"pending", "running"}
        /\ p \in Busy
        /\ p = "launch" => task[t].view[s] = "pending" \/ s \notin task[t].ids
    BY <1>10 DEF RunStep, Picked, Actionable, Busy
  <2> HIDE DEF p
  <2>4. Shape'
    <3>1. /\ task'[t].ids \subseteq Steps /\ task'[t].i \in 1 .. Cardinality(Steps) + 1
          /\ task'[t].cur \in 0 .. Cardinality(Steps)
          /\ task'[t].pc \in Busy => task'[t].cur \in Steps
      BY <2>1, <1>n, <1>f
    <3>2. /\ job' \in {"pending", "running", "awaiting_approval", "completed", "failed",
                       "cancelled"}
          /\ saved' \subseteq Steps /\ lease' \in Instances \cup {Nobody}
          /\ launches' \in [Steps -> 0 .. 2]
      BY <2>1, <1>0 DEF Shape
    <3> QED BY <2>1, <3>1, <3>2, <1>0, DriverFits
  <2>5. NotPendingAgain'
    <3>1. st'[s] # "pending"
      BY <2>1, <1>0 DEF NotPendingAgain
    <3> QED BY <2>1, <2>2, <3>1, <1>0, DriverKeepsNotPending
  <2>6. ASSUME ~overlap PROVE Alone'
    <3>0. st'[s] = "running"
      BY <2>1, <2>6, <1>w
    <3>1. /\ task[t].pc # "off" /\ task'[t].pc # "off" /\ task'[t].pc # "save"
          /\ task'[t].pc \in Busy /\ task[t].pc \notin Busy
      BY <2>1, <2>3 DEF Busy, p
    <3>2. \A r \in Steps :
           \/ task'[t].view[r] = st'[r]
           \/ task'[t].view[r] = "pending" /\ st'[r] = "skipped"
           \/ task'[t].view[r] = "awaiting_collector" /\ st'[r] \in {"completed", "failed"}
      BY <2>1, <2>2, <2>6, <3>0, <3>1, <1>w
    <3>3. \A r \in Steps : launches'[r] > 0 => task'[t].view[r] # "pending"
      BY <2>1, <2>2, <2>6, <3>1, <1>w
    <3>4. /\ \A r \in Steps \ gap : launches'[r] > 0 => r \in saved'
          /\ \A r \in Steps : launches'[r] > 1 => r \in gap
          /\ saved' \subseteq task'[t].ids /\ Alone
      BY <2>1, <2>6, <3>1, <1>w
    <3>5. p = "launch" => launches[s] = 0 \/ s \in gap
      <4> SUFFICES ASSUME p = "launch", launches[s] > 0, s \notin gap PROVE FALSE
        <5>1. launches[s] \in 0 .. 2
          BY <1>0 DEF Shape
        <5> QED BY <5>1
      <4>1. s \in saved
        BY <2>1, <3>4
      <4>2. s \in task[t].ids
        BY <4>1, <2>6, <3>1, <1>w
      <4>3. task[t].view[s] # "pending"
        BY <2>6, <3>1, <1>w
      <4> QED BY <4>2, <4>3, <2>3
    <3>6. InOrder => ahead \/ \A r \in Steps : UnderWay(r)' => r = s
      BY <2>1, <2>6, <3>1, <1>w DEF UnderWay
    <3> QED BY <2>1, <2>2, <2>6, <3>1, <3>2, <3>3, <3>4, <3>5, <3>6, <1>0, DriverGoesOn
  <2> QED BY <2>1, <2>4, <2>5, <2>6 DEF JInv
<1>11. ASSUME NEW s \in Steps, OwnRebootFails(t, s) PROVE JInv'
  <2>1. /\ task[t].pc = "loop" /\ task[t].view[s] = "pending" /\ Act(s) = "reboot"
        /\ rebooted' = TRUE /\ job' = "completed"
        /\ UNCHANGED <<saved, lease, due, doing, faults, launches, gap, overlap, ahead>>
    BY <1>11 DEF OwnRebootFails, AsksForReboot, Picked, Actionable
  <2>2. /\ task'[t].pc = "loop" /\ task'[t].ids = task[t].ids
        /\ task'[t].i = s + 1 /\ task'[t].cur = task[t].cur
        /\ \A u \in Tasks : u # t => task'[u] = task[u]
    BY <1>11, <2>1, <1>0 DEF OwnRebootFails, TaskRecord
  <2>3. \A r \in Steps :
          \/ st'[r] = st[r] /\ task'[t].view[r] = task[t].view[r]
          \/ st'[r] = task'[t].view[r] /\ st'[r] \in {"completed", "failed"}
    <3> DEFINE New(old) == [r \in Steps |->
                 IF r = s THEN "failed" ELSE IF OwnCheck(t, r) THEN "completed" ELSE old[r]]
    <3>1. st' = New(st) /\ task'[t].view = New(task[t].view)
      BY <1>11, <1>0 DEF OwnRebootFails, TaskRecord
    <3> QED BY <3>1
  <2>4. Shape'
    <3>1. s + 1 \in 1 .. Cardinality(Steps) + 1
      BY <1>n
    <3> QED BY <2>1, <2>2, <3>1, <1>0, <1>f, DriverFits DEF Busy
  <2>5. NotPendingAgain'
    BY <2>1, <2>2, <2>3, <1>0, DriverKeepsNotPending DEF Busy
  <2>6. ASSUME ~overlap PROVE Alone'
    <3>1. /\ task[t].pc # "off" /\ task'[t].pc # "off"
          /\ task'[t].pc \notin Busy /\ task[t].pc \notin Busy
      BY <2>1, <2>2 DEF Busy
    <3>2. \A r \in Steps :
           \/ task'[t].view[r] = st'[r]
           \/ task'[t].view[r] = "pending" /\ st'[r] = "skipped"
           \/ task'[t].view[r] = "awaiting_collector" /\ st'[r] \in {"completed", "failed"}
      BY <2>3, <2>6, <3>1, <1>w
    <3>3. \A r \in Steps : launches'[r] > 0 => task'[t].view[r] # "pending"
      BY <2>1, <2>3, <2>6, <3>1, <1>w
    <3>4. /\ \A r \in Steps \ gap : launches'[r] > 0 => r \in saved'
          /\ \A r \in Steps : launches'[r] > 1 => r \in gap
          /\ saved' \subseteq task'[t].ids /\ Alone
      BY <2>1, <2>2, <2>6, <3>1, <1>w
    <3>5. InOrder => ahead \/ \A r \in Steps : ~UnderWay(r)'
      BY <2>3, <2>6, <3>1, <1>w DEF UnderWay
    <3> QED BY <2>1, <2>2, <2>6, <3>1, <3>2, <3>3, <3>4, <3>5, <1>0, DriverGoesOn DEF Busy
  <2> QED BY <2>1, <2>4, <2>5, <2>6 DEF JInv
<1>12. CASE Advance(t)
  <2>0. /\ task[t].pc = "advance" /\ task[t].pc # "off" /\ task[t].pc \notin Busy
        /\ UNCHANGED <<saved, due, doing, faults, launches, gap, overlap, ahead, rebooted>>
    BY <1>12 DEF Advance, Busy
  (* It commits and ends.                                                  *)
  <2>1. ASSUME Return(t),
               job' \in {"pending", "running", "awaiting_approval", "completed", "failed",
                         "cancelled"},
               \A s \in Steps : st[s] # "pending" => st'[s] # "pending",
               job' = "completed" => \/ job = "completed"
                                     \/ \A s \in Steps :
                                          /\ task[t].view[s] \in {"completed", "skipped"}
                                          /\ st'[s] = st[s],
               \/ \A s \in Steps : UnderWay(s)' => UnderWay(s)
               \/ InOrder /\ \E q \in Steps : \A s \in Steps : s # q => st'[s] = st[s]
        PROVE  JInv'
    <3>1. Shape'
      BY <2>0, <2>1, <1>r, <1>0, DriverFits DEF Shape, Busy
    <3>2. NotPendingAgain'
      BY <2>0, <2>1, <1>r, <1>0, DriverKeepsNotPending DEF Busy
    <3>3. ASSUME ~overlap PROVE Alone'
      <4>1. job' = "completed" =>
              rebooted' \/ \A s \in Steps : st'[s] \in {"completed", "skipped"}
        BY <2>0, <2>1, <3>3, <1>w
      <4>2. InOrder => ahead \/ \A s \in Steps : ~UnderWay(s)
        BY <2>0, <3>3, <1>w
      <4>3. InOrder => ahead \/ \A r, s \in Steps : UnderWay(r)' /\ UnderWay(s)' => r = s
        BY <2>1, <4>2 DEF UnderWay
      <4> QED BY <2>0, <2>1, <3>3, <4>1, <4>3, <1>e
    <3> QED BY <2>0, <3>1, <3>2, <3>3 DEF JInv
  <2>2. CASE Return(t) /\ st' = st /\ job' \in {job, "awaiting_approval", Verdict(task[t].view)}
    <3>1. Verdict(task[t].view) \in {"completed", "failed"}
      BY DEF Verdict
    <3>2. Verdict(task[t].view) = "completed" =>
            \A s \in Steps : task[t].view[s] \in {"completed", "skipped"}
      BY DEF Verdict
    <3>3. \A s \in Steps : UnderWay(s)' => UnderWay(s)
      BY <2>2 DEF UnderWay
    <3> QED BY <2>1, <2>2, <3>1, <3>2, <3>3, <1>f
  <2>3. CASE /\ Return(t) /\ job' = "failed"
             /\ st' = [s \in Steps |->
                  IF task[t].view[s] \in {"pending", "awaiting_collector"} THEN "skipped"
                  ELSE st[s]]
    <3>1. \A s \in Steps : UnderWay(s)' => UnderWay(s)
      BY <2>3 DEF UnderWay
    <3> QED BY <2>1, <2>3, <3>1
  <2>4. CASE /\ Return(t) /\ job' = job /\ InOrder
             /\ st' = [st EXCEPT ![Some(With(task[t].view, "pending"))] = "awaiting_collector"]
    <3> DEFINE q == Some(With(task[t].view, "pending"))
    <3>1. /\ \A s \in Steps : s # q => st'[s] = st[s]
          /\ \A s \in Steps : s = q => st'[s] = "awaiting_collector"
      BY <2>4, <1>0
    <3> HIDE DEF q
    <3>2. \A s \in Steps : st[s] # "pending" => st'[s] # "pending"
      BY <3>1
    <3>3. \/ \A s \in Steps : st'[s] = st[s]
          \/ \E r \in Steps : \A s \in Steps : s # r => st'[s] = st[s]
      BY <3>1
    <3>4. \/ \A s \in Steps : UnderWay(s)' => UnderWay(s)
          \/ \E r \in Steps : \A s \in Steps : s # r => st'[s] = st[s]
      BY <3>3 DEF UnderWay
    <3> QED BY <2>1, <2>4, <3>2, <3>4, <1>f
  <2>5. CASE task' = [task EXCEPT ![t].pc = "loop"] /\ UNCHANGED <<job, st, lease>>
    <3>1. /\ task'[t].pc = "loop" /\ task'[t].view = task[t].view
          /\ task'[t].ids = task[t].ids /\ task'[t].i = task[t].i
          /\ task'[t].cur = task[t].cur
          /\ \A u \in Tasks : u # t => task'[u] = task[u]
      BY <2>5, <1>0 DEF TaskRecord
    <3>2. task'[t].pc \notin Busy /\ task'[t].pc # "off"
      BY <3>1 DEF Busy
    <3>3. Shape'
      BY <2>0, <2>5, <3>1, <3>2, <1>0, <1>f, DriverFits
    <3>4. NotPendingAgain'
      BY <2>0, <2>5, <3>1, <3>2, <1>0, DriverKeepsNotPending
    <3>5. ASSUME ~overlap PROVE Alone'
      <4>1. InOrder => ahead \/ \A r \in Steps : ~UnderWay(r)'
        BY <2>0, <2>5, <3>5, <1>w DEF UnderWay
      <4>2. \A r \in Steps :
             \/ task'[t].view[r] = st'[r]
             \/ task'[t].view[r] = "pending" /\ st'[r] = "skipped"
             \/ task'[t].view[r] = "awaiting_collector" /\ st'[r] \in {"completed", "failed"}
        BY <2>0, <2>5, <3>1, <3>5, <1>w
      <4>3. /\ \A r \in Steps : launches'[r] > 0 => task'[t].view[r] # "pending"
            /\ \A r \in Steps \ gap : launches'[r] > 0 => r \in saved'
            /\ \A r \in Steps : launches'[r] > 1 => r \in gap
            /\ saved' \subseteq task'[t].ids /\ Alone
        BY <2>0, <3>1, <3>5, <1>w
      <4> QED BY <2>0, <2>5, <3>1, <3>2, <4>1, <4>2, <4>3, <1>0, DriverGoesOn DEF Busy
    <3> QED BY <2>0, <3>3, <3>4, <3>5 DEF JInv
  <2> QED BY <1>12, <2>2, <2>3, <2>4, <2>5 DEF Advance
<1> QED
  BY <1>1, <1>2, <1>3, <1>4, <1>5, <1>7, <1>8, <1>9, <1>10, <1>11, <1>12 DEF Drive

-----------------------------------------------------------------------------
(* The number of faults stays within its bound.                            *)
LEMMA FaultCounts ==
    ASSUME Shape, Same, NEW kind \in FaultKinds, Fault(kind)
    PROVE  Bounded'
<1>1. PICK r \in Requests : \E order : plan = CreateJob(r, order)
  BY DEF Shape, Created
<1>2. plan.request = r
  BY <1>1 DEF CreateJob
<1>3. \A k \in FaultKinds : Limit(k) \in Nat
  BY <1>2, OsInstallAssumption DEF Limit
<1>4. faults \in Nat /\ faults < Limit(kind) /\ faults' = faults + 1
  BY <1>3 DEF Shape, Bounded, Fault
<1>5. faults' \in 0 .. Limit(kind)'
  BY <1>3, <1>4, LimitsKept
<1> QED BY <1>5 DEF Bounded

(***************************************************************************)
(* A step beside the drivers: collectors report, the administrator         *)
(* cancels, tasks are created or dropped, the lease changes hands.         *)
(***************************************************************************)
LEMMA BesideJInv ==
    ASSUME IInv, JInv, Same,
           \A u \in Tasks :
             /\ task'[u].pc = task[u].pc /\ task'[u].view = task[u].view
             /\ task'[u].ids = task[u].ids /\ task'[u].i = task[u].i
             /\ task'[u].cur = task[u].cur,
           UNCHANGED <<saved, launches, gap, overlap, ahead, rebooted>>,
           \A s \in Steps :
             \/ st'[s] = st[s]
             \/ st[s] = "pending" /\ st'[s] = "skipped"
             \/ st[s] = "awaiting_collector" /\ st'[s] \in {"completed", "failed"},
           job' = job \/ job' = "cancelled",
           doing' \subseteq Steps, due' \subseteq Tasks,
           lease' \in Instances \cup {Nobody}, Bounded'
    PROVE  JInv'
<1>s. /\ Steps' = Steps /\ (Created' <=> Created) /\ Strategy' = Strategy
      /\ (InOrder' <=> InOrder)
      /\ \A s : Act(s)' = Act(s) /\ (Central(s)' <=> Central(s))
  BY SameJob
<1>0. Shape /\ NotPendingAgain
  BY DEF JInv
<1>1. Shape'
  <2>1. \A u \in Tasks :
          /\ task'[u].ids \subseteq Steps /\ task'[u].i \in 1 .. Cardinality(Steps) + 1
          /\ task'[u].cur \in 0 .. Cardinality(Steps)
          /\ task'[u].pc \in Busy => task'[u].cur \in Steps
    BY <1>0 DEF Shape
  <2>2. job' \in {"pending", "running", "awaiting_approval", "completed", "failed",
                  "cancelled"}
    BY <1>0 DEF Shape
  <2> QED BY <1>0, <1>s, <2>1, <2>2 DEF Shape, Busy
<1>2. NotPendingAgain'
  <2>1. \A u \in Tasks : task'[u].pc \in Busy => st'[task'[u].cur] # "pending"
    BY <1>0 DEF NotPendingAgain, Shape
  <2>2. \A s \in Steps : launches'[s] > 0 => st'[s] # "pending"
    BY <1>0 DEF NotPendingAgain
  <2>3. \A u \in Tasks, s \in Steps : task'[u].view[s] # "pending" => st'[s] # "pending"
    BY <1>0 DEF NotPendingAgain
  <2> QED BY <1>s, <2>1, <2>2, <2>3 DEF NotPendingAgain, Busy
<1>3. ASSUME ~overlap PROVE Alone'
  <2>0. Alone
    BY <1>3 DEF JInv
  <2>1. OneDriver'
    BY <2>0 DEF Alone, OneDriver
  <2>2. ViewHolds'
    <3>1. ASSUME NEW u \in Tasks, task[u].pc # "off", NEW s \in Steps
          PROVE  \/ task[u].view[s] = st'[s]
                 \/ task[u].view[s] = "pending" /\ st'[s] = "skipped"
                 \/ /\ task[u].view[s] = "awaiting_collector"
                    /\ st'[s] \in {"completed", "failed"}
      BY <2>0, <3>1 DEF Alone, ViewHolds
    <3> QED BY <3>1, <1>s DEF ViewHolds
  <2>3. EndsComplete'
    <3>1. job' = "completed" =>
            \/ rebooted
            \/ /\ \A u \in Tasks : task'[u].pc = "off"
               /\ \A s \in Steps : st'[s] \in {"completed", "skipped"}
      BY <2>0 DEF Alone, EndsComplete
    <3> QED BY <3>1, <1>s DEF EndsComplete
  <2>4. Follows'
    BY <2>0, <1>s DEF Alone, Follows, Busy
  <2>5. InTurn'
    <3>1. \A s \in Steps : UnderWay(s)' => UnderWay(s)
      BY DEF UnderWay
    <3> QED BY <2>0, <3>1, <1>s DEF Alone, InTurn, Busy
  <2> QED BY <2>1, <2>2, <2>3, <2>4, <2>5 DEF Alone
<1> QED BY <1>1, <1>2, <1>3 DEF JInv

(***************************************************************************)
(* A driver begins.  If none was at work, it knows all that was done.      *)
(***************************************************************************)
LEMMA BeginJInv ==
    ASSUME IInv, JInv, Same, NEW t \in Tasks, NEW at \in {"loop", "advance"},
           Begin(t, at), BesideDriver,
           UNCHANGED <<st, saved, launches, gap, doing, rebooted>>,
           job' = "running",
           due' \subseteq Tasks, lease' \in Instances \cup {Nobody},
           Bounded'
    PROVE  JInv'
<1>s. /\ Steps' = Steps /\ (Created' <=> Created) /\ Strategy' = Strategy
      /\ (InOrder' <=> InOrder)
  BY SameJob
<1>0. Shape /\ NotPendingAgain /\ task \in [Tasks -> TaskRecord]
  BY DEF JInv, IInv, Typed
<1>n. Cardinality(Steps) \in Nat /\ Steps = 1 .. Cardinality(Steps)
  BY <1>0, StepsInterval DEF Shape
<1>1. /\ task'[t].pc = at /\ task'[t].view = st /\ task'[t].ids = saved
      /\ task'[t].i = 1 /\ task'[t].cur = 0
      /\ \A u \in Tasks : u # t => task'[u] = task[u]
  BY <1>0 DEF Begin, Off
<1>2. overlap' \in BOOLEAN /\ ahead' \in BOOLEAN
  BY DEF BesideDriver
<1>3. Shape'
  <2>1. \A u \in Tasks :
          /\ task'[u].ids \subseteq Steps /\ task'[u].i \in 1 .. Cardinality(Steps) + 1
          /\ task'[u].cur \in 0 .. Cardinality(Steps)
          /\ task'[u].pc \in Busy => task'[u].cur \in Steps
    BY <1>0, <1>1, <1>n DEF Shape, Busy
  <2> QED BY <1>0, <1>s, <1>2, <2>1 DEF Shape, Busy
<1>4. NotPendingAgain'
  <2>1. \A u \in Tasks : task'[u].pc \in Busy => st[task'[u].cur] # "pending"
    BY <1>0, <1>1 DEF NotPendingAgain, Busy
  <2>2. \A u \in Tasks, s \in Steps : task'[u].view[s] # "pending" => st[s] # "pending"
    BY <1>0, <1>1 DEF NotPendingAgain
  <2> QED BY <1>0, <1>s, <2>1, <2>2 DEF NotPendingAgain, Busy
<1>5. ASSUME ~overlap' PROVE Alone'
  <2>1. ~overlap /\ \A u \in Tasks : task[u].pc = "off"
    BY <1>5 DEF BesideDriver
  <2>2. Alone
    BY <2>1 DEF JInv
  <2>3. \A u \in Tasks : task'[u].pc # "off" => u = t
    BY <1>1, <2>1
  <2>4. OneDriver' /\ EndsComplete'
    BY <2>3 DEF OneDriver, EndsComplete
  <2>5. ViewHolds'
    BY <1>1, <1>s, <2>3 DEF ViewHolds
  <2>6. Follows'
    <3>1. \A u \in Tasks : Working(u)' =>
            /\ saved' \subseteq task'[u].ids
            /\ \A s \in Steps : launches'[s] > 0 => task'[u].view[s] # "pending"
            /\ task'[u].pc \notin Busy
      BY <1>0, <1>1, <2>3 DEF NotPendingAgain, Busy
    <3>2. /\ \A s \in Steps \ gap : launches[s] > 0 => s \in saved
          /\ \A s \in Steps : launches[s] > 1 => s \in gap
      BY <2>1, <2>2 DEF Alone, Follows
    <3>3. \A u \in Tasks : task'[u].pc # "launch"
      BY <1>1, <2>3
    <3> QED BY <3>1, <3>2, <3>3, <1>s DEF Follows, Busy
  <2>7. InTurn'
    <3>1. ahead' \/ \A s \in Steps : ~UnderWay(s)'
      BY DEF BesideDriver, UnderWay
    <3> QED BY <3>1, <1>s DEF InTurn
  <2> QED BY <2>4, <2>5, <2>6, <2>7 DEF Alone
<1> QED BY <1>3, <1>4, <1>5 DEF JInv

(* A process dies, and its drivers with it.                                *)
LEMMA CrashJInv ==
    ASSUME IInv, JInv, Same, NEW i \in Instances, Crash(i)
    PROVE  JInv'
<1>s. /\ Steps' = Steps /\ (Created' <=> Created) /\ Strategy' = Strategy
      /\ (InOrder' <=> InOrder)
      /\ \A s : Act(s)' = Act(s) /\ (Central(s)' <=> Central(s))
  BY SameJob
<1>0. Shape /\ NotPendingAgain /\ Cardinality(Steps) \in Nat
  BY StepsInterval DEF JInv, Shape
<1>1. /\ UNCHANGED <<job, st, saved, lease, doing, launches, overlap, ahead, rebooted>>
      /\ due' \subseteq due /\ Bounded'
      /\ \A u \in Tasks : \/ task'[u] = task[u]
                          \/ u[1] = i /\ task'[u] = Off
      /\ gap' = gap \cup {task[u].cur : u \in {q \in Tasks : q[1] = i /\ task[q].pc = "save"}}
  BY <1>0, FaultCounts DEF Crash, FaultKinds
<1>2. gap' \subseteq Steps /\ gap \subseteq gap'
  BY <1>0, <1>1 DEF Shape, Busy
<1>3. Shape'
  <2>1. \A u \in Tasks :
          /\ task'[u].ids \subseteq Steps /\ task'[u].i \in 1 .. Cardinality(Steps) + 1
          /\ task'[u].cur \in 0 .. Cardinality(Steps)
          /\ task'[u].pc \in Busy => task'[u].cur \in Steps
    BY <1>0, <1>1, OffFields DEF Shape, Busy
  <2>2. due' \subseteq Tasks
    BY <1>0, <1>1 DEF Shape
  <2> QED BY <1>0, <1>s, <1>1, <1>2, <2>1, <2>2 DEF Shape, Busy
<1>4. NotPendingAgain'
  <2>1. \A u \in Tasks : task'[u].pc \in Busy => st[task'[u].cur] # "pending"
    BY <1>0, <1>1, OffFields DEF NotPendingAgain, Busy
  <2>2. \A u \in Tasks, s \in Steps : task'[u].view[s] # "pending" => st[s] # "pending"
    BY <1>0, <1>1, OffFields DEF NotPendingAgain
  <2> QED BY <1>0, <1>s, <1>1, <2>1, <2>2 DEF NotPendingAgain, Busy
<1>5. ASSUME ~overlap PROVE Alone'
  <2>1. Alone
    BY <1>5 DEF JInv
  <2>2. \A u \in Tasks : task'[u].pc # "off" => task'[u] = task[u] /\ task[u].pc # "off"
    BY <1>1, OffFields
  <2>3. OneDriver'
    BY <2>1, <2>2 DEF Alone, OneDriver
  <2>4. ViewHolds'
    BY <2>1, <2>2, <1>1, <1>s DEF Alone, ViewHolds
  <2>5. EndsComplete'
    BY <2>1, <2>2, <1>1, <1>s DEF Alone, EndsComplete
  <2>6. Follows'
    <3>1. \A u \in Tasks : Working(u)' =>
            /\ saved' \subseteq task'[u].ids
            /\ \A s \in Steps : launches'[s] > 0 => task'[u].view[s] # "pending"
            /\ task'[u].pc \in Busy => task'[u].view[task'[u].cur] # "pending"
      BY <2>1, <2>2, <1>1 DEF Alone, Follows
    <3>2. ASSUME NEW s \in Steps \ gap', launches[s] > 0
          PROVE  s \in saved \/ \E u \in Tasks : task'[u].pc = "save" /\ task'[u].cur = s
      <4>1. s \in saved \/ \E u \in Tasks : task[u].pc = "save" /\ task[u].cur = s
        BY <2>1, <3>2, <1>2 DEF Alone, Follows
      <4>2. ASSUME NEW u \in Tasks, task[u].pc = "save", task[u].cur = s
            PROVE  task'[u] = task[u]
        BY <4>2, <3>2, <1>1
      <4> QED BY <4>1, <4>2
    <3>3. \A u \in Tasks : task'[u].pc = "launch" =>
            launches[task'[u].cur] = 0 \/ task'[u].cur \in gap'
      BY <2>1, <2>2, <1>2 DEF Alone, Follows
    <3>4. \A s \in Steps : launches[s] > 1 => s \in gap'
      BY <2>1, <1>2 DEF Alone, Follows
    <3> QED BY <3>1, <3>2, <3>3, <3>4, <1>1, <1>s DEF Follows, Busy
  <2>7. InTurn'
    <3>1. \A s \in Steps : UnderWay(s)' <=> UnderWay(s)
      BY <1>1 DEF UnderWay
    <3> QED BY <2>1, <2>2, <3>1, <1>1, <1>s DEF Alone, InTurn, Busy
  <2> QED BY <2>3, <2>4, <2>5, <2>6, <2>7 DEF Alone
<1> QED BY <1>1, <1>3, <1>4, <1>5 DEF JInv

LEMMA StepJInv == IInv /\ JInv /\ [Next]_vars => JInv'
<1> SUFFICES ASSUME IInv, JInv, [Next]_vars PROVE JInv'
  OBVIOUS
<1>0. /\ Shape /\ due \subseteq Tasks /\ doing \subseteq Steps
      /\ lease \in Instances \cup {Nobody} /\ Bounded
      /\ st \in [Steps -> StepStatus] /\ task \in [Tasks -> TaskRecord]
  BY DEF JInv, Shape, IInv, Typed
<1>1. CASE UNCHANGED vars
  <2>1. Same
    BY <1>1 DEF vars, Same
  <2> QED BY <1>0, <1>1, <2>1, BesideJInv, FaultsKept DEF vars
<1>2. ASSUME NEW t \in Tasks, Drive(t) PROVE JInv'
  BY <1>2, DriveJInv
<1>3. CASE Report
  <2>1. ASSUME NEW s \in Steps, FetchStep(s) PROVE JInv'
    BY <1>0, <1>3, <2>1, BesideJInv, FaultsKept DEF Report, FetchStep
  <2>2. ASSUME NEW s \in Steps, NEW ok \in BOOLEAN, ReportStep(s, ok) PROVE JInv'
    <3>1. /\ doing' \subseteq Steps
          /\ UNCHANGED <<job, saved, lease, task, faults, launches, gap, overlap, ahead, rebooted>>
      BY <1>0, <2>2 DEF ReportStep
    <3>2. due' \subseteq Tasks
      BY <1>0, <2>2 DEF ReportStep, Tasks
    <3>3. \A r \in Steps : \/ st'[r] = st[r]
                           \/ st[r] = "awaiting_collector" /\ st'[r] \in {"completed", "failed"}
      BY <1>0, <2>2 DEF ReportStep
    <3> QED BY <1>0, <1>3, <3>1, <3>2, <3>3, BesideJInv, FaultsKept DEF Report
  <2> QED BY <1>3, <2>1, <2>2 DEF Report
<1>11. CASE Lose
  <2>1. doing' \subseteq Steps
    BY <1>0, <1>11 DEF Lose, ReportLost
  <2> QED BY <1>0, <1>11, <2>1, BesideJInv, FaultsKept DEF Lose, ReportLost
<1>4. ASSUME NEW i \in Instances, Start(i) PROVE JInv'
  <2>1. CASE Execute(i)
    <3>1. /\ Same /\ Begin(<<i, "exec">>, "loop") /\ BesideDriver /\ job' = "running"
          /\ UNCHANGED <<st, saved, launches, gap, doing, rebooted>> /\ due' \subseteq Tasks
      BY <1>0, <1>4, <2>1 DEF Start, Execute
    <3>2. lease' \in Instances \cup {Nobody} /\ Bounded'
      BY <1>0, <2>1, <3>1, FaultCounts, FaultsKept DEF Execute, FaultKinds
    <3> QED BY <3>1, <3>2, ExecIsTask, BeginJInv
  <2>2. CASE TurnedAway(i)
    <3>1. due' \subseteq Tasks
      BY <1>0, <2>2 DEF TurnedAway
    <3> QED BY <1>0, <1>4, <2>2, <3>1, BesideJInv, FaultsKept DEF Start, TurnedAway
  <2>3. CASE ReadForAdvance(i)
    <3>1. /\ Same /\ due' \subseteq Tasks /\ <<i, "free">> \in Tasks
          /\ UNCHANGED <<job, st, saved, lease, doing, faults, launches, gap, rebooted>>
      BY <1>0, <1>4, <2>3 DEF Start, ReadForAdvance
    <3>2. CASE job = "running" /\ Begin(<<i, "free">>, "advance") /\ BesideDriver
      BY <1>0, <3>1, <3>2, BeginJInv, FaultsKept
    <3>3. CASE UNCHANGED <<task, overlap, ahead>>
      BY <1>0, <3>1, <3>3, BesideJInv, FaultsKept
    <3> QED BY <2>3, <3>2, <3>3 DEF ReadForAdvance
  <2> QED BY <1>4, <2>1, <2>2, <2>3 DEF Start
<1>5. ASSUME NEW i \in Instances, Same, LookForOrphans(i) PROVE JInv'
  <2>1. due' \subseteq Tasks
    BY <1>0, <1>5, ExecIsTask DEF LookForOrphans
  <2> QED BY <1>0, <1>5, <2>1, BesideJInv, FaultsKept DEF LookForOrphans
<1>6. ASSUME NEW i \in Instances, Notice(i) PROVE JInv'
  <2> DEFINE t == <<i, "exec">>
             r == [task[t] EXCEPT !.lost = TRUE]
  <2>1. t \in Tasks /\ task' = [task EXCEPT ![t] = r] /\ task[t] \in TaskRecord
    BY <1>0, <1>6, ExecIsTask DEF Notice, NoteLost
  <2>2. /\ r.pc = task[t].pc /\ r.view = task[t].view /\ r.ids = task[t].ids
        /\ r.i = task[t].i /\ r.cur = task[t].cur
    BY <2>1 DEF TaskRecord
  <2> HIDE DEF r
  <2>3. \A u \in Tasks :
          /\ task'[u].pc = task[u].pc /\ task'[u].view = task[u].view
          /\ task'[u].ids = task[u].ids /\ task'[u].i = task[u].i
          /\ task'[u].cur = task[u].cur
    BY <2>1, <2>2, <1>0
  <2> QED BY <1>0, <1>6, <2>3, BesideJInv, FaultsKept DEF Notice, NoteLost
<1>7. CASE Expire
  <2>1. Bounded'
    BY <1>0, <1>7, FaultCounts, FaultsKept DEF Expire, LeaseExpires, FaultKinds
  <2> QED BY <1>0, <1>7, <2>1, BesideJInv DEF Expire, LeaseExpires
<1>8. CASE Same /\ Cancel
  <2>1. \A s \in Steps : st'[s] = st[s] \/ (st[s] = "pending" /\ st'[s] = "skipped")
    BY <1>8 DEF Cancel
  <2> QED BY <1>0, <1>8, <2>1, BesideJInv, FaultsKept DEF Cancel
<1>9. ASSUME NEW i \in Instances, Same, Approve(i) PROVE JInv'
  <2>1. <<i, "free">> \in Tasks
    BY DEF Tasks
  <2> QED BY <1>0, <1>9, <2>1, BeginJInv, FaultsKept DEF Approve
<1>10. ASSUME NEW i \in Instances, Same, Crash(i) PROVE JInv'
  BY <1>10, CrashJInv
<1> QED
  BY <1>1, <1>2, <1>3, <1>4, <1>5, <1>6, <1>7, <1>8, <1>9, <1>10, <1>11 DEF Next, Tick

LEMMA InvariantJInv == Spec => [](IInv /\ JInv)
BY InitIInv, StepIInv, InitJInv, StepJInv, PTL DEF Spec

(***************************************************************************)
(* The rows of a job have their types and tell what was done: an install   *)
(* is started again only if its driver died before the id was saved or     *)
(* two drivers were at work, and a job that is completed is complete.      *)
(***************************************************************************)
THEOREM RowsTellTheTruth == Spec => []JobInvariant
<1>1. IInv /\ JInv => TypeOK
  <2> SUFFICES ASSUME IInv, JInv PROVE TypeOK
    OBVIOUS
  <2>1. Shape /\ Typed
    BY DEF IInv, JInv
  <2>2. ASSUME NEW t \in Tasks
        PROVE  task[t] \in [pc : {"off", "advance", "loop", "launch", "save", "wait"},
                 view : [Steps -> StepStatus], ids : SUBSET Steps, failed : BOOLEAN,
                 i : 1 .. Cardinality(Steps) + 1, cur : 0 .. Cardinality(Steps),
                 lost : BOOLEAN]
    <3>1. /\ task[t].ids \in SUBSET Steps /\ task[t].i \in 1 .. Cardinality(Steps) + 1
          /\ task[t].cur \in 0 .. Cardinality(Steps) /\ task[t] \in TaskRecord
      BY <2>1 DEF Shape, Typed
    <3> QED BY <3>1 DEF TaskRecord
  <2>3. task \in [Tasks -> [pc : {"off", "advance", "loop", "launch", "save", "wait"},
          view : [Steps -> StepStatus], ids : SUBSET Steps, failed : BOOLEAN,
          i : 1 .. Cardinality(Steps) + 1, cur : 0 .. Cardinality(Steps),
          lost : BOOLEAN]]
    BY <2>1, <2>2 DEF Typed
  <2>4. {unleased, overlap, ahead, rebooted} \subseteq BOOLEAN
    BY <2>1 DEF Shape, Typed
  <2> QED BY <2>1, <2>3, <2>4 DEF TypeOK, Shape, Created, Bounded, Typed
<1>2. IInv /\ JInv => ResumedNotRelaunched
  BY DEF JInv, Alone, Follows, ResumedNotRelaunched
<1>3. IInv /\ JInv => CompletedIsComplete
  BY DEF JInv, Alone, EndsComplete, CompletedIsComplete
<1>4. IInv /\ JInv => JobInvariant
  BY <1>1, <1>2, <1>3 DEF JobInvariant
<1> QED BY InvariantJInv, <1>4, PTL

(***************************************************************************)
(* Where steps are to be taken in order, two are under way at once only if *)
(* a driver began beside another or while a step was under way.            *)
(***************************************************************************)
THEOREM StepsInTurn == Spec => []OneStepAtATime
<1>1. IInv /\ JInv => OneStepAtATime
  BY DEF JInv, Alone, InTurn, OneStepAtATime
<1> QED BY InvariantJInv, <1>1, PTL

(* No step leads out of a cancelled job with nothing at work.              *)
LEMMA StepCancelSettled ==
    IInv /\ JInv /\ [Next]_vars => [CancelSettled => CancelSettled']_vars
<1> SUFFICES ASSUME IInv, JInv, Next, CancelSettled PROVE CancelSettled'
  OBVIOUS
<1>0. /\ job = "cancelled" /\ \A t \in Tasks : task[t].pc = "off"
      /\ \A i \in Instances : <<i, "exec">> \notin due
      /\ \A t \in Tasks : t \in due => t[2] = "free"
  <2>1. \A i \in Instances : <<i, "exec">>[2] # "free"
    OBVIOUS
  <2> QED BY <2>1, ExecIsTask DEF CancelSettled
<1>1. ASSUME NEW t \in Tasks, Drive(t) PROVE FALSE
  BY <1>0, <1>1 DEF Drive, Launch, SaveSidecarJob, Finish, Yield, StepEnds, SkipStep,
                    Advance, Delegate, AsksForReboot, OwnReboot, OwnRebootFails, RunStep,
                    Picked
<1>2. ASSUME NEW i \in Instances, Start(i) PROVE CancelSettled'
  BY <1>0, <1>2 DEF Start, Execute, TurnedAway, ReadForAdvance, CancelSettled
<1>3. CASE Report
  <2>1. job' = job /\ task' = task
    BY <1>3 DEF Report, FetchStep, ReportStep
  <2>2. due' = due \/ \E i \in Instances : due' = due \cup {<<i, "free">>}
    BY <1>3 DEF Report, FetchStep, ReportStep
  <2>3. \A t \in Tasks : t \in due' => t[2] = "free"
    BY <1>0, <2>2
  <2> QED BY <1>0, <2>1, <2>3 DEF CancelSettled
<1>4. CASE Expire \/ Lose
  BY <1>0, <1>4 DEF Expire, LeaseExpires, Lose, ReportLost, CancelSettled
<1>5. ASSUME NEW i \in Instances, Notice(i) \/ LookForOrphans(i) \/ Approve(i)
      PROVE  FALSE
  BY <1>0, <1>5, ExecIsTask DEF Notice, NoteLost, LookForOrphans, Orphaned, Approve
<1>6. CASE Cancel
  BY <1>0, <1>6 DEF Cancel
<1>7. ASSUME NEW i \in Instances, Crash(i) PROVE CancelSettled'
  <2>1. job' = job /\ due' \subseteq due
    BY <1>7 DEF Crash
  <2>2. \A t \in Tasks : task'[t].pc = "off"
    BY <1>0, <1>7, OffFields DEF Crash
  <2> QED BY <1>0, <2>1, <2>2 DEF CancelSettled
<1> QED
  BY <1>1, <1>2, <1>3, <1>4, <1>5, <1>6, <1>7 DEF Next, Tick

(***************************************************************************)
(* A cancelled job that no driver works on and no task is about to execute *)
(* is never revived.                                                       *)
(***************************************************************************)
THEOREM CancelIsFinal == Spec => CancelHolds
BY InvariantJInv, StepCancelSettled, PTL DEF Spec, CancelHolds
=============================================================================
