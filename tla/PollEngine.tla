----------------------------- MODULE PollEngine -----------------------------
(***************************************************************************)
(* The deadline scheduler of a poll-worker                                 *)
(* (monctl_collector/polling/engine.py, class PollEngine).                 *)
(*                                                                         *)
(* One asyncio event loop runs the main task (_run: refresh the job list   *)
(* from the cache-node, dispatch what is due, sleep) and one task per      *)
(* dispatched job.  A task can run only while the main task awaits: it     *)
(* sleeps ("sleep") or waits for the cache-node ("call"); the dispatch     *)
(* loop has no await in it ("dispatch").  The heap keeps deadlines as the  *)
(* time left until them.                                                   *)
(***************************************************************************)
EXTENDS Integers, Sequences, FiniteSets, SequencesExt

CONSTANTS
    Jobs,        \* job ids
    Intervals,   \* polling intervals; 0 is a one-shot job
    Hash,        \* job -> hash(job_id), the source of the jitter
    Heavy,       \* jobs whose profile is heavy
    LightSlots,  \* light_slots
    HeavySlots,  \* heavy_slots
    MaxRestarts, \* bound: restarts of the worker process
    None         \* "not in the job list"

MaxInterval == CHOOSE i \in Intervals : \A k \in Intervals : k <= i

ASSUME PollEngineAssumption ==
    /\ Intervals \subseteq Nat /\ IsFiniteSet(Intervals) /\ Intervals # {}
    /\ Hash \in [Jobs -> Nat]
    /\ Heavy \subseteq Jobs
    /\ LightSlots \in Nat \ {0} /\ HeavySlots \in Nat \ {0}
    /\ MaxRestarts \in Nat
    /\ None \notin Intervals

VARIABLES
    listed,    \* cache-node: job -> its interval, or None
    triggers,  \* cache-node: jobs flagged for immediate execution
    loop,      \* the main task: "sleep", "call" or "dispatch"
    reply,     \* the job list that is on its way to the main task
    heap,      \* job -> its entries in _heap
    pend,      \* job -> tasks created and not yet started
    exec,      \* job -> tasks that are executing
    running,   \* _running
    restarts   \* restarts of the worker so far

vars == <<listed, triggers, loop, reply, heap, pend, exec, running, restarts>>

Entry == [left : Nat, ival : Intervals]
Task  == [pc : {"wait", "poll", "report"}, ival : Intervals, ran : Nat]
Reply == [jobs : [Jobs -> Intervals \cup {None}], now : SUBSET Jobs]
NoReply == [jobs |-> [j \in Jobs |-> None], now |-> {}]

Init ==
    /\ listed = [j \in Jobs |-> None]
    /\ triggers = {}
    /\ loop = "sleep"
    /\ reply = NoReply
    /\ heap = [j \in Jobs |-> <<>>]
    /\ pend = [j \in Jobs |-> <<>>]
    /\ exec = [j \in Jobs |-> <<>>]
    /\ running = {}
    /\ restarts = 0

-----------------------------------------------------------------------------
(***************************************************************************)
(* The cache-node as the worker sees it: its list changes, jobs are        *)
(* flagged by "poll now", and GetMyJobs pops the flags of listed jobs.     *)
(***************************************************************************)
SetListed(j, i) ==
    /\ listed[j] # i
    /\ listed' = [listed EXCEPT ![j] = i]
    /\ UNCHANGED <<triggers, loop, reply, heap, pend, exec, running, restarts>>

TriggerImmediate(j) ==
    /\ listed[j] # None
    /\ triggers' = triggers \cup {j}
    /\ UNCHANGED <<listed, loop, reply, heap, pend, exec, running, restarts>>

GetMyJobs ==
    LET now == {j \in triggers : listed[j] # None}
    IN  /\ loop = "sleep"
        /\ loop' = "call"
        /\ reply' = [jobs |-> listed, now |-> now]
        /\ triggers' = triggers \ now
        /\ UNCHANGED <<listed, heap, pend, exec, running, restarts>>

(***************************************************************************)
(* A call that fails never reaches the cache-node, or its answer is lost   *)
(* after the cache-node popped the flags.  PeerClient.get_my_jobs swallows *)
(* the RPC error and returns two empty lists (peer/client.py:71), which    *)
(* _refresh_jobs cannot tell from a list without jobs.                     *)
(***************************************************************************)
CallFails ==
    /\ loop = "sleep"
    /\ loop' = "call"
    /\ reply' = NoReply
    /\ UNCHANGED <<listed, triggers, heap, pend, exec, running, restarts>>

AnswerLost ==
    /\ loop = "call"
    /\ reply # NoReply
    /\ reply' = NoReply
    /\ UNCHANGED <<listed, triggers, loop, heap, pend, exec, running, restarts>>

-----------------------------------------------------------------------------
(***************************************************************************)
(* _refresh_jobs after the answer: rebuild the heap in one go, then go on  *)
(* to _dispatch_ready.  Tasks created by an earlier dispatch started while *)
(* this one awaited the cache-node.  An exception that get_my_jobs does    *)
(* not swallow leaves the heap as it is (RefreshFailed).                   *)
(***************************************************************************)
Jitter(j, i) == Hash[j] % (IF i > 1 THEN i ELSE 1)

Deadline(j, i) ==
    IF heap[j] # <<>> /\ heap[j][Len(heap[j])].ival = i
    THEN heap[j][Len(heap[j])].left
    ELSE Jitter(j, i)

ReAddRunning(j) == FALSE
SkipInFlight(j) == j \in running

RebuiltBesideOld(j) ==
    IF reply.jobs[j] = None \/ SkipInFlight(j) THEN heap[j]
    ELSE << [left |-> IF j \in reply.now THEN 0 ELSE Deadline(j, reply.jobs[j]),
             ival |-> reply.jobs[j]] >>
Rebuilt(j) ==
    IF reply.jobs[j] = None \/ SkipInFlight(j) THEN <<>>
    ELSE << [left |-> IF j \in reply.now THEN 0 ELSE Deadline(j, reply.jobs[j]),
             ival |-> reply.jobs[j]] >>

RefreshJobs ==
    /\ loop = "call"
    /\ \A j \in Jobs : pend[j] = <<>>
    /\ heap' = [j \in Jobs |-> Rebuilt(j)]
    /\ loop' = "dispatch"
    /\ reply' = NoReply
    /\ UNCHANGED <<listed, triggers, pend, exec, running, restarts>>

RefreshFailed ==
    /\ loop = "call"
    /\ \A j \in Jobs : pend[j] = <<>>
    /\ loop' = "dispatch"
    /\ reply' = NoReply
    /\ UNCHANGED <<listed, triggers, heap, pend, exec, running, restarts>>

(***************************************************************************)
(* _dispatch_ready: pop the entries that are due one by one.  An entry of  *)
(* a job that still runs is put back a little later; a one-shot is not.    *)
(***************************************************************************)
WakeUp ==
    /\ loop = "sleep"
    /\ \E j \in Jobs : \E k \in DOMAIN heap[j] : heap[j][k].left = 0
    /\ loop' = "dispatch"
    /\ UNCHANGED <<listed, triggers, reply, heap, pend, exec, running, restarts>>

RetryDelayNoFloor(i) == i \div 10
RetryDelay(i) == IF i \div 10 > 1 THEN i \div 10 ELSE 1

Again(i) == IF i > 0 THEN << [left |-> RetryDelay(i), ival |-> i] >> ELSE <<>>

DispatchReady(j, k) ==
    LET e == heap[j][k]
        rest == RemoveAt(heap[j], k)
    IN  /\ loop = "dispatch"
        /\ e.left = 0
        /\ IF j \in running
           THEN /\ heap' = [heap EXCEPT ![j] = rest \o Again(e.ival)]
                /\ UNCHANGED pend
           ELSE /\ heap' = [heap EXCEPT ![j] = rest]
                /\ pend' = [pend EXCEPT ![j] = Append(@, e.ival)]
        /\ UNCHANGED <<listed, triggers, loop, reply, exec, running, restarts>>

DispatchDone ==
    /\ loop = "dispatch"
    /\ \A j \in Jobs : \A k \in DOMAIN heap[j] : heap[j][k].left > 0
    /\ loop' = "sleep"
    /\ UNCHANGED <<listed, triggers, reply, heap, pend, exec, running, restarts>>

-----------------------------------------------------------------------------
(***************************************************************************)
(* _run_job: enter _running, wait for the lane, poll, push the next entry, *)
(* report, leave _running.                                                 *)
(***************************************************************************)
Yielding == loop # "dispatch"

StartTask(j) ==
    /\ Yielding
    /\ pend[j] # <<>>
    /\ pend' = [pend EXCEPT ![j] = Tail(@)]
    /\ exec' = [exec EXCEPT ![j] =
                   Append(@, [pc |-> "wait", ival |-> Head(pend[j]), ran |-> 0])]
    /\ running' = running \cup {j}
    /\ UNCHANGED <<listed, triggers, loop, reply, heap, restarts>>

Lane(j) == IF j \in Heavy THEN Heavy ELSE Jobs \ Heavy
Slots(j) == IF j \in Heavy THEN HeavySlots ELSE LightSlots
Polling(j) == {k \in DOMAIN exec[j] : exec[j][k].pc = "poll"}

AcquireLane(j, k) ==
    /\ Yielding
    /\ exec[j][k].pc = "wait"
    /\ Cardinality(UNION {{<<i, l>> : l \in Polling(i)} : i \in Lane(j)}) < Slots(j)
    /\ exec' = [exec EXCEPT ![j][k].pc = "poll"]
    /\ UNCHANGED <<listed, triggers, loop, reply, heap, pend, running, restarts>>

TaskExitLeaking(j, k) ==
    /\ exec' = [exec EXCEPT ![j] = RemoveAt(@, k)]
    /\ UNCHANGED running

TaskExit(j, k) ==
    /\ exec' = [exec EXCEPT ![j] = RemoveAt(@, k)]
    /\ running' = running \ {j}

(* The next entry, measured from the start of this run.                    *)
NextEntry(t) ==
    IF t.ival > 0
    THEN << [left |-> IF t.ival > t.ran THEN t.ival - t.ran ELSE 0, ival |-> t.ival] >>
    ELSE <<>>

(* The poll returns a result or an error result, or nothing at all.        *)
FinishPoll(j, k, result) ==
    /\ Yielding
    /\ exec[j][k].pc = "poll"
    /\ heap' = [heap EXCEPT ![j] = @ \o NextEntry(exec[j][k])]
    /\ IF result
       THEN exec' = [exec EXCEPT ![j][k].pc = "report"] /\ UNCHANGED running
       ELSE TaskExit(j, k)
    /\ UNCHANGED <<listed, triggers, loop, reply, pend, restarts>>

(* _submit_result and _report_execution, which swallow their errors.       *)
Report(j, k) ==
    /\ Yielding
    /\ exec[j][k].pc = "report"
    /\ TaskExit(j, k)
    /\ UNCHANGED <<listed, triggers, loop, reply, heap, pend, restarts>>

-----------------------------------------------------------------------------
Dec(n) == IF n > 0 THEN n - 1 ELSE 0
Inc(n) == IF n < MaxInterval THEN n + 1 ELSE n

(* One unit of monotonic time; time run is counted up to MaxInterval.      *)
Tick ==
    /\ Yielding
    /\ heap' = [j \in Jobs |->
                  [k \in DOMAIN heap[j] |-> [heap[j][k] EXCEPT !.left = Dec(@)]]]
    /\ exec' = [j \in Jobs |->
                  [k \in DOMAIN exec[j] |-> [exec[j][k] EXCEPT !.ran = Inc(@)]]]
    /\ heap' # heap \/ exec' # exec
    /\ UNCHANGED <<listed, triggers, loop, reply, pend, running, restarts>>

(* The worker process restarts with nothing.                               *)
Restart ==
    /\ restarts < MaxRestarts
    /\ restarts' = restarts + 1
    /\ loop' = "sleep"
    /\ reply' = NoReply
    /\ heap' = [j \in Jobs |-> <<>>]
    /\ pend' = [j \in Jobs |-> <<>>]
    /\ exec' = [j \in Jobs |-> <<>>]
    /\ running' = {}
    /\ UNCHANGED <<listed, triggers>>

TaskStep(j) ==
    \/ StartTask(j)
    \/ \E k \in DOMAIN exec[j] :
          \/ AcquireLane(j, k)
          \/ \E result \in BOOLEAN : FinishPoll(j, k, result)
          \/ Report(j, k)

Next ==
    \/ \E j \in Jobs, i \in Intervals \cup {None} : SetListed(j, i)
    \/ \E j \in Jobs : TriggerImmediate(j)
    \/ GetMyJobs
    \/ CallFails
    \/ AnswerLost
    \/ RefreshJobs
    \/ RefreshFailed
    \/ WakeUp
    \/ \E j \in Jobs : \E k \in DOMAIN heap[j] : DispatchReady(j, k)
    \/ DispatchDone
    \/ \E j \in Jobs : TaskStep(j)
    \/ Tick
    \/ Restart

Spec == Init /\ [][Next]_vars

(***************************************************************************)
(* Time passes.  The event loop runs a ready task at its next yield, first *)
(* come first served, as its semaphores are; a report ends (its calls have *)
(* timeouts); the main task asks for the list whenever the refresh period  *)
(* is over, and not every refresh raises.  Nothing says that a poll ends:  *)
(* poll() runs under wait_for, but ensure_app, connect() and setup(), that *)
(* hold the same slot, have no timeout.                                    *)
(***************************************************************************)
Fairness ==
    /\ SF_vars(Tick) /\ SF_vars(GetMyJobs) /\ SF_vars(RefreshJobs)
    /\ WF_vars(RefreshJobs \/ RefreshFailed)
    /\ WF_vars(WakeUp) /\ WF_vars(DispatchDone)
    /\ WF_vars(\E j \in Jobs : \E k \in DOMAIN heap[j] : DispatchReady(j, k))
    /\ \A j \in Jobs :
          /\ SF_vars(StartTask(j))
          /\ SF_vars(\E k \in DOMAIN exec[j] : AcquireLane(j, k))
          /\ SF_vars(\E k \in DOMAIN exec[j] : Report(j, k))

FairSpec == Spec /\ Fairness

-----------------------------------------------------------------------------
(* Every variable has its type.                                            *)
TypeOK ==
    /\ listed \in [Jobs -> Intervals \cup {None}]
    /\ triggers \subseteq Jobs
    /\ loop \in {"sleep", "call", "dispatch"}
    /\ reply \in Reply
    /\ heap \in [Jobs -> Seq(Entry)]
    /\ pend \in [Jobs -> Seq(Intervals)]
    /\ exec \in [Jobs -> Seq(Task)]
    /\ running \subseteq Jobs
    /\ restarts \in 0..MaxRestarts

(***************************************************************************)
(* The heap never holds two entries of one job, whatever refreshes,        *)
(* completions and re-dispatches interleave (engine.py:211: re-adding an   *)
(* in-flight job "would produce a duplicate heap entry").                  *)
(***************************************************************************)
AtMostOneEntry == \A j \in Jobs : Len(heap[j]) <= 1

(***************************************************************************)
(* A job never runs twice at the same time, not even as a task that is     *)
(* created but not yet in _running (engine.py:89, "prevent                 *)
(* double-scheduling").                                                    *)
(***************************************************************************)
NoConcurrentRuns == \A j \in Jobs : Len(pend[j]) + Len(exec[j]) <= 1

(***************************************************************************)
(* _running holds exactly the jobs that execute: no leaked id blocks a job *)
(* for ever, and no executing job is missing from it.                      *)
(***************************************************************************)
RunningIsExact == \A j \in Jobs : j \in running <=> exec[j] # <<>>

(***************************************************************************)
(* The dispatch loop ends: putting back an entry of a running job never    *)
(* makes it due again at once (engine.py:281, "tight loop that starves     *)
(* the event loop").                                                       *)
(***************************************************************************)
DispatchTerminates == loop = "dispatch" ~> loop # "dispatch"

(***************************************************************************)
(* A recurring job that stays in the list with its interval is polled      *)
(* again and again, whatever refreshes lose of its heap entries, provided  *)
(* no poll hangs (a poll without end keeps its job in _running and its     *)
(* slot taken) and failed calls to the cache-node cease: each one empties  *)
(* the heap and the job starts again from its jitter, so that calls which  *)
(* keep failing starve it (peer/client.py:71 with engine.py:155).          *)
(***************************************************************************)
PollsEnd == \A j \in Jobs : []<>(Polling(j) = {})

PolledForEver ==
    \A j \in Jobs, i \in Intervals \ {0} :
        /\ <>[](listed[j] = i)
        /\ PollsEnd
        /\ <>[][~CallFails /\ ~AnswerLost]_vars
        => []<><<\E k \in DOMAIN exec[j] : AcquireLane(j, k)>>_vars

(***************************************************************************)
(* "Cache-node returned no jobs - clear the heap so we stop executing"     *)
(* (engine.py:156): a job that left the list for good is eventually no     *)
(* longer run, if the refreshes do not find it in flight every time.  If   *)
(* they do, each run re-schedules the job, and the heap is never clear.    *)
(***************************************************************************)
RemovedJobStops ==
    \A j \in Jobs :
        <>[](listed[j] = None) /\ []<><<RefreshJobs /\ exec[j] = <<>>>>_vars
          => <>[](pend[j] = <<>> /\ exec[j] = <<>>)
=============================================================================
