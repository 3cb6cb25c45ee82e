-------------------------- MODULE PollEngineProofs --------------------------
(***************************************************************************)
(* Proofs about PollEngine, for every set of jobs and intervals and every  *)
(* number of slots: the types, one heap entry and one run per job, and an  *)
(* exact _running set.                                                     *)
(***************************************************************************)
EXTENDS PollEngine, TLAPS, SequenceTheorems

(* What is left of a singleton.                                            *)
LEMMA RemoveOnly ==
    ASSUME NEW S, NEW x \in S
    PROVE  /\ RemoveAt(<<x>>, 1) = <<>>
           /\ DOMAIN <<x>> = {1} /\ <<x>>[1] = x /\ Len(<<x>>) = 1
           /\ <<x>> \in Seq(S) /\ <<x>> # <<>>
           /\ Head(<<x>>) = x /\ Tail(<<x>>) = <<>>
<1>1. SubSeq(<<x>>, 1, 0) = <<>> /\ SubSeq(<<x>>, 2, 1) = <<>>
  BY SubSeqEmpty
<1>2. <<>> \o <<>> = <<>>
  BY ConcatEmptySeq, EmptySeq
<1>3. RemoveAt(<<x>>, 1) = <<>>
  BY <1>1, <1>2 DEF RemoveAt
<1> QED
  BY <1>3

-----------------------------------------------------------------------------
(***************************************************************************)
(* The inductive invariant, job by job.  Besides the claims themselves it  *)
(* says where a job is: a task that is created but not started, or that    *)
(* has not finished its poll, leaves the heap without an entry of its job. *)
(* A completion pushes an entry, so without this the heap could get two.   *)
(***************************************************************************)
Plain ==
    /\ listed \in [Jobs -> Intervals \cup {None}]
    /\ triggers \subseteq Jobs
    /\ loop \in {"sleep", "call", "dispatch"}
    /\ reply \in Reply
    /\ running \subseteq Jobs
    /\ restarts \in 0..MaxRestarts

PerJob ==
    /\ DOMAIN heap = Jobs /\ heap = [j \in Jobs |-> heap[j]]
    /\ DOMAIN pend = Jobs /\ pend = [j \in Jobs |-> pend[j]]
    /\ DOMAIN exec = Jobs /\ exec = [j \in Jobs |-> exec[j]]

JobOK(h, p, e) ==
    /\ h = <<>> \/ \E x \in Entry : h = <<x>>
    /\ \/ p = <<>> /\ e = <<>>
       \/ h = <<>> /\ e = <<>> /\ \E i \in Intervals : p = <<i>>
       \/ p = <<>> /\ \E t \in Task : e = <<t>> /\ (t.pc # "report" => h = <<>>)

IInv ==
    /\ Plain
    /\ PerJob
    /\ \A j \in Jobs : JobOK(heap[j], pend[j], exec[j])
    /\ RunningIsExact

(* The invariant gives the types and the claims.                           *)
LEMMA IInvImplies ==
    IInv => TypeOK /\ AtMostOneEntry /\ NoConcurrentRuns /\ RunningIsExact
<1> SUFFICES ASSUME IInv PROVE TypeOK /\ AtMostOneEntry /\ NoConcurrentRuns /\ RunningIsExact
  OBVIOUS
<1>1. ASSUME NEW j \in Jobs
      PROVE  /\ heap[j] \in Seq(Entry) /\ Len(heap[j]) <= 1
             /\ pend[j] \in Seq(Intervals) /\ exec[j] \in Seq(Task)
             /\ Len(pend[j]) + Len(exec[j]) <= 1
  <2>1. JobOK(heap[j], pend[j], exec[j])
    BY DEF IInv
  <2>2. heap[j] \in Seq(Entry) /\ Len(heap[j]) <= 1
    <3>1. CASE heap[j] = <<>>
      BY <3>1, EmptySeq
    <3>2. ASSUME NEW x \in Entry, heap[j] = <<x>> PROVE heap[j] \in Seq(Entry) /\ Len(heap[j]) <= 1
      BY <3>2, RemoveOnly
    <3> QED BY <2>1, <3>1, <3>2 DEF JobOK
  <2>3. /\ pend[j] \in Seq(Intervals) /\ exec[j] \in Seq(Task)
        /\ Len(pend[j]) + Len(exec[j]) <= 1
    <3>1. CASE pend[j] = <<>> /\ exec[j] = <<>>
      BY <3>1, EmptySeq
    <3>2. CASE exec[j] = <<>> /\ \E i \in Intervals : pend[j] = <<i>>
      BY <3>2, EmptySeq, RemoveOnly
    <3>3. CASE pend[j] = <<>> /\ \E t \in Task : exec[j] = <<t>>
      BY <3>3, EmptySeq, RemoveOnly
    <3> QED BY <2>1, <3>1, <3>2, <3>3 DEF JobOK
  <2> QED BY <2>2, <2>3
<1>2. TypeOK
  BY <1>1 DEF TypeOK, IInv, Plain, PerJob
<1> QED
  BY <1>1, <1>2 DEF AtMostOneEntry, NoConcurrentRuns, IInv

LEMMA InitIInv == Init => IInv
<1> SUFFICES ASSUME Init PROVE IInv
  OBVIOUS
<1>1. Plain
  BY PollEngineAssumption DEF Init, Plain, Reply, NoReply
<1> QED
  BY <1>1 DEF Init, IInv, PerJob, JobOK, RunningIsExact

(* A step that changes the place of one job only.                          *)
LEMMA OneJob ==
    ASSUME IInv, Plain', NEW j \in Jobs, NEW h, NEW p, NEW e,
           heap' = [heap EXCEPT ![j] = h],
           pend' = [pend EXCEPT ![j] = p],
           exec' = [exec EXCEPT ![j] = e],
           running' \ {j} = running \ {j},
           JobOK(h, p, e), j \in running' <=> e # <<>>
    PROVE  IInv'
<1>1. PerJob'
  BY DEF IInv, PerJob
<1>2. \A i \in Jobs : /\ heap'[i] = IF i = j THEN h ELSE heap[i]
                      /\ pend'[i] = IF i = j THEN p ELSE pend[i]
                      /\ exec'[i] = IF i = j THEN e ELSE exec[i]
  BY DEF IInv, PerJob
<1>3. \A i \in Jobs : JobOK(heap'[i], pend'[i], exec'[i])
  BY <1>2 DEF IInv
<1>4. RunningIsExact'
  BY <1>2 DEF IInv, RunningIsExact
<1> QED
  BY <1>1, <1>3, <1>4 DEF IInv

(* A step that moves no job.                                               *)
LEMMA NoJob ==
    ASSUME IInv, Plain', UNCHANGED <<heap, pend, exec, running>>
    PROVE  IInv'
BY DEF IInv, PerJob, JobOK, RunningIsExact

LEMMA SetListedStep ==
    ASSUME IInv, NEW j \in Jobs, NEW i \in Intervals \cup {None}, SetListed(j, i)
    PROVE  IInv'
<1>1. Plain'
  BY PollEngineAssumption DEF IInv, Plain, SetListed
<1> QED BY <1>1, NoJob DEF SetListed

LEMMA TriggerStep ==
    ASSUME IInv, NEW j \in Jobs, TriggerImmediate(j)
    PROVE  IInv'
<1>1. Plain'
  BY DEF IInv, Plain, TriggerImmediate
<1> QED BY <1>1, NoJob DEF TriggerImmediate

LEMMA GetMyJobsStep == IInv /\ GetMyJobs => IInv'
<1> SUFFICES ASSUME IInv, GetMyJobs PROVE IInv'
  OBVIOUS
<1>1. reply' \in Reply
  BY DEF IInv, Plain, GetMyJobs, Reply
<1>2. Plain'
  BY <1>1 DEF IInv, Plain, GetMyJobs
<1> QED BY <1>2, NoJob DEF GetMyJobs

LEMMA NoReplyType == NoReply \in Reply
BY DEF NoReply, Reply

(* A failed call changes what is on its way and no job.                    *)
LEMMA LostCallSteps == IInv /\ (CallFails \/ AnswerLost) => IInv'
<1>1. IInv /\ CallFails => IInv'
  <2>1. IInv /\ CallFails => Plain'
    BY NoReplyType DEF IInv, Plain, CallFails
  <2> QED BY <2>1, NoJob DEF CallFails
<1>2. IInv /\ AnswerLost => IInv'
  <2>1. IInv /\ AnswerLost => Plain'
    BY NoReplyType DEF IInv, Plain, AnswerLost
  <2> QED BY <2>1, NoJob DEF AnswerLost
<1> QED BY <1>1, <1>2

LEMMA LoopSteps == IInv /\ (RefreshFailed \/ WakeUp \/ DispatchDone \/ UNCHANGED vars) => IInv'
<1>1. IInv /\ RefreshFailed => IInv'
  <2>1. IInv /\ RefreshFailed => Plain'
    BY NoReplyType DEF IInv, Plain, RefreshFailed
  <2> QED BY <2>1, NoJob DEF RefreshFailed
<1>2. IInv /\ WakeUp => IInv'
  <2>1. IInv /\ WakeUp => Plain'
    BY DEF IInv, Plain, WakeUp
  <2> QED BY <2>1, NoJob DEF WakeUp
<1>3. IInv /\ DispatchDone => IInv'
  <2>1. IInv /\ DispatchDone => Plain'
    BY DEF IInv, Plain, DispatchDone
  <2> QED BY <2>1, NoJob DEF DispatchDone
<1>4. IInv /\ UNCHANGED vars => IInv'
  <2>1. IInv /\ UNCHANGED vars => Plain'
    BY DEF IInv, Plain, vars
  <2> QED BY <2>1, NoJob DEF vars
<1> QED BY <1>1, <1>2, <1>3, <1>4

(***************************************************************************)
(* A refresh: no task is waiting to start, and a job that executes gets no *)
(* entry, because _running is exact.                                       *)
(***************************************************************************)
LEMMA DeadlineType ==
    ASSUME IInv, NEW j \in Jobs, NEW i \in Intervals
    PROVE  Deadline(j, i) \in Nat
<1>1. Jitter(j, i) \in Nat
  BY PollEngineAssumption DEF Jitter
<1>2. CASE heap[j] = <<>>
  BY <1>1, <1>2 DEF Deadline
<1>3. ASSUME NEW x \in Entry, heap[j] = <<x>> PROVE Deadline(j, i) \in Nat
  <2>1. heap[j][Len(heap[j])] = x
    BY <1>3, RemoveOnly
  <2> QED BY <1>1, <2>1 DEF Deadline, Entry
<1> QED BY <1>2, <1>3 DEF IInv, JobOK

LEMMA RefreshStep == IInv /\ RefreshJobs => IInv'
<1> SUFFICES ASSUME IInv, RefreshJobs PROVE IInv'
  OBVIOUS
<1>1. Plain'
  BY NoReplyType DEF IInv, Plain, RefreshJobs
<1>2. \A j \in Jobs : Rebuilt(j) = <<>> \/ \E x \in Entry : Rebuilt(j) = <<x>>
  <2> TAKE j \in Jobs
  <2>1. CASE reply.jobs[j] = None \/ SkipInFlight(j)
    BY <2>1 DEF Rebuilt
  <2>2. CASE ~(reply.jobs[j] = None \/ SkipInFlight(j))
    <3>1. reply.jobs[j] \in Intervals
      BY <2>2 DEF IInv, Plain, Reply
    <3>2. Deadline(j, reply.jobs[j]) \in Nat
      BY <3>1, DeadlineType
    <3> DEFINE x == [left |-> IF j \in reply.now THEN 0 ELSE Deadline(j, reply.jobs[j]),
                     ival |-> reply.jobs[j]]
    <3>3. x \in Entry
      BY <3>1, <3>2 DEF Entry
    <3>4. Rebuilt(j) = <<x>>
      BY <2>2 DEF Rebuilt
    <3> QED BY <3>3, <3>4
  <2> QED BY <2>1, <2>2
<1>3. \A j \in Jobs : exec[j] # <<>> => Rebuilt(j) = <<>>
  BY DEF IInv, RunningIsExact, Rebuilt, SkipInFlight
<1>4. PerJob'
  BY DEF IInv, PerJob, RefreshJobs
<1>5. \A j \in Jobs : JobOK(heap'[j], pend'[j], exec'[j])
  <2> TAKE j \in Jobs
  <2>1. heap'[j] = Rebuilt(j) /\ pend'[j] = <<>> /\ pend[j] = <<>> /\ exec'[j] = exec[j]
    BY DEF RefreshJobs
  <2>2. CASE exec[j] = <<>>
    BY <1>2, <2>1, <2>2 DEF JobOK
  <2>3. CASE exec[j] # <<>>
    <3>1. \E t \in Task : exec[j] = <<t>>
      BY <2>3 DEF IInv, JobOK
    <3> QED BY <1>2, <1>3, <2>1, <2>3, <3>1 DEF JobOK
  <2> QED BY <2>2, <2>3
<1>6. RunningIsExact'
  BY DEF IInv, RunningIsExact, RefreshJobs
<1> QED BY <1>1, <1>4, <1>5, <1>6 DEF IInv

(***************************************************************************)
(* Popping an entry: the job has no task that is waiting to start, since   *)
(* it has an entry, and none that executes unless it is in _running.       *)
(***************************************************************************)
LEMMA DispatchStep ==
    ASSUME IInv, NEW j \in Jobs, NEW k \in DOMAIN heap[j], DispatchReady(j, k)
    PROVE  IInv'
<1>1. Plain'
  BY DEF IInv, Plain, DispatchReady
<1>2. PICK x \in Entry : heap[j] = <<x>>
  BY DEF IInv, JobOK
<1>3. k = 1 /\ heap[j][k] = x /\ RemoveAt(heap[j], k) = <<>> /\ heap[j] # <<>>
  BY <1>2, RemoveOnly
<1>4. pend[j] = <<>>
  BY <1>3 DEF IInv, JobOK
<1>5. x.ival \in Intervals /\ x.ival \in Nat
  BY PollEngineAssumption DEF Entry
<1>6. CASE j \in running
  <2>1. Again(x.ival) = <<>> \/ \E y \in Entry : Again(x.ival) = <<y>>
    <3>1. RetryDelay(x.ival) \in Nat
      BY <1>5 DEF RetryDelay
    <3>2. [left |-> RetryDelay(x.ival), ival |-> x.ival] \in Entry
      BY <1>5, <3>1 DEF Entry
    <3> QED BY <3>2 DEF Again
  <2>2. <<>> \o Again(x.ival) = Again(x.ival)
    BY <2>1, ConcatEmptySeq, RemoveOnly, EmptySeq
  <2>3. exec[j] # <<>>
    BY <1>6 DEF IInv, RunningIsExact
  <2>4. PICK t \in Task : exec[j] = <<t>> /\ (t.pc # "report" => heap[j] = <<>>)
    BY <2>3 DEF IInv, JobOK
  <2>5. t.pc = "report"
    BY <1>3, <2>4
  <2>6. JobOK(Again(x.ival), pend[j], exec[j])
    BY <1>4, <2>1, <2>4, <2>5 DEF JobOK
  <2>7. heap' = [heap EXCEPT ![j] = Again(x.ival)]
    BY <1>3, <1>6, <2>2 DEF DispatchReady
  <2>8. /\ pend' = [pend EXCEPT ![j] = pend[j]] /\ exec' = [exec EXCEPT ![j] = exec[j]]
        /\ running' = running
    BY <1>6 DEF DispatchReady, IInv, PerJob
  <2> QED BY <1>1, <1>6, <2>3, <2>6, <2>7, <2>8, OneJob
<1>7. CASE j \notin running
  <2>1. exec[j] = <<>>
    BY <1>7 DEF IInv, RunningIsExact
  <2>2. Append(pend[j], x.ival) = <<x.ival>>
    BY <1>4, <1>5
  <2>3. JobOK(<<>>, <<x.ival>>, exec[j])
    BY <1>5, <2>1 DEF JobOK
  <2>4. /\ heap' = [heap EXCEPT ![j] = <<>>] /\ pend' = [pend EXCEPT ![j] = <<x.ival>>]
        /\ exec' = [exec EXCEPT ![j] = exec[j]] /\ running' = running
    BY <1>3, <1>7, <2>2 DEF DispatchReady, IInv, PerJob
  <2> QED BY <1>1, <1>7, <2>1, <2>3, <2>4, OneJob
<1> QED BY <1>6, <1>7

LEMMA StartStep ==
    ASSUME IInv, NEW j \in Jobs, StartTask(j)
    PROVE  IInv'
<1>1. PICK i \in Intervals : pend[j] = <<i>> /\ heap[j] = <<>> /\ exec[j] = <<>>
  BY DEF IInv, JobOK, StartTask
<1>2. Head(pend[j]) = i /\ Tail(pend[j]) = <<>>
  BY <1>1, RemoveOnly
<1>3. Plain'
  BY DEF IInv, Plain, StartTask
<1> DEFINE t == [pc |-> "wait", ival |-> i, ran |-> 0]
<1>4. t \in Task /\ Append(exec[j], t) = <<t>> /\ <<t>> # <<>>
  BY <1>1 DEF Task
<1>5. JobOK(<<>>, <<>>, <<t>>)
  BY <1>4 DEF JobOK
<1>6. /\ heap' = [heap EXCEPT ![j] = <<>>] /\ pend' = [pend EXCEPT ![j] = <<>>]
      /\ exec' = [exec EXCEPT ![j] = <<t>>] /\ running' = running \cup {j}
  BY <1>1, <1>2, <1>4 DEF StartTask, IInv, PerJob
<1> HIDE DEF t
<1> QED BY <1>3, <1>4, <1>5, <1>6, OneJob

(* What is known of a job with a task.                                     *)
LEMMA Executing ==
    ASSUME IInv, NEW j \in Jobs, NEW k \in DOMAIN exec[j]
    PROVE  \E t \in Task : /\ exec[j] = <<t>> /\ k = 1 /\ exec[j][k] = t
                           /\ RemoveAt(exec[j], k) = <<>> /\ pend[j] = <<>>
                           /\ t.pc # "report" => heap[j] = <<>>
                           /\ j \in running
<1>1. exec[j] # <<>>
  OBVIOUS
<1>2. PICK t \in Task : exec[j] = <<t>> /\ pend[j] = <<>> /\ (t.pc # "report" => heap[j] = <<>>)
  BY <1>1 DEF IInv, JobOK
<1>3. k = 1 /\ exec[j][k] = t /\ RemoveAt(exec[j], k) = <<>>
  BY <1>2, RemoveOnly
<1> QED BY <1>1, <1>2, <1>3 DEF IInv, RunningIsExact

LEMMA LaneStep ==
    ASSUME IInv, NEW j \in Jobs, NEW k \in DOMAIN exec[j], AcquireLane(j, k)
    PROVE  IInv'
<1>1. Plain'
  BY DEF IInv, Plain, AcquireLane
<1>2. PICK t \in Task : /\ exec[j] = <<t>> /\ k = 1 /\ exec[j][k] = t /\ pend[j] = <<>>
                        /\ t.pc # "report" => heap[j] = <<>>
                        /\ j \in running
  BY Executing
<1>3. t.pc = "wait" /\ heap[j] = <<>>
  BY <1>2 DEF AcquireLane
<1> DEFINE u == [t EXCEPT !.pc = "poll"]
<1>4. u \in Task
  BY DEF Task
<1>5. [exec[j] EXCEPT ![k].pc = "poll"] = <<u>>
  BY <1>2
<1>6. JobOK(heap[j], pend[j], <<u>>) /\ <<u>> # <<>>
  BY <1>2, <1>3, <1>4 DEF JobOK
<1>7. exec' = [exec EXCEPT ![j] = <<u>>]
  BY <1>5 DEF AcquireLane
<1>8. /\ heap' = [heap EXCEPT ![j] = heap[j]] /\ pend' = [pend EXCEPT ![j] = pend[j]]
      /\ running' = running
  BY DEF AcquireLane, IInv, PerJob
<1> QED BY <1>1, <1>2, <1>6, <1>7, <1>8, OneJob

(***************************************************************************)
(* A completion pushes the next entry onto a heap that has none of its     *)
(* job.                                                                    *)
(***************************************************************************)
LEMMA NextEntryType ==
    ASSUME NEW t \in Task
    PROVE  NextEntry(t) = <<>> \/ \E x \in Entry : NextEntry(t) = <<x>>
<1>1. t.ival \in Intervals /\ t.ival \in Nat /\ t.ran \in Nat
  BY PollEngineAssumption DEF Task
<1>2. [left |-> IF t.ival > t.ran THEN t.ival - t.ran ELSE 0, ival |-> t.ival] \in Entry
  BY <1>1 DEF Entry
<1> QED BY <1>2 DEF NextEntry

LEMMA FinishStep ==
    ASSUME IInv, NEW j \in Jobs, NEW k \in DOMAIN exec[j], NEW result \in BOOLEAN,
           FinishPoll(j, k, result)
    PROVE  IInv'
<1>1. Plain'
  BY DEF IInv, Plain, FinishPoll, TaskExit
<1>2. PICK t \in Task : /\ exec[j] = <<t>> /\ k = 1 /\ exec[j][k] = t /\ pend[j] = <<>>
                        /\ RemoveAt(exec[j], k) = <<>>
                        /\ t.pc # "report" => heap[j] = <<>>
                        /\ j \in running
  BY Executing
<1>3. t.pc = "poll" /\ heap[j] = <<>>
  BY <1>2 DEF FinishPoll
<1> DEFINE h == NextEntry(t)
<1>4. h = <<>> \/ \E x \in Entry : h = <<x>>
  BY NextEntryType
<1>5. heap[j] \o NextEntry(exec[j][k]) = h
  BY <1>2, <1>3, <1>4, ConcatEmptySeq, RemoveOnly, EmptySeq
<1>6. /\ heap' = [heap EXCEPT ![j] = h] /\ pend' = [pend EXCEPT ![j] = pend[j]]
  BY <1>5 DEF FinishPoll, IInv, PerJob
<1> HIDE DEF h
<1>7. CASE result
  <2> DEFINE u == [t EXCEPT !.pc = "report"]
  <2>1. u \in Task /\ u.pc = "report"
    BY DEF Task
  <2>2. [exec[j] EXCEPT ![k].pc = "report"] = <<u>> /\ <<u>> # <<>>
    BY <1>2
  <2>3. exec' = [exec EXCEPT ![j] = <<u>>] /\ running' = running
    BY <1>7, <2>2 DEF FinishPoll
  <2> HIDE DEF u
  <2>4. JobOK(h, pend[j], <<u>>)
    BY <1>2, <1>4, <2>1 DEF JobOK
  <2> QED BY <1>1, <1>2, <1>6, <2>2, <2>3, <2>4, OneJob
<1>8. CASE ~result
  <2>1. exec' = [exec EXCEPT ![j] = <<>>] /\ running' = running \ {j}
    BY <1>2, <1>8 DEF FinishPoll, TaskExit
  <2>2. JobOK(h, pend[j], <<>>)
    BY <1>2, <1>4 DEF JobOK
  <2> QED BY <1>1, <1>6, <2>1, <2>2, OneJob
<1> QED BY <1>7, <1>8

LEMMA ReportStep ==
    ASSUME IInv, NEW j \in Jobs, NEW k \in DOMAIN exec[j], Report(j, k)
    PROVE  IInv'
<1>1. Plain'
  BY DEF IInv, Plain, Report, TaskExit
<1>2. RemoveAt(exec[j], k) = <<>> /\ pend[j] = <<>>
  BY Executing
<1>3. JobOK(heap[j], pend[j], <<>>)
  BY <1>2 DEF IInv, JobOK
<1>4. /\ heap' = [heap EXCEPT ![j] = heap[j]] /\ pend' = [pend EXCEPT ![j] = pend[j]]
      /\ exec' = [exec EXCEPT ![j] = <<>>] /\ running' = running \ {j}
  BY <1>2 DEF Report, TaskExit, IInv, PerJob
<1> QED BY <1>1, <1>3, <1>4, OneJob

(* The passing of time moves no job: sequences keep their length.          *)
LEMMA TickStep == IInv /\ Tick => IInv'
<1> SUFFICES ASSUME IInv, Tick PROVE IInv'
  OBVIOUS
<1>1. Plain' /\ PerJob'
  BY DEF IInv, Plain, PerJob, Tick
<1>2. ASSUME NEW j \in Jobs
      PROVE  /\ JobOK(heap'[j], pend'[j], exec'[j])
             /\ exec'[j] = <<>> <=> exec[j] = <<>>
  <2>1. /\ heap'[j] = [k \in DOMAIN heap[j] |-> [heap[j][k] EXCEPT !.left = Dec(@)]]
        /\ exec'[j] = [k \in DOMAIN exec[j] |-> [exec[j][k] EXCEPT !.ran = Inc(@)]]
        /\ pend'[j] = pend[j]
    BY DEF Tick
  <2>2. heap[j] = <<>> => heap'[j] = <<>>
    BY <2>1
  <2>3. exec[j] = <<>> => exec'[j] = <<>>
    BY <2>1
  <2>4. ASSUME NEW x \in Entry, heap[j] = <<x>>
        PROVE  \E y \in Entry : heap'[j] = <<y>>
    <3> DEFINE y == [x EXCEPT !.left = Dec(@)]
    <3>1. y \in Entry
      BY DEF Entry, Dec
    <3>2. heap'[j] = <<y>>
      <4>1. DOMAIN heap[j] = {1} /\ heap[j][1] = x
        BY <2>4, RemoveOnly
      <4>2. heap'[j] = [k \in {1} |-> y]
        BY <2>1, <4>1
      <4> HIDE DEF y
      <4>3. {1} = 1..1
        OBVIOUS
      <4> QED BY <4>2, <4>3
    <3> QED BY <3>1, <3>2
  <2>5. ASSUME NEW t \in Task, exec[j] = <<t>>
        PROVE  \E u \in Task : exec'[j] = <<u>> /\ u.pc = t.pc
    <3> DEFINE u == [t EXCEPT !.ran = Inc(@)]
    <3>1. u \in Task /\ u.pc = t.pc
      BY DEF Task, Inc
    <3>2. exec'[j] = <<u>>
      <4>1. DOMAIN exec[j] = {1} /\ exec[j][1] = t
        BY <2>5, RemoveOnly
      <4>2. exec'[j] = [k \in {1} |-> u]
        BY <2>1, <4>1
      <4> HIDE DEF u
      <4>3. {1} = 1..1
        OBVIOUS
      <4> QED BY <4>2, <4>3
    <3> QED BY <3>1, <3>2
  <2>6. JobOK(heap[j], pend[j], exec[j])
    BY DEF IInv
  <2>7. exec[j] # <<>> => exec'[j] # <<>>
    BY <2>5, <2>6, RemoveOnly DEF JobOK
  <2>8. heap'[j] = <<>> \/ \E y \in Entry : heap'[j] = <<y>>
    BY <2>2, <2>4, <2>6 DEF JobOK
  <2>9. \/ pend'[j] = <<>> /\ exec'[j] = <<>>
        \/ heap'[j] = <<>> /\ exec'[j] = <<>> /\ \E i \in Intervals : pend'[j] = <<i>>
        \/ pend'[j] = <<>> /\ \E t \in Task : exec'[j] = <<t>> /\ (t.pc # "report" => heap'[j] = <<>>)
    <3>1. CASE exec[j] = <<>>
      BY <3>1, <2>1, <2>2, <2>3, <2>6 DEF JobOK
    <3>2. CASE exec[j] # <<>>
      <4>1. PICK t \in Task : exec[j] = <<t>> /\ pend[j] = <<>> /\ (t.pc # "report" => heap[j] = <<>>)
        BY <3>2, <2>6 DEF JobOK
      <4>2. PICK u \in Task : exec'[j] = <<u>> /\ u.pc = t.pc
        BY <4>1, <2>5
      <4> QED BY <4>1, <4>2, <2>1, <2>2
    <3> QED BY <3>1, <3>2
  <2> QED BY <2>3, <2>7, <2>8, <2>9 DEF JobOK
<1>3. RunningIsExact'
  BY <1>2 DEF IInv, RunningIsExact, Tick
<1> QED BY <1>1, <1>2, <1>3 DEF IInv

LEMMA RestartStep == IInv /\ Restart => IInv'
<1> SUFFICES ASSUME IInv, Restart PROVE IInv'
  OBVIOUS
<1>1. Plain'
  BY NoReplyType, PollEngineAssumption DEF IInv, Plain, Restart
<1>2. PerJob' /\ RunningIsExact'
  BY DEF PerJob, RunningIsExact, Restart
<1>3. \A j \in Jobs : JobOK(heap'[j], pend'[j], exec'[j])
  BY DEF JobOK, Restart
<1> QED BY <1>1, <1>2, <1>3 DEF IInv

LEMMA StepIInv == IInv /\ [Next]_vars => IInv'
<1> SUFFICES ASSUME IInv, [Next]_vars PROVE IInv'
  OBVIOUS
<1>1. ASSUME NEW j \in Jobs, TaskStep(j) PROVE IInv'
  BY <1>1, StartStep, LaneStep, FinishStep, ReportStep DEF TaskStep
<1>2. CASE Next
  BY <1>1, <1>2, SetListedStep, TriggerStep, GetMyJobsStep, LostCallSteps, LoopSteps,
     RefreshStep, DispatchStep, TickStep, RestartStep DEF Next
<1>3. CASE UNCHANGED vars
  BY <1>3, LoopSteps
<1> QED BY <1>2, <1>3

-----------------------------------------------------------------------------
(***************************************************************************)
(* For every job list, every interval and every number of slots: the heap  *)
(* holds at most one entry per job, a job runs at most once at a time, and *)
(* _running is exactly the set of executing jobs (engine.py _refresh_jobs, *)
(* _dispatch_ready, _run_job).                                             *)
(***************************************************************************)
THEOREM PollSafety == Spec => [](TypeOK /\ AtMostOneEntry /\ NoConcurrentRuns /\ RunningIsExact)
<1>1. Init => IInv
  BY InitIInv
<1>2. IInv /\ [Next]_vars => IInv'
  BY StepIInv
<1>3. IInv => TypeOK /\ AtMostOneEntry /\ NoConcurrentRuns /\ RunningIsExact
  BY IInvImplies
<1> QED BY <1>1, <1>2, <1>3, PTL DEF Spec

(* The same for each claim that a run checks.                              *)
THEOREM OneEntryPerJob == Spec => []AtMostOneEntry
<1>1. (TypeOK /\ AtMostOneEntry /\ NoConcurrentRuns /\ RunningIsExact) => AtMostOneEntry
  OBVIOUS
<1> QED BY <1>1, PollSafety, PTL

(* A job never runs twice at the same time (engine.py:89).                 *)
THEOREM OneRunPerJob == Spec => []NoConcurrentRuns
<1>1. (TypeOK /\ AtMostOneEntry /\ NoConcurrentRuns /\ RunningIsExact) => NoConcurrentRuns
  OBVIOUS
<1> QED BY <1>1, PollSafety, PTL

(* No id leaks into _running and none is missing (engine.py:311-319).      *)
THEOREM RunningExact == Spec => []RunningIsExact
<1>1. (TypeOK /\ AtMostOneEntry /\ NoConcurrentRuns /\ RunningIsExact) => RunningIsExact
  OBVIOUS
<1> QED BY <1>1, PollSafety, PTL
=============================================================================
