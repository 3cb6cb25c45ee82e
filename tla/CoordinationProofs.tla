-------------------------- MODULE CoordinationProofs --------------------------
(***************************************************************************)
(* Who does what in the fleet, for every value of the constants: which     *)
(* collector polls a job (JobSync), for any number of collectors and jobs, *)
(* any ring, changes and faults; and which central node runs the scheduler *)
(* (LeaderElection), for any number of nodes, any TTL and period.          *)
(***************************************************************************)
EXTENDS JobSync, LeaderElection, TLAPS, FiniteSetTheorems, WellFoundedInduction

(***************************************************************************)
(* The inductive invariant of the job lists.  A run of _sync_jobs has      *)
(* something to write only while it applies an answer, is between the two  *)
(* writes of at most one job, and removes or stores as its answer says.    *)
(* Only the loop asks for a delta.                                         *)
(***************************************************************************)
RunOK(r) ==
    /\ r.pc # "apply" => r.drop = {} /\ r.put = {}
    /\ r.half \subseteq Pending(r) /\ \A i, k \in r.half : i = k
    /\ \A i \in r.drop : r.got[i] = 0
    /\ \A i \in r.put : r.got[i] # 0

InFlight(r) == r.pc \in {"asked", "answered"}

ForceIsFull(c) == InFlight(task[c]["force"]) => task[c]["force"].full

AsksDelta(c) == InFlight(task[c]["loop"]) /\ ~task[c]["loop"].full

(* A collector whose list rests on an earlier full answer.                 *)
Grounded(c) == c \in delta \/ AsksDelta(c)

Due(c, j) == Share(c)[j]

(* The runs under way leave v in memory as the definition of j.            *)
Leaves(c, j, v) ==
    /\ \A t \in Tasks : j \in Pending(task[c][t]) => task[c][t].got[j] = v
    /\ Settled(c, j) => mem[c][j] = v

(* Two runs that write the same job have been noticed; a run between the   *)
(* two writes of a job has done the first; and SQLite alone has a job only *)
(* then, whatever was noticed.                                             *)
TwoAreBlind(c, j) ==
    (\A t \in Tasks : j \in Pending(task[c][t])) => j \in blind[c]

Halfway(c, j) ==
    j \notin blind[c] => \A t \in Tasks :
      /\ j \in task[c][t].drop /\ j \in task[c][t].half => mem[c][j] = 0
      /\ j \in task[c][t].put /\ j \in task[c][t].half => db[c][j] = task[c][t].got[j]

NotOnlyStored(c, j) ==
    db[c][j] # 0 /\ mem[c][j] = 0 => \E t \in Tasks : j \in task[c][t].half

(* An answer under way is right about every job it speaks of that did not  *)
(* change since.                                                           *)
AnswerRight(c, j) ==
    \A t \in Tasks :
      LET r == task[c][t] IN
      r.pc = "answered" /\ j \notin r.late /\ (r.full \/ r.got[j] # 0)
        => r.got[j] = Due(c, j)

(* What a collector has not been told of, it need not be told of: the job  *)
(* is not behind its timestamp, or not behind that of the delta request    *)
(* under way, or the delta answer under way does not speak of it.          *)
NotNews(c, j) ==
    LET r == task[c]["loop"] IN
    \/ c \in delta /\ j \notin fresh[c]
    \/ r.pc = "asked" /\ ~r.full /\ j \notin r.since
    \/ r.pc = "answered" /\ ~r.full /\ j \notin r.late /\ r.got[j] = 0

ListRight(c, j) ==
    j \notin blind[c] =>
      /\ NotNews(c, j) => Leaves(c, j, Due(c, j))
      /\ Grounded(c) /\ Due(c, j) = 0 => Leaves(c, j, 0)
      /\ Grounded(c) /\ Settled(c, j) => db[c][j] = mem[c][j]

JobOK(c, j) ==
    /\ TwoAreBlind(c, j) /\ Halfway(c, j) /\ NotOnlyStored(c, j)
    /\ AnswerRight(c, j) /\ ListRight(c, j)

RunsOK ==
    /\ \A c \in Collectors, t \in Tasks : RunOK(task[c][t])
    /\ \A c \in Collectors : ForceIsFull(c)

SyncInv == TypeOK /\ RunsOK /\ \A c \in Collectors, j \in Jobs : JobOK(c, j)

-----------------------------------------------------------------------------
(***************************************************************************)
(* The records of the runs.                                                *)
(***************************************************************************)
LEMMA TwoTasks == "loop" \in Tasks /\ "force" \in Tasks /\ \A t \in Tasks : t \in {"loop", "force"}
BY DEF Tasks

LEMMA IdleRun ==
    /\ Idle \in TaskType /\ Idle.pc = "idle" /\ Idle.full = FALSE
    /\ Idle.drop = {} /\ Idle.put = {} /\ Idle.half = {} /\ Idle.late = {}
    /\ Pending(Idle) = {} /\ RunOK(Idle) /\ ~InFlight(Idle)
<1>1. Nothing \in Defs
  BY JobSyncAssumption DEF Nothing, Defs
<1>2. /\ Idle.pc = "idle" /\ Idle.full = FALSE /\ Idle.since = {} /\ Idle.got = Nothing
      /\ Idle.drop = {} /\ Idle.put = {} /\ Idle.half = {} /\ Idle.late = {}
  BY DEF Idle
<1>3. Idle \in TaskType
  BY <1>1 DEF TaskType, Idle
<1> QED BY <1>2, <1>3 DEF RunOK, Pending, InFlight

LEMMA RunFields ==
    ASSUME NEW r \in TaskType
    PROVE  /\ r.pc \in {"idle", "asked", "answered", "apply"} /\ r.full \in BOOLEAN
           /\ r.since \subseteq Jobs /\ r.got \in Defs /\ r.drop \subseteq Jobs
           /\ r.put \subseteq Jobs /\ r.half \subseteq Jobs /\ r.late \subseteq Jobs
BY DEF TaskType

(* A step of one run changes that run only.                                *)
LEMMA OneRun ==
    ASSUME TypeOK, NEW c \in Collectors, NEW t \in Tasks, NEW r \in TaskType,
           task' = [task EXCEPT ![c][t] = r]
    PROVE  /\ task' \in [Collectors -> [Tasks -> TaskType]]
           /\ task'[c][t] = r
           /\ \A u \in Tasks : u # t => task'[c][u] = task[c][u]
           /\ \A d \in Collectors : d # c => task'[d] = task[d]
BY DEF TypeOK

(* What a job's part of the invariant speaks of.                           *)
LEMMA SameJob ==
    ASSUME NEW c, NEW j, JobOK(c, j),
           mem'[c][j] = mem[c][j], db'[c][j] = db[c][j], task'[c] = task[c],
           c \in delta' <=> c \in delta, fresh'[c] = fresh[c],
           j \in blind'[c] <=> j \in blind[c], Due(c, j)' = Due(c, j)
    PROVE  JobOK(c, j)'
<1>1. TwoAreBlind(c, j)' /\ Halfway(c, j)' /\ NotOnlyStored(c, j)'
  BY DEF JobOK, TwoAreBlind, Halfway, NotOnlyStored
<1>2. AnswerRight(c, j)'
  BY DEF JobOK, AnswerRight
<1>3. (NotNews(c, j)' <=> NotNews(c, j)) /\ (Grounded(c)' <=> Grounded(c))
  BY DEF NotNews, Grounded, AsksDelta
<1>4. Settled(c, j)' <=> Settled(c, j)
  BY DEF Settled
<1>5. /\ Leaves(c, j, 0)' <=> Leaves(c, j, 0)
      /\ Leaves(c, j, Due(c, j))' <=> Leaves(c, j, Due(c, j))
  BY <1>4 DEF Leaves
<1>6. ListRight(c, j)'
  BY <1>3, <1>4, <1>5 DEF JobOK, ListRight
<1> QED BY <1>1, <1>2, <1>6 DEF JobOK

LEMMA ShareType ==
    ASSUME TypeOK, NEW c \in Collectors
    PROVE  Share(c) \in Defs
BY JobSyncAssumption DEF Share, TypeOK, Defs

LEMMA InitSyncInv == Init => SyncInv
<1> SUFFICES ASSUME Init PROVE SyncInv
  OBVIOUS
<1>0. Nothing \in Defs /\ \A j \in Jobs : Nothing[j] = 0
  BY JobSyncAssumption DEF Nothing, Defs
<1>1. \A c \in Collectors, t \in Tasks : task[c][t] = Idle
  BY DEF Init
<1>2. TypeOK
  <2>1. /\ task \in [Collectors -> [Tasks -> TaskType]]
        /\ mem \in [Collectors -> Defs] /\ db \in [Collectors -> Defs]
    BY <1>0, IdleRun DEF Init
  <2>2. snapshot \in [hosts : SUBSET Collectors, w : Weights]
    BY JobSyncAssumption DEF Init, NoSnapshot
  <2>3. def \in [Jobs -> 0 .. MaxDef]
    BY JobSyncAssumption DEF Init
  <2> QED BY <2>1, <2>2, <2>3, JobSyncAssumption DEF Init, TypeOK
<1>3. RunsOK
  BY <1>1, IdleRun, TwoTasks DEF RunsOK, ForceIsFull
<1>4. ASSUME NEW c \in Collectors, NEW j \in Jobs PROVE JobOK(c, j)
  <2>1. /\ c \notin delta /\ mem[c][j] = 0 /\ db[c][j] = 0
    BY <1>0 DEF Init
  <2>2. \A t \in Tasks : task[c][t].pc = "idle" /\ Pending(task[c][t]) = {}
                         /\ task[c][t].drop = {} /\ task[c][t].put = {}
    BY <1>1, IdleRun
  <2>3. ~AsksDelta(c) /\ ~NotNews(c, j)
    BY <2>1, <2>2, TwoTasks DEF AsksDelta, InFlight, NotNews
  <2> QED BY <2>1, <2>2, <2>3, TwoTasks DEF JobOK, TwoAreBlind, Halfway, NotOnlyStored,
       AnswerRight, ListRight, Grounded
<1> QED BY <1>2, <1>3, <1>4 DEF SyncInv

-----------------------------------------------------------------------------
(***************************************************************************)
(* Changes at central.  A run under way keeps what it has; its request may *)
(* select other jobs, or its answer is late for more.                      *)
(***************************************************************************)
Aged(r, q) ==
    /\ q.pc = r.pc /\ q.full = r.full /\ q.got = r.got
    /\ q.drop = r.drop /\ q.put = r.put /\ q.half = r.half
    /\ r.late \subseteq q.late

AllAged == \A c \in Collectors, t \in Tasks : Aged(task[c][t], task'[c][t])

LEMMA AgedRuns ==
    ASSUME RunsOK, AllAged
    PROVE  RunsOK'
<1>1. ASSUME NEW c \in Collectors, NEW t \in Tasks PROVE RunOK(task'[c][t])
  <2>1. RunOK(task[c][t]) /\ Aged(task[c][t], task'[c][t])
    BY DEF RunsOK, AllAged
  <2> QED BY <2>1 DEF RunOK, Pending, Aged
<1>2. ASSUME NEW c \in Collectors PROVE ForceIsFull(c)'
  <2>1. ForceIsFull(c) /\ Aged(task[c]["force"], task'[c]["force"])
    BY TwoTasks DEF RunsOK, AllAged
  <2> QED BY <2>1 DEF ForceIsFull, InFlight, Aged
<1> QED BY <1>1, <1>2 DEF RunsOK

(* What lay behind a timestamp still does.                                 *)
StillNews(c, j) ==
    /\ j \in fresh[c] => j \in fresh'[c]
    /\ j \in task[c]["loop"].since => j \in task'[c]["loop"].since

(* The job stays as it was, or the collector is not expected to know, or   *)
(* it is told if it asks; in the last case no share is lost.               *)
LEMMA CentralChange ==
    ASSUME NEW c \in Collectors, NEW j \in Jobs, JobOK(c, j), AllAged,
           UNCHANGED <<mem, db, delta>>,
           j \in blind[c] => j \in blind'[c],
           j \in blind'[c] \/ StillNews(c, j),
           \/ Due(c, j)' = Due(c, j)
           \/ \A t \in Tasks : task[c][t].pc = "answered" => j \in task'[c][t].late,
           \/ Due(c, j)' = Due(c, j)
           \/ j \in blind'[c]
           \/ /\ c \in delta => j \in fresh'[c]
              /\ task[c]["loop"].pc = "asked" /\ ~task[c]["loop"].full
                   => j \in task'[c]["loop"].since
              /\ Due(c, j)' = 0 => Due(c, j) = 0
    PROVE  JobOK(c, j)'
<1>1. \A t \in Tasks : Aged(task[c][t], task'[c][t])
  BY DEF AllAged
<1>2. \A t \in Tasks : Pending(task'[c][t]) = Pending(task[c][t])
  BY <1>1 DEF Aged, Pending
<1>3. TwoAreBlind(c, j)' /\ Halfway(c, j)' /\ NotOnlyStored(c, j)'
  BY <1>1, <1>2 DEF JobOK, TwoAreBlind, Halfway, NotOnlyStored, Aged
<1>4. AnswerRight(c, j)'
  BY <1>1 DEF JobOK, AnswerRight, Aged
<1>5. Settled(c, j)' <=> Settled(c, j)
  BY <1>2 DEF Settled
<1>6. \A v : Leaves(c, j, v)' <=> Leaves(c, j, v)
  BY <1>1, <1>2, <1>5 DEF Leaves, Aged
<1>7. Aged(task[c]["loop"], task'[c]["loop"])
  BY <1>1, TwoTasks
<1>8. Grounded(c)' <=> Grounded(c)
  BY <1>7 DEF Grounded, AsksDelta, InFlight, Aged
<1>9. ListRight(c, j)'
  <2> SUFFICES ASSUME j \notin blind'[c]
               PROVE  /\ NotNews(c, j)' => Leaves(c, j, Due(c, j)')
                      /\ Grounded(c)' /\ Due(c, j)' = 0 => Leaves(c, j, 0)
                      /\ Grounded(c)' /\ Settled(c, j)' => db'[c][j] = mem'[c][j]
    BY <1>6 DEF ListRight, Leaves
  <2>1. /\ NotNews(c, j) => Leaves(c, j, Due(c, j))
        /\ Grounded(c) /\ Due(c, j) = 0 => Leaves(c, j, 0)
        /\ Grounded(c) /\ Settled(c, j) => db[c][j] = mem[c][j]
    BY DEF JobOK, ListRight
  <2>2. CASE Due(c, j)' = Due(c, j)
    <3>1. NotNews(c, j)' => NotNews(c, j)
      BY <1>7 DEF NotNews, Aged, StillNews
    <3> QED BY <2>1, <2>2, <3>1, <1>5, <1>8
  <2>3. CASE Due(c, j)' # Due(c, j)
    <3>1. task[c]["loop"].pc = "answered" => j \in task'[c]["loop"].late
      BY <2>3, TwoTasks
    <3>2. ~NotNews(c, j)'
      BY <1>7, <2>3, <3>1 DEF NotNews, Aged
    <3> QED BY <2>1, <2>3, <3>2, <1>5, <1>8
  <2> QED BY <2>2, <2>3
<1> QED BY <1>3, <1>4, <1>9 DEF JobOK

(* A change at central as a whole, from what it does to the runs and to    *)
(* the shares.                                                             *)
LEMMA ChangedKeeps ==
    ASSUME SyncInv, NEW js \in SUBSET Jobs, NEW told, Changed(js, told),
           task' \in [Collectors -> [Tasks -> TaskType]], AllAged,
           fresh' \in [Collectors -> SUBSET Jobs],
           active' \subseteq Collectors,
           snapshot' \in [hosts : SUBSET Collectors, w : Weights],
           def' \in [Jobs -> 0 .. MaxDef],
           \A c \in Collectors, t \in Tasks :
             task[c][t].pc = "answered" => js \subseteq task'[c][t].late,
           \A c \in Collectors, j \in Jobs : j \in blind'[c] \/ StillNews(c, j),
           \A c \in Collectors, j \in Jobs \ js : Due(c, j)' = Due(c, j),
           \A c \in Collectors, j \in js : c \in told =>
             /\ j \in fresh'[c]
             /\ task[c]["loop"].pc = "asked" /\ ~task[c]["loop"].full
                  => j \in task'[c]["loop"].since
             /\ Due(c, j)' = 0 => Due(c, j) = 0
    PROVE  SyncInv'
<1>0. TypeOK /\ RunsOK
  BY DEF SyncInv
<1>2. /\ blind' = [c \in Collectors |-> IF c \in told THEN blind[c] ELSE blind[c] \cup js]
      /\ changes < MaxChanges /\ changes' = changes + 1
      /\ UNCHANGED <<mem, db, delta, count, faults>>
  BY DEF Changed
<1>3. TypeOK'
  <2>1. blind' \in [Collectors -> SUBSET Jobs]
    BY <1>0, <1>2 DEF TypeOK
  <2>2. changes' \in 0 .. MaxChanges
    BY <1>0, <1>2, JobSyncAssumption DEF TypeOK
  <2> QED BY <1>0, <1>2, <2>1, <2>2 DEF TypeOK
<1>4. RunsOK'
  BY <1>0, AgedRuns
<1>5. ASSUME NEW c \in Collectors, NEW j \in Jobs PROVE JobOK(c, j)'
  <2>1. JobOK(c, j)
    BY DEF SyncInv
  <2>2. /\ j \in blind[c] => j \in blind'[c]
        /\ c \notin told /\ j \in js => j \in blind'[c]
    BY <1>2
  <2>3. \/ Due(c, j)' = Due(c, j)
        \/ j \in js /\ \A t \in Tasks : task[c][t].pc = "answered" => j \in task'[c][t].late
    OBVIOUS
  <2>4. \/ Due(c, j)' = Due(c, j)
        \/ j \in blind'[c]
        \/ /\ c \in delta => j \in fresh'[c]
           /\ task[c]["loop"].pc = "asked" /\ ~task[c]["loop"].full
                => j \in task'[c]["loop"].since
           /\ Due(c, j)' = 0 => Due(c, j) = 0
    BY <2>2, <2>3
  <2>5. j \in blind'[c] \/ StillNews(c, j)
    OBVIOUS
  <2> QED BY <1>2, <2>1, <2>2, <2>3, <2>4, <2>5, CentralChange
<1> QED BY <1>3, <1>4, <1>5 DEF SyncInv

(* An answer that central has read is late for js.                         *)
LEMMA OvertakenRun ==
    ASSUME NEW js \in SUBSET Jobs, NEW r \in TaskType
    PROVE  /\ Overtaken(r, js) \in TaskType /\ Aged(r, Overtaken(r, js))
           /\ Overtaken(r, js).since = r.since
           /\ r.pc = "answered" => js \subseteq Overtaken(r, js).late
<1> DEFINE q == Overtaken(r, js)
<1>1. q \in TaskType
  BY DEF Overtaken, TaskType
<1>2. /\ q.pc = r.pc /\ q.full = r.full /\ q.got = r.got /\ q.since = r.since
      /\ q.drop = r.drop /\ q.put = r.put /\ q.half = r.half
      /\ q.late = IF r.pc = "answered" THEN r.late \cup js ELSE r.late
  BY DEF Overtaken, TaskType
<1> HIDE DEF q
<1>3. q \in TaskType /\ Aged(r, q) /\ q.since = r.since /\ (r.pc = "answered" => js \subseteq q.late)
  BY <1>1, <1>2 DEF Aged
<1> QED BY <1>3 DEF q

LEMMA UnseenKeeps ==
    ASSUME SyncInv, NEW js \in SUBSET Jobs, Unseen(js),
           active' \subseteq Collectors,
           snapshot' \in [hosts : SUBSET Collectors, w : Weights],
           def' \in [Jobs -> 0 .. MaxDef],
           \A c \in Collectors, j \in Jobs \ js : Due(c, j)' = Due(c, j)
    PROVE  SyncInv'
<1>0. TypeOK
  BY DEF SyncInv
<1>1. Changed(js, {}) /\ fresh' = fresh
  BY DEF Unseen
<1>2. /\ task' = [c \in Collectors |-> [t \in Tasks |-> Overtaken(task[c][t], js)]]
      /\ \A c \in Collectors, t \in Tasks : task[c][t] \in TaskType
  BY <1>0 DEF Unseen, TypeOK
<1>3. \A c \in Collectors, t \in Tasks : task'[c][t] = Overtaken(task[c][t], js)
  BY <1>2
<1>4. task' \in [Collectors -> [Tasks -> TaskType]]
  BY <1>2, OvertakenRun
<1>5. AllAged
  BY <1>2, <1>3, OvertakenRun DEF AllAged
<1>6. /\ \A c \in Collectors, t \in Tasks :
           task[c][t].pc = "answered" => js \subseteq task'[c][t].late
      /\ \A c \in Collectors, t \in Tasks : task'[c][t].since = task[c][t].since
  BY <1>2, <1>3, OvertakenRun
<1>7. \A c \in Collectors, j \in Jobs : StillNews(c, j)
  BY <1>1, <1>6, TwoTasks DEF StillNews
<1>8. fresh' \in [Collectors -> SUBSET Jobs]
  BY <1>0, <1>1 DEF TypeOK
<1> QED BY <1>1, <1>4, <1>5, <1>6, <1>7, <1>8, ChangedKeeps

(* One run at a moved updated_at: the request selects the job or not.      *)
SinceOf(r, j, c, seen) ==
    IF r.pc = "asked" /\ ~r.full
    THEN (IF c \in seen THEN r.since \cup {j} ELSE r.since \ {j}) ELSE r.since

Redating(r, j, c, seen) == [Overtaken(r, {j}) EXCEPT !.since = SinceOf(r, j, c, seen)]

LEMMA RedatingRun ==
    ASSUME NEW r \in TaskType, NEW j \in Jobs, NEW c, NEW seen
    PROVE  /\ Redating(r, j, c, seen) \in TaskType /\ Aged(r, Redating(r, j, c, seen))
           /\ Redating(r, j, c, seen).since = SinceOf(r, j, c, seen)
           /\ r.pc = "answered" => {j} \subseteq Redating(r, j, c, seen).late
<1> DEFINE o == Overtaken(r, {j})
           n == SinceOf(r, j, c, seen)
           q == [o EXCEPT !.since = n]
<1>1. o \in TaskType /\ Aged(r, o) /\ (r.pc = "answered" => {j} \subseteq o.late)
  BY OvertakenRun
<1>2. n \in SUBSET Jobs
  BY RunFields DEF SinceOf
<1> HIDE DEF o, n
<1>3. /\ q \in TaskType /\ q.since = n
      /\ q.pc = o.pc /\ q.full = o.full /\ q.got = o.got
      /\ q.drop = o.drop /\ q.put = o.put /\ q.half = o.half /\ q.late = o.late
  BY <1>1, <1>2 DEF TaskType
<1> HIDE DEF q
<1>4. q \in TaskType /\ Aged(r, q) /\ q.since = n /\ (r.pc = "answered" => {j} \subseteq q.late)
  BY <1>1, <1>3 DEF Aged
<1>5. Redating(r, j, c, seen) = q
  BY DEF Redating, q, o, n
<1> QED BY <1>4, <1>5 DEF n

LEMMA RedatedKeeps ==
    ASSUME SyncInv, NEW j \in Jobs, NEW told, NEW seen,
           Redated(j, told, seen), told \cap AskingSince \subseteq seen,
           active' \subseteq Collectors,
           snapshot' \in [hosts : SUBSET Collectors, w : Weights],
           def' \in [Jobs -> 0 .. MaxDef],
           \A c \in Collectors, i \in Jobs \ {j} : Due(c, i)' = Due(c, i),
           \A c \in Collectors : Due(c, j)' = 0 => Due(c, j) = 0
    PROVE  SyncInv'
<1>0. TypeOK
  BY DEF SyncInv
<1>1. /\ Changed({j}, told)
      /\ fresh' = [c \in Collectors |->
           IF c \in told THEN fresh[c] \cup {j} ELSE fresh[c] \ {j}]
      /\ blind' = [c \in Collectors |-> IF c \in told THEN blind[c] ELSE blind[c] \cup {j}]
  BY DEF Redated, Changed
<1>2. /\ task' = [c \in Collectors |-> [t \in Tasks |-> Redating(task[c][t], j, c, seen)]]
      /\ \A c \in Collectors, t \in Tasks : task[c][t] \in TaskType
  <2>1. \A c \in Collectors, t \in Tasks : task[c][t] \in TaskType
    BY <1>0 DEF TypeOK
  <2>2. \A r \in TaskType : Overtaken(r, {j}).since = r.since
    BY OvertakenRun
  <2> QED BY <2>1, <2>2 DEF Redated, Redating, SinceOf
<1>3. \A c \in Collectors, t \in Tasks : task'[c][t] = Redating(task[c][t], j, c, seen)
  BY <1>2
<1>4. task' \in [Collectors -> [Tasks -> TaskType]]
  BY <1>2, RedatingRun
<1>5. AllAged
  BY <1>2, <1>3, RedatingRun DEF AllAged
<1>6. \A c \in Collectors, t \in Tasks :
         /\ task[c][t].pc = "answered" => {j} \subseteq task'[c][t].late
         /\ task'[c][t].since = SinceOf(task[c][t], j, c, seen)
  BY <1>2, <1>3, RedatingRun
<1>7. ASSUME NEW c \in Collectors, NEW i \in Jobs PROVE i \in blind'[c] \/ StillNews(c, i)
  <2>0. /\ task'[c]["loop"].since = SinceOf(task[c]["loop"], j, c, seen)
        /\ fresh'[c] = IF c \in told THEN fresh[c] \cup {j} ELSE fresh[c] \ {j}
    BY <1>1, <1>6, TwoTasks
  <2>1. CASE i # j
    BY <2>0, <2>1 DEF StillNews, SinceOf
  <2>2. CASE i = j /\ c \notin told
    BY <1>1, <2>2
  <2>3. CASE i = j /\ c \in told
    <3>1. task[c]["loop"].pc = "asked" /\ ~task[c]["loop"].full => c \in seen
      BY <2>3, TwoTasks DEF AskingSince
    <3>2. j \in fresh'[c]
      BY <2>0, <2>3
    <3>3. j \in task[c]["loop"].since => j \in task'[c]["loop"].since
      BY <2>0, <3>1 DEF SinceOf
    <3> QED BY <2>3, <3>2, <3>3 DEF StillNews
  <2> QED BY <2>1, <2>2, <2>3
<1>8. ASSUME NEW c \in Collectors, c \in told
      PROVE  /\ j \in fresh'[c]
             /\ task[c]["loop"].pc = "asked" /\ ~task[c]["loop"].full
                  => j \in task'[c]["loop"].since
  <2>1. task[c]["loop"].pc = "asked" /\ ~task[c]["loop"].full => c \in seen
    BY <1>8, TwoTasks DEF AskingSince
  <2> QED BY <1>1, <1>6, <1>8, <2>1, TwoTasks DEF SinceOf
<1>9. fresh' \in [Collectors -> SUBSET Jobs] /\ {j} \in SUBSET Jobs
  BY <1>0, <1>1 DEF TypeOK
<1> QED BY <1>1, <1>4, <1>5, <1>6, <1>7, <1>8, <1>9, ChangedKeeps

(* A definition changes: only the shares of that job do.                   *)
LEMMA DefinitionChange ==
    ASSUME TypeOK, NEW j \in Jobs, NEW v, def' = [def EXCEPT ![j] = v],
           UNCHANGED <<active, snapshot>>
    PROVE  \A c \in Collectors :
             /\ \A i \in Jobs \ {j} : Due(c, i)' = Due(c, i)
             /\ v # 0 /\ Due(c, j)' = 0 => Due(c, j) = 0
<1> SUFFICES ASSUME NEW c \in Collectors
             PROVE  /\ \A i \in Jobs \ {j} : Due(c, i)' = Due(c, i)
                    /\ v # 0 /\ Due(c, j)' = 0 => Due(c, j) = 0
  OBVIOUS
<1>1. def'[j] = v /\ \A i \in Jobs \ {j} : def'[i] = def[i]
  BY DEF TypeOK
<1> DEFINE M(i) == Mine(c, i, active, snapshot)
<1>2. \A i \in Jobs : /\ Due(c, i) = IF M(i) THEN def[i] ELSE 0
                      /\ Due(c, i)' = IF M(i) THEN def'[i] ELSE 0
  <2>1. \A i \in Jobs : Mine(c, i, active, snapshot)' <=> M(i)
    BY DEF Mine, CurrentWeights, Owner
  <2>2. \A i \in Jobs : Due(c, i) = IF M(i) THEN def[i] ELSE 0
    BY DEF Due, Share
  <2>3. \A i \in Jobs : Due(c, i)' = IF Mine(c, i, active, snapshot)' THEN def'[i] ELSE 0
    BY DEF Due, Share
  <2> HIDE DEF M
  <2> QED BY <2>1, <2>2, <2>3
<1> HIDE DEF M
<1> QED BY <1>1, <1>2

LEMMA EditStep ==
    ASSUME SyncInv, NEW j \in Jobs,
           EditAssignment(j) \/ HideAssignment(j) \/ EnableDevice(j)
    PROVE  SyncInv'
<1>0. TypeOK
  BY DEF SyncInv
<1>1. CASE EditAssignment(j)
  <2>1. PICK v \in 1 .. MaxDef : def' = [def EXCEPT ![j] = v]
    BY <1>1 DEF EditAssignment
  <2>2. UNCHANGED <<active, snapshot>>
    BY <1>1 DEF EditAssignment
  <2>3. v # 0 /\ def' \in [Jobs -> 0 .. MaxDef]
    BY <1>0, <2>1, JobSyncAssumption DEF TypeOK
  <2>4. /\ \A c \in Collectors, i \in Jobs \ {j} : Due(c, i)' = Due(c, i)
        /\ \A c \in Collectors : Due(c, j)' = 0 => Due(c, j) = 0
    BY <1>0, <2>1, <2>2, <2>3, DefinitionChange
  <2>5. /\ active' \subseteq Collectors
        /\ snapshot' \in [hosts : SUBSET Collectors, w : Weights]
    BY <1>0, <2>2 DEF TypeOK
  <2>6. PICK told \in SUBSET Collectors, seen \in SUBSET AskingSince :
          told \cap AskingSince \subseteq seen /\ Redated(j, told, seen)
    BY <1>1 DEF EditAssignment
  <2> QED BY <2>3, <2>4, <2>5, <2>6, RedatedKeeps
<1>2. CASE HideAssignment(j) \/ EnableDevice(j)
  <2>1. PICK v \in {0, 1} : def' = [def EXCEPT ![j] = v]
    BY <1>2 DEF HideAssignment, EnableDevice
  <2>2. Unseen({j}) /\ UNCHANGED <<active, snapshot>>
    BY <1>2 DEF HideAssignment, EnableDevice
  <2>3. def' \in [Jobs -> 0 .. MaxDef]
    <3>1. v \in 0 .. MaxDef
      BY JobSyncAssumption
    <3>2. def \in [Jobs -> 0 .. MaxDef]
      BY <1>0 DEF TypeOK
    <3> QED BY <2>1, <3>1, <3>2
  <2>4. \A c \in Collectors, i \in Jobs \ {j} : Due(c, i)' = Due(c, i)
    BY <1>0, <2>1, <2>2, DefinitionChange
  <2>5. /\ active' \subseteq Collectors
        /\ snapshot' \in [hosts : SUBSET Collectors, w : Weights]
    BY <1>0, <2>2 DEF TypeOK
  <2>6. {j} \in SUBSET Jobs
    OBVIOUS
  <2> QED BY <2>2, <2>3, <2>4, <2>5, <2>6, UnseenKeeps
<1> QED BY <1>1, <1>2

LEMMA RingStep ==
    ASSUME SyncInv, Rebalance \/ \E c \in Collectors : HealthCheck(c)
    PROVE  SyncInv'
<1>0. TypeOK
  BY DEF SyncInv
<1>1. Unseen(Jobs) /\ def' = def
  BY DEF Rebalance, HealthCheck
<1>2. active' \subseteq Collectors
  BY <1>0 DEF Rebalance, HealthCheck, TypeOK
<1>3. snapshot' \in [hosts : SUBSET Collectors, w : Weights]
  <2>1. CASE Rebalance
    BY <1>0, <2>1 DEF Rebalance, TypeOK
  <2>2. CASE \E c \in Collectors : HealthCheck(c)
    BY <2>2, JobSyncAssumption DEF HealthCheck, NoSnapshot
  <2> QED BY <2>1, <2>2
<1>4. /\ Jobs \in SUBSET Jobs /\ def' \in [Jobs -> 0 .. MaxDef]
      /\ \A c \in Collectors, i \in Jobs \ Jobs : Due(c, i)' = Due(c, i)
  BY <1>0, <1>1 DEF TypeOK
<1> QED BY <1>1, <1>2, <1>3, <1>4, UnseenKeeps

LEMMA HeartbeatStep ==
    ASSUME SyncInv, NEW b \in Collectors, Heartbeat(b)
    PROVE  SyncInv'
<1>0. TypeOK /\ RunsOK
  BY DEF SyncInv
<1> DEFINE New(r) == IF r.pc = "answered" THEN [r EXCEPT !.late = Jobs] ELSE r
<1>1. ASSUME NEW r \in TaskType
      PROVE  New(r) \in TaskType /\ Aged(r, New(r)) /\ (r.pc = "answered" => New(r).late = Jobs)
  <2>1. New(r) \in TaskType
    BY DEF TaskType
  <2>2. /\ New(r).pc = r.pc /\ New(r).full = r.full /\ New(r).got = r.got
        /\ New(r).drop = r.drop /\ New(r).put = r.put /\ New(r).half = r.half
        /\ New(r).since = r.since
        /\ New(r).late = IF r.pc = "answered" THEN Jobs ELSE r.late
    BY DEF TaskType
  <2>3. r.late \subseteq Jobs
    BY RunFields
  <2> HIDE DEF New
  <2> QED BY <2>1, <2>2, <2>3 DEF Aged
<1>2. task' = [c \in Collectors |-> [t \in Tasks |-> New(task[c][t])]]
  BY DEF Heartbeat
<1> HIDE DEF New
<1>3. \A c \in Collectors, t \in Tasks : task[c][t] \in TaskType /\ task'[c][t] = New(task[c][t])
  BY <1>0, <1>2 DEF TypeOK
<1>4. task' \in [Collectors -> [Tasks -> TaskType]] /\ AllAged
  BY <1>1, <1>2, <1>3 DEF AllAged
<1>5. /\ UNCHANGED <<fresh, snapshot, def, mem, db, delta, count, changes, faults>>
      /\ active' = active \cup {b}
      /\ blind' = [d \in Collectors |-> blind[d] \cup Jobs]
  BY DEF Heartbeat
<1>6. TypeOK'
  BY <1>0, <1>4, <1>5 DEF TypeOK
<1>7. RunsOK'
  BY <1>0, <1>4, AgedRuns
<1>8. ASSUME NEW c \in Collectors, NEW j \in Jobs PROVE JobOK(c, j)'
  <2>1. JobOK(c, j) /\ j \in blind'[c]
    BY <1>5 DEF SyncInv
  <2>2. \A t \in Tasks : task[c][t].pc = "answered" => j \in task'[c][t].late
    BY <1>1, <1>3
  <2> QED BY <1>4, <1>5, <2>1, <2>2, CentralChange
<1> QED BY <1>6, <1>7, <1>8 DEF SyncInv

-----------------------------------------------------------------------------
(***************************************************************************)
(* A request: it is made, answered, or fails.  Nothing is written.         *)
(***************************************************************************)
LEMMA BeginStep ==
    ASSUME SyncInv, NEW c \in Collectors, NEW t \in Tasks, NEW full \in BOOLEAN,
           Begin(c, t, full), t = "force" => full, ~full => c \in delta
    PROVE  SyncInv'
<1>0. TypeOK /\ RunsOK
  BY DEF SyncInv
<1> DEFINE r == [Idle EXCEPT !.pc = "asked", !.full = full,
                             !.since = IF full THEN {} ELSE fresh[c]]
<1>1. /\ task[c][t].pc = "idle" /\ task' = [task EXCEPT ![c][t] = r]
      /\ delta' = IF full THEN delta \ {c} ELSE delta
      /\ count' = [count EXCEPT ![c] = NextCount(@)]
      /\ UNCHANGED <<active, snapshot, def, mem, db, fresh, changes, faults, blind>>
  BY DEF Begin
<1>2. /\ r.pc = "asked" /\ r.full = full /\ r.since = (IF full THEN {} ELSE fresh[c])
      /\ r.drop = {} /\ r.put = {} /\ r.half = {} /\ r \in TaskType
  <2>1. fresh[c] \in SUBSET Jobs
    BY <1>0 DEF TypeOK
  <2>2. r \in TaskType
    BY <2>1, IdleRun DEF TaskType
  <2> QED BY <2>2 DEF Idle
<1>3. RunOK(r) /\ Pending(r) = {}
  BY <1>2 DEF RunOK, Pending
<1> HIDE DEF r
<1>4. /\ task' \in [Collectors -> [Tasks -> TaskType]]
      /\ task'[c][t] = r
      /\ \A u \in Tasks : u # t => task'[c][u] = task[c][u]
      /\ \A d \in Collectors : d # c => task'[d] = task[d]
  BY <1>0, <1>1, <1>2, OneRun
<1>5. TypeOK'
  <2>1. count' \in [Collectors -> 0 .. FullEvery - 1]
    <3>1. \A n \in 0 .. FullEvery - 1 : (n + 1) % FullEvery \in 0 .. FullEvery - 1
      BY JobSyncAssumption
    <3> QED BY <1>0, <1>1, <3>1 DEF NextCount, TypeOK
  <2>2. delta' \subseteq Collectors /\ fresh' \in [Collectors -> SUBSET Jobs]
    BY <1>0, <1>1 DEF TypeOK
  <2> QED BY <1>0, <1>1, <1>4, <2>1, <2>2 DEF TypeOK
<1>6. RunsOK'
  <2>1. ASSUME NEW d \in Collectors, NEW u \in Tasks PROVE RunOK(task'[d][u])
    BY <1>0, <1>3, <1>4 DEF RunsOK
  <2>2. ASSUME NEW d \in Collectors PROVE ForceIsFull(d)'
    <3>1. ForceIsFull(d)
      BY <1>0 DEF RunsOK
    <3> QED BY <1>2, <1>4, <3>1, TwoTasks DEF ForceIsFull
  <2> QED BY <2>1, <2>2 DEF RunsOK
<1>7. \A d, j : Due(d, j)' = Due(d, j)
  BY <1>1 DEF Due, Share, Mine, CurrentWeights, Owner
<1>8. ASSUME NEW d \in Collectors, NEW j \in Jobs, d # c PROVE JobOK(d, j)'
  <2>1. /\ JobOK(d, j) /\ task'[d] = task[d] /\ (d \in delta' <=> d \in delta)
        /\ fresh'[d] = fresh[d]
    BY <1>0, <1>1, <1>4, <1>8 DEF SyncInv, TypeOK
  <2> QED BY <1>1, <1>7, <2>1, SameJob
<1>9. ASSUME NEW j \in Jobs PROVE JobOK(c, j)'
  <2>1. JobOK(c, j)
    BY DEF SyncInv
  <2>2. /\ Pending(task[c][t]) = {} /\ task[c][t].drop = {} /\ task[c][t].put = {}
        /\ task[c][t].half = {}
    BY <1>0, <1>1 DEF RunsOK, RunOK, Pending
  <2>3. \A u \in Tasks : Pending(task'[c][u]) = Pending(task[c][u])
    BY <1>3, <1>4, <2>2
  <2>4. TwoAreBlind(c, j)' /\ Halfway(c, j)' /\ NotOnlyStored(c, j)'
    BY <1>1, <1>2, <1>4, <2>1, <2>2, <2>3 DEF JobOK, TwoAreBlind, Halfway, NotOnlyStored
  <2>5. AnswerRight(c, j)'
    BY <1>2, <1>4, <1>7, <2>1 DEF JobOK, AnswerRight
  <2>6. Settled(c, j)' <=> Settled(c, j)
    BY <2>3 DEF Settled
  <2>7. \A v : Leaves(c, j, v) => Leaves(c, j, v)'
    BY <1>1, <1>3, <1>4, <2>3, <2>6 DEF Leaves
  <2>8. Grounded(c)' => Grounded(c)
    BY <1>1, <1>2, <1>4, TwoTasks DEF Grounded, AsksDelta
  <2>9. NotNews(c, j)' => NotNews(c, j)
    BY <1>1, <1>2, <1>4, TwoTasks DEF NotNews
  <2>10. ListRight(c, j)'
    BY <1>1, <1>7, <2>1, <2>6, <2>7, <2>8, <2>9 DEF JobOK, ListRight
  <2> QED BY <2>4, <2>5, <2>10 DEF JobOK
<1> QED BY <1>5, <1>6, <1>8, <1>9 DEF SyncInv

LEMMA SyncBegins ==
    ASSUME SyncInv, NEW c \in Collectors, SyncLoop(c) \/ ForceSync(c)
    PROVE  SyncInv'
<1>1. CASE SyncLoop(c)
  <2>1. FullSync(c) \in BOOLEAN /\ (~FullSync(c) => c \in delta)
    BY DEF FullSync
  <2> QED BY <1>1, <2>1, TwoTasks, BeginStep DEF SyncLoop
<1>2. CASE ForceSync(c)
  BY <1>2, TwoTasks, BeginStep DEF ForceSync
<1> QED BY <1>1, <1>2

(* A step of one run of _sync_jobs, from what it does to its own           *)
(* collector's jobs.                                                       *)
LEMMA RunStep ==
    ASSUME SyncInv, NEW c \in Collectors, NEW t \in Tasks, NEW q \in TaskType,
           task' = [task EXCEPT ![c][t] = q],
           RunOK(q), t = "force" /\ InFlight(q) => q.full,
           UNCHANGED <<active, snapshot, def, count, changes>>,
           mem' \in [Collectors -> Defs], db' \in [Collectors -> Defs],
           delta' \subseteq Collectors, fresh' \in [Collectors -> SUBSET Jobs],
           faults' \in 0 .. MaxFaults, blind' \in [Collectors -> SUBSET Jobs],
           \A d \in Collectors : d # c =>
             /\ mem'[d] = mem[d] /\ db'[d] = db[d] /\ fresh'[d] = fresh[d]
             /\ blind'[d] = blind[d] /\ (d \in delta' <=> d \in delta),
           \A j \in Jobs : JobOK(c, j)'
    PROVE  SyncInv'
<1>0. TypeOK /\ RunsOK
  BY DEF SyncInv
<1>1. /\ task' \in [Collectors -> [Tasks -> TaskType]]
      /\ task'[c][t] = q
      /\ \A u \in Tasks : u # t => task'[c][u] = task[c][u]
      /\ \A d \in Collectors : d # c => task'[d] = task[d]
  BY <1>0, OneRun
<1>2. TypeOK'
  BY <1>0, <1>1 DEF TypeOK
<1>3. RunsOK'
  <2>1. ASSUME NEW d \in Collectors, NEW u \in Tasks PROVE RunOK(task'[d][u])
    BY <1>0, <1>1 DEF RunsOK
  <2>2. ASSUME NEW d \in Collectors PROVE ForceIsFull(d)'
    <3>1. ForceIsFull(d)
      BY <1>0 DEF RunsOK
    <3> QED BY <1>1, <3>1, TwoTasks DEF ForceIsFull
  <2> QED BY <2>1, <2>2 DEF RunsOK
<1>4. \A d, j : Due(d, j)' = Due(d, j)
  BY DEF Due, Share, Mine, CurrentWeights, Owner
<1>5. ASSUME NEW d \in Collectors, NEW j \in Jobs PROVE JobOK(d, j)'
  <2>1. CASE d = c
    BY <2>1
  <2>2. CASE d # c
    <3>1. JobOK(d, j) /\ task'[d] = task[d]
      BY <1>1, <2>2 DEF SyncInv
    <3> QED BY <1>4, <2>2, <3>1, SameJob
  <2> QED BY <2>1, <2>2
<1> QED BY <1>2, <1>3, <1>5 DEF SyncInv

(* A job when a request is answered or fails: nothing is written.          *)
LEMMA NoWrite ==
    ASSUME NEW c \in Collectors, NEW t \in Tasks, NEW j \in Jobs, NEW q, JobOK(c, j),
           UNCHANGED <<mem, db, delta, fresh, blind>>, Due(c, j)' = Due(c, j),
           task'[c][t] = q, \A u \in Tasks : u # t => task'[c][u] = task[c][u],
           Pending(task[c][t]) = {}, task[c][t].half = {},
           Pending(q) = {}, q.half = {},
           q.pc = "answered" /\ j \notin q.late /\ (q.full \/ q.got[j] # 0)
             => q.got[j] = Due(c, j),
           Grounded(c)' => Grounded(c),
           NotNews(c, j)' /\ j \notin blind[c] => Leaves(c, j, Due(c, j))
    PROVE  JobOK(c, j)'
<1>1. \A u \in Tasks : Pending(task'[c][u]) = Pending(task[c][u])
  OBVIOUS
<1>2. task'[c][t].drop = {} /\ task'[c][t].put = {} /\ task'[c][t].half = {}
  BY DEF Pending
<1>3. TwoAreBlind(c, j)'
  BY <1>1 DEF JobOK, TwoAreBlind
<1>4. Halfway(c, j)'
  BY <1>2 DEF JobOK, Halfway
<1>5. NotOnlyStored(c, j)'
  <2>1. \A u \in Tasks : j \in task[c][u].half => j \in task'[c][u].half
    OBVIOUS
  <2> QED BY <2>1 DEF JobOK, NotOnlyStored
<1>6. AnswerRight(c, j)'
  BY DEF JobOK, AnswerRight
<1>7. Settled(c, j)' <=> Settled(c, j)
  BY <1>1 DEF Settled
<1>8. \A v : Leaves(c, j, v) => Leaves(c, j, v)'
  <2>1. \A u \in Tasks : j \in Pending(task'[c][u]) => task'[c][u] = task[c][u]
    BY <1>1
  <2> QED BY <1>1, <1>7, <2>1 DEF Leaves
<1>9. ListRight(c, j)'
  BY <1>7, <1>8 DEF JobOK, ListRight
<1> QED BY <1>3, <1>4, <1>5, <1>6, <1>9 DEF JobOK

LEMMA GetJobsStep ==
    ASSUME SyncInv, NEW c \in Collectors, NEW t \in Tasks, GetJobs(c, t)
    PROVE  SyncInv'
<1>0. TypeOK /\ RunsOK
  BY DEF SyncInv
<1> DEFINE r == task[c][t]
           q == [r EXCEPT !.pc = "answered", !.got = Selected(c, r), !.since = {}]
<1>1. /\ r.pc = "asked" /\ task' = [task EXCEPT ![c][t] = q]
      /\ UNCHANGED <<active, snapshot, def, mem, db, delta, fresh, count, changes,
                     faults, blind>>
  BY DEF GetJobs
<1>2. r \in TaskType /\ RunOK(r) /\ Selected(c, r) \in Defs
  <2>1. r \in TaskType /\ RunOK(r)
    BY <1>0 DEF TypeOK, RunsOK
  <2>2. Share(c) \in Defs
    BY <1>0, ShareType
  <2>3. Selected(c, r) \in Defs
    BY <2>2, JobSyncAssumption DEF Selected, Defs
  <2> QED BY <2>1, <2>3
<1>3. /\ q \in TaskType /\ q.pc = "answered" /\ q.full = r.full /\ q.got = Selected(c, r)
      /\ q.drop = r.drop /\ q.put = r.put /\ q.half = r.half /\ q.late = r.late
  BY <1>2 DEF TaskType
<1>4. \A j \in Jobs : Selected(c, r)[j] = IF r.full \/ j \in r.since THEN Due(c, j) ELSE 0
  BY DEF Selected, Due
<1> HIDE DEF r, q
<1>5. /\ r.drop = {} /\ r.put = {} /\ r.half = {} /\ Pending(r) = {} /\ Pending(q) = {}
      /\ q.half = {} /\ RunOK(q)
  BY <1>1, <1>2, <1>3 DEF RunOK, Pending
<1>6. t = "force" => r.full
  BY <1>0, <1>1 DEF RunsOK, ForceIsFull, InFlight, r
<1>7. /\ task'[c][t] = q /\ \A u \in Tasks : u # t => task'[c][u] = task[c][u]
  BY <1>0, <1>1 DEF TypeOK
<1>8. \A j : Due(c, j)' = Due(c, j)
  BY <1>1 DEF Due, Share, Mine, CurrentWeights, Owner
<1>9. Grounded(c)' => Grounded(c)
  BY <1>1, <1>3, <1>7, TwoTasks DEF Grounded, AsksDelta, InFlight, r
<1>10. ASSUME NEW j \in Jobs PROVE JobOK(c, j)'
  <2>1. JobOK(c, j)
    BY DEF SyncInv
  <2>2. q.pc = "answered" /\ j \notin q.late /\ (q.full \/ q.got[j] # 0)
          => q.got[j] = Due(c, j)
    BY <1>3, <1>4
  <2>3. ASSUME NotNews(c, j)', j \notin blind[c] PROVE Leaves(c, j, Due(c, j))
    <3>1. CASE NotNews(c, j)
      BY <2>1, <2>3, <3>1 DEF JobOK, ListRight
    <3>2. CASE ~NotNews(c, j)
      <4>1. t = "loop"
        BY <1>1, <1>7, <2>3, <3>2, TwoTasks DEF NotNews
      <4>2. ~q.full /\ q.got[j] = 0
        BY <1>1, <1>3, <1>7, <2>3, <3>2, <4>1 DEF NotNews
      <4>3. AsksDelta(c) /\ j \in r.since
        BY <1>1, <1>3, <3>2, <4>1, <4>2 DEF AsksDelta, InFlight, NotNews, r
      <4>4. Due(c, j) = 0 /\ Grounded(c)
        BY <1>3, <1>4, <4>2, <4>3 DEF Grounded
      <4> QED BY <2>1, <2>3, <4>4 DEF JobOK, ListRight
    <3> QED BY <3>1, <3>2
  <2> QED BY <1>1, <1>5, <1>7, <1>8, <1>9, <2>1, <2>2, <2>3, NoWrite DEF r
<1>11. /\ mem' \in [Collectors -> Defs] /\ db' \in [Collectors -> Defs]
       /\ delta' \subseteq Collectors /\ fresh' \in [Collectors -> SUBSET Jobs]
       /\ faults' \in 0 .. MaxFaults /\ blind' \in [Collectors -> SUBSET Jobs]
  BY <1>0, <1>1 DEF TypeOK
<1>12. t = "force" /\ InFlight(q) => q.full
  BY <1>3, <1>6
<1> QED BY <1>1, <1>3, <1>5, <1>10, <1>11, <1>12, RunStep

LEMMA RequestEnds ==
    ASSUME SyncInv, NEW c \in Collectors, NEW t \in Tasks, Refused(c, t) \/ SyncFails(c, t)
    PROVE  SyncInv'
<1>0. TypeOK /\ RunsOK
  BY DEF SyncInv
<1>1. /\ task[c][t].pc \in {"asked", "answered"} /\ task' = [task EXCEPT ![c][t] = Idle]
      /\ UNCHANGED <<active, snapshot, def, mem, db, delta, fresh, count, changes, blind>>
  BY DEF Refused, SyncFails
<1>2. faults' \in 0 .. MaxFaults
  BY <1>0, JobSyncAssumption DEF Refused, SyncFails, TypeOK
<1>3. /\ task'[c][t] = Idle /\ \A u \in Tasks : u # t => task'[c][u] = task[c][u]
  BY <1>0, <1>1 DEF TypeOK
<1>4. Pending(task[c][t]) = {} /\ task[c][t].half = {}
  BY <1>0, <1>1 DEF RunsOK, RunOK, Pending
<1>5. \A j : Due(c, j)' = Due(c, j)
  BY <1>1 DEF Due, Share, Mine, CurrentWeights, Owner
<1>6. Grounded(c)' => Grounded(c)
  BY <1>1, <1>3, IdleRun, TwoTasks DEF Grounded, AsksDelta
<1>7. ASSUME NEW j \in Jobs PROVE JobOK(c, j)'
  <2>1. JobOK(c, j)
    BY DEF SyncInv
  <2>2. NotNews(c, j)' => NotNews(c, j)
    BY <1>1, <1>3, IdleRun, TwoTasks DEF NotNews
  <2>3. NotNews(c, j)' /\ j \notin blind[c] => Leaves(c, j, Due(c, j))
    BY <2>1, <2>2 DEF JobOK, ListRight
  <2> QED BY <1>1, <1>3, <1>4, <1>5, <1>6, <2>1, <2>3, IdleRun, NoWrite
<1>8. /\ mem' \in [Collectors -> Defs] /\ db' \in [Collectors -> Defs]
      /\ delta' \subseteq Collectors /\ fresh' \in [Collectors -> SUBSET Jobs]
      /\ blind' \in [Collectors -> SUBSET Jobs]
  BY <1>0, <1>1 DEF TypeOK
<1> QED BY <1>1, <1>2, <1>7, <1>8, IdleRun, RunStep

-----------------------------------------------------------------------------
(***************************************************************************)
(* An answer is applied.                                                   *)
(***************************************************************************)

(* The run that StampAndApply leaves behind.                               *)
Stamped(c, r, half) ==
    Rest([r EXCEPT !.pc = "apply", !.drop = Stale(c, r), !.put = Listed(r),
                   !.half = half, !.full = FALSE, !.late = {}])

LEMMA StampedRun ==
    ASSUME NEW c \in Collectors, NEW r \in TaskType,
           NEW half \in SUBSET Stale(c, r), \A i, k \in half : i = k
    PROVE  LET q == Stamped(c, r, half) IN
           /\ q \in TaskType /\ q.pc \in {"apply", "idle"} /\ RunOK(q)
           /\ q.drop = Stale(c, r) /\ q.put = Listed(r) /\ q.half = half
           /\ \A i \in Pending(q) : q.got[i] = r.got[i]
<1> DEFINE q == Stamped(c, r, half)
           p == [r EXCEPT !.pc = "apply", !.drop = Stale(c, r), !.put = Listed(r),
                         !.half = half, !.full = FALSE, !.late = {}]
<1>1. Stale(c, r) \subseteq Jobs /\ Listed(r) \subseteq Jobs
  BY DEF Stale, Listed
<1>2. /\ p \in TaskType /\ p.pc = "apply" /\ p.drop = Stale(c, r) /\ p.put = Listed(r)
      /\ p.half = half /\ p.got = r.got
  BY <1>1 DEF TaskType
<1>3. q = IF Stale(c, r) \cup Listed(r) = {} THEN Idle ELSE p
  BY <1>2 DEF Stamped, Rest, Pending
<1> HIDE DEF p, q
<1>4. /\ q \in TaskType /\ q.pc \in {"apply", "idle"}
      /\ q.drop = Stale(c, r) /\ q.put = Listed(r) /\ q.half = half
      /\ \A i \in Pending(q) : q.got[i] = r.got[i]
  <2>1. CASE Stale(c, r) \cup Listed(r) = {}
    BY <1>3, <2>1, IdleRun
  <2>2. CASE Stale(c, r) \cup Listed(r) # {}
    BY <1>2, <1>3, <2>2
  <2> QED BY <2>1, <2>2
<1>5. /\ \A i \in Stale(c, r) : r.got[i] = 0
      /\ \A i \in Listed(r) : r.got[i] # 0
  BY DEF Stale, Listed
<1>6. RunOK(q)
  <2>1. q.pc # "apply" => q.drop = {} /\ q.put = {}
    <3>1. CASE Stale(c, r) \cup Listed(r) = {}
      BY <1>3, <3>1, IdleRun
    <3>2. CASE Stale(c, r) \cup Listed(r) # {}
      BY <1>2, <1>3, <3>2
    <3> QED BY <3>1, <3>2
  <2>2. q.half \subseteq Pending(q)
    BY <1>4 DEF Pending
  <2>3. /\ \A i \in q.drop : q.got[i] = 0
        /\ \A i \in q.put : q.got[i] # 0
    BY <1>4, <1>5 DEF Pending
  <2> QED BY <1>4, <2>1, <2>2, <2>3 DEF RunOK
<1> QED BY <1>4, <1>6 DEF q

(* A job when an answer arrives.  A full answer is right about it, or a    *)
(* delta answer that lists it; one that does not leaves it as it was, and  *)
(* NotNews says that this is right.                                        *)
LEMMA StampedJob ==
    ASSUME SyncInv, NEW c \in Collectors, NEW t \in Tasks, NEW u \in Tasks, NEW j \in Jobs,
           u # t, \A s \in Tasks : s \in {t, u},
           NEW r, r = task[c][t], r.pc = "answered",
           NEW q, task'[c][t] = q, task'[c][u] = task[c][u],
           q.pc \in {"apply", "idle"},
           q.drop = Stale(c, r), q.put = Listed(r), q.half \subseteq Stale(c, r),
           \A i \in Pending(q) : q.got[i] = r.got[i],
           mem'[c][j] = IF j \in q.half THEN 0 ELSE mem[c][j],
           db' = db, Due(c, j)' = Due(c, j),
           blind'[c] = (IF r.full THEN {} ELSE blind[c] \ Listed(r))
                         \cup r.late \cup Pending(task[c][u])
    PROVE  JobOK(c, j)'
<1>0. /\ JobOK(c, j) /\ RunOK(r) /\ RunOK(task[c][u]) /\ ForceIsFull(c)
      /\ t \in {"loop", "force"}
  BY TwoTasks DEF SyncInv, RunsOK
<1>1. /\ r.drop = {} /\ r.put = {} /\ r.half = {} /\ Pending(r) = {}
      /\ task[c][u].half \subseteq Pending(task[c][u])
  BY <1>0 DEF RunOK, Pending
<1>2. \A i \in Jobs : /\ i \in Listed(r) <=> r.got[i] # 0
                      /\ i \in Stale(c, r) <=> r.full /\ mem[c][i] # 0 /\ r.got[i] = 0
  BY DEF Listed, Stale
<1>3. j \in Pending(q) <=> j \in Stale(c, r) \/ j \in Listed(r)
  BY DEF Pending
<1>4. TwoAreBlind(c, j)'
  BY DEF TwoAreBlind
<1>5. ASSUME j \notin blind'[c]
      PROVE  /\ j \notin r.late /\ j \notin Pending(task[c][u]) /\ j \notin task[c][u].half
             /\ j \notin task[c][u].drop /\ j \notin task[c][u].put
             /\ ~r.full => j \notin blind[c] \/ r.got[j] # 0
  BY <1>1, <1>2, <1>5 DEF Pending
<1>6. Halfway(c, j)'
  <2> SUFFICES ASSUME j \notin blind'[c], NEW s \in Tasks
               PROVE  /\ j \in task'[c][s].drop /\ j \in task'[c][s].half => mem'[c][j] = 0
                      /\ j \in task'[c][s].put /\ j \in task'[c][s].half
                           => db'[c][j] = task'[c][s].got[j]
    BY DEF Halfway
  <2>1. CASE s = u
    BY <1>5, <2>1
  <2>2. CASE s = t
    BY <1>2, <2>2
  <2> QED BY <2>1, <2>2
<1>7. NotOnlyStored(c, j)'
  <2> SUFFICES ASSUME db[c][j] # 0, mem'[c][j] = 0 PROVE \E s \in Tasks : j \in task'[c][s].half
    BY DEF NotOnlyStored
  <2>1. CASE j \in q.half
    BY <2>1
  <2>2. CASE j \notin q.half
    <3>1. PICK s \in Tasks : j \in task[c][s].half
      BY <1>0, <2>2 DEF JobOK, NotOnlyStored
    <3> QED BY <1>1, <3>1
  <2> QED BY <2>1, <2>2
<1>8. AnswerRight(c, j)'
  <2> SUFFICES ASSUME NEW s \in Tasks, task'[c][s].pc = "answered", j \notin task'[c][s].late,
                      task'[c][s].full \/ task'[c][s].got[j] # 0
               PROVE  task'[c][s].got[j] = Due(c, j)
    BY DEF AnswerRight
  <2>1. s = u
    OBVIOUS
  <2> QED BY <1>0, <2>1 DEF JobOK, AnswerRight
<1>9. ASSUME j \notin blind'[c]
      PROVE  Leaves(c, j, Due(c, j))' /\ (Settled(c, j)' => db'[c][j] = mem'[c][j])
  <2>1. r.full \/ r.got[j] # 0 => r.got[j] = Due(c, j)
    BY <1>0, <1>5, <1>9 DEF JobOK, AnswerRight
  <2>2. Settled(c, j)' <=> j \notin Pending(q)
    BY <1>5, <1>9 DEF Settled
  <2>3. Settled(c, j)
    BY <1>1, <1>5, <1>9 DEF Settled
  <2>4. ASSUME j \notin Pending(q)
        PROVE  mem'[c][j] = Due(c, j) /\ db[c][j] = mem'[c][j]
    <3>1. r.got[j] = 0 /\ mem'[c][j] = mem[c][j]
      BY <1>2, <1>3, <2>4
    <3>2. CASE r.full
      <4>1. mem[c][j] = 0 /\ Due(c, j) = 0
        BY <1>2, <1>3, <2>1, <2>4, <3>1, <3>2
      <4>2. \A s \in Tasks : j \notin task[c][s].half
        BY <1>1, <1>5, <1>9
      <4>3. db[c][j] = 0
        BY <1>0, <4>1, <4>2 DEF JobOK, NotOnlyStored
      <4> QED BY <3>1, <4>1, <4>3
    <3>3. CASE ~r.full
      <4>1. t = "loop"
        BY <1>0, <3>3 DEF ForceIsFull, InFlight
      <4>2. AsksDelta(c) /\ NotNews(c, j)
        BY <1>5, <1>9, <3>1, <3>3, <4>1 DEF AsksDelta, InFlight, NotNews
      <4>3. j \notin blind[c] /\ Grounded(c)
        BY <1>5, <1>9, <3>1, <3>3, <4>2 DEF Grounded
      <4>4. Leaves(c, j, Due(c, j)) /\ db[c][j] = mem[c][j]
        BY <1>0, <2>3, <4>2, <4>3 DEF JobOK, ListRight
      <4> QED BY <2>3, <3>1, <4>4 DEF Leaves
    <3> QED BY <3>2, <3>3
  <2>5. ASSUME NEW s \in Tasks, j \in Pending(task'[c][s])
        PROVE  task'[c][s].got[j] = Due(c, j)
    <3>1. s = t /\ j \in Pending(q) /\ q.got[j] = r.got[j]
      BY <1>5, <1>9, <2>5
    <3>2. r.full \/ r.got[j] # 0
      BY <1>2, <1>3, <3>1
    <3> QED BY <2>1, <3>1, <3>2
  <2>6. Settled(c, j)' => mem'[c][j] = Due(c, j) /\ db'[c][j] = mem'[c][j]
    BY <2>2, <2>4
  <2> QED BY <2>5, <2>6 DEF Leaves
<1>10. ListRight(c, j)'
  <2> SUFFICES ASSUME j \notin blind'[c]
               PROVE  /\ Leaves(c, j, Due(c, j))'
                      /\ Due(c, j)' = 0 => Leaves(c, j, 0)'
                      /\ Settled(c, j)' => db'[c][j] = mem'[c][j]
    BY DEF ListRight
  <2> QED BY <1>9 DEF Leaves
<1> QED BY <1>4, <1>6, <1>7, <1>8, <1>10 DEF JobOK

LEMMA StampStep ==
    ASSUME SyncInv, NEW c \in Collectors, NEW t \in Tasks, StampAndApply(c, t)
    PROVE  SyncInv'
<1>0. TypeOK /\ RunsOK
  BY DEF SyncInv
<1>1. PICK u \in Tasks : u # t /\ \A s \in Tasks : s \in {t, u}
  BY DEF Tasks
<1> DEFINE r == task[c][t]
<1>2. UNION {Pending(task[c][s]) : s \in Tasks \ {t}} = Pending(task[c][u])
  BY <1>1
<1>3. /\ r.pc = "answered"
      /\ delta' = delta \cup {c}
      /\ \E ahead \in SUBSET fresh[c] : fresh' = [fresh EXCEPT ![c] = ahead]
      /\ blind' = [blind EXCEPT ![c] = (IF r.full THEN {} ELSE @ \ Listed(r))
                                         \cup r.late \cup Pending(task[c][u])]
      /\ UNCHANGED <<active, snapshot, def, db, count, changes, faults>>
  BY <1>2 DEF StampAndApply
<1>4. PICK half \in SUBSET Stale(c, r) :
        /\ task' = [task EXCEPT ![c][t] = Stamped(c, r, half)]
        /\ \A i, k \in half : i = k
        /\ \/ half = {} /\ mem' = mem
           \/ \E i \in Stale(c, r) : half = {i} /\ mem' = [mem EXCEPT ![c][i] = 0]
  <2>1. CASE task' = [task EXCEPT ![c][t] = Stamped(c, r, {})] /\ mem' = mem
    BY <2>1
  <2>2. CASE \E i \in Stale(c, r) : /\ task' = [task EXCEPT ![c][t] = Stamped(c, r, {i})]
                                    /\ mem' = [mem EXCEPT ![c][i] = 0]
    <3>1. PICK i \in Stale(c, r) : /\ task' = [task EXCEPT ![c][t] = Stamped(c, r, {i})]
                                   /\ mem' = [mem EXCEPT ![c][i] = 0]
      BY <2>2
    <3>2. {i} \in SUBSET Stale(c, r) /\ \A x, k \in {i} : x = k
      OBVIOUS
    <3> QED BY <3>1, <3>2
  <2> QED BY <2>1, <2>2 DEF StampAndApply, Stamped
<1> DEFINE q == Stamped(c, r, half)
<1>5. r \in TaskType
  BY <1>0 DEF TypeOK
<1>6. /\ q \in TaskType /\ q.pc \in {"apply", "idle"} /\ RunOK(q)
      /\ q.drop = Stale(c, r) /\ q.put = Listed(r) /\ q.half = half
      /\ \A i \in Pending(q) : q.got[i] = r.got[i]
  <2>1. \A i, k \in half : i = k
    BY <1>4
  <2> HIDE DEF r
  <2> QED BY <1>5, <2>1, StampedRun
<1>7. task' = [task EXCEPT ![c][t] = q]
  BY <1>4
<1> HIDE DEF q
<1>8. /\ task'[c][t] = q /\ task'[c][u] = task[c][u]
  BY <1>0, <1>1, <1>7 DEF TypeOK
<1>9. /\ mem' \in [Collectors -> Defs]
      /\ \A d \in Collectors : d # c => mem'[d] = mem[d]
      /\ \A j \in Jobs : mem'[c][j] = IF j \in q.half THEN 0 ELSE mem[c][j]
  <2>1. mem \in [Collectors -> [Jobs -> 0 .. MaxDef]] /\ 0 \in 0 .. MaxDef
    BY <1>0, JobSyncAssumption DEF TypeOK, Defs
  <2>2. CASE half = {} /\ mem' = mem
    BY <1>0, <1>6, <2>2 DEF TypeOK
  <2>3. CASE \E i \in Stale(c, r) : half = {i} /\ mem' = [mem EXCEPT ![c][i] = 0]
    <3>1. PICK i \in Stale(c, r) : half = {i} /\ mem' = [mem EXCEPT ![c][i] = 0]
      BY <2>3
    <3>2. i \in Jobs
      BY DEF Stale
    <3> QED BY <1>6, <2>1, <3>1, <3>2 DEF Defs
  <2> QED BY <1>4, <2>2, <2>3
<1>10. /\ fresh' \in [Collectors -> SUBSET Jobs] /\ blind' \in [Collectors -> SUBSET Jobs]
       /\ delta' \subseteq Collectors /\ db' \in [Collectors -> Defs]
       /\ faults' \in 0 .. MaxFaults
       /\ \A d \in Collectors : d # c => /\ fresh'[d] = fresh[d] /\ blind'[d] = blind[d]
                                         /\ (d \in delta' <=> d \in delta)
       /\ blind'[c] = (IF r.full THEN {} ELSE blind[c] \ Listed(r))
                         \cup r.late \cup Pending(task[c][u])
  <2>1. r.late \subseteq Jobs /\ Pending(task[c][u]) \subseteq Jobs
    <3>1. task[c][u] \in TaskType
      BY <1>0 DEF TypeOK
    <3> QED BY <1>5, <3>1, RunFields DEF Pending
  <2>2. fresh \in [Collectors -> SUBSET Jobs] /\ blind \in [Collectors -> SUBSET Jobs]
    BY <1>0 DEF TypeOK
  <2>3. blind'[c] = (IF r.full THEN {} ELSE blind[c] \ Listed(r))
                      \cup r.late \cup Pending(task[c][u])
    BY <1>3, <2>2
  <2>4. blind' \in [Collectors -> SUBSET Jobs] /\ \A d \in Collectors : d # c => blind'[d] = blind[d]
    BY <1>3, <2>1, <2>2
  <2>5. fresh' \in [Collectors -> SUBSET Jobs] /\ \A d \in Collectors : d # c => fresh'[d] = fresh[d]
    BY <1>3, <2>2
  <2> QED BY <1>0, <1>3, <2>3, <2>4, <2>5 DEF TypeOK
<1>11. \A j : Due(c, j)' = Due(c, j)
  BY <1>3 DEF Due, Share, Mine, CurrentWeights, Owner
<1>12. ASSUME NEW j \in Jobs PROVE JobOK(c, j)'
  <2>1. mem'[c][j] = (IF j \in q.half THEN 0 ELSE mem[c][j]) /\ q.half \subseteq Stale(c, r)
    BY <1>6, <1>9
  <2> HIDE DEF r
  <2>2. r = task[c][t] /\ db' = db /\ Due(c, j)' = Due(c, j)
    BY <1>3, <1>11 DEF r
  <2> QED BY <1>1, <1>3, <1>6, <1>8, <1>10, <2>1, <2>2, StampedJob
<1>13. ~InFlight(q)
  BY <1>6 DEF InFlight
<1>14. /\ UNCHANGED <<active, snapshot, def, count, changes>>
       /\ \A d \in Collectors : d # c =>
             /\ mem'[d] = mem[d] /\ db'[d] = db[d] /\ fresh'[d] = fresh[d]
             /\ blind'[d] = blind[d] /\ (d \in delta' <=> d \in delta)
  BY <1>3, <1>9, <1>10
<1> QED BY <1>6, <1>7, <1>9, <1>10, <1>12, <1>13, <1>14, RunStep

(* A write to the job i by the run t of c: i stays in the run's hands, or  *)
(* leaves them as its answer said, in memory and in SQLite.                *)
WriteOf(c, t, i, q) ==
    LET r == task[c][t] IN
    /\ i \in Pending(r) /\ task' = [task EXCEPT ![c][t] = q]
    /\ q \in TaskType /\ RunOK(q) /\ q.pc \in {"apply", "idle"}
    /\ q.drop \subseteq r.drop /\ q.put \subseteq r.put
    /\ \A k \in Pending(r) : k # i => k \in Pending(q)
    /\ \A k \in Pending(q) : q.got[k] = r.got[k]
    /\ \A k \in Jobs : k # i => (k \in q.half <=> k \in r.half)
    /\ UNCHANGED <<active, snapshot, def, delta, fresh, count, changes, faults, blind>>
    /\ mem' \in [Collectors -> Defs] /\ db' \in [Collectors -> Defs]
    /\ \A d \in Collectors : d # c => mem'[d] = mem[d] /\ db'[d] = db[d]
    /\ \A k \in Jobs : k # i => mem'[c][k] = mem[c][k] /\ db'[c][k] = db[c][k]
    /\ i \in q.drop /\ i \in q.half => mem'[c][i] = 0
    /\ i \in q.put /\ i \in q.half => db'[c][i] = q.got[i]
    /\ db'[c][i] # 0 /\ mem'[c][i] = 0 => i \in q.half
    /\ i \notin Pending(q) /\ i \notin blind[c]
         => mem'[c][i] = r.got[i] /\ db'[c][i] = r.got[i]

LEMMA WriteStep ==
    ASSUME SyncInv, NEW c \in Collectors, NEW t \in Tasks, NEW i \in Jobs, NEW q,
           WriteOf(c, t, i, q)
    PROVE  SyncInv'
<1> DEFINE r == task[c][t]
<1> USE DEF WriteOf
<1>0. TypeOK /\ RunsOK
  BY DEF SyncInv
<1>1. PICK u \in Tasks : u # t /\ \A s \in Tasks : s \in {t, u}
  BY DEF Tasks
<1>2. task'[c][t] = q /\ task'[c][u] = task[c][u]
  BY <1>0, <1>1 DEF TypeOK
<1>3. RunOK(r) /\ RunOK(task[c][u])
  BY <1>0 DEF RunsOK
<1>4. r.pc = "apply" /\ \A k \in Pending(q) : k \in Pending(r)
  BY <1>3 DEF RunOK, Pending
<1>5. \A j : Due(c, j)' = Due(c, j)
  BY DEF Due, Share, Mine, CurrentWeights, Owner
<1>6. Grounded(c)' => Grounded(c)
  BY <1>1, <1>2, TwoTasks DEF Grounded, AsksDelta, InFlight
<1>7. ASSUME NEW j \in Jobs PROVE JobOK(c, j)'
  <2>1. JobOK(c, j)
    BY DEF SyncInv
  <2>2. NotNews(c, j)' => NotNews(c, j)
    BY <1>1, <1>2, TwoTasks DEF NotNews
  <2>3. AnswerRight(c, j)'
    <3> SUFFICES ASSUME NEW s \in Tasks, task'[c][s].pc = "answered", j \notin task'[c][s].late,
                        task'[c][s].full \/ task'[c][s].got[j] # 0
                 PROVE  task'[c][s].got[j] = Due(c, j)
      BY <1>5 DEF AnswerRight
    <3>1. s = u
      BY <1>1, <1>2
    <3> QED BY <1>2, <2>1, <3>1 DEF JobOK, AnswerRight
  <2>4. TwoAreBlind(c, j)'
    BY <1>1, <1>2, <1>4, <2>1 DEF JobOK, TwoAreBlind
  <2>5. /\ j \notin blind[c] /\ j = i => j \notin Pending(task[c][u])
        /\ j \notin Pending(task[c][u])
             => j \notin task[c][u].drop /\ j \notin task[c][u].put /\ j \notin task[c][u].half
    <3>1. j \notin blind[c] /\ j = i => j \notin Pending(task[c][u])
      BY <1>1, <2>1 DEF JobOK, TwoAreBlind
    <3> QED BY <1>3, <3>1 DEF RunOK, Pending
  <2>6. Halfway(c, j)'
    <3> SUFFICES ASSUME j \notin blind[c], NEW s \in Tasks
                 PROVE  /\ j \in task'[c][s].drop /\ j \in task'[c][s].half => mem'[c][j] = 0
                        /\ j \in task'[c][s].put /\ j \in task'[c][s].half
                             => db'[c][j] = task'[c][s].got[j]
      BY DEF Halfway
    <3>1. CASE j = i
      BY <1>1, <1>2, <2>5, <3>1
    <3>2. CASE j # i
      <4>1. /\ j \in task[c][s].drop /\ j \in task[c][s].half => mem[c][j] = 0
            /\ j \in task[c][s].put /\ j \in task[c][s].half => db[c][j] = task[c][s].got[j]
        BY <2>1 DEF JobOK, Halfway
      <4>2. CASE s = u
        BY <1>2, <3>2, <4>1, <4>2
      <4>3. CASE s = t
        BY <1>2, <3>2, <4>1, <4>3 DEF Pending
      <4> QED BY <1>1, <4>2, <4>3
    <3> QED BY <3>1, <3>2
  <2>7. NotOnlyStored(c, j)'
    <3>1. CASE j = i
      BY <1>2, <3>1 DEF NotOnlyStored
    <3>2. CASE j # i
      <4>1. \A s \in Tasks : j \in task[c][s].half => j \in task'[c][s].half
        BY <1>1, <1>2, <3>2
      <4> QED BY <2>1, <3>2, <4>1 DEF JobOK, NotOnlyStored
    <3> QED BY <3>1, <3>2
  <2>8. ASSUME j \notin blind[c]
        PROVE  /\ \A v : Leaves(c, j, v) => Leaves(c, j, v)'
               /\ Settled(c, j)' => db'[c][j] = mem'[c][j] \/ (Settled(c, j) /\ j # i)
    <3>1. CASE j = i
      <4>1. Settled(c, j)' <=> i \notin Pending(q)
        BY <1>1, <1>2, <2>5, <2>8, <3>1 DEF Settled
      <4>2. ASSUME NEW v, Leaves(c, j, v) PROVE Leaves(c, j, v)'
        <5>1. r.got[i] = v
          BY <3>1, <4>2 DEF Leaves
        <5>2. \A s \in Tasks : j \in Pending(task'[c][s]) => task'[c][s].got[j] = v
          BY <1>1, <1>2, <2>5, <2>8, <3>1, <5>1
        <5> QED BY <2>8, <3>1, <4>1, <5>1, <5>2 DEF Leaves
      <4> QED BY <2>8, <3>1, <4>1, <4>2
    <3>2. CASE j # i
      <4>1. \A s \in Tasks : j \in Pending(task'[c][s]) <=> j \in Pending(task[c][s])
        BY <1>1, <1>2, <1>4, <3>2
      <4>2. \A s \in Tasks : j \in Pending(task'[c][s]) => task'[c][s].got[j] = task[c][s].got[j]
        BY <1>1, <1>2, <3>2
      <4>3. Settled(c, j)' <=> Settled(c, j)
        BY <4>1 DEF Settled
      <4> QED BY <3>2, <4>1, <4>2, <4>3 DEF Leaves
    <3> QED BY <3>1, <3>2
  <2>9. ListRight(c, j)'
    <3> SUFFICES ASSUME j \notin blind[c]
                 PROVE  /\ NotNews(c, j)' => Leaves(c, j, Due(c, j))'
                        /\ Grounded(c)' /\ Due(c, j)' = 0 => Leaves(c, j, 0)'
                        /\ Grounded(c)' /\ Settled(c, j)' => db'[c][j] = mem'[c][j]
      BY DEF ListRight
    <3>1. /\ NotNews(c, j) => Leaves(c, j, Due(c, j))
          /\ Grounded(c) /\ Due(c, j) = 0 => Leaves(c, j, 0)
          /\ Grounded(c) /\ Settled(c, j) => db[c][j] = mem[c][j]
      BY <2>1 DEF JobOK, ListRight
    <3>2. ASSUME NEW v, v = Due(c, j), Leaves(c, j, v) PROVE Leaves(c, j, Due(c, j))'
      <4>1. Leaves(c, j, v)'
        BY <2>8, <3>2
      <4>2. v = Due(c, j)'
        BY <1>5, <3>2
      <4> QED BY <4>1, <4>2 DEF Leaves
    <3>3. Leaves(c, j, 0) => Leaves(c, j, 0)'
      BY <2>8
    <3>4. Grounded(c)' /\ Settled(c, j)' => db'[c][j] = mem'[c][j]
      BY <1>6, <2>8, <3>1
    <3> QED BY <1>5, <1>6, <2>2, <3>1, <3>2, <3>3, <3>4
  <2> QED BY <2>3, <2>4, <2>6, <2>7, <2>9 DEF JobOK
<1>8. /\ delta' \subseteq Collectors /\ fresh' \in [Collectors -> SUBSET Jobs]
      /\ faults' \in 0 .. MaxFaults /\ blind' \in [Collectors -> SUBSET Jobs]
  BY <1>0 DEF TypeOK
<1>9. ~InFlight(q)
  BY DEF InFlight
<1> QED BY <1>7, <1>8, <1>9, RunStep

(* What a write does to the list of one collector.                         *)
Written(f, c, i, v) == [f EXCEPT ![c][i] = v]

LEMMA OneWrite ==
    ASSUME NEW f \in [Collectors -> Defs], NEW c \in Collectors, NEW i \in Jobs,
           NEW v \in 0 .. MaxDef
    PROVE  LET g == Written(f, c, i, v) IN
           /\ g \in [Collectors -> Defs] /\ g[c][i] = v
           /\ \A d \in Collectors : d # c => g[d] = f[d]
           /\ \A k \in Jobs : k # i => g[c][k] = f[c][k]
BY DEF Defs, Written

LEMMA OneErased ==
    ASSUME NEW f \in [Collectors -> Defs], NEW c \in Collectors, NEW i \in Jobs
    PROVE  LET g == Written(f, c, i, 0) IN
           /\ g \in [Collectors -> Defs] /\ g[c][i] = 0
           /\ \A d \in Collectors : d # c => g[d] = f[d]
           /\ \A k \in Jobs : k # i => g[c][k] = f[c][k]
BY JobSyncAssumption DEF Defs, Written

(* A run that goes on with the first write of i done.                      *)
Half(r, i) == [r EXCEPT !.half = {i}]

LEMMA HalfRun ==
    ASSUME NEW r \in TaskType, RunOK(r), r.half = {}, NEW i \in Pending(r)
    PROVE  LET q == Half(r, i) IN
           /\ q \in TaskType /\ RunOK(q) /\ q.pc = "apply" /\ q.half = {i}
           /\ q.drop = r.drop /\ q.put = r.put /\ q.got = r.got
           /\ Pending(q) = Pending(r) /\ i \in Jobs
<1> DEFINE q == Half(r, i)
<1>1. i \in Jobs
  BY RunFields DEF Pending
<1>2. /\ q \in TaskType /\ q.pc = r.pc /\ q.half = {i}
      /\ q.drop = r.drop /\ q.put = r.put /\ q.got = r.got
  BY <1>1 DEF TaskType, Half
<1> HIDE DEF q
<1>3. r.pc = "apply" /\ Pending(q) = Pending(r)
  BY <1>2 DEF RunOK, Pending
<1>4. RunOK(q)
  BY <1>2, <1>3 DEF RunOK
<1> QED BY <1>1, <1>2, <1>3, <1>4 DEF q

(* A run that is done with i.                                              *)
Done(r, i) == Rest([r EXCEPT !.half = {}, !.drop = r.drop \ {i}, !.put = r.put \ {i}])

LEMMA DoneRun ==
    ASSUME NEW r \in TaskType, RunOK(r), NEW i \in r.half
    PROVE  LET q == Done(r, i) IN
           /\ q \in TaskType /\ RunOK(q) /\ q.pc \in {"apply", "idle"} /\ q.half = {}
           /\ q.drop = r.drop \ {i} /\ q.put = r.put \ {i} /\ Pending(q) = Pending(r) \ {i}
           /\ \A k \in Pending(q) : q.got[k] = r.got[k]
           /\ i \in Pending(r) /\ \A k \in r.half : k = i
<1> DEFINE q == Done(r, i)
           p == [r EXCEPT !.half = {}, !.drop = r.drop \ {i}, !.put = r.put \ {i}]
<1>1. /\ r.drop \subseteq Jobs /\ r.put \subseteq Jobs
      /\ i \in Pending(r) /\ \A k \in r.half : k = i
  BY RunFields DEF RunOK
<1>2. r.pc = "apply"
  BY <1>1 DEF RunOK, Pending
<1>3. /\ p \in TaskType /\ p.pc = r.pc /\ p.half = {} /\ p.drop = r.drop \ {i}
      /\ p.put = r.put \ {i} /\ p.got = r.got
  BY <1>1 DEF TaskType
<1>4. Pending(p) = Pending(r) \ {i} /\ q = IF Pending(p) = {} THEN Idle ELSE p
  BY <1>3 DEF Pending, Rest, Done
<1> HIDE DEF p
<1>5. RunOK(p)
  BY <1>2, <1>3 DEF RunOK
<1> HIDE DEF q
<1>6. /\ q \in TaskType /\ RunOK(q) /\ q.pc \in {"apply", "idle"} /\ q.half = {}
      /\ q.drop = r.drop \ {i} /\ q.put = r.put \ {i} /\ Pending(q) = Pending(r) \ {i}
      /\ \A k \in Pending(q) : q.got[k] = r.got[k]
  <2>1. CASE Pending(p) = {}
    <3>1. p.drop = {} /\ p.put = {}
      BY <2>1 DEF Pending
    <3> QED BY <1>3, <1>4, <2>1, <3>1, IdleRun
  <2>2. CASE Pending(p) # {}
    BY <1>2, <1>3, <1>4, <1>5, <2>2
  <2> QED BY <2>1, <2>2
<1> QED BY <1>1, <1>6 DEF q

LEMMA ApplyStep ==
    ASSUME SyncInv, NEW c \in Collectors, NEW t \in Tasks, Apply(c, t)
    PROVE  SyncInv'
<1>0. TypeOK /\ RunsOK
  BY DEF SyncInv
<1> DEFINE r == task[c][t]
<1>1. /\ r \in TaskType /\ RunOK(r) /\ mem \in [Collectors -> Defs] /\ db \in [Collectors -> Defs]
      /\ 0 \in 0 .. MaxDef /\ \A k \in Jobs : r.got[k] \in 0 .. MaxDef
  <2>1. r \in TaskType /\ RunOK(r) /\ mem \in [Collectors -> Defs] /\ db \in [Collectors -> Defs]
    BY <1>0 DEF TypeOK, RunsOK
  <2>2. r.got \in Defs
    BY <2>1, RunFields
  <2> QED BY <2>1, <2>2, JobSyncAssumption DEF Defs
<1>2. /\ UNCHANGED <<active, snapshot, def, delta, fresh, count, changes, faults, blind>>
      /\ \E i \in Jobs : \/ Forget(c, t, i) \/ MarkJobDeleted(c, t, i)
                         \/ UpsertJob(c, t, i) \/ ListJob(c, t, i)
  BY DEF Apply
<1>3. PICK i \in Jobs : \/ Forget(c, t, i) \/ MarkJobDeleted(c, t, i)
                        \/ UpsertJob(c, t, i) \/ ListJob(c, t, i)
  BY <1>2
<1>4. JobOK(c, i)
  BY DEF SyncInv
<1>5. CASE Forget(c, t, i)
  <2> DEFINE q == Half(r, i)
  <2>1. /\ r.half = {} /\ i \in r.drop /\ mem' = Written(mem, c, i, 0)
        /\ task' = [task EXCEPT ![c][t] = q] /\ db' = db /\ i \in Pending(r)
    BY <1>0, <1>5 DEF Forget, Pending, TypeOK, Half, Written
  <2> HIDE DEF r
  <2>2. /\ q \in TaskType /\ RunOK(q) /\ q.pc = "apply" /\ q.half = {i}
        /\ q.drop = r.drop /\ q.put = r.put /\ q.got = r.got
        /\ Pending(q) = Pending(r)
    BY <1>1, <2>1, HalfRun
  <2> HIDE DEF q
  <2>3. /\ mem' \in [Collectors -> Defs] /\ mem'[c][i] = 0
        /\ \A d \in Collectors : d # c => mem'[d] = mem[d]
        /\ \A k \in Jobs : k # i => mem'[c][k] = mem[c][k]
    BY <1>1, <2>1, OneErased
  <2>4. i \notin q.put
    BY <1>1, <2>1, <2>2 DEF RunOK
  <2>5. WriteOf(c, t, i, q)
    BY <1>1, <1>2, <2>1, <2>2, <2>3, <2>4 DEF WriteOf, r
  <2> QED BY <2>5, WriteStep
<1>6. CASE MarkJobDeleted(c, t, i)
  <2> DEFINE q == Rest([r EXCEPT !.half = {}, !.drop = @ \ {i}])
             p == Done(r, i)
  <2>1. /\ i \in r.drop /\ i \in r.half /\ db' = Written(db, c, i, 0)
        /\ task' = [task EXCEPT ![c][t] = q] /\ mem' = mem
    BY <1>6 DEF MarkJobDeleted, Written
  <2>2. q = p
    <3>1. [r EXCEPT !.half = {}, !.drop = @ \ {i}]
            = [r EXCEPT !.half = {}, !.drop = r.drop \ {i}, !.put = r.put \ {i}]
      <4>1. r.put \ {i} = r.put
        BY <1>1, <2>1 DEF RunOK
      <4> QED BY <1>1, <4>1 DEF TaskType
    <3> QED BY <3>1 DEF Done
  <2> HIDE DEF r
  <2>3. i \notin r.put /\ r.got[i] = 0
    BY <1>1, <2>1 DEF RunOK
  <2>4. /\ p \in TaskType /\ RunOK(p) /\ p.pc \in {"apply", "idle"} /\ p.half = {}
        /\ p.drop = r.drop \ {i} /\ p.put = r.put \ {i} /\ Pending(p) = Pending(r) \ {i}
        /\ \A k \in Pending(p) : p.got[k] = r.got[k]
        /\ i \in Pending(r) /\ \A k \in r.half : k = i
    BY <1>1, <2>1, DoneRun
  <2> HIDE DEF q, p
  <2>5. /\ db' \in [Collectors -> Defs] /\ db'[c][i] = 0
        /\ \A d \in Collectors : d # c => db'[d] = db[d]
        /\ \A k \in Jobs : k # i => db'[c][k] = db[c][k]
    BY <1>1, <2>1, OneErased
  <2>6. i \notin blind[c] => mem[c][i] = 0
    BY <1>4, <2>1 DEF JobOK, Halfway, r
  <2>7. WriteOf(c, t, i, q)
    BY <1>1, <1>2, <2>1, <2>2, <2>3, <2>4, <2>5, <2>6 DEF WriteOf, r
  <2> QED BY <2>7, WriteStep
<1>7. CASE UpsertJob(c, t, i)
  <2> DEFINE q == Half(r, i)
  <2>1. /\ r.half = {} /\ r.drop = {} /\ i \in r.put /\ db' = Written(db, c, i, r.got[i])
        /\ task' = [task EXCEPT ![c][t] = q] /\ mem' = mem /\ i \in Pending(r)
    BY <1>0, <1>7 DEF UpsertJob, Pending, TypeOK, Half, Written
  <2> HIDE DEF r
  <2>2. /\ q \in TaskType /\ RunOK(q) /\ q.pc = "apply" /\ q.half = {i}
        /\ q.drop = r.drop /\ q.put = r.put /\ q.got = r.got
        /\ Pending(q) = Pending(r)
    BY <1>1, <2>1, HalfRun
  <2> HIDE DEF q
  <2>3. /\ db' \in [Collectors -> Defs] /\ db'[c][i] = r.got[i]
        /\ \A d \in Collectors : d # c => db'[d] = db[d]
        /\ \A k \in Jobs : k # i => db'[c][k] = db[c][k]
    BY <1>1, <2>1, OneWrite
  <2>4. WriteOf(c, t, i, q)
    BY <1>1, <1>2, <2>1, <2>2, <2>3 DEF WriteOf, r
  <2> QED BY <2>4, WriteStep
<1>8. CASE ListJob(c, t, i)
  <2> DEFINE q == Rest([r EXCEPT !.half = {}, !.put = @ \ {i}])
             p == Done(r, i)
  <2>1. /\ r.drop = {} /\ i \in r.put /\ i \in r.half /\ mem' = Written(mem, c, i, r.got[i])
        /\ task' = [task EXCEPT ![c][t] = q] /\ db' = db
    BY <1>8 DEF ListJob, Written
  <2>2. q = p
    <3>1. [r EXCEPT !.half = {}, !.put = @ \ {i}]
            = [r EXCEPT !.half = {}, !.drop = r.drop \ {i}, !.put = r.put \ {i}]
      <4>1. r.drop \ {i} = r.drop
        BY <2>1
      <4> QED BY <1>1, <4>1 DEF TaskType
    <3> QED BY <3>1 DEF Done
  <2> HIDE DEF r
  <2>3. r.got[i] # 0
    BY <1>1, <2>1 DEF RunOK
  <2>4. /\ p \in TaskType /\ RunOK(p) /\ p.pc \in {"apply", "idle"} /\ p.half = {}
        /\ p.drop = r.drop \ {i} /\ p.put = r.put \ {i} /\ Pending(p) = Pending(r) \ {i}
        /\ \A k \in Pending(p) : p.got[k] = r.got[k]
        /\ i \in Pending(r) /\ \A k \in r.half : k = i
    BY <1>1, <2>1, DoneRun
  <2> HIDE DEF q, p
  <2>5. /\ mem' \in [Collectors -> Defs] /\ mem'[c][i] = r.got[i]
        /\ \A d \in Collectors : d # c => mem'[d] = mem[d]
        /\ \A k \in Jobs : k # i => mem'[c][k] = mem[c][k]
    BY <1>1, <2>1, OneWrite
  <2>6. i \notin blind[c] => db[c][i] = r.got[i]
    BY <1>4, <2>1 DEF JobOK, Halfway, r
  <2>7. WriteOf(c, t, i, q)
    BY <1>1, <1>2, <2>1, <2>2, <2>3, <2>4, <2>5, <2>6 DEF WriteOf, r
  <2> QED BY <2>7, WriteStep
<1> QED BY <1>3, <1>5, <1>6, <1>7, <1>8

(* A restarted collector has no run under way, lists what SQLite has, and  *)
(* asks for everything: nothing is claimed about its list.                 *)
LEMMA RestartStep ==
    ASSUME SyncInv, NEW c \in Collectors, Restart(c)
    PROVE  SyncInv'
<1>0. TypeOK /\ RunsOK
  BY DEF SyncInv
<1>1. /\ faults < MaxFaults /\ faults' = faults + 1
      /\ mem' = [mem EXCEPT ![c] = db[c]]
      /\ task' = [task EXCEPT ![c] = [t \in Tasks |-> Idle]]
      /\ delta' = delta \ {c}
      /\ count' = [count EXCEPT ![c] = 0]
      /\ blind' = [blind EXCEPT ![c] = {}]
      /\ UNCHANGED <<active, snapshot, def, db, fresh, changes>>
  BY DEF Restart
<1>2. /\ \A t \in Tasks : task'[c][t] = Idle
      /\ \A d \in Collectors : d # c => task'[d] = task[d]
      /\ task' \in [Collectors -> [Tasks -> TaskType]]
  BY <1>0, <1>1, IdleRun DEF TypeOK
<1>3. TypeOK'
  <2>1. mem' \in [Collectors -> Defs]
    BY <1>0, <1>1 DEF TypeOK
  <2>2. fresh' \in [Collectors -> SUBSET Jobs] /\ blind' \in [Collectors -> SUBSET Jobs]
    BY <1>0, <1>1 DEF TypeOK
  <2>3. count' \in [Collectors -> 0 .. FullEvery - 1]
    BY <1>0, <1>1, JobSyncAssumption DEF TypeOK
  <2>4. faults' \in 0 .. MaxFaults
    BY <1>0, <1>1, JobSyncAssumption DEF TypeOK
  <2> QED BY <1>0, <1>1, <1>2, <2>1, <2>2, <2>3, <2>4 DEF TypeOK
<1>4. RunsOK'
  <2>1. ASSUME NEW d \in Collectors, NEW t \in Tasks PROVE RunOK(task'[d][t])
    BY <1>0, <1>2, IdleRun DEF RunsOK
  <2>2. ASSUME NEW d \in Collectors PROVE ForceIsFull(d)'
    <3>1. ForceIsFull(d)
      BY <1>0 DEF RunsOK
    <3> QED BY <1>2, <3>1, IdleRun, TwoTasks DEF ForceIsFull
  <2> QED BY <2>1, <2>2 DEF RunsOK
<1>5. ASSUME NEW d \in Collectors, NEW j \in Jobs, d # c PROVE JobOK(d, j)'
  <2>1. JobOK(d, j) /\ task'[d] = task[d]
    BY <1>2, <1>5 DEF SyncInv
  <2>2. /\ mem'[d] = mem[d] /\ db' = db /\ fresh'[d] = fresh[d] /\ blind'[d] = blind[d]
        /\ (d \in delta' <=> d \in delta)
    BY <1>0, <1>1, <1>5 DEF TypeOK
  <2>3. Due(d, j)' = Due(d, j)
    BY <1>1 DEF Due, Share, Mine, CurrentWeights, Owner
  <2> QED BY <2>1, <2>2, <2>3, SameJob
<1>6. ASSUME NEW j \in Jobs PROVE JobOK(c, j)'
  <2>1. c \notin delta' /\ mem'[c][j] = db'[c][j]
    BY <1>0, <1>1 DEF TypeOK
  <2>2. \A t \in Tasks : /\ task'[c][t].pc = "idle" /\ Pending(task'[c][t]) = {}
                         /\ task'[c][t].drop = {} /\ task'[c][t].put = {}
    BY <1>2, IdleRun
  <2>3. ~Grounded(c)' /\ ~NotNews(c, j)'
    BY <2>1, <2>2, TwoTasks DEF Grounded, AsksDelta, InFlight, NotNews
  <2>4. ListRight(c, j)' /\ AnswerRight(c, j)'
    BY <2>2, <2>3 DEF ListRight, AnswerRight
  <2>5. TwoAreBlind(c, j)' /\ Halfway(c, j)' /\ NotOnlyStored(c, j)'
    BY <2>1, <2>2, TwoTasks DEF TwoAreBlind, Halfway, NotOnlyStored
  <2> QED BY <2>4, <2>5 DEF JobOK
<1> QED BY <1>3, <1>4, <1>5, <1>6 DEF SyncInv

LEMMA SyncStutter ==
    ASSUME SyncInv, UNCHANGED vars
    PROVE  SyncInv'
<1>0. UNCHANGED <<active, snapshot, def, mem, db, delta, fresh, count, task, changes,
                  faults, blind>>
  BY DEF vars
<1>1. TypeOK'
  BY <1>0 DEF SyncInv, TypeOK
<1>2. RunsOK'
  BY <1>0 DEF SyncInv, RunsOK, ForceIsFull
<1>3. ASSUME NEW c \in Collectors, NEW j \in Jobs PROVE JobOK(c, j)'
  <2>1. JobOK(c, j)
    BY DEF SyncInv
  <2>2. Due(c, j)' = Due(c, j)
    BY <1>0 DEF Due, Share, Mine, CurrentWeights, Owner
  <2> QED BY <1>0, <2>1, <2>2, SameJob
<1> QED BY <1>1, <1>2, <1>3 DEF SyncInv

LEMMA StepSyncInv == SyncInv /\ [Next]_vars => SyncInv'
<1> SUFFICES ASSUME SyncInv, [Next]_vars PROVE SyncInv'
  OBVIOUS
<1>1. CASE Admin
  <2>1. CASE \E j \in Jobs : EditAssignment(j) \/ HideAssignment(j) \/ EnableDevice(j)
    BY <2>1, EditStep
  <2>2. CASE Rebalance \/ \E c \in Collectors : HealthCheck(c)
    BY <2>2, RingStep
  <2>3. CASE \E c \in Collectors : Restart(c)
    BY <2>3, RestartStep
  <2> QED BY <1>1, <2>1, <2>2, <2>3 DEF Admin
<1>2. CASE \E c \in Collectors : Heartbeat(c)
  BY <1>2, HeartbeatStep
<1>3. CASE \E c \in Collectors : SyncLoop(c) \/ ForceSync(c)
  BY <1>3, SyncBegins
<1>4. CASE \E c \in Collectors, t \in Tasks : Sync(c, t)
  <2>1. PICK c \in Collectors, t \in Tasks : Sync(c, t)
    BY <1>4
  <2>2. CASE GetJobs(c, t)
    BY <2>2, GetJobsStep
  <2>3. CASE Refused(c, t) \/ SyncFails(c, t)
    BY <2>3, RequestEnds
  <2>4. CASE StampAndApply(c, t)
    BY <2>4, StampStep
  <2>5. CASE Apply(c, t)
    BY <2>5, ApplyStep
  <2> QED BY <2>1, <2>2, <2>3, <2>4, <2>5 DEF Sync
<1>5. CASE UNCHANGED vars
  BY <1>5, SyncStutter
<1> QED BY <1>1, <1>2, <1>3, <1>4, <1>5 DEF Next

(* The inductive invariant of the job lists holds in every state.          *)
LEMMA InvariantSyncInv == Spec => []SyncInv
BY InitSyncInv, StepSyncInv, PTL DEF Spec

-----------------------------------------------------------------------------
LEMMA InformedLists ==
    ASSUME SyncInv, NEW c \in Collectors, NEW j \in Jobs, Informed(c, j)
    PROVE  mem[c][j] = Share(c)[j]
<1>1. JobOK(c, j)
  BY DEF SyncInv
<1>2. j \notin blind[c] /\ NotNews(c, j) /\ Settled(c, j)
  BY DEF Informed, NotNews
<1>3. Leaves(c, j, Due(c, j))
  BY <1>1, <1>2 DEF JobOK, ListRight
<1> QED BY <1>2, <1>3 DEF Leaves, Due

(* The ring meets exactly one of the ACTIVE collectors first.              *)
LEMMA OwnerIsActive ==
    ASSUME TypeOK, active # {}, NEW j \in Jobs
    PROVE  Owner(j, active, CurrentWeights(active, snapshot)) \in active
<1> DEFINE w == CurrentWeights(active, snapshot)
           R == {Rank[w][j][c] : c \in active}
<1>1. w \in Weights /\ active \subseteq Collectors
  BY JobSyncAssumption DEF CurrentWeights, TypeOK
<1> HIDE DEF w
<1>2. R \in SUBSET Nat /\ R # {}
  BY <1>1, JobSyncAssumption
<1>3. PICK x \in R : \A y \in R : <<y, x>> \notin OpToRel(<, Nat)
  <2> HIDE DEF R
  <2> QED BY <1>2, NatLessThanWellFounded, WFMin
<1>4. \A y \in R : x <= y
  <2>1. \A y \in R : ~(y < x)
    BY <1>2, <1>3 DEF OpToRel
  <2>2. x \in Nat /\ \A y \in R : y \in Nat
    BY <1>2
  <2> HIDE DEF R
  <2> QED BY <2>1, <2>2
<1>5. PICK c \in active : x = Rank[w][j][c]
  OBVIOUS
<1>6. \A d \in active : Rank[w][j][c] <= Rank[w][j][d]
  BY <1>4, <1>5
<1> HIDE DEF R
<1>7. Owner(j, active, w) \in active
  BY <1>5, <1>6 DEF Owner
<1> QED BY <1>7 DEF w

LEMMA OneOfTheActive ==
    ASSUME SyncInv, NEW j \in Jobs, def[j] # 0, active # {},
           \A c \in active : Informed(c, j)
    PROVE  Cardinality({c \in active : mem[c][j] # 0}) = 1
<1> DEFINE S == {c \in active : mem[c][j] # 0}
           o == Owner(j, active, CurrentWeights(active, snapshot))
<1>0. TypeOK /\ active \subseteq Collectors
  BY DEF SyncInv, TypeOK
<1>1. \A c \in active : mem[c][j] # 0 <=> Mine(c, j, active, snapshot)
  <2>1. \A c \in active : mem[c][j] = Share(c)[j]
    BY <1>0, InformedLists
  <2> QED BY <2>1 DEF Share
<1>2. IsFiniteSet(active) /\ Cardinality(active) \in Nat
  BY <1>0, JobSyncAssumption, FS_Subset, FS_CardinalityType
<1>3. CASE Cardinality(active) < 2
  <2>1. S = active
    BY <1>1, <1>3 DEF Mine
  <2>2. Cardinality(active) # 0
    BY <1>2, FS_EmptySet
  <2>3. Cardinality(active) = 1
    BY <1>2, <1>3, <2>2
  <2> QED BY <2>1, <2>3
<1>4. CASE ~(Cardinality(active) < 2)
  <2>1. o \in active
    BY <1>0, OwnerIsActive
  <2>2. \A c \in active : mem[c][j] # 0 <=> o = c
    BY <1>1, <1>4 DEF Mine
  <2> HIDE DEF o
  <2>3. S = {o}
    BY <2>1, <2>2
  <2> QED BY <2>3, FS_Singleton
<1> QED BY <1>3, <1>4

(* What a cache-node lists for a job it has nothing to learn about is what *)
(* get_jobs would answer it now (_sync_jobs, with a loop and a forced sync *)
(* side by side, lost answers and restarts between any two writes), for    *)
(* any collectors, jobs, rings, changes and faults.                        *)
THEOREM ListsAreShares == Spec => []ListsItsShare
<1>1. SyncInv => ListsItsShare
  BY InformedLists DEF ListsItsShare
<1> QED BY <1>1, InvariantSyncInv, PTL

(* The types, and SQLite holds what memory lists: mark_job_deleted and     *)
(* upsert_job keep up with _my_jobs unless runs of _sync_jobs overlapped.  *)
THEOREM ListsAreStored == Spec => []StoreInvariant
<1>1. ASSUME SyncInv, NEW c \in Collectors, NEW j \in Jobs,
             Settled(c, j), j \notin blind[c], c \in delta
      PROVE  db[c][j] = mem[c][j]
  <2>1. JobOK(c, j) /\ Grounded(c)
    BY <1>1 DEF SyncInv, Grounded
  <2> QED BY <1>1, <2>1 DEF JobOK, ListRight
<1>2. SyncInv => StoreInvariant
  BY <1>1 DEF StoreInvariant, StoredAsListed, SyncInv
<1> QED BY <1>2, InvariantSyncInv, PTL

(* Exactly one ACTIVE collector lists an enabled job once all of them are  *)
(* informed: get_jobs filters by one ring, whichever weights it has.       *)
THEOREM ExactlyOneCollector == Spec => []ExactlyOneLists
<1>1. SyncInv => ExactlyOneLists
  BY OneOfTheActive DEF ExactlyOneLists
<1> QED BY <1>1, InvariantSyncInv, PTL

-----------------------------------------------------------------------------
(***************************************************************************)
(* The inductive invariant of the leader election, which shares no state   *)
(* with the job lists.  The lease alone is not inductive: an answer        *)
(* that is under way will set _is_leader, so a granted answer must carry   *)
(* the lease too, and the key can only expire when the node it was granted *)
(* to is a whole TTL old, which the clock part says.                       *)
(***************************************************************************)
BusyIsUp == \A n \in Nodes : pc[n] # "sleep" => n \in up

Clock == owner # Nobody => ttl > 0 /\ ttl + age[owner] = TTL

Leased(n) == owner = n \/ age[n] = TTL

Granted(n) == pc[n] \in {"set", "renewed"} /\ answer[n]

LeaderInv ==
    /\ LeaderTypeOK
    /\ BusyIsUp
    /\ Clock
    /\ \A n \in Nodes : Granted(n) => Leased(n)
    /\ \A n \in Nodes : n \in flag \cup cycle => Leased(n)

LEMMA InitLeaderInv == LeaderInit => LeaderInv
BY LeaderAssumption DEF LeaderInit, LeaderInv, LeaderTypeOK, BusyIsUp, Clock, Leased, Granted

(* A grant to n: the key was free or n's own, so nobody else's lease ends. *)
LEMMA GrantKeeps ==
    ASSUME LeaderInv, NEW n \in Nodes, Grant(n), owner \in {n, Nobody}
    PROVE  /\ Clock'
           /\ \A m \in Nodes : Leased(m) => Leased(m)'
           /\ Leased(n)'
           /\ owner' \in Nodes /\ ttl' \in 0..TTL /\ age' \in [Nodes -> 0..TTL]
<1>1. /\ owner' = n /\ ttl' = TTL /\ age'[n] = 0
      /\ \A m \in Nodes : m # n => age'[m] = age[m]
  BY DEF Grant, LeaderInv, LeaderTypeOK
<1>2. age' \in [Nodes -> 0..TTL] /\ ttl' \in 0..TTL
  BY LeaderAssumption DEF Grant, LeaderInv, LeaderTypeOK
<1>3. Clock'
  BY <1>1, LeaderAssumption DEF Clock
<1>4. ASSUME NEW m \in Nodes, Leased(m) PROVE Leased(m)'
  BY <1>1, <1>4, LeaderAssumption DEF Leased
<1> QED BY <1>1, <1>2, <1>3, <1>4 DEF Leased

LEMMA TrySetStep ==
    ASSUME LeaderInv, NEW n \in Nodes, TrySet(n)
    PROVE  LeaderInv'
<1>1. /\ Clock' /\ owner' \in Nodes \cup {Nobody} /\ ttl' \in 0..TTL
      /\ age' \in [Nodes -> 0..TTL]
      /\ \A m \in Nodes : Leased(m) => Leased(m)'
      /\ owner = Nobody => Leased(n)'
  <2>1. CASE owner = Nobody
    BY <2>1, GrantKeeps DEF TrySet
  <2>2. CASE owner # Nobody
    BY <2>2 DEF TrySet, Refuse, LeaderInv, LeaderTypeOK, Clock, Leased
  <2> QED BY <2>1, <2>2
<1>2. LeaderTypeOK' /\ BusyIsUp'
  BY <1>1 DEF TrySet, LeaderInv, LeaderTypeOK, BusyIsUp
<1>3. \A m \in Nodes : Granted(m)' => Leased(m)'
  <2> SUFFICES ASSUME NEW m \in Nodes, Granted(m)' PROVE Leased(m)'
    OBVIOUS
  <2>1. CASE m = n
    <3>1. owner = Nobody
      BY <2>1 DEF TrySet, Granted, LeaderInv, LeaderTypeOK
    <3> QED BY <1>1, <2>1, <3>1
  <2>2. CASE m # n
    <3>1. Granted(m)
      BY <2>2 DEF TrySet, Granted, LeaderInv, LeaderTypeOK
    <3> QED BY <1>1, <3>1 DEF LeaderInv
  <2> QED BY <2>1, <2>2
<1>4. \A m \in Nodes : m \in (flag \cup cycle)' => Leased(m)'
  BY <1>1 DEF TrySet, LeaderInv
<1> QED BY <1>1, <1>2, <1>3, <1>4 DEF LeaderInv

LEMMA RenewStep ==
    ASSUME LeaderInv, NEW n \in Nodes, Renew(n)
    PROVE  LeaderInv'
<1>1. /\ Clock' /\ owner' \in Nodes \cup {Nobody} /\ ttl' \in 0..TTL
      /\ age' \in [Nodes -> 0..TTL]
      /\ \A m \in Nodes : Leased(m) => Leased(m)'
      /\ owner = n => Leased(n)'
  <2>1. CASE owner = n
    BY <2>1, GrantKeeps DEF Renew, Renews
  <2>2. CASE owner # n
    BY <2>2 DEF Renew, Renews, Refuse, LeaderInv, LeaderTypeOK, Clock, Leased
  <2> QED BY <2>1, <2>2
<1>2. LeaderTypeOK' /\ BusyIsUp'
  BY <1>1 DEF Renew, Renews, LeaderInv, LeaderTypeOK, BusyIsUp
<1>3. \A m \in Nodes : Granted(m)' => Leased(m)'
  <2> SUFFICES ASSUME NEW m \in Nodes, Granted(m)' PROVE Leased(m)'
    OBVIOUS
  <2>1. CASE m = n
    <3>1. owner = n
      BY <2>1 DEF Renew, Renews, Granted, LeaderInv, LeaderTypeOK
    <3> QED BY <1>1, <2>1, <3>1
  <2>2. CASE m # n
    <3>1. Granted(m)
      BY <2>2 DEF Renew, Granted, LeaderInv, LeaderTypeOK
    <3> QED BY <1>1, <3>1 DEF LeaderInv
  <2> QED BY <2>1, <2>2
<1>4. \A m \in Nodes : m \in (flag \cup cycle)' => Leased(m)'
  BY <1>1 DEF Renew, LeaderInv
<1> QED BY <1>1, <1>2, <1>3, <1>4 DEF LeaderInv

(* Answers: a granted one carries the lease, a refused one ends the claim. *)
LEMMA ReplyStep ==
    ASSUME LeaderInv, NEW n \in Nodes, SetReply(n) \/ RenewReply(n)
    PROVE  LeaderInv'
<1>1. LeaderTypeOK'
  <2>1. CASE SetReply(n)
    BY <2>1, LeaderAssumption DEF SetReply, Sleep, LeaderInv, LeaderTypeOK, BusyIsUp
  <2>2. CASE RenewReply(n)
    BY <2>2, LeaderAssumption DEF RenewReply, Sleep, LeaderInv, LeaderTypeOK, BusyIsUp
  <2> QED BY <2>1, <2>2
<1>2. BusyIsUp'
  BY DEF SetReply, RenewReply, Sleep, LeaderInv, LeaderTypeOK, BusyIsUp
<1>3. UNCHANGED <<owner, ttl, age, cycle, answer, up>>
  BY DEF SetReply, RenewReply
<1>4. Clock' /\ \A m \in Nodes : Leased(m)' <=> Leased(m)
  BY <1>3 DEF LeaderInv, Clock, Leased
<1>5. \A m \in Nodes : Granted(m)' => Granted(m)
  BY <1>3 DEF Granted, SetReply, RenewReply, Sleep, LeaderInv, LeaderTypeOK
<1>6. \A m \in Nodes : m \in (flag \cup cycle)' => m \in flag \cup cycle \/ Granted(m)
  BY <1>3 DEF Granted, SetReply, RenewReply, LeaderInv, LeaderTypeOK
<1> QED BY <1>1, <1>2, <1>4, <1>5, <1>6 DEF LeaderInv

(* Exceptions only end claims, whether the call took effect or not.        *)
LEMMA FailStep ==
    ASSUME LeaderInv, NEW n \in Nodes, SetFails(n) \/ RenewFails(n) \/ CatchError(n)
    PROVE  LeaderInv'
<1>1. /\ UNCHANGED <<owner, ttl, age, cycle, answer, up>>
      /\ Sleep(n) \/ (Raise(n) /\ n \in up)
      /\ flag' \subseteq flag
  BY DEF SetFails, RenewFails, CatchError, AfterError, LeaderInv, BusyIsUp
<1>2. LeaderTypeOK' /\ BusyIsUp'
  BY <1>1, LeaderAssumption DEF Sleep, Raise, LeaderInv, LeaderTypeOK, BusyIsUp
<1>3. Clock' /\ \A m \in Nodes : Leased(m)' <=> Leased(m)
  BY <1>1 DEF LeaderInv, Clock, Leased
<1>4. \A m \in Nodes : Granted(m)' => Granted(m)
  BY <1>1 DEF Granted, Sleep, Raise, LeaderInv, LeaderTypeOK
<1> QED BY <1>1, <1>2, <1>3, <1>4 DEF LeaderInv

LEMMA CycleStep ==
    ASSUME LeaderInv, NEW n \in Nodes, BeginCycle(n) \/ EndCycle(n)
    PROVE  LeaderInv'
<1>1. /\ UNCHANGED <<owner, ttl, age, flag, answer, up, pc, wait>>
      /\ cycle' \subseteq flag \cup cycle
  BY DEF BeginCycle, EndCycle
<1>2. LeaderTypeOK' /\ BusyIsUp' /\ Clock'
  BY <1>1 DEF LeaderInv, LeaderTypeOK, BusyIsUp, Clock
<1>3. \A m \in Nodes : (Leased(m)' <=> Leased(m)) /\ (Granted(m)' <=> Granted(m))
  BY <1>1 DEF Leased, Granted
<1> QED BY <1>1, <1>2, <1>3 DEF LeaderInv

(* A node that exits drops its claims; it deletes no key but its own.      *)
LEMMA ExitStep ==
    ASSUME LeaderInv, NEW n \in Nodes, Stop(n) \/ Crash(n)
    PROVE  LeaderInv'
<1>1. Exit(n)
  BY DEF Stop, Crash
<1>2. \/ UNCHANGED <<owner, ttl>>
      \/ owner = n /\ owner' = Nobody /\ ttl' = 0
  BY DEF Stop, Crash, Releases
<1>3. LeaderTypeOK' /\ BusyIsUp'
  BY <1>1, <1>2, LeaderAssumption DEF Exit, LeaderInv, LeaderTypeOK, BusyIsUp
<1>4. Clock'
  BY <1>1, <1>2 DEF Exit, LeaderInv, Clock
<1>5. \A m \in Nodes : m # n /\ Leased(m) => Leased(m)'
  BY <1>1, <1>2 DEF Exit, Leased
<1>6. \A m \in Nodes : Granted(m)' => m # n /\ Granted(m)
  BY <1>1 DEF Exit, Granted, LeaderInv, LeaderTypeOK
<1>7. \A m \in Nodes : m \in (flag \cup cycle)' => m # n /\ m \in flag \cup cycle
  BY <1>1 DEF Exit
<1> QED BY <1>3, <1>4, <1>5, <1>6, <1>7 DEF LeaderInv

LEMMA StartStep ==
    ASSUME LeaderInv, NEW n \in Nodes, Start(n)
    PROVE  LeaderInv'
<1>1. UNCHANGED <<owner, ttl, age, flag, answer, cycle, pc, wait>> /\ up' = up \cup {n}
  BY DEF Start
<1>2. LeaderTypeOK' /\ BusyIsUp' /\ Clock'
  BY <1>1 DEF LeaderInv, LeaderTypeOK, BusyIsUp, Clock
<1>3. \A m \in Nodes : (Leased(m)' <=> Leased(m)) /\ (Granted(m)' <=> Granted(m))
  BY <1>1 DEF Leased, Granted
<1> QED BY <1>1, <1>2, <1>3 DEF LeaderInv

(* Time ends a lease only when its age reaches the TTL.                    *)
LEMMA TickStep == LeaderInv /\ Tick => LeaderInv'
<1> SUFFICES ASSUME LeaderInv, Tick PROVE LeaderInv'
  OBVIOUS
<1>1. \A n \in Nodes : /\ age[n] \in 0..TTL
                       /\ age'[n] = IF age[n] < TTL THEN age[n] + 1 ELSE TTL
  BY DEF Tick, LeaderInv, LeaderTypeOK
<1>2. ttl' = (IF ttl > 0 THEN ttl - 1 ELSE 0) /\ ttl \in 0..TTL
      /\ owner' = (IF ttl' = 0 THEN Nobody ELSE owner)
  BY DEF Tick, Dec, LeaderInv, LeaderTypeOK
<1>3. LeaderTypeOK'
  <2>1. age' \in [Nodes -> 0..TTL] /\ wait' \in [Nodes -> 0..Period]
    BY LeaderAssumption DEF Tick, Dec, LeaderInv, LeaderTypeOK
  <2> QED BY <1>2, <2>1, LeaderAssumption DEF Tick, LeaderInv, LeaderTypeOK
<1>4. BusyIsUp'
  BY DEF Tick, LeaderInv, BusyIsUp
<1>5. Clock'
  <2> SUFFICES ASSUME owner' # Nobody PROVE ttl' > 0 /\ ttl' + age'[owner'] = TTL
    BY DEF Clock
  <2>1. owner' = owner /\ ttl' # 0
    BY <1>2
  <2>2. owner \in Nodes /\ ttl + age[owner] = TTL
    BY <2>1 DEF LeaderInv, LeaderTypeOK, Clock
  <2> QED BY <1>1, <1>2, <2>1, <2>2, LeaderAssumption
<1>6. \A n \in Nodes : Leased(n) => Leased(n)'
  <2> SUFFICES ASSUME NEW n \in Nodes, Leased(n), owner' # n PROVE age'[n] = TTL
    BY DEF Leased
  <2>1. CASE age[n] = TTL
    BY <1>1, <2>1, LeaderAssumption
  <2>2. CASE owner = n
    <3>1. ttl + age[n] = TTL /\ ttl > 0
      BY <2>2, LeaderAssumption DEF LeaderInv, Clock
    <3>2. ttl' = 0
      BY <1>2, <2>2
    <3> QED BY <1>1, <1>2, <3>1, <3>2, LeaderAssumption
  <2> QED BY <2>1, <2>2 DEF Leased
<1>7. \A n \in Nodes : Granted(n)' <=> Granted(n)
  BY DEF Tick, Granted
<1> QED BY <1>3, <1>4, <1>5, <1>6, <1>7 DEF LeaderInv, Tick

LEMMA StutterStep == LeaderInv /\ UNCHANGED leaderVars => LeaderInv'
BY DEF leaderVars, LeaderInv, LeaderTypeOK, BusyIsUp, Clock, Leased, Granted

LEMMA StepLeaderInv == LeaderInv /\ [LeaderNext]_leaderVars => LeaderInv'
BY TrySetStep, RenewStep, ReplyStep, FailStep, CycleStep, ExitStep, StartStep,
   TickStep, StutterStep DEF LeaderNext, Attempt

-----------------------------------------------------------------------------
(***************************************************************************)
(* The lease, for every number of nodes and every TTL: who takes itself    *)
(* for the leader, or runs a cycle it started as such, holds the key or    *)
(* was last granted it a whole TTL ago (leader.py, tasks.py:163).          *)
(***************************************************************************)
THEOREM LeaseSafety == LeaderSpec => []LeaseHolds
<1>1. LeaderInv => LeaseHolds
  BY DEF LeaderInv, LeaseHolds, Leased, LeaderTypeOK
<1> QED BY <1>1, InitLeaderInv, StepLeaderInv, PTL DEF LeaderSpec

(***************************************************************************)
(* Two scheduler cycles overlap only when one node's lease has run out.    *)
(***************************************************************************)
THEOREM OverlapSafety == LeaderSpec => []OverlapOnlyAfterLease
<1>1. LeaseHolds => OverlapOnlyAfterLease
  BY DEF LeaseHolds, OverlapOnlyAfterLease
<1> QED BY <1>1, LeaseSafety, PTL
=============================================================================
