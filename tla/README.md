# MonCTL in TLA+

MonCTL is a distributed monitoring system. Central nodes (FastAPI, PostgreSQL,
Redis, ClickHouse) keep the configuration, ingest results and evaluate alerts;
collectors (a cache-node with SQLite, poll-workers, a forwarder) poll devices
and ship what they measure. This directory models the parts of it that are
concurrent or meet failures, checks them with TLC on small instances, and proves
the main safety properties with TLAPS for every value of the constants.

Paths below are relative to `src/packages/`; `central/` and `collector/` stand
for `central/src/monctl_central/` and `collector/src/monctl_collector/`.

## 1. Inventory

The way of the data:

    poll-worker --submit--> cache-node results table --forwarder POST-->
    submit_results (some central node) --append--> write buffer --insert-->
    ClickHouse --query--> alert engine --AlertEntity rows--> incident engine
    --transitions--> automation engine

and of control: central assigns jobs, a cache-node syncs them, its workers ask
for their share; a WebSocket carries commands from central to the cache-node;
the periodic work of central (health, alerts, incidents, rollups) runs on the
node that holds a Redis lease.

| Component | State | Operations | What is hard | What makes it correct |
| --- | --- | --- | --- | --- |
| Write buffer, `central/storage/ch_buffer.py` | rows per table, lock, flush task | append, flush at threshold, flush loop, re-buffer, stop | requests and the loop flush the same table; the insert is outside the lock and may fail after it took effect; shutdown cancels a running insert | accepted rows are accounted for; a row is in one place; memory is bounded; waiting rows are flushed |
| Forwarder, `collector/forward/forwarder.py` | current batch, backoff | flush, mark sent, back off, clean up, cap | lost answers, timeouts with the handler still running, restarts | a row marked sent was taken over; retries are recognised; nothing waits for ever |
| Results buffer, `collector/cache/local_cache.py` | SQLite `results` | enqueue, dequeue oldest, mark, drop oldest | the cap drops rows of a batch under way | order of age is kept |
| Ingest, `central/collector_api/router.py` `submit_results` | batch markers in Redis | check, resolve, append per table, stamp | check and stamp are two calls with the ingest between them | a marker implies ingestion; a duplicate has a cause |
| Poll engine, `collector/polling/engine.py` | heap, `_running`, lanes | refresh, dispatch, execute, reschedule | refreshes rebuild the heap while tasks run, end and report | one entry and one run per job; every listed job is polled again |
| Leader election, `central/scheduler/leader.py`, `tasks.py` | Redis key, `_is_leader`, cycle | acquire, renew, release, run a cycle | effect and answer of a Redis call are apart; a cycle outlives the lease | a lease in force is exclusive; somebody leads again |
| Incident engine, `central/incidents/engine.py` | incidents, transitions of the cycle | open, escalate, clear, dispatch | two nodes evaluate at once; one commit for all; operators clear in between | one open incident per entity; what is announced is committed; incidents follow their alerts |
| Alert engine, `central/alerting/engine.py` | AlertEntity state, fire count | fire, change tier, resolve, reset | its input comes from another system | (input of the incident model) |
| Job distribution, `central/collector_api/router.py` `get_jobs`, `collector/jobs/scheduler.py` | assignments, ACTIVE collectors, weights; `_my_jobs`, `_last_sync`, SQLite | partition by the hash ring, full and delta sync, force_sync, restart | windows by timestamp, two syncs at once, two copies of the list, a ring that changes between two syncs | a job is listed by exactly one collector; a change reaches it; a restart goes on with the same list |
| App cache, `collector/cache/app_cache_sync.py` | rows, dirty flags, pull cursor | set, delete, push, pull, merge, expire | a write between read and mark clean; cursors by foreign clocks | the newest write wins; every write gets everywhere |
| WebSocket channel, `central/ws/`, `collector/central/ws_client.py` | connections, pending requests, registry in Redis | connect, displace, keep alive, send, publish, answer, disconnect | a displaced handler ends after its successor registered; nodes race for a published command | a connected collector is reachable; a command ends, and runs once |
| OS install, `central/upgrades/os_service.py` | job and step rows, driver lease | claim, run a step, delegate, report, advance, approve, cancel, resume | drivers die, lose the lease in a step, work on stale rows; reports move the job on without a lease | one driver; an install is started once; the verdict matches the steps; every job ends |
| Automations, `central/automations/` | runs, cooldown | match, start, record | the cooldown reads what is written at the end of a run | at most one run per cooldown |
| Audit buffer, `central/audit/` | rows in memory | append, flush | overflow; failed inserts are dropped by design | requests never block on it |

The remaining parts (DSL, app manager, gRPC glue, credentials,
authentication, discovery, CRUD endpoints, caches, frontend, installer, apps) are
listed in `PROJECT.json` with the reason why they are not modelled.
`PROJECT.json` also lists the hazards, each at its line, with the properties that
would catch it going wrong.

## 2. Modules

| Module | Models | Run through | Proved in |
| --- | --- | --- | --- |
| `ChBuffer` | write buffer of one central process | `MCChBuffer` | `ChBufferProofs` |
| `RowSink` | what the write buffer promises: abstract, implemented by `ChBuffer` | `MCChBuffer` | `ChBufferProofs` |
| `ResultPipeline` | results buffer, forwarder, `submit_results`, composed | `MCResultPipeline` | `ResultPipelineProofs` |
| `PollEngine` | one poll-worker and what it sees of the cache-node | `MCPollEngine` | `PollEngineProofs` |
| `LeaderElection` | election and scheduler cycles of all central nodes | `MCLeaderElection` | `CoordinationProofs` |
| `Incidents` | one incident rule, its alerts, the nodes that evaluate it | `MCIncidents` | `IncidentsProofs` |
| `JobSync` | the jobs of a collector group, from central to the cache-nodes | `MCJobSync` | `CoordinationProofs` |
| `AppCacheSync` | the app cache of a group and its replication | `MCAppCacheSync` | `AppCacheSyncProofs` |
| `WsChannel` | the command channel of one collector | `MCWsChannel` | `WsChannelProofs` |
| `OsInstall` | one OS install job and its drivers | `MCOsInstall` | `OsInstallProofs` |

`Incidents` does not extend `LeaderElection`: it takes from it the one fact that
the runs of `LeaderElection` establish, that cycles of two nodes may overlap, and
lets every node evaluate at any time. `ResultPipeline` uses a write buffer that
is reduced to a bag of rows per node, flushed or lost as a whole; `ChBuffer` is
the detailed model of it, and `RowSink` is what the two have in common. `JobSync`
is what stands behind `SetListed` of `PollEngine`: a list that changes at any
time. `OsInstall` has a leader that looks for orphans on any node at any time,
again because leaderships may overlap.

An `MC` module adds only the values of function-valued constants and symmetry.
Definitions like `PopWithoutRemoving` or `NeverOrphaned`, which stand before the
definition they resemble, are faulty variants of it: substituted for it, they
violate the property `PROJECT.json` names, which shows that the property can
fail.

### ChBuffer

Rows are numbers in the order of arrival; `buffers`, `held`, `orphan`, `stored`,
`dropped` and `lost` say where each one is. What happens under the lock is one
step, since whoever touches the rows takes it first: `AppendRows` (append, with the
decision to flush), `Pop`, and the re-buffering in `InsertFail`, whose counter is
awaited under the lock (`ch_buffer.py:129`). The counter awaited before it (`:103`)
is part of the failing insert: until the lock is taken the rows are held by their
task. The insert lies between `Pop` and `InsertOk` or `InsertFail(f, hit)`, where
`hit` says whether ClickHouse kept the rows although the client raised. `FlushAll` takes the
snapshot of the tables, `VisitTable` the next one. `Stop` cancels the loop, whose
insert goes on in its thread (`orphan`, ended by `OrphanEnds`), and flushes once
more; `Crash` and `Start` end and begin a process. Statistics are left out.

`RowSink` knows only which rows were accepted, which are in custody, and how they
ended. `ImplementsRowSink` maps custody to the buffer, the rows in flight and the
orphaned insert. It says of every step at once what the invariants say of states:
a row leaves custody once, to one of three ends, and never comes back.

### ResultPipeline

`EnqueueResult`, `FlushBatch`, `MarkResultsSent`, `GetAnswer`, `GiveUp` (client
timeout, or a lost answer), `PostUnreachable`, `Backoff`, `EnforceSizeCap`,
`Cleanup` and `ForwarderCrash` are the collector; `CheckBatch`, `ResolveCaller`,
`AppendTable` (one per target table) and `StampBatch` are the
handler, one copy of it per slot, so that an abandoned attempt runs beside its
retry; `FlushNode` and `CentralCrash` are the node under it. The batch id is a
hash of the sorted row ids and is modelled by the set of rows. The Redis calls
may fail at each use. Markers age at full backoffs, 300 s against their 900 s.
`excused` records which rows met one of the gaps of the deduplication, and is
read by no action. The direct insert of a process that has no write buffer
(`buf is None`, `router.py:2216`) is not modelled: only a process that started
without a ClickHouse client has none. Nor is what the handler puts into a row.

### PollEngine

`loop` is where the main task stands. Job tasks can step only while it awaits
(`Yielding`), because the dispatch loop has no await in it. Deadlines are time
left until them, moved by `Tick`. `SetListed` and `TriggerImmediate` are the
cache-node; `GetMyJobs` and `RefreshJobs` the refresh with its reply under way.
The peer client swallows an RPC error and returns two empty lists
(`peer/client.py:71`), so a call that does not reach the cache-node (`CallFails`)
and one whose answer is lost (`AnswerLost`) go on like an answer without jobs and
empty the heap; `RefreshFailed` is any other exception, which keeps it.
`DispatchReady`, `DispatchDone`, `WakeUp` are the loop;
`StartTask`, `AcquireLane`, `FinishPoll`, `Report` the run of a job, which is in
`pend` until its first step, exactly when it is missing from `_running`. An
entry carries the interval the job had when it was pushed. Loading code and
credentials is inside the poll step.

### LeaderElection

A Redis call takes effect in `TrySet` or `Renew` and is answered in `SetReply`
or `RenewReply`; `SetFails` and `RenewFails` are exceptions, before or after the
effect, which leave the node at `error` (`Raise`) until `_run` catches them
(`CatchError`), so that a failed call is a state of its own and not to be confused
with a refused one. `BeginCycle` reads `_is_leader`, `EndCycle` is any time later. `Stop`
releases the key with the compare-and-delete script, `Crash` does not, and
`Start` comes back with the same id. `age` is the time since Redis last granted
the key to a node, counted up to the TTL, and is read by no action.

### Incidents

`EvaluateAlert`, `ResetResolved`, `ToggleCompanion`, `EditScope` and
`ClearIncident` are the rule's surroundings. `EvaluateRule(n, pick)` is
everything a cycle decides from what it reads: which incidents open, fire again,
rise on the ladder, and clear by resolution and flap guard, by scope, or by a
companion; the result is `plan[n]`. `pick` is which of the companion rows that
share an index key was read last. `Commit` applies the plan to the rows as they
are by then, or `CommitFails` because the unique index
`uq_incidents_rule_entity_open` refuses an insert; `Dispatch` announces the
transitions one by one, and `Crash` loses what was not announced. Severities are
ranks. `raced` and `told` are read by no action. The model is partial: cumulative
thresholds, `depends_on`, `auto_clear_on_resolve = false`, message rendering and
several rules in one transaction are left out, and so are deleted assignments.

### JobSync

Central: which collectors are `active`, the weight `snapshot` with the hosts it is
for, and the definition of each job. `Owner` is the ring lookup; the ring is an
arbitrary ranking (`Rank`) of the collectors per job and weights, so that nothing
depends on the hash. `Mine` has the two fallbacks of `get_jobs`: fewer than two
ACTIVE collectors, or a caller that is not ACTIVE. `EditAssignment` is a change a
delta shows; `HideAssignment`, `EnableDevice`, `HealthCheck`, `Heartbeat` and
`Rebalance` change answers without touching `updated_at` of an assignment.

A collector: `_sync_jobs` runs in two tasks, `SyncLoop` and `ForceSync`, through
the steps request, `GetJobs` (central's query), `StampAndApply` (the answer
arrives, `_last_sync` is stamped) and one step for each write to memory or SQLite,
in the order of the code (`Forget`, `MarkJobDeleted`, `UpsertJob`, `ListJob`),
because an await stands between them. Timestamps are modelled by what they select:
`fresh` is the set of jobs whose `updated_at` lies behind `_last_sync`. The two are
read from the clocks of different hosts, and `updated_at` is set before the
transaction that it belongs to commits (`apps/router.py:1589`); so an edit falls, as
it pleases, on either side of each collector's timestamp (`told`) and of the
timestamps of requests under way (`seen`), and a job that is ahead of the
collector's clock is still ahead when the answer is stamped (`ahead` in
`StampAndApply`). All that is taken for granted is that the clock of a collector
goes forwards, and that no job is ahead of it when the collector first syncs (a delta
would only repeat the job). `blind` records the jobs
changed in a way the next delta cannot show; no action reads it.

Left out: pinned assignments, one-shot discovery jobs and refresh flags (taken
from Redis by whoever asks first), the division of the list among workers by cost
and affinity, profiles.

### AppCacheSync

A value is its `updated_at`; 0 is no row. `AppCacheSet`, `AppCacheDelete`,
`AppCacheGetExpired` are the app; `TakeDirty` (the snapshot), `PushLands` (central
takes it), `MarkClean`, `PullPage`, `ApplyPage` the loop; `Cleanup` the scheduler.
`DeleteDevice` removes a device at central and, by the cascade, its entry; a push
that carries a row of it violates a foreign key and is rolled back as a whole
(`PushRolledBack`). `api_client.push_app_cache` returns nothing for an error status
or a client error, before or after central took the push (`PushFails`), and the
cycle goes on to the pull with nothing marked clean; a timeout, or a failure of the
pull, ends the cycle (`CycleFails`). `raced` and `passed` record which rows met the
gaps named in the properties; no action reads them.

Left out: the deletion of an app, which does what that of a device does; a change of
which apps central takes from which collector; a device created again under the same
id; and a push that reaches central after its sender gave it up, which is like one
of the next cycle unless the row was written again in between.

### WsChannel

Sockets are numbered in the order the collector opens them; central's handler of a
socket and the collector's end of it are apart, so central may go on with a socket
that the collector left. `Connect`, `Displace`, `Announce` are the three parts of
`connect()` between its awaits; `Disconnect` is the `finally` of the handler;
`DeleteKey` the task it leaves behind. `SendCommand` takes the local connection or
publishes; `HandleBroadcast` is a listener, which works on one command at a time;
`End`, `Answer`, `RequestTimeout`, `Blpop` the ways back. A Redis error while the
key is set is swallowed (`connection_manager.py:142`) and not modelled: no command
is routed by the key. Authentication, status queries and the handlers' own work are
left out; `config_reload` is `ForceSync` of `JobSync`.

### OsInstall

`plan` is the job as `create_os_install_job` lays it out. A driver is a task: one
per instance for `execute_os_install_job`, under the lease, and one for
`advance_collector_job` and `resume_os_install_job`, which take no lease. It
carries the rows as it read them (`view`, `ids`), since the sessions do not expire
them, and writes one status at a time. `RunStep`, `Launch`, `SaveSidecarJob`,
`StepEnds` are a step of a central node with the points at which a driver can die;
`OwnReboot` is that of its own node, and `OwnRebootFails` the exception of a reboot
that could not be asked for, after which the driver goes on. `Delegate`, `FetchStep`
and `ReportStep` are a step of a collector; `ReportLost` is an agent that dies at its
step or a report that fails, after which the step still awaits its collector and is
handed out at the next poll. A report that lands creates a task for
`advance_collector_job`, which reads the rows in `ReadForAdvance` and commits in
`Advance` what it decided on them, or goes on as a driver.
`LookForOrphans` is the leader's tick, which only creates a task; `Execute` and
`TurnedAway` are what becomes of it. A step may fail or succeed at will. `gap`,
`overlap`, `ahead`, `unleased`, `rebooted`, `launches` are read by no action.
`MaxFaults` bounds crashes and failures of the lease apart, for each job.

Approximations: an instance has one executing driver and one free one at a time (a
second one can arise only after its own lease lapsed, after a Redis error at
`os_service.py:457`, or from two reports or an approval handled by the same
instance at once); errors of the database are not modelled, and with them a failed
`on_launch`, which is swallowed and leaves the id unsaved (`os_service.py:105`);
what an install does on the node is its end, good or bad.

## 3. Runs

| Run | Instance | States | Shows |
| --- | --- | --- | --- |
| `ch_buffer` | 1 table, 2 requests and the loop, threshold 2, cap 2, up to 2 rows per append, 4 rows | 49 k | no accepted row is forgotten or held twice; duplicates only after an insert that failed and stored; the cap; waiting rows settle; `RowSink` is implemented |
| `result_pipeline` | 2 rows, 2 concurrent handlers, 2 tables | 617 k | no false acknowledgement; every duplicate has one of the known causes; a marker implies ingestion |
| `result_buffer` | 3 rows, cap 2, one malformed, one not owned | 32 k | the same with refusals and the cap; order; full batches are retried unchanged; liveness once failures cease |
| `poll_engine` | 1 heavy job, intervals 0, 2, 3, hash 3, 2 restarts | 12.6 k | one run at a time; the dispatch loop ends; a listed job is polled for ever once calls stop failing; a removed one stops unless its runs overlap the refreshes |
| `leader` | 2 nodes, TTL 3, period 1 | 14.8 k | the lease; overlaps need an expired lease; a leader comes back |
| `incidents` | 2 nodes, 1 entity, tiers 1 and 2, threshold 2, ladder 1-2-3, guard 1 | 420 k | uniqueness, committed and single announcements, no demotion without a stale write |
| `incidents_live` | 2 nodes, 1 entity, 1 companion | 94 k | incidents follow their alerts |
| `incidents_companion` | 1 node, 2 entities, 1 companion | | violated: section 6 |
| `job_sync` | 2 collectors (own key, shared secret), 1 job, 2 weight vectors, full sync every 2nd, 1 change, 1 fault | 466 k | lists agree with central and SQLite; exactly one lists a job; convergence |
| `app_cache` | 2 collectors, 2 keys (one with TTL, one refused from one side), pages of 1, 3 writes, 1 fault or deleted device | 667 k | nothing clean is unpushed, nothing missing is behind the cursor; newest wins; convergence |
| `ws_channel` | 2 nodes, 2 sockets, 1 command, 1 node restart | 213 k | honest answers, one run, registration; every command ends; the collector is reachable again |
| `os_install` | 2 instances, 2 collectors, 8 jobs of the three strategies, 1 crash for each or, for two of them, 1 failure of the lease; any number of lost reports | 283 k | one leased driver; no second launch; verdicts; cancel; every job ends once reports arrive |

Why these bounds are enough:

- `ch_buffer`: with cap = threshold = 2 and 2-row appends, two failed flushes and
  an append meet at a full buffer; two requests and the loop are the three
  kinds of overlap there are. Tables interact only through the loop's pass,
  which may find its only table changed since the snapshot, or gone.
- `result_pipeline`: a batch of 2 has the regrouping ({1}, then {1,2}); 2 slots
  have the retry beside its abandoned attempt; 2 tables the crash between two
  appends. Central nodes differ only in which buffer a row is in, and a crash
  loses a whole buffer, so one node is enough. `CHECK_DEADLOCK FALSE`: when
  every row is produced and sent, the model stops.
- `poll_engine`: jobs interact only by waiting for a slot of the lane, which is a
  delay of the run; interval 0 is the one-shot, 2 and 3 let a refresh fall at each
  point of a run and let the definition change under it. The hash gives a jitter of
  1 to the one and of 0 to the other. For any number of jobs, slots and hashes there
  is the proof.
- `leader`: period and TTL keep the code's ratio of 1 to 3.
- `incidents`: an entity has one open incident, and a slot is free again once no
  plan and no announcement names it; with two nodes, 2 slots keep apart what can
  be under way. That both exceptions happen (a stale demotion, a clearing
  announced twice) was confirmed by checking the properties without them.
- `job_sync`: jobs do not influence each other, except that a run applies them one
  by one; the steps of one job already fall on both sides of every other step. One
  change and one fault meet every stage of two overlapping runs on each collector.
- `app_cache`: pages of one entry and two keys have the page boundary within one
  instant; two collectors have the late push behind a cursor; with two keys the row
  of a deleted device holds up another one. A push has room for both, so that a
  batch is never cut; that is the one bound the rolled-back batch could feel, and a
  smaller batch only delays it.
- `ws_channel`: with two sockets and two nodes the second connection meets the
  first on its node or on the other. `CHECK_DEADLOCK FALSE`: with the sockets
  and the command used up nothing is left to do.
- `os_install`: two steps have every order of delegation and driving; the job with a
  restart has the reboot of the own node and of another, as either instance drives
  it. Every job meets a crash at any point; the two whose drivers differ most in how
  they end, a step left to a collector and a restart, meet a lapsed lease or a Redis
  error instead as well. `CHECK_DEADLOCK FALSE`: a job that ended stays.

Some properties hold except where a history variable records a known gap
(`DuplicateHasCause`, `ListsItsShare`, `CacheInvariant`, `RegisteredUnlessEvicted`,
`OneStepAtATime`, `RemovedJobStops`). Each exception is reachable: without it TLC
finds the behaviour described in section 6.

## 4. Fairness

- `ChBuffer`: the event loop runs a ready task (weak fairness of each task's
  step), and ClickHouse does not reject an insert for ever (strong fairness of
  `InsertOk`). Arrivals, `Stop`, `Crash` are not fair.
- `ResultPipeline`: weak fairness of every task's steps. Nothing is assumed of
  the network, the load balancer or Redis; `EventuallyForwarded` is conditional
  on failures coming to an end.
- `PollEngine`: time passes; asyncio and its semaphores serve in order, which
  gives strong fairness of a task's steps, and reports have timeouts; the refresh is
  tried at each period, reaches the cache-node again and again, and does not raise
  every time (strong fairness of `GetMyJobs` and `RefreshJobs`). Polls are not
  assumed to end: `poll()` runs under a timeout, but `ensure_app`, `connect()` and
  `setup()`, which hold the same slot, do not. `PolledForEver` is conditional on
  polls that end (`PollsEnd`) and on calls to the cache-node that at some time no
  longer fail; without the latter TLC finds a job that each failed call sends back
  to its jitter before it is due.
- `LeaderElection`: time passes and running nodes go on attempting.
  `AlwaysLedAgain` is conditional on a node that stays up, on Redis calls that at
  some time no longer fail (`CallsSucceed`, which a refused renewal satisfies), and on
  processes that at some time no longer end inside an attempt (`NoExitInAttempt`).
  The last is needed: a node that comes back with its id renews its key before it
  knows that it leads, and if it ends there each time, the other is refused for ever.
- `Incidents`: time passes; some node evaluates (`AlwaysLedAgain` and the
  scheduler's loop); not every cycle is lost before its commit (strong fairness
  of "some node commits"); dispatching and rolling back go on.
- `JobSync`: the heartbeat and sync loops of a collector never end (both catch
  every exception), and a call returns or raises. Changes and faults are finitely
  many, which is what "after the last change" means.
- `AppCacheSync`: the loops and central's cleanup go on; apps need not. A push that
  violates a foreign key is no fault that comes to an end: `EventuallyReplicated`
  excepts the dirty rows of a collector that has such a row (`Stuck`).
- `WsChannel`: tasks run, timeouts fire, a closed socket is noticed, the client
  reconnects. Users, breaks and restarts are not fair.
- `OsInstall`: drivers and background tasks run, collectors poll and report, some
  leader looks for orphans, a lease that nobody refreshes expires. Nothing is assumed
  of the administrator: a job may wait for approval for ever. `JobEnds` is conditional
  on reports that at some time are no longer lost; without it TLC finds the step that
  is handed out and lost for ever.

## 5. Proofs

| Theorem | States | For every |
| --- | --- | --- |
| `ChBufferProofs!TypeCorrect`, `RowsAccounted`, `TablesBounded` | `TypeOK`, `NoSilentLoss`, `BufferBounded` | tables, requests, rows, cap, threshold not above the cap |
| `ChBufferProofs!CustodySingle`, `DuplicatesExplained` | `SingleCustody`, `DuplicateOnlyAfterAmbiguousError` | the same |
| `ChBufferProofs!RefinesRowSink` | `ImplementsRowSink`, the refinement | the same |
| `ResultPipelineProofs!NoFalseAcknowledgement`, `DuplicatesHaveACause`, `OldestFirst` | `PipelineInvariant`, `DuplicateHasCause`, `ForwardedInOrder` | rows, nodes, tables, handlers at once, batch size, cap, life of a marker |
| `ResultPipelineProofs!FullBatchIsRetriedUnchanged` | `FullBatchRetriesUnchanged`, of steps | the same |
| `PollEngineProofs!PollSafety`, `OneEntryPerJob`, `OneRunPerJob`, `RunningExact` | `AtMostOneEntry`, `NoConcurrentRuns`, `RunningIsExact` | jobs, intervals, hashes, lanes |
| `CoordinationProofs!LeaseSafety`, `OverlapSafety` | `LeaseHolds`, `OverlapOnlyAfterLease` | nodes, TTL, period |
| `CoordinationProofs!ListsAreShares`, `ListsAreStored`, `ExactlyOneCollector` | `ListsItsShare`, `StoreInvariant`, `ExactlyOneLists` | collectors, jobs, rings and weights, definitions, full-sync periods, changes, faults |
| `IncidentsProofs!OpenIncidentUnique`, `TypeCorrect` | `OneOpenPerEntity`, `TypeOK` | nodes, entities, companions, tiers, monotone ladders, guards |
| `IncidentsProofs!NewsIsRight`, `SeverityHolds` | `ToldRightly`, `DemotesOnlyWhenStale` (of steps) | the same |
| `AppCacheSyncProofs!NoRowIsLost`, `NewestAlwaysWins` | `CacheInvariant`, `NewestWins` (of steps) | collectors, keys, page sizes, writes, faults |
| `WsChannelProofs!CommandsAreSafe`, `ActiveIsRegistered` | `ChannelInvariant`, `RegisteredUnlessEvicted` | nodes, sockets, commands, restarts |
| `OsInstallProofs!LeaseExclusive`, `RowsTellTheTruth`, `StepsInTurn` | `OneLeasedDriver`, `JobInvariant`, `OneStepAtATime` | instances, collectors, jobs, faults |
| `OsInstallProofs!CancelIsFinal` | `CancelHolds`, of steps | the same |

All are proved without fairness, from the assumptions named in the modules:
`ChBufferAssumption` (threshold at most the cap, as in the code's constants),
`ResultPipelineAssumption` (types; a batch has room for a row, and a marker
outlives at least one full backoff, as 900 s against 300 s do),
`IncidentsAssumption` (a monotone ladder, which `_validate_ladder` enforces),
`AppCacheAssumption` (types; pages and pushes have room for an entry, and the
clock, which starts at 1, may be read), `JobSyncAssumption` (types; a group has
finitely many collectors, and a ring meets no two of them at once), and
`PollEngineAssumption`, `LeaderAssumption`, `WsAssumption` and
`OsInstallAssumption` (types; the absence of a key or a node is no node id).
`CoordinationProofs` extends both `JobSync` and `LeaderElection`, which have no
state in common; so that they can stand side by side, the specification's names
in the latter begin with `Leader`.

The inductive invariants, and why the properties need them:

- `ChBuffer`: only a task in its insert holds rows, and an orphaned insert exists
  only inside `stop()` (`IInv`). Otherwise a task that begins a flush would
  overwrite rows it holds, or a second cancellation those of the first, and
  `NoSilentLoss` would not be inductive. `TablesBounded` counts the requests
  about to pop a table: an append that passes the threshold adds its caller to
  that set, a `Pop` empties the table, so the sum of cap and one request's rows
  per caller covers each step; a re-buffering is cut to the cap. `CInv` is for
  custody: an append needs that the numbers from `next` on are new to every place,
  and a second copy in ClickHouse can be blamed on `landed` only if a row that is
  stored and still in memory is in `landed` already (`KeptIsLanded`).
- The refinement: each of the buffer's steps is matched with a step of `RowSink`.
  `AppendRows` accepts; `InsertOk`, `InsertFail` and `OrphanEnds` settle the rows
  they take, `Crash` and the end of `stop()` what is left; `Pop`, `Stop` and the
  passes only move rows about and stutter. A row that leaves one place leaves
  custody only because it is in no other, so the refinement rests on `CInv`.
- `ResultPipeline` (`PInv`): a batch, posted or failed, is older than the rows that
  wait behind it, and what was sent is older than what waits (`Ordered`), which
  makes a full failed batch the oldest rows again; at most one call has a client
  that waits for it, for that batch, and what an abandoned call carries is excused
  (`Serving`); a batch that is marked or answered for is accounted for, and a call
  that appends has kept the rows of the tables it is done with (`Ingested`), which
  is why an answer or a marker vouches for the rows; a row that is not `excused`
  was in one batch only, is in central once, and only if its batch is marked or a
  call that is about to mark it has appended it (`Unique`). The last part is the
  argument for the deduplication itself: a second ingest of a row needs a call
  that passed `CheckBatch` without the marker, and each way for that to happen, a
  regrouped batch, a Redis error, an expired marker, an abandoned call, a dead
  node, puts the row into `excused`.
- `PollEngine`: per job (`JobOK`), at most one heap entry; no entry beside a
  created task; beside an executing task an entry only once its run is over and
  it reports. `AtMostOneEntry` and `NoConcurrentRuns` follow from it and need
  each other: two entries would become two runs, and two runs push two entries.
  `RunningIsExact` is part of it, since a refresh decides by `_running` which
  jobs it may add.
- `LeaderElection`: the owner's age plus the key's TTL is the lease (`Clock`), and
  a grant under way, `_is_leader` or a running cycle means that the node owns
  the key or its lease has run out.
- `JobSync` (`SyncInv`): `ListsItsShare` speaks of a job that no run has still to
  write, so the invariant says of every job that is not `blind` at a collector
  what the runs under way will leave in memory (`Leaves`): the collector's share,
  if the collector is not to be told of the job by the next delta, by the request
  under way or by the answer under way (`NotNews`). On which side of a timestamp an
  edit falls is of no account: one on the wrong side makes the job `blind`. An
  answer is right about what it speaks of and did not change since
  (`AnswerRight`); one that is silent about an edited job means that the job is
  another collector's, and that the list had no such job before (the second part
  of `ListRight`; it survives an edit, which takes no share away). A job that
  both runs have still to write is `blind` (`TwoAreBlind`), or the order of
  their writes would decide. For SQLite, a run between the two writes of a job
  has done the first (`Halfway`: `drop` in memory first, `put` in SQLite first),
  and SQLite alone has a job only between two writes, even of a `blind` job
  (`NotOnlyStored`): a full answer drops only what memory lists, and would leave
  such a row behind. `ExactlyOneLists` follows with the existence of a first
  collector on the ring, the well-foundedness of `<`.
- `Incidents`: a plan opens at most one incident per entity (`PlansOneEach`);
  with the refusal of the unique index at commit, this gives uniqueness for any
  overlap of evaluations. For the announcements (`TInv`), a plan names incidents
  that exist, and one that is no longer open or has risen only if it is stale, so
  a second clearing comes from a stale plan, whose commit puts the incident into
  `raced`; outside `raced`, a clearing is due at one node or was told, not both.
- `AppCacheSync`: `CacheInvariant` is inductive with two facts about data under
  way: a snapshot that was pushed is at central, superseded, expired, refused or gone
  with its device (`SentIsPushed`), or marking it clean would be wrong; and a
  page holds nothing that central lacks (`PageIsHeld`), or applying it would
  move the cursor past what is to come.
- `WsChannel` (`WInv`): a node registers only sockets that lead to it, and a
  connection that was registered still is unless it was displaced or evicted
  (`Registered`, in `SockInv`), where "displaced" is an `old` that some newer
  handler holds between two awaits. Of commands, one is at most once in a queue
  and on a wire and never in both on the same node (`InPlace`), and one that saw
  no reconnection has not run while it is still to be delivered on the current
  socket (`RunOnce`); that a command may wait in the queues of several nodes at
  once is what makes these necessary, since a node without the connection drops
  it. `Answered` traces a success back through list, socket and handler.
- `OsInstall`: a process that executes the job holds the lease, unless the lease
  failed some driver before (`DriverHolds`). `OneLeasedDriver` alone is not
  inductive: of one driver without a lease it says nothing, and a second one could
  acquire it. `JInv` says what a driver's rows are worth, an advance that has read
  and not yet committed being a driver too: a step that is no longer pending never is
  again, neither in the rows nor in a view (`NotPendingAgain`); unless two drivers
  overlapped (`Alone`), a driver's view differs from the rows only by a
  cancellation or a collector's report (`ViewHolds`), a job is completed with all its
  steps unless a driver asked for the reboot of its own node (`EndsComplete`), an
  install that was started is known by its id to whoever drives, unless its driver
  died in the gap (`Follows`), and the only step under way is the one its driver is
  at (`InTurn`).

TLC checked each of these invariants on its module's run as well, but for that of
`PollEngine`, which quantifies over entries with any delay.

Only model-checked:

- The liveness properties: `EventuallySettled`, `EventuallyForwarded`,
  `DispatchTerminates`, `PolledForEver`, `RemovedJobStops`, `AlwaysLedAgain`,
  `ResolvedIsCleared`, `FiringIsTracked`, `EventuallyShared`,
  `EventuallyReplicated`, `CommandEnds`, `EventuallyReachable` and `JobEnds`. The
  prover has no reasoning about fairness and `ENABLED`.

Every other property of a passing run is stated by a theorem above.

## 6. Where the code and its comments disagree

One is a run that ends in a counterexample:

- `incidents_companion`: a companion's clear is not confined to its own
  assignment (`central/incidents/engine.py:598`): the index drops the assignment
  from the key.

For others a property of a passing run states what does hold, with the
disagreement as its exception:

- A retry does not always carry the batch id of the attempt it repeats
  (`collector/forward/forwarder.py:135`): a row that arrives between them joins a
  batch that was not full. `FullBatchRetriesUnchanged`, `DuplicateHasCause`.
- Clearing the heap does not stop a removed job
  (`collector/polling/engine.py:156`): a run that is under way at every refresh
  pushes its next entry, and the job goes on. `RemovedJobStops`.
- The lease does not ensure one scheduler at a time
  (`central/scheduler/leader.py:3`), since a cycle reads `_is_leader` once.
  `OverlapOnlyAfterLease`.
- A collector is told once that it owns a job, but the change of the ring is seen
  by the others only at their next full sync, so for that time a job has two
  collectors or none (`central/collector_api/router.py:560`). `ExactlyOneLists`.
- A key set again between `app_cache_get_dirty` and `app_cache_mark_clean` is
  marked clean (`collector/cache/local_cache.py:539`), an entry pushed late lies
  behind the cursors of the others, and a page that ends within an instant loses
  the rest of that instant. `CacheInvariant`.
- `disconnect()` pops by collector id (`central/ws/connection_manager.py:222`), so
  the end of a displaced connection unregisters its successor, which stays
  connected and unreachable until it breaks. `RegisteredUnlessEvicted`.
- A job that waits for a collector is status `running` and driven by nobody, which
  the leader takes for an orphan (`central/scheduler/tasks.py:1342`); the driver
  it starts activates the next step, although "pause and let the collector
  complete" (`central/upgrades/os_service.py:628`). `OneStepAtATime`.
- An install whose agent dies in it does not wait for the operator
  (`collector/os_update_agent.py:207`: "stays `awaiting_collector` until the operator
  retries"): `get_my_tasks` hands out every step that awaits its collector, so the
  agent installs again when it is back. `JobEnds`.

Seen while modelling, without a property of their own:

- A dirty row of a device that was deleted at central can never be stored, and the
  batch it is in is rolled back in every cycle (`collector_api/router.py:2744`,
  foreign keys at `storage/models.py:1304`): the collector's other dirty rows stay
  with it, until the row is deleted or expires under its app. Nothing tells
  the collector that the row is the cause. This is the last exception of
  `EventuallyReplicated`.
- Calls to the cache-node that keep failing keep emptying the heap of a worker
  (`peer/client.py:71` with `polling/engine.py:155`), also of jobs it could go on with.
- `submit_results` stamps the batch marker while the rows are in memory only
  (`router.py:2230`); a crash of the node loses them. The models count them as
  `crashed` and `lost`.
- With overlapping failed flushes, the cap may cut newer rows and keep older
  ones (`ch_buffer.py:109`), the failed rows being put first whoever failed last.
- A refresh in the report window wipes the entry the run has just pushed
  (`polling/engine.py:211`); the next refresh brings it back, which is what
  `PolledForEver` shows.
- A finished one-shot job that is still listed runs again at each refresh
  (`polling/engine.py:219`).
- The record of an opened incident is made before the flush that gives it an id
  (`incidents/engine.py:391`).
- A cleared incident of an alert that still fires is opened again by the next
  cycle, although `incidents/router.py:284` says otherwise; a clearing by the API
  dispatches no transition.
- A firing rule with a healthy companion opens and clears in turn.
- A DOWN collector that authenticates with the shared secret is given the jobs of
  the whole group (`collector_api/router.py:567`).
- By the leader's tick, a `test_first` job can pass its pause without approval; the
  `failed` flag of fail-fast is not restored by a resuming driver; an orphaned
  `running` reboot or health check is never picked up, and the job ends as failed;
  the reboot of the driver's own node marks the job completed while collectors
  still work, and if the reboot cannot be asked for the job stays completed until the
  driver's own end (the exception in `CompletedIsComplete`); a job stays `pending` if
  its process dies before the background task began.
- A driver that was at work when its job was cancelled writes its own verdict over
  the cancellation, and so does an advance between its read and its commit
  (`os_service.py:840`; the condition in `CancelHolds`).
- The automation engine's cooldown reads the last recorded run, and a run is
  recorded at its end (`automations/engine.py:104`).

## 7. Not modelled, and the plan

Not modelled, because there is nothing for a model to find: the CRUD and query
endpoints (one transaction each, most of central's lines), the ORM and SQL text,
the DSL and rendering, configuration packs, authentication and cryptography,
the frontend, the installer and the deployment scripts, the polling apps. These
are most of the repository, and a map that covered them would be a paraphrase of
statements without state between them; the modules cover the code that runs
concurrently or survives failures. Not modelled, because its promise is weaker
than a property: the audit buffer (drops by design), the debug runs and log
shipping (best effort), the automation engine's cooldown (depends on when a
detached task's record becomes visible). Out of TLC's reach: numeric heuristics
(weights of the rebalancer, costs of workers), pip, SSH and the sidecars.

Modelled in part, and what is missing: cumulative thresholds, `depends_on` and
several rules in one transaction in `Incidents`; pinned and discovery jobs and the
division among workers in `JobSync`; the inventory and the upgrade of MonCTL
itself beside `OsInstall`, and a failing lease for the jobs of two nodes, which
the proofs cover.

What is left to prove is liveness, which needs a prover with `ENABLED`. What is
left to model are the parts named above, first several rules in one transaction
of `Incidents` and the pinned jobs of `JobSync`, whose owner is central's choice
and not the ring's.

## 8. Running

    tlc -config MCChBuffer.cfg MCChBuffer     # a run: module and cfg of PROJECT.json
    tlapm ChBufferProofs.tla                  # the proofs of a module
