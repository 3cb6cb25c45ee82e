--------------------------- MODULE ResultPipeline ---------------------------
(***************************************************************************)
(* The way of a poll result from a collector's SQLite buffer to central:   *)
(*                                                                         *)
(*   cache-node  --enqueue-->  results table  --forwarder POST-->          *)
(*   submit_results on some central node  --append-->  that node's write   *)
(*   buffer  --flush-->  ClickHouse                                        *)
(*                                                                         *)
(* (collector forward/forwarder.py and cache/local_cache.py; central       *)
(* collector_api/router.py submit_results and storage/ch_buffer.py, the    *)
(* latter reduced to what ChBuffer shows of it without overflow.)          *)
(*                                                                         *)
(* A result is the number of its row, rows being numbered in the order of  *)
(* created_at.  The batch id is a hash of the node and the sorted row ids, *)
(* so it is modelled by the set of rows itself.  The client gives up after *)
(* 30 s while the handler runs on, so a retry can overlap the attempt it   *)
(* repeats, on another central node.                                       *)
(***************************************************************************)
EXTENDS Integers, FiniteSets, FiniteSetsExt

CONSTANTS
    RowLimit,      \* bound: results produced in a behaviour
    Slots,         \* bound: submit_results calls that may run at once
    BatchSize,     \* _BATCH_SIZE
    BufferCap,     \* forwarder _MAX_BUFFER_ROWS
    MarkerLife,    \* full backoffs a batch_seen marker outlives (900 s / 300 s)
    Nodes,         \* central nodes behind the load balancer
    Tables,        \* ClickHouse target tables
    TableOf,       \* row -> its target table
    Malformed,     \* rows the request model rejects with 422
    Unowned,       \* rows of jobs the collector does not own, or with a bad id
    Empty          \* interface results without interface rows

Rows == 1..RowLimit
CopyLimit == 2     \* bound: copies of a row are counted up to here

ASSUME ResultPipelineAssumption ==
    /\ RowLimit \in Nat
    /\ BatchSize \in Nat \ {0}
    /\ BufferCap \in Nat
    /\ MarkerLife \in Nat \ {0}
    /\ TableOf \in [Rows -> Tables]
    /\ Malformed \subseteq Rows /\ Unowned \subseteq Rows /\ Empty \subseteq Rows

VARIABLES
    unsent,    \* rows with sent = 0
    sent,      \* rows with sent = 1
    next,      \* next row id
    fwd,       \* forwarder: "idle", "posting", "backoff" after an error status,
               \* "broken" after a transport error (it backs off all the same)
    batch,     \* ids of the batch being posted
    handler,   \* slot -> the submit_results call running in it
    answer,    \* status waiting for the forwarder: "none", "ok", "422", "error"
    markers,   \* batch_seen:* keys in Redis, with the backoffs each has left
    mem,       \* node -> row -> copies in that node's write buffer
    stored,    \* row -> copies in ClickHouse
    refused,   \* rows central answered for without keeping them
    dropped,   \* unsent rows removed at the size cap
    crashed,   \* rows that died in a node's write buffer
    tried,     \* batches posted so far
    failed,    \* the last batch whose POST failed, {} after a success
    excused    \* rows a known gap of the deduplication may duplicate

cvars == <<unsent, sent, next>>
svars == <<markers, mem, stored, refused, crashed>>
vars  == <<unsent, sent, next, fwd, batch, handler, answer, markers,
           mem, stored, refused, dropped, crashed, tried, failed, excused>>

NoHandler == [pc |-> "none"]
NoRows == [r \in Rows |-> 0]
Handler(n, b) ==
    [pc |-> "check", node |-> n, rows |-> b, left |-> {}, client |-> TRUE]

Init ==
    /\ unsent = {} /\ sent = {} /\ next = 1
    /\ fwd = "idle" /\ batch = {}
    /\ handler = [p \in Slots |-> NoHandler]
    /\ answer = "none"
    /\ markers = {}
    /\ mem = [n \in Nodes |-> NoRows]
    /\ stored = NoRows
    /\ refused = {} /\ dropped = {} /\ crashed = {}
    /\ tried = {} /\ failed = {} /\ excused = {}

-----------------------------------------------------------------------------
(***************************************************************************)
(* Collector.                                                              *)
(***************************************************************************)
EnqueueResult ==
    /\ next <= RowLimit
    /\ unsent' = unsent \cup {next}
    /\ next' = next + 1
    /\ UNCHANGED <<sent, fwd, batch, handler, answer, svars, dropped, tried,
                   failed, excused>>

(* The k first rows of a set in the order of created_at (dequeue_results,  *)
(* drop_oldest_results).                                                   *)
Newest(S, k) == {r \in S : Cardinality({q \in S : q > r}) < k}
Oldest(S, k) == {r \in S : Cardinality({q \in S : q < r}) < k}

(* Rows of this batch that an earlier, different batch already carried.    *)
Regrouped(b) == UNION {b \cap o : o \in tried \ {b}}

(***************************************************************************)
(* _flush_batch up to the POST.  The request reaches a node, is refused by *)
(* the request model (one malformed row rejects the batch), or never       *)
(* arrives.                                                                *)
(***************************************************************************)
FlushBatch(p, n) ==
    LET b == Oldest(unsent, BatchSize)
    IN  /\ fwd = "idle"
        /\ b # {}
        /\ handler[p] = NoHandler
        /\ fwd' = "posting"
        /\ batch' = b
        /\ tried' = tried \cup {b}
        /\ excused' = excused \cup Regrouped(b)
        /\ IF b \cap Malformed # {}
           THEN answer' = "422" /\ UNCHANGED handler
           ELSE handler' = [handler EXCEPT ![p] = Handler(n, b)]
                /\ UNCHANGED answer
        /\ UNCHANGED <<cvars, svars, dropped, failed>>

PostUnreachable ==
    /\ fwd = "idle"
    /\ unsent # {}
    /\ fwd' = "broken"
    /\ batch' = Oldest(unsent, BatchSize)
    /\ failed' = batch'
    /\ UNCHANGED <<cvars, handler, answer, svars, dropped, tried, excused>>

MarkResultsSent ==
    /\ sent' = sent \cup (batch \cap unsent)
    /\ unsent' = unsent \ batch

(* The statuses after which the rows are not sent again: 2xx, and 422,     *)
(* because a batch the request model rejects will never be accepted.       *)
SettledAlways(status) == TRUE
SettledOnlyOk(status) == status = "ok"
Settled(status) == status \in {"ok", "422"}

GetAnswer ==
    /\ fwd = "posting"
    /\ answer # "none"
    /\ IF Settled(answer)
       THEN /\ MarkResultsSent
            /\ fwd' = "idle"
            /\ failed' = {}
            /\ batch' = {}
       ELSE /\ UNCHANGED <<unsent, sent, batch>>
            /\ fwd' = "backoff"
            /\ failed' = batch
    /\ refused' = IF answer = "422" THEN refused \cup batch ELSE refused
    /\ answer' = "none"
    /\ UNCHANGED <<next, handler, markers, mem, stored, crashed, dropped, tried,
                   excused>>

(* The handlers still running when their client leaves them.               *)
Abandoned == [p \in Slots |->
                IF handler[p].pc = "none" THEN NoHandler
                ELSE [handler[p] EXCEPT !.client = FALSE]]
Running == UNION {handler[p].rows : p \in {q \in Slots : handler[q].pc # "none"}}

(* Timeout, reset connection or lost response: _run sees an exception.     *)
GiveUp ==
    /\ fwd = "posting"
    /\ fwd' = "broken"
    /\ failed' = batch
    /\ answer' = "none"
    /\ excused' = excused \cup Running
    /\ handler' = Abandoned
    /\ UNCHANGED <<cvars, batch, svars, dropped, tried>>

(* The sleep after an error; at peak it is a third of a marker's life.     *)
OlderMarkers == {<<m[1], m[2] - 1>> : m \in {x \in markers : x[2] > 1}}
Backoff(peak) ==
    /\ fwd \in {"backoff", "broken"}
    /\ fwd' = "idle"
    /\ batch' = {}
    /\ IF peak
       THEN /\ markers' = OlderMarkers
            /\ excused' = excused \cup UNION {m[1] : m \in {x \in markers : x[2] <= 1}}
       ELSE UNCHANGED <<markers, excused>>
    /\ UNCHANGED <<cvars, handler, answer, mem, stored, refused, crashed,
                   dropped, tried, failed>>

(* _enforce_size_cap: sent and unsent rows alike, oldest first.            *)
EnforceSizeCap ==
    LET all  == sent \cup unsent
        drop == Oldest(all, Cardinality(all) - BufferCap + (BufferCap \div 20))
    IN  /\ fwd = "idle"
        /\ Cardinality(all) > BufferCap
        /\ sent' = sent \ drop
        /\ unsent' = unsent \ drop
        /\ dropped' = dropped \cup (drop \cap unsent)
        /\ UNCHANGED <<next, fwd, batch, handler, answer, svars, tried, failed, excused>>

(* _cleanup: sent rows created before a cutoff.                            *)
Cleanup(cutoff) ==
    /\ fwd = "idle"
    /\ \E r \in sent : r < cutoff
    /\ sent' = {r \in sent : r >= cutoff}
    /\ UNCHANGED <<unsent, next, fwd, batch, handler, answer, svars, dropped,
                   tried, failed, excused>>

(* The forwarder process dies and restarts; only SQLite survives.          *)
ForwarderCrash ==
    /\ fwd # "idle"
    /\ fwd' = "idle"
    /\ batch' = {}
    /\ answer' = "none"
    /\ failed' = IF fwd = "posting" THEN batch ELSE failed
    /\ excused' = excused \cup Running
    /\ handler' = Abandoned
    /\ UNCHANGED <<cvars, svars, dropped, tried>>

-----------------------------------------------------------------------------
(***************************************************************************)
(* Central: submit_results.                                                *)
(***************************************************************************)
MarkedElsewhere(b) == \E m \in markers : m[1] # b
Marked(b) == \E m \in markers : m[1] = b

Finish(p, status) ==
    /\ handler' = [handler EXCEPT ![p] = NoHandler]
    /\ answer' = IF handler[p].client THEN status ELSE answer

(* The dedup check.  With Redis failing it falls through to the ingest.    *)
CheckBatch(p, redis) ==
    LET h == handler[p]
    IN  /\ h.pc = "check"
        /\ IF redis /\ Marked(h.rows)
           THEN Finish(p, "ok")
           ELSE /\ handler' = [handler EXCEPT ![p].pc = "resolve"]
                /\ UNCHANGED answer
        /\ excused' = IF redis THEN excused ELSE excused \cup h.rows
        /\ UNCHANGED <<cvars, fwd, batch, svars, dropped, tried, failed>>

(* Resolve the caller and walk the results; any error or a strict-mode     *)
(* 401 ends the request before a row is kept.                              *)
Kept(b) == b \ (Unowned \cup Empty)

ResolveCaller(p, ok) ==
    LET h == handler[p]
    IN  /\ h.pc = "resolve"
        /\ IF ok
           THEN /\ handler' = [handler EXCEPT
                      ![p].pc = "append",
                      ![p].left = {TableOf[r] : r \in Kept(h.rows)}]
                /\ refused' = refused \cup (h.rows \ Kept(h.rows))
                /\ UNCHANGED answer
           ELSE Finish(p, "error") /\ UNCHANGED refused
        /\ UNCHANGED <<cvars, fwd, batch, markers, mem, stored, crashed,
                       dropped, tried, failed, excused>>

Sum2(bag1, bag2) == [r \in Rows |-> Min({CopyLimit, bag1[r] + bag2[r]})]
Add(bag, rs) == Sum2(bag, [r \in Rows |-> IF r \in rs THEN 1 ELSE 0])

(* buf.append for one target table after the other.                        *)
AppendTable(p, t) ==
    LET h == handler[p]
    IN  /\ h.pc = "append"
        /\ t \in h.left
        /\ mem' = [mem EXCEPT ![h.node] =
                      Add(@, {r \in Kept(h.rows) : TableOf[r] = t})]
        /\ handler' = [handler EXCEPT ![p].left = @ \ {t}]
        /\ UNCHANGED <<cvars, fwd, batch, answer, markers, stored,
                       refused, crashed, dropped, tried, failed, excused>>

(* Stamp the marker, after the last append, and answer 202.                *)
StampBatch(p, redis) ==
    LET h == handler[p]
    IN  /\ h.pc = "append"
        /\ h.left = {}
        /\ markers' = IF redis
                      THEN {m \in markers : m[1] # h.rows} \cup {<<h.rows, MarkerLife>>}
                      ELSE markers
        /\ excused' = IF redis THEN excused ELSE excused \cup h.rows
        /\ Finish(p, "ok")
        /\ UNCHANGED <<cvars, fwd, batch, mem, stored, refused, crashed,
                       dropped, tried, failed>>

(* The write buffer of a node reaches ClickHouse.                          *)
FlushNode(n) ==
    /\ mem[n] # NoRows
    /\ stored' = Sum2(stored, mem[n])
    /\ mem' = [mem EXCEPT ![n] = NoRows]
    /\ UNCHANGED <<cvars, fwd, batch, handler, answer, markers, refused, dropped,
                   crashed, tried, failed, excused>>

(* A central node dies with its write buffer and the calls it serves.      *)
CentralCrash(n) ==
    LET here == {p \in Slots : handler[p].pc # "none" /\ handler[p].node = n}
    IN  /\ mem[n] # NoRows \/ here # {}
        /\ crashed' = crashed \cup {r \in Rows : mem[n][r] > 0}
        /\ mem' = [mem EXCEPT ![n] = NoRows]
        /\ excused' = excused \cup UNION {handler[p].rows : p \in here}
        /\ answer' = IF \E p \in here : handler[p].client THEN "error" ELSE answer
        /\ handler' = [p \in Slots |-> IF p \in here THEN NoHandler ELSE handler[p]]
        /\ UNCHANGED <<cvars, fwd, batch, markers, stored, refused,
                       dropped, tried, failed>>

Next ==
    \/ EnqueueResult
    \/ \E n \in Nodes, p \in Slots : FlushBatch(p, n)
    \/ \E n \in Nodes : FlushNode(n) \/ CentralCrash(n)
    \/ PostUnreachable
    \/ GetAnswer
    \/ GiveUp
    \/ \E peak \in BOOLEAN : Backoff(peak)
    \/ EnforceSizeCap
    \/ \E cutoff \in Rows : Cleanup(cutoff)
    \/ ForwarderCrash
    \/ \E p \in Slots, yes \in BOOLEAN :
          CheckBatch(p, yes) \/ ResolveCaller(p, yes) \/ StampBatch(p, yes)
    \/ \E p \in Slots, t \in Tables : AppendTable(p, t)

Spec == Init /\ [][Next]_vars

(* Every task that can take a step takes it; nothing is assumed of the     *)
(* network, the load balancer or Redis.                                    *)
Fairness ==
    /\ WF_vars(\E n \in Nodes, p \in Slots : FlushBatch(p, n))
    /\ WF_vars(GetAnswer)
    /\ WF_vars(\E peak \in BOOLEAN : Backoff(peak))
    /\ \A p \in Slots :
          /\ WF_vars(\E yes \in BOOLEAN : CheckBatch(p, yes))
          /\ WF_vars(\E yes \in BOOLEAN : ResolveCaller(p, yes))
          /\ WF_vars(\E yes \in BOOLEAN : StampBatch(p, yes))
          /\ WF_vars(\E t \in Tables : AppendTable(p, t))

FairSpec == Spec /\ Fairness

-----------------------------------------------------------------------------
(* Every variable has its type.                                            *)
TypeOK ==
    /\ unsent \subseteq Rows /\ sent \subseteq Rows /\ unsent \cap sent = {}
    /\ next \in 1..(RowLimit + 1)
    /\ fwd \in {"idle", "posting", "backoff", "broken"}
    /\ batch \subseteq Rows /\ Cardinality(batch) <= BatchSize
    /\ \A p \in Slots : handler[p].pc \in {"none", "check", "resolve", "append"}
    /\ answer \in {"none", "ok", "422", "error"}
    /\ markers \subseteq (SUBSET Rows) \X (1..MarkerLife)
    /\ mem \in [Nodes -> [Rows -> 0..CopyLimit]]
    /\ stored \in [Rows -> 0..CopyLimit]
    /\ refused \subseteq Rows /\ dropped \subseteq Rows /\ crashed \subseteq Rows
    /\ tried \subseteq SUBSET Rows /\ failed \subseteq Rows /\ excused \subseteq Rows

InMemory(r) == \E n \in Nodes : mem[n][r] > 0

(***************************************************************************)
(* No false acknowledgement: a row the forwarder marks sent has been taken *)
(* over by central (kept in a write buffer or in ClickHouse, or lost later *)
(* with the node that had it) or was refused by central for what it is.    *)
(* No timeout, lost response, crash or deduplicated retry marks a row that *)
(* never got there.                                                        *)
(***************************************************************************)
SentWasTakenOver ==
    \A r \in sent : stored[r] > 0 \/ InMemory(r) \/ r \in crashed \/ r \in refused

(***************************************************************************)
(* What the batch deduplication guarantees: a row is in central twice only *)
(* if one of its known gaps was met: the row was regrouped into another    *)
(* batch, Redis failed, the marker expired, the attempt was abandoned      *)
(* while its handler still ran, or its node died.  In particular a lost    *)
(* 202 followed by a retry of the same batch never duplicates.             *)
(***************************************************************************)
Twice(r) ==
    \/ stored[r] > 1
    \/ \E n \in Nodes : mem[n][r] > 1 \/ (mem[n][r] > 0 /\ stored[r] > 0)
    \/ \E m, n \in Nodes : m # n /\ mem[m][r] > 0 /\ mem[n][r] > 0
DuplicateHasCause == \A r \in Rows : Twice(r) => r \in excused

(***************************************************************************)
(* Results are forwarded in the order of created_at: no row is marked sent *)
(* while an older one still waits.                                         *)
(***************************************************************************)
ForwardedInOrder == \A s \in sent, u \in unsent : s < u

(***************************************************************************)
(* "Stamp the dedup marker only after the ingest path ran": a marker's     *)
(* rows were all appended to a write buffer, so a crash in the middle of   *)
(* the appends leaves no marker and the retry ingests the batch.           *)
(***************************************************************************)
MarkerAfterIngest ==
    \A m \in markers : \A r \in Kept(m[1]) :
        stored[r] > 0 \/ InMemory(r) \/ r \in crashed

(***************************************************************************)
(* What holds of every row and every batch at all times: the types, no     *)
(* false acknowledgement, and no marker before its batch is ingested.      *)
(***************************************************************************)
PipelineInvariant == TypeOK /\ SentWasTakenOver /\ MarkerAfterIngest

(***************************************************************************)
(* "If the POST succeeded server-side but the response was lost in         *)
(* transit, the retry will carry the same batch_id" (forwarder.py:135)     *)
(* holds for a full batch: with BatchSize rows in the failed batch and     *)
(* none of them removed, later arrivals cannot change the batch id, so the *)
(* deduplication sees the retry.                                           *)
(***************************************************************************)
Retry == fwd = "idle" /\ fwd' = "posting" /\ failed # {} /\ failed \subseteq unsent
FullBatchRetriesUnchanged ==
    [][Retry /\ Cardinality(failed) = BatchSize => batch' = failed]_vars

(***************************************************************************)
(* Once failures cease, every buffered result is eventually sent, or       *)
(* dropped at the size cap.                                                *)
(***************************************************************************)
Failure ==
    \/ PostUnreachable \/ GiveUp
    \/ ForwarderCrash /\ fwd = "posting"   \* in a backoff it only cuts the sleep
    \/ \E n \in Nodes : CentralCrash(n)
    \/ \E p \in Slots : ResolveCaller(p, FALSE)
EventuallyForwarded ==
    <>[][~Failure]_vars => \A r \in Rows : r \in unsent ~> r \in sent \cup dropped
=============================================================================
