------------------------------ MODULE ChBuffer ------------------------------
(***************************************************************************)
(* The in-memory ClickHouse write buffer of a central node                 *)
(* (monctl_central/storage/ch_buffer.py, class ClickHouseWriteBuffer).     *)
(*                                                                         *)
(* Request handlers append rows; the 2 s flush loop, and any request that  *)
(* brings a table to the threshold, pop a table and insert it into         *)
(* ClickHouse in a thread, outside the lock.  Several inserts of one table *)
(* can therefore be in flight at once.  A failed insert puts its rows back *)
(* in front of what arrived meanwhile and cuts the result to the cap.      *)
(*                                                                         *)
(* A row is the number of its arrival, so "newer" is "greater".            *)
(***************************************************************************)
EXTENDS Integers, Sequences, FiniteSets, SequencesExt

CONSTANTS
    Tables,          \* ClickHouse tables with a buffer
    Requests,        \* request tasks that call append concurrently
    FlushThreshold,  \* _FLUSH_THRESHOLD_ROWS
    MaxBufferRows,   \* _MAX_BUFFER_ROWS
    MaxRequestRows,  \* rows one request appends to a table
    RowLimit         \* bound: rows appended in a behaviour

Loop == "loop"       \* the flush-loop task; stop() takes over its work
Flushers == Requests \cup {Loop}

ASSUME ChBufferAssumption ==
    /\ Tables # {}
    /\ Loop \notin Requests
    /\ IsFiniteSet(Requests)
    /\ FlushThreshold \in Nat \ {0}
    /\ MaxBufferRows \in Nat \ {0}
    /\ FlushThreshold <= MaxBufferRows
    /\ MaxRequestRows \in Nat \ {0}
    /\ RowLimit \in Nat

Rows == 1..RowLimit

VARIABLES
    buffers,   \* _buffers: table -> rows waiting, oldest first
    pc,        \* where each flushing task is in _flush_table
    tab,       \* the table that task flushes
    held,      \* rows it popped and is inserting
    todo,      \* tables _flush_all has still to visit
    phase,     \* "run", "stopping" (inside stop()) or "stopped"
    orphan,    \* rows whose insert thread outlived its cancelled task
    next,      \* number of the next row to arrive
    stored,    \* rows in ClickHouse
    doubled,   \* rows in ClickHouse more than once
    landed,    \* rows some failed insert had stored all the same
    dropped,   \* rows cut at the cap, counted by ch_buffer.dropped
    lost       \* rows that died with the process

vars == <<buffers, pc, tab, held, todo, phase, orphan, next,
          stored, doubled, landed, dropped, lost>>

Buffered == UNION {ToSet(buffers[t]) : t \in Tables}
Held     == UNION {ToSet(held[f]) : f \in Flushers}
WaitingFull == {t \in Tables : Len(buffers[t]) >= FlushThreshold}
Waiting == {t \in Tables : buffers[t] # <<>>}

Init ==
    /\ buffers = [t \in Tables |-> <<>>]
    /\ pc = [f \in Flushers |-> "idle"]
    /\ tab = [f \in Flushers |-> CHOOSE t \in Tables : TRUE]
    /\ held = [f \in Flushers |-> <<>>]
    /\ todo = {}
    /\ phase = "run"
    /\ orphan = <<>>
    /\ next = 1
    /\ stored = {} /\ doubled = {} /\ landed = {}
    /\ dropped = {} /\ lost = {}

-----------------------------------------------------------------------------
(***************************************************************************)
(* append: extend the table under the lock, then flush it if it reached    *)
(* the threshold.                                                          *)
(***************************************************************************)
NewRows(k) == [i \in 1..k |-> next + i - 1]

AppendRows(r, t, k) ==
    /\ phase = "run"
    /\ pc[r] = "idle"
    /\ next + k - 1 <= RowLimit
    /\ buffers' = [buffers EXCEPT ![t] = @ \o NewRows(k)]
    /\ next' = next + k
    /\ IF Len(buffers[t]) + k >= FlushThreshold
       THEN pc' = [pc EXCEPT ![r] = "pop"] /\ tab' = [tab EXCEPT ![r] = t]
       ELSE UNCHANGED <<pc, tab>>
    /\ UNCHANGED <<held, todo, phase, orphan, stored, doubled, landed,
                   dropped, lost>>

(* _flush_all: snapshot the keys, then visit them one after another.       *)
FlushAll ==
    /\ phase = "run"
    /\ pc[Loop] = "idle"
    /\ todo = {}
    /\ Waiting # {}
    /\ todo' = Waiting
    /\ UNCHANGED <<buffers, pc, tab, held, phase, orphan, next, stored,
                   doubled, landed, dropped, lost>>

VisitTable(t) ==
    /\ phase \in {"run", "stopping"}
    /\ pc[Loop] = "idle"
    /\ t \in todo
    /\ todo' = todo \ {t}
    /\ pc' = [pc EXCEPT ![Loop] = "pop"]
    /\ tab' = [tab EXCEPT ![Loop] = t]
    /\ UNCHANGED <<buffers, held, phase, orphan, next, stored, doubled,
                   landed, dropped, lost>>

(* _flush_table, first half: take the whole table under the lock.          *)
PopWithoutRemoving(f) ==
    /\ pc[f] = "pop"
    /\ pc' = [pc EXCEPT ![f] = "insert"]
    /\ held' = [held EXCEPT ![f] = buffers[tab[f]]]
    /\ UNCHANGED <<buffers, tab, todo, phase, orphan, next, stored, doubled,
                   landed, dropped, lost>>
Pop(f) ==
    /\ pc[f] = "pop"
    /\ IF buffers[tab[f]] = <<>>
       THEN /\ pc' = [pc EXCEPT ![f] = "idle"]
            /\ UNCHANGED <<buffers, held>>
       ELSE /\ pc' = [pc EXCEPT ![f] = "insert"]
            /\ held' = [held EXCEPT ![f] = buffers[tab[f]]]
            /\ buffers' = [buffers EXCEPT ![tab[f]] = <<>>]
    /\ UNCHANGED <<tab, todo, phase, orphan, next, stored, doubled, landed,
                   dropped, lost>>

Store(rs) ==
    /\ stored' = stored \cup rs
    /\ doubled' = doubled \cup (rs \cap stored)

InsertOk(f) ==
    /\ pc[f] = "insert"
    /\ Store(ToSet(held[f]))
    /\ held' = [held EXCEPT ![f] = <<>>]
    /\ pc' = [pc EXCEPT ![f] = "idle"]
    /\ UNCHANGED <<buffers, tab, todo, phase, orphan, next, landed, dropped,
                   lost>>

(* What the except branch keeps of the failed rows and the newer arrivals. *)
NoExcess(merged) == 0
Excess(merged) ==
    IF Len(merged) <= MaxBufferRows THEN 0 ELSE Len(merged) - MaxBufferRows
RebufferNothing(failed, existing) ==
    IF Len(failed) + Len(existing) <= MaxBufferRows
    THEN failed \o existing ELSE existing
Rebuffer(failed, existing) ==
    LET merged == failed \o existing
    IN  SubSeq(merged, Excess(merged) + 1, Len(merged))
Cut(failed, existing) ==
    LET merged == failed \o existing
    IN  ToSet(SubSeq(merged, 1, Excess(merged)))

(***************************************************************************)
(* The insert raises.  hit: ClickHouse had stored the rows before the      *)
(* client saw the error (a timeout or a broken connection).                *)
(***************************************************************************)
InsertFail(f, hit) ==
    /\ pc[f] = "insert"
    /\ buffers' = [buffers EXCEPT ![tab[f]] = Rebuffer(held[f], @)]
    /\ dropped' = dropped \cup Cut(held[f], buffers[tab[f]])
    /\ IF hit
       THEN Store(ToSet(held[f])) /\ landed' = landed \cup ToSet(held[f])
       ELSE UNCHANGED <<stored, doubled, landed>>
    /\ held' = [held EXCEPT ![f] = <<>>]
    /\ pc' = [pc EXCEPT ![f] = "idle"]
    /\ UNCHANGED <<tab, todo, phase, orphan, next, lost>>

-----------------------------------------------------------------------------
(***************************************************************************)
(* stop(): the requests have drained; the loop task is cancelled, but an   *)
(* insert it awaits runs on in its thread and CancelledError skips the     *)
(* re-buffering.  _flush_all then makes one last pass.                     *)
(***************************************************************************)
StopRebuffers ==
    /\ phase = "run"
    /\ \A r \in Requests : pc[r] = "idle"
    /\ phase' = "stopping"
    /\ orphan' = held[Loop]
    /\ buffers' = [buffers EXCEPT ![tab[Loop]] = Rebuffer(held[Loop], @)]
    /\ held' = [held EXCEPT ![Loop] = <<>>]
    /\ pc' = [pc EXCEPT ![Loop] = "idle"]
    /\ todo' = Tables
    /\ UNCHANGED <<tab, next, stored, doubled, landed, dropped, lost>>
Stop ==
    /\ phase = "run"
    /\ \A r \in Requests : pc[r] = "idle"
    /\ phase' = "stopping"
    /\ orphan' = held[Loop]
    /\ held' = [held EXCEPT ![Loop] = <<>>]
    /\ pc' = [pc EXCEPT ![Loop] = "idle"]
    /\ todo' = Waiting
    /\ UNCHANGED <<buffers, tab, next, stored, doubled, landed, dropped, lost>>

OrphanEnds(ok) ==
    /\ orphan # <<>>
    /\ IF ok THEN Store(ToSet(orphan)) /\ UNCHANGED lost
             ELSE lost' = lost \cup ToSet(orphan) /\ UNCHANGED <<stored, doubled>>
    /\ orphan' = <<>>
    /\ UNCHANGED <<buffers, pc, tab, held, todo, phase, next, landed, dropped>>

(* The process is gone, and with it every row not yet in ClickHouse.       *)
Die ==
    /\ lost' = lost \cup Buffered \cup Held \cup ToSet(orphan)
    /\ buffers' = [t \in Tables |-> <<>>]
    /\ held' = [f \in Flushers |-> <<>>]
    /\ pc' = [f \in Flushers |-> "idle"]
    /\ orphan' = <<>>
    /\ todo' = {}
    /\ phase' = "stopped"
    /\ UNCHANGED <<tab, next, stored, doubled, landed, dropped>>

Exit ==
    /\ phase = "stopping"
    /\ todo = {} /\ pc[Loop] = "idle" /\ orphan = <<>>
    /\ Die

Crash == phase # "stopped" /\ Die

Start ==
    /\ phase = "stopped"
    /\ phase' = "run"
    /\ UNCHANGED <<buffers, pc, tab, held, todo, orphan, next, stored,
                   doubled, landed, dropped, lost>>

Next ==
    \/ \E r \in Requests, t \in Tables, k \in 1..MaxRequestRows : AppendRows(r, t, k)
    \/ FlushAll
    \/ \E t \in Tables : VisitTable(t)
    \/ \E f \in Flushers : Pop(f) \/ InsertOk(f)
    \/ \E f \in Flushers, hit \in BOOLEAN : InsertFail(f, hit)
    \/ Stop
    \/ \E ok \in BOOLEAN : OrphanEnds(ok)
    \/ Exit
    \/ Crash
    \/ Start

Spec == Init /\ [][Next]_vars

(***************************************************************************)
(* The event loop runs every task that can run, and ClickHouse does not    *)
(* reject a task's inserts for ever (strong fairness of InsertOk): the     *)
(* buffer promises nothing while ClickHouse stays down.                    *)
(***************************************************************************)
Fairness ==
    /\ WF_vars(FlushAll)
    /\ \A t \in Tables : WF_vars(VisitTable(t))
    /\ \A f \in Flushers : WF_vars(Pop(f)) /\ SF_vars(InsertOk(f))
    /\ WF_vars(\E ok \in BOOLEAN : OrphanEnds(ok))
    /\ WF_vars(Exit)

FairSpec == Spec /\ Fairness

-----------------------------------------------------------------------------
(* Every variable has its type.                                            *)
TypeOK ==
    /\ buffers \in [Tables -> Seq(Rows)]
    /\ pc \in [Flushers -> {"idle", "pop", "insert"}]
    /\ tab \in [Flushers -> Tables]
    /\ held \in [Flushers -> Seq(Rows)]
    /\ todo \subseteq Tables
    /\ phase \in {"run", "stopping", "stopped"}
    /\ orphan \in Seq(Rows)
    /\ next \in 1..(RowLimit + 1)
    /\ stored \subseteq Rows /\ doubled \subseteq Rows /\ landed \subseteq Rows
    /\ dropped \subseteq Rows /\ lost \subseteq Rows

(***************************************************************************)
(* No silent loss: a row append() accepted is still in memory, or in       *)
(* ClickHouse, or was counted as dropped at the cap, or died with the      *)
(* process.  This is what R-CEN-002 repaired: the re-buffering of a failed *)
(* insert must not forget rows, whatever arrived during the insert.        *)
(***************************************************************************)
Accounted == Buffered \cup Held \cup ToSet(orphan) \cup stored \cup dropped \cup lost
NoSilentLoss == 1..(next - 1) \subseteq Accounted

(***************************************************************************)
(* Two flushes never hold the same row, and a row is not waiting twice:    *)
(* popping a table under the lock hands each row to one task only.         *)
(***************************************************************************)
SingleCustody ==
    LET places == {<<"b", t>> : t \in Tables} \cup {<<"h", f>> : f \in Flushers}
                    \cup {<<"o", Loop>>}
        at(p) == CASE p[1] = "b" -> buffers[p[2]]
                   [] p[1] = "h" -> held[p[2]]
                   [] OTHER -> orphan
    IN  /\ \A p \in places : IsInjective(at(p))
        /\ \A p, q \in places : p # q => ToSet(at(p)) \cap ToSet(at(q)) = {}

(***************************************************************************)
(* A row is in ClickHouse twice only if an insert that reported an error   *)
(* had stored it: the buffer itself never inserts a row it has inserted.   *)
(***************************************************************************)
DuplicateOnlyAfterAmbiguousError == doubled \subseteq landed

(***************************************************************************)
(* append() has no cap of its own; the table is bounded all the same,      *)
(* because whoever brings it over the threshold must itself flush it: the  *)
(* excess over the cap is at most one request's rows for each request      *)
(* that has appended and not yet popped.                                   *)
(***************************************************************************)
AboutToPop(t) == {r \in Requests : pc[r] = "pop" /\ tab[r] = t}
BufferBounded ==
    \A t \in Tables :
        Len(buffers[t]) <= MaxBufferRows + MaxRequestRows * Cardinality(AboutToPop(t))

(***************************************************************************)
(* The buffer implements the row sink: whatever its tasks do at the same   *)
(* time, each row leaves the buffer once, for ClickHouse, the counter of   *)
(* dropped rows or the end of the process, and never comes back.           *)
(***************************************************************************)
Sink == INSTANCE RowSink WITH
    accepted <- next - 1,
    custody <- Buffered \cup Held \cup ToSet(orphan)
ImplementsRowSink == Sink!Spec

(***************************************************************************)
(* A row that waits in a buffer does not stay there: it is eventually      *)
(* stored, dropped at the cap, or lost with the process.                   *)
(***************************************************************************)
EventuallySettled ==
    \A row \in Rows :
        row \in Buffered ~> row \in stored \cup dropped \cup lost
=============================================================================
