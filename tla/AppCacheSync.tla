---------------------------- MODULE AppCacheSync ----------------------------
(***************************************************************************)
(* The app cache: key-value pairs that polling apps keep on a collector    *)
(* and that AppCacheSyncLoop (cache/app_cache_sync.py) replicates to the   *)
(* collectors of the group through central (push_app_cache and             *)
(* pull_app_cache of collector_api/router.py, _cleanup_app_cache of        *)
(* scheduler/tasks.py).                                                    *)
(*                                                                         *)
(* An entry is its updated_at, given by the clock of the collector that    *)
(* wrote it; the clocks agree.  A key stands for one entry of one device   *)
(* and app; which apps central takes from which collector does not change. *)
(***************************************************************************)
EXTENDS Integers, FiniteSets

CONSTANTS
    Collectors, Keys,
    TtlKeys,   \* the keys written with ttl_seconds
    Refused,   \* <<c, k>>: central does not accept k from c (app not its own)
    Ttl,       \* ttl_seconds, in units of time
    PushLimit, \* limit of app_cache_get_dirty
    PageLimit, \* limit of pull_app_cache
    MaxTime,   \* bound of the clock
    MaxWrites, \* bound: writes and deletions by apps
    MaxFaults  \* bound: failed calls, restarts and deleted devices

ASSUME AppCacheAssumption ==
    /\ TtlKeys \subseteq Keys /\ Refused \subseteq Collectors \X Keys
    /\ Ttl \in Nat /\ PushLimit \in Nat \ {0} /\ PageLimit \in Nat \ {0}
    /\ MaxTime \in Nat \ {0} /\ MaxWrites \in Nat
    /\ MaxFaults \in Nat

VARIABLES
    now,
    cen,     \* central's app_cache: updated_at by key, 0 where there is none
    gone,    \* the keys whose device was deleted at central
    val,     \* app_cache of each collector, 0 where there is no row
    dirty,   \* its rows with dirty = 1
    cursor,  \* _last_pull_at
    pc,      \* _run: "push", "sent", "clean", "pull" or "page"
    sent,    \* the keys of the push under way
    page,    \* the entries of the page under way, by key
    more,    \* its has_more
    writes, faults,
    raced,   \* history: <<c, k>> marked clean after k was written again
    passed   \* history: <<c, k>> of which central's entry landed behind c's
             \*   cursor, or was passed by it, or was deleted at c

vars == <<now, cen, gone, val, dirty, cursor, pc, sent, page, more, writes,
          faults, raced, passed>>

Stamps == 0 .. MaxTime
NoEntries == [k \in Keys |-> 0]

Init ==
    /\ now = 1
    /\ cen = NoEntries /\ gone = {}
    /\ val = [c \in Collectors |-> NoEntries]
    /\ dirty = [c \in Collectors |-> {}]
    /\ cursor = [c \in Collectors |-> 0]
    /\ pc = [c \in Collectors |-> "push"]
    /\ sent = [c \in Collectors |-> NoEntries]
    /\ page = [c \in Collectors |-> NoEntries]
    /\ more = [c \in Collectors |-> FALSE]
    /\ writes = 0 /\ faults = 0
    /\ raced = {} /\ passed = {}

Expired(k, t) == k \in TtlKeys /\ t + Ttl < now

-----------------------------------------------------------------------------
(* The app: app_cache_set, app_cache_delete, and app_cache_get, which      *)
(* deletes an expired row.                                                 *)
Write == writes < MaxWrites /\ writes' = writes + 1

AppCacheSet(c, k) ==
    /\ val[c][k] < now
    /\ val' = [val EXCEPT ![c][k] = now]
    /\ dirty' = [dirty EXCEPT ![c] = @ \cup {k}]
    /\ raced' = raced \ {<<c, k>>}
    /\ Write
    /\ UNCHANGED <<now, cen, gone, cursor, pc, sent, page, more, faults, passed>>

Remove(c, k) ==
    /\ val' = [val EXCEPT ![c][k] = 0]
    /\ dirty' = [dirty EXCEPT ![c] = @ \ {k}]
    /\ raced' = raced \ {<<c, k>>}
    /\ passed' = IF cen[k] \in 1 .. cursor[c] THEN passed \cup {<<c, k>>} ELSE passed
    /\ UNCHANGED <<now, cen, gone, cursor, pc, sent, page, more, faults>>

AppCacheDelete(c, k) == val[c][k] # 0 /\ Write /\ Remove(c, k)

AppCacheGetExpired(c, k) ==
    val[c][k] # 0 /\ Expired(k, val[c][k]) /\ Remove(c, k) /\ UNCHANGED writes

Tick ==
    /\ now < MaxTime /\ now' = now + 1
    /\ UNCHANGED <<cen, gone, val, dirty, cursor, pc, sent, page, more, writes,
                   faults, raced, passed>>

-----------------------------------------------------------------------------
(* The loop sends a snapshot of dirty rows.                                *)
TakeDirty(c) ==
    \E ks \in SUBSET dirty[c] :
      /\ pc[c] = "push"
      /\ Cardinality(ks) <= PushLimit
      /\ Cardinality(ks) < PushLimit => ks = dirty[c]
      /\ ks # {}
      /\ sent' = [sent EXCEPT ![c] = [k \in Keys |-> IF k \in ks THEN val[c][k] ELSE 0]]
      /\ pc' = [pc EXCEPT ![c] = "sent"]
      /\ UNCHANGED <<now, cen, gone, val, dirty, cursor, page, more, writes, faults,
                     raced, passed>>

(***************************************************************************)
(* push_app_cache: an entry replaces an older one.  One that is refused is *)
(* counted, and the answer is a success all the same.  An entry of a       *)
(* deleted device that is not refused violates the foreign key of          *)
(* app_cache: the whole batch is rolled back and the answer is an error,   *)
(* on which the loop marks nothing clean and goes on to the pull.          *)
(***************************************************************************)
AcceptsAny(old, new) == new # 0
AcceptsFirst(old, new) == old = 0 /\ new # 0
Accepts(old, new) == old < new

Pushed(c) ==
    [k \in Keys |-> IF Accepts(cen[k], sent[c][k]) /\ <<c, k>> \notin Refused
                    THEN sent[c][k] ELSE cen[k]]

Violates(c, k) == k \in gone /\ <<c, k>> \notin Refused

PushLands(c) ==
    LET landed == {k \in Keys : Pushed(c)[k] # cen[k]} IN
    /\ pc[c] = "sent"
    /\ \A k \in Keys : sent[c][k] # 0 => ~Violates(c, k)
    /\ cen' = Pushed(c)
    /\ pc' = [pc EXCEPT ![c] = "clean"]
    /\ passed' = (passed \ (Collectors \X landed))
                   \cup {e \in Collectors \X landed :
                            cen'[e[2]] \in val[e[1]][e[2]] + 1 .. cursor[e[1]]}
    /\ UNCHANGED <<now, gone, val, dirty, cursor, sent, page, more, writes, faults,
                   raced>>

GiveUpPush(c) ==
    /\ sent' = [sent EXCEPT ![c] = NoEntries]
    /\ pc' = [pc EXCEPT ![c] = "pull"]
    /\ UNCHANGED <<now, cen, gone, val, dirty, cursor, page, more, writes, raced,
                   passed>>

PushRolledBack(c) ==
    /\ pc[c] = "sent"
    /\ \E k \in Keys : sent[c][k] # 0 /\ Violates(c, k)
    /\ GiveUpPush(c) /\ UNCHANGED faults

NothingDirty(c) ==
    /\ pc[c] = "push" /\ dirty[c] = {}
    /\ pc' = [pc EXCEPT ![c] = "pull"]
    /\ UNCHANGED <<now, cen, gone, val, dirty, cursor, sent, page, more, writes,
                   faults, raced, passed>>

(* app_cache_mark_clean, by key.                                           *)
MarksClean(c, k) == sent[c][k] # 0

MarkClean(c) ==
    LET ks == {k \in Keys : MarksClean(c, k)} IN
    /\ pc[c] = "clean"
    /\ dirty' = [dirty EXCEPT ![c] = @ \ ks]
    /\ raced' = raced \cup {<<c, k>> : k \in {i \in ks \cap dirty[c] :
                                                val[c][i] # sent[c][i]}}
    /\ sent' = [sent EXCEPT ![c] = NoEntries]
    /\ pc' = [pc EXCEPT ![c] = "pull"]
    /\ UNCHANGED <<now, cen, gone, val, cursor, page, more, writes, faults, passed>>

-----------------------------------------------------------------------------
(***************************************************************************)
(* pull_app_cache: the oldest PageLimit entries behind the cursor, less    *)
(* those expired.  Entries of one instant come in any order.               *)
(***************************************************************************)
Behind(c) == {k \in Keys : cen[k] > cursor[c]}

Pages(c) == {ks \in SUBSET Behind(c) :
    /\ Cardinality(ks) <= PageLimit
    /\ Cardinality(ks) < PageLimit => ks = Behind(c)
    /\ \A k \in ks, l \in Behind(c) \ ks : cen[k] <= cen[l]}

PullPage(c) ==
    /\ pc[c] = "pull"
    /\ \E ks \in Pages(c) :
         /\ page' = [page EXCEPT ![c] =
              [k \in Keys |-> IF k \in ks /\ ~Expired(k, cen[k]) THEN cen[k] ELSE 0]]
         /\ more' = [more EXCEPT ![c] = ks # Behind(c)]
    /\ pc' = [pc EXCEPT ![c] = "page"]
    /\ UNCHANGED <<now, cen, gone, val, dirty, cursor, sent, writes, faults, raced,
                   passed>>

(***************************************************************************)
(* app_cache_upsert_from_central, and the cursor to the last entry; then   *)
(* the next page.  An empty page ends the pull, whatever has_more says.    *)
(***************************************************************************)
Replaces(old, new) == old < new

Max0(S) == CHOOSE m \in S \cup {0} : \A n \in S : n <= m

CursorStays(c) == cursor[c]
LastOfPage(c) == Max0({page[c][k] : k \in Keys} \cup {cursor[c]})

ApplyPage(c) ==
    /\ pc[c] = "page"
    /\ val' = [val EXCEPT ![c] = [k \in Keys |->
         IF Replaces(@[k], page[c][k]) THEN page[c][k] ELSE @[k]]]
    /\ cursor' = [cursor EXCEPT ![c] = LastOfPage(c)]
    /\ page' = [page EXCEPT ![c] = NoEntries]
    /\ more' = [more EXCEPT ![c] = FALSE]
    /\ pc' = [pc EXCEPT ![c] =
         IF page[c] # NoEntries /\ more[c] THEN "pull" ELSE "push"]
    /\ passed' = passed \cup
         {<<c, k>> : k \in {i \in Keys : /\ page[c][i] # cen[i]
                                        /\ cen[i] \in cursor[c] + 1 .. cursor'[c]}}
    /\ UNCHANGED <<now, cen, gone, dirty, sent, writes, faults, raced>>

-----------------------------------------------------------------------------
(* _cleanup_app_cache of the scheduler.                                    *)
Cleanup ==
    /\ \E k \in Keys : cen[k] # 0 /\ Expired(k, cen[k])
    /\ cen' = [k \in Keys |-> IF Expired(k, cen[k]) THEN 0 ELSE cen[k]]
    /\ UNCHANGED <<now, gone, val, dirty, cursor, pc, sent, page, more, writes,
                   faults, raced, passed>>

Fault == faults < MaxFaults /\ faults' = faults + 1

(* A device is deleted, and its entries with it (ON DELETE CASCADE).       *)
DeleteDevice(k) ==
    /\ Fault
    /\ k \notin gone /\ gone' = gone \cup {k}
    /\ cen' = [cen EXCEPT ![k] = 0]
    /\ UNCHANGED <<now, val, dirty, cursor, pc, sent, page, more, writes, raced,
                   passed>>

(* A push fails, before or after central saw it, with an error that        *)
(* push_app_cache of api_client swallows: the cycle goes on to the pull.   *)
PushFails(c) == Fault /\ pc[c] \in {"sent", "clean"} /\ GiveUpPush(c)

(* One it does not swallow (a timeout), or a failed pull: the cycle ends.  *)
CycleFails(c) ==
    /\ Fault
    /\ pc[c] \in {"sent", "clean", "pull", "page"}
    /\ pc' = [pc EXCEPT ![c] = "push"]
    /\ sent' = [sent EXCEPT ![c] = NoEntries]
    /\ page' = [page EXCEPT ![c] = NoEntries]
    /\ more' = [more EXCEPT ![c] = FALSE]
    /\ UNCHANGED <<now, cen, gone, val, dirty, cursor, writes, raced, passed>>

(* A restart keeps the rows and forgets the cursor.                        *)
Restart(c) ==
    /\ Fault
    /\ pc' = [pc EXCEPT ![c] = "push"]
    /\ cursor' = [cursor EXCEPT ![c] = 0]
    /\ sent' = [sent EXCEPT ![c] = NoEntries]
    /\ page' = [page EXCEPT ![c] = NoEntries]
    /\ more' = [more EXCEPT ![c] = FALSE]
    /\ passed' = passed \ ({c} \X Keys)
    /\ UNCHANGED <<now, cen, gone, val, dirty, writes, raced>>

Loop(c) == \/ TakeDirty(c) \/ NothingDirty(c) \/ PushLands(c)
           \/ PushRolledBack(c) \/ MarkClean(c) \/ PullPage(c) \/ ApplyPage(c)

Next ==
    \/ Tick \/ Cleanup \/ \E k \in Keys : DeleteDevice(k)
    \/ \E c \in Collectors :
         \/ Loop(c) \/ PushFails(c) \/ CycleFails(c) \/ Restart(c)
         \/ \E k \in Keys : \/ AppCacheSet(c, k) \/ AppCacheDelete(c, k)
                            \/ AppCacheGetExpired(c, k)

(* Every collector's loop goes on, and so does central's scheduler.        *)
Spec == Init /\ [][Next]_vars /\ WF_vars(Cleanup)
             /\ \A c \in Collectors : WF_vars(Loop(c))

-----------------------------------------------------------------------------
(* The types of the state.                                                 *)
TypeOK ==
    /\ now \in Stamps /\ cen \in [Keys -> Stamps] /\ gone \subseteq Keys
    /\ val \in [Collectors -> [Keys -> Stamps]]
    /\ dirty \in [Collectors -> SUBSET Keys] /\ cursor \in [Collectors -> Stamps]
    /\ pc \in [Collectors -> {"push", "sent", "clean", "pull", "page"}]
    /\ sent \in [Collectors -> [Keys -> Stamps]]
    /\ page \in [Collectors -> [Keys -> Stamps]]
    /\ more \in [Collectors -> BOOLEAN]
    /\ writes \in 0 .. MaxWrites /\ faults \in 0 .. MaxFaults
    /\ raced \subseteq Collectors \X Keys /\ passed \subseteq Collectors \X Keys

(* A row that is not dirty is at central, or a newer one is, or it expired *)
(* there or went with its device; except a row central refused, which      *)
(* app_cache_mark_clean marks like the others, and one written again       *)
(* between the snapshot of the push and app_cache_mark_clean.              *)
CleanIsPushed ==
    \A c \in Collectors, k \in Keys :
      \/ val[c][k] = 0 \/ k \in dirty[c]
      \/ cen[k] >= val[c][k] \/ Expired(k, val[c][k]) \/ k \in gone
      \/ <<c, k>> \in Refused \cup raced

(* An entry of central that a collector has yet to get lies ahead of its   *)
(* cursor, and so will be pulled; except one that landed behind the cursor *)
(* (written earlier, pushed later, than an entry the collector has), one   *)
(* left out of a page that ended with another of the same instant, and one *)
(* the collector deleted.                                                  *)
MissingIsAhead ==
    \A c \in Collectors, k \in Keys :
      \/ val[c][k] >= cen[k] \/ Expired(k, cen[k])
      \/ cen[k] > cursor[c]
      \/ <<c, k>> \in passed

(* Neither direction loses a row: the types, up to central, and down.      *)
CacheInvariant == TypeOK /\ CleanIsPushed /\ MissingIsAhead

(* Newest wins: a row is replaced by a newer one or deleted, at central    *)
(* only after it expired or with its device, whatever the order in which   *)
(* pushes and pages arrive.                                                *)
NewestWins ==
    [][\A k \in Keys :
         /\ cen'[k] >= cen[k] \/ Expired(k, cen[k]) \/ k \in gone'
         /\ \A c \in Collectors : val'[c][k] >= val[c][k] \/ val'[c][k] = 0]_vars

(***************************************************************************)
(* "Replicated to other collectors in the group": once the apps write no   *)
(* more, every entry of central reaches every collector, and every row     *)
(* reaches central, with the exceptions of the two invariants and one      *)
(* more: a collector with a dirty row of a deleted device, which central   *)
(* can never store, has its batch rolled back in every cycle, so that its  *)
(* other dirty rows stay dirty as well.  What others write it still pulls. *)
(***************************************************************************)
Stuck(c) == \E k \in dirty[c] : Violates(c, k)

EventuallyReplicated ==
    <>[](\A c \in Collectors, k \in Keys \ gone :
           \/ <<c, k>> \in passed
           \/ val[c][k] >= cen[k] /\ (\/ cen[k] = val[c][k]
                                      \/ <<c, k>> \in Refused \cup raced
                                      \/ Expired(k, val[c][k])
                                      \/ k \in dirty[c] /\ Stuck(c))
           \/ Expired(k, cen[k]))
=============================================================================
