------------------------- MODULE ResultPipelineProofs -------------------------
(***************************************************************************)
(* The way of a result to central, for any number of rows, central nodes,  *)
(* tables and calls of submit_results at once, any batch size, buffer cap  *)
(* and life of a marker.                                                   *)
(***************************************************************************)
EXTENDS ResultPipeline, TLAPS, FiniteSetTheorems, WellFoundedInduction

(* A set of rows that is not empty has a youngest one.                     *)
LEMMA YoungestRow ==
    ASSUME NEW S \in SUBSET Rows, S # {}
    PROVE  \E m \in S : \A x \in S : x <= m
<1> DEFINE T == {RowLimit - x : x \in S}
<1>0. PICK x0 \in S : TRUE
  OBVIOUS
<1>1. T \subseteq Nat /\ RowLimit - x0 \in T
  BY ResultPipelineAssumption DEF Rows
<1> HIDE DEF T
<1>2. PICK t \in T : \A y \in T : ~(<<y, t>> \in OpToRel(<, Nat))
  BY <1>1, NatLessThanWellFounded, WFMin
<1>3. \A y \in T : ~(y < t)
  BY <1>1, <1>2 DEF OpToRel
<1>4. PICK m \in S : t = RowLimit - m
  BY DEF T
<1>5. \A x \in S : x <= m
  <2> TAKE x \in S
  <2>1. RowLimit - x \in T
    BY DEF T
  <2> QED BY <1>3, <1>4, <2>1, ResultPipelineAssumption DEF Rows
<1> QED BY <1>5

LEMMA RowsAreNumbers == Rows \subseteq Int
BY ResultPipelineAssumption DEF Rows

(* Sets of rows are finite, and so is the part of one before a row.        *)
LEMMA RowsFinite ==
    ASSUME NEW S \in SUBSET Rows
    PROVE  IsFiniteSet(S) /\ Cardinality(S) \in Nat
<1>1. IsFiniteSet(Rows)
  BY ResultPipelineAssumption, FS_Interval DEF Rows
<1>2. IsFiniteSet(S)
  BY <1>1, FS_Subset
<1> QED BY <1>2, FS_CardinalityType

LEMMA SmallerSet ==
    ASSUME NEW S \in SUBSET Rows, NEW T \in SUBSET S
    PROVE  Cardinality(T) <= Cardinality(S)
BY RowsFinite, FS_Subset

(***************************************************************************)
(* dequeue_results takes at most k rows, and no row it leaves is older     *)
(* than one it takes.                                                      *)
(***************************************************************************)
LEMMA OldestAreFirst ==
    ASSUME NEW S \in SUBSET Rows, NEW k \in Int,
           NEW r \in Oldest(S, k), NEW u \in S \ Oldest(S, k)
    PROVE  r < u
<1> DEFINE B(x) == {q \in S : q < x}
<1>1. /\ r \in Int /\ u \in Int /\ r \in S
      /\ Cardinality(B(r)) < k /\ ~(Cardinality(B(u)) < k)
  BY ResultPipelineAssumption DEF Oldest, Rows
<1>2. B(r) \in SUBSET Rows /\ B(u) \in SUBSET Rows
  OBVIOUS
<1>3. Cardinality(B(r)) \in Nat /\ Cardinality(B(u)) \in Nat
  BY <1>2, RowsFinite
<1>4. ASSUME u <= r PROVE FALSE
  <2>1. ASSUME NEW q \in S, q < u PROVE q < r
    BY <1>1, <1>4, <2>1, RowsAreNumbers
  <2>3. B(u) \subseteq B(r)
    BY <2>1
  <2>2. Cardinality(B(u)) <= Cardinality(B(r))
    BY <2>3, <1>2, SmallerSet
  <2> HIDE DEF B
  <2> QED BY <2>2, <1>1, <1>3
<1> QED BY <1>1, <1>4

LEMMA OldestAreFew ==
    ASSUME NEW S \in SUBSET Rows, NEW k \in Nat
    PROVE  Oldest(S, k) \subseteq S /\ Cardinality(Oldest(S, k)) <= k
<1> DEFINE O == Oldest(S, k)
<1>1. O \in SUBSET S /\ O \in SUBSET Rows
  BY DEF Oldest
<1>2. CASE O = {}
  BY <1>2, FS_EmptySet, <1>1
<1>3. CASE O # {}
  <2>1. PICK m \in O : \A x \in O : x <= m
    BY <1>1, <1>3, YoungestRow
  <2> DEFINE B == {q \in S : q < m}
  <2>2. Cardinality(B) < k
    BY <2>1 DEF Oldest
  <2>3. IsFiniteSet(B) /\ Cardinality(B) \in Nat
    BY RowsFinite
  <2>a. ASSUME NEW x \in O PROVE x < m \/ x = m
    <3>1. x \in Int /\ m \in Int /\ x <= m
      BY <1>1, <2>1, RowsAreNumbers
    <3> QED BY <3>1
  <2>4. O \subseteq B \cup {m} /\ B \cup {m} \in SUBSET Rows
    BY <1>1, <2>a
  <2>5. m \notin B
    BY <1>1 DEF Rows
  <2>6. Cardinality(B \cup {m}) = Cardinality(B) + 1
    BY <2>3, <2>5, FS_AddElement
  <2>7. Cardinality(O) <= Cardinality(B \cup {m})
    BY <2>4, SmallerSet
  <2>8. Cardinality(O) \in Nat
    BY <1>1, RowsFinite
  <2> HIDE DEF B, O
  <2>9. Cardinality(O) <= k
    BY <2>2, <2>3, <2>6, <2>7, <2>8
  <2> QED BY <1>1, <2>9 DEF O
<1> QED BY <1>2, <1>3

(* If k rows are older than all the others, they are the k oldest.         *)
LEMMA FullBatchIsOldest ==
    ASSUME NEW S \in SUBSET Rows, NEW F \in SUBSET S,
           \A r \in F, u \in S \ F : r < u
    PROVE  Oldest(S, Cardinality(F)) = F
<1> DEFINE B(x) == {q \in S : q < x}
<1>0. IsFiniteSet(F) /\ Cardinality(F) \in Nat
  BY RowsFinite
<1>1. ASSUME NEW r \in F PROVE Cardinality(B(r)) < Cardinality(F)
  <2>a. ASSUME NEW q \in S, q < r PROVE q \in F \ {r}
    <3>1. q \in Int /\ r \in Int
      BY RowsAreNumbers
    <3> QED BY <2>a, <3>1
  <2>1. B(r) \in SUBSET (F \ {r})
    BY <2>a
  <2>2. IsFiniteSet(F \ {r}) /\ Cardinality(F \ {r}) = Cardinality(F) - 1
    BY <1>0, FS_RemoveElement
  <2>3. Cardinality(B(r)) <= Cardinality(F \ {r})
    BY <2>1, <2>2, FS_Subset
  <2>4. Cardinality(B(r)) \in Nat
    BY RowsFinite
  <2> HIDE DEF B
  <2> QED BY <1>0, <2>2, <2>3, <2>4
<1>2. ASSUME NEW u \in S \ F PROVE ~(Cardinality(B(u)) < Cardinality(F))
  <2>1. F \in SUBSET B(u) /\ B(u) \in SUBSET Rows
    OBVIOUS
  <2>2. Cardinality(F) <= Cardinality(B(u)) /\ Cardinality(B(u)) \in Nat
    BY <2>1, SmallerSet, RowsFinite
  <2> HIDE DEF B
  <2> QED BY <1>0, <2>2
<1> QED BY <1>1, <1>2 DEF Oldest

(* Copies are counted up to CopyLimit.                                     *)
Bag == [Rows -> 0 .. CopyLimit]

LEMMA LesserOfTwo ==
    ASSUME NEW a \in Int, NEW b \in Int
    PROVE  Min({a, b}) = IF a <= b THEN a ELSE b
<1>1. \E x \in {a, b} : \A y \in {a, b} : x <= y
  OBVIOUS
<1>2. Min({a, b}) \in {a, b} /\ \A y \in {a, b} : Min({a, b}) <= y
  BY <1>1 DEF Min
<1> QED BY <1>2

LEMMA SumOfBags ==
    ASSUME NEW b \in Bag, NEW c \in Bag
    PROVE  /\ Sum2(b, c) \in Bag
           /\ \A r \in Rows : Sum2(b, c)[r] = IF b[r] + c[r] <= 1 THEN b[r] + c[r] ELSE 2
<1>1. \A r \in Rows : b[r] \in 0 .. 2 /\ c[r] \in 0 .. 2
  BY DEF Bag, CopyLimit
<1>2. ASSUME NEW r \in Rows
      PROVE  Sum2(b, c)[r] = IF b[r] + c[r] <= 1 THEN b[r] + c[r] ELSE 2
  <2>1. Sum2(b, c)[r] = Min({2, b[r] + c[r]})
    BY DEF Sum2, CopyLimit
  <2>2. b[r] + c[r] \in Int /\ 2 \in Int
    BY <1>1
  <2>3. Min({2, b[r] + c[r]}) = IF 2 <= b[r] + c[r] THEN 2 ELSE b[r] + c[r]
    BY <2>2, LesserOfTwo
  <2> QED BY <2>1, <2>2, <2>3
<1>3. \A r \in Rows : Sum2(b, c)[r] \in 0 .. CopyLimit
  BY <1>1, <1>2 DEF CopyLimit
<1>4. Sum2(b, c) = [r \in Rows |-> Sum2(b, c)[r]]
  BY DEF Sum2
<1> QED BY <1>2, <1>3, <1>4 DEF Bag

LEMMA AddToBag ==
    ASSUME NEW b \in Bag, NEW R
    PROVE  /\ Add(b, R) \in Bag
           /\ \A r \in Rows : /\ r \notin R => Add(b, R)[r] = b[r]
                              /\ r \in R => Add(b, R)[r] > 0
                              /\ r \in R /\ b[r] = 0 => Add(b, R)[r] = 1
<1> DEFINE c == [r \in Rows |-> IF r \in R THEN 1 ELSE 0]
<1>1. c \in Bag /\ \A r \in Rows : c[r] = IF r \in R THEN 1 ELSE 0
  BY DEF Bag, CopyLimit
<1>2. Add(b, R) = Sum2(b, c)
  BY DEF Add
<1>3. \A r \in Rows : b[r] \in 0 .. 2
  BY DEF Bag, CopyLimit
<1> HIDE DEF c
<1>4. /\ Sum2(b, c) \in Bag
      /\ \A r \in Rows : Sum2(b, c)[r] = IF b[r] + c[r] <= 1 THEN b[r] + c[r] ELSE 2
  BY <1>1, SumOfBags
<1> QED BY <1>1, <1>2, <1>3, <1>4

LEMMA EmptyBag == NoRows \in Bag /\ \A r \in Rows : NoRows[r] = 0
BY DEF NoRows, Bag, CopyLimit

-----------------------------------------------------------------------------
(***************************************************************************)
(* The inductive invariant, in five parts.                                 *)
(***************************************************************************)
Call == [pc : {"check", "resolve", "append"}, node : Nodes, rows : SUBSET Rows,
         left : SUBSET Tables, client : BOOLEAN]

Typed == TypeOK /\ handler \in [Slots -> Call \cup {NoHandler}]

(* Rows are numbered; a batch, being posted or failed, is older than the   *)
(* rows that wait behind it, and what was sent is older than what waits.   *)
Ordered ==
    /\ \A r \in unsent \cup sent \cup batch \cup failed : r < next
    /\ \A r \in batch, u \in unsent \ batch : r < u
    /\ \A r \in failed, u \in unsent \ failed : r < u
    /\ ForwardedInOrder

Served(p) == handler[p].pc # "none"

(* At most one call has a client that waits for it: the forwarder, posting *)
(* that batch.  What an abandoned call carries is excused.                 *)
Serving ==
    /\ answer # "none" => fwd = "posting"
    /\ \A p \in Slots : Served(p) =>
         /\ handler[p].rows \in tried
         /\ handler[p].client =>
              fwd = "posting" /\ handler[p].rows = batch /\ answer = "none"
         /\ ~handler[p].client => handler[p].rows \subseteq excused
    /\ \A p, q \in Slots :
         Served(p) /\ Served(q) /\ handler[p].client /\ handler[q].client => p = q

Present(r) == stored[r] > 0 \/ InMemory(r)
TakenOver(r) == Present(r) \/ r \in crashed
Accounted(b) == \A r \in b : IF r \in Kept(b) THEN TakenOver(r) ELSE r \in refused

(* A batch that is marked, or answered for, is accounted for; a call that  *)
(* appends has kept the rows of the tables it is done with.                *)
Ingested ==
    /\ \A p \in Slots : handler[p].pc = "append" => \A r \in handler[p].rows :
         IF r \in Kept(handler[p].rows)
         THEN TableOf[r] \in handler[p].left \/ TakenOver(r)
         ELSE r \in refused
    /\ \A m \in markers : m[1] \in tried /\ Accounted(m[1])
    /\ answer = "ok" => \A r \in batch : TakenOver(r) \/ r \in refused
    /\ SentWasTakenOver

(* A row that is not excused was in one batch only, is in central once,    *)
(* and only if its batch is marked or a call is about to mark it.          *)
Appended(p, r) ==
    handler[p].pc = "append" /\ r \in handler[p].rows /\ TableOf[r] \notin handler[p].left

Unique ==
    \A r \in Rows \ excused :
      /\ \A a, b \in tried : r \in a /\ r \in b => a = b
      /\ ~Twice(r)
      /\ Present(r) => \/ \E m \in markers : r \in m[1]
                       \/ \E p \in Slots : Appended(p, r)
      /\ \A p \in Slots :
           /\ handler[p].pc \in {"resolve", "append"} /\ r \in handler[p].rows
           /\ ~Appended(p, r)
           => ~Present(r)

PInv == Typed /\ Ordered /\ Serving /\ Ingested /\ Unique

(* A call that is served, and one that is not.                             *)
LEMMA CallFields ==
    ASSUME Typed, NEW p \in Slots
    PROVE  /\ NoHandler.pc = "none"
           /\ handler[p].pc = "none" <=> handler[p] = NoHandler
           /\ handler[p].pc # "none" =>
                /\ handler[p] \in Call /\ handler[p].pc \in {"check", "resolve", "append"}
                /\ handler[p].node \in Nodes /\ handler[p].rows \subseteq Rows
                /\ handler[p].left \subseteq Tables
<1>1. handler[p] \in Call \cup {NoHandler} /\ NoHandler.pc = "none"
  BY DEF Typed, NoHandler
<1> QED BY <1>1 DEF Call

LEMMA InitPInv == Init => PInv
<1> SUFFICES ASSUME Init PROVE PInv
  OBVIOUS
<1>1. NoHandler.pc = "none"
  BY DEF NoHandler
<1>2. Typed
  <2>1. /\ unsent \subseteq Rows /\ sent \subseteq Rows /\ unsent \cap sent = {}
        /\ batch \subseteq Rows /\ Cardinality(batch) <= BatchSize
    BY FS_EmptySet, ResultPipelineAssumption DEF Init
  <2>2. next \in 1 .. RowLimit + 1
    BY ResultPipelineAssumption DEF Init
  <2>3. mem \in [Nodes -> [Rows -> 0 .. CopyLimit]] /\ stored \in [Rows -> 0 .. CopyLimit]
    BY EmptyBag DEF Init, Bag
  <2>4. handler \in [Slots -> Call \cup {NoHandler}]
        /\ \A p \in Slots : handler[p].pc \in {"none", "check", "resolve", "append"}
    BY <1>1 DEF Init
  <2> QED BY <2>1, <2>2, <2>3, <2>4 DEF Init, Typed, TypeOK
<1>3. Ordered
  BY DEF Init, Ordered, ForwardedInOrder
<1>4. \A p \in Slots : handler[p].pc = "none"
  BY <1>1 DEF Init
<1>5. Serving
  BY <1>4 DEF Init, Serving, Served
<1>6. Ingested
  BY <1>4 DEF Init, Ingested, SentWasTakenOver
<1>7. Unique
  <2>1. \A r \in Rows : stored[r] = 0 /\ \A n \in Nodes : mem[n][r] = 0
    BY EmptyBag DEF Init
  <2>2. \A r \in Rows : ~Twice(r) /\ ~Present(r)
    BY <2>1 DEF Twice, Present, InMemory
  <2> QED BY <2>2 DEF Init, Unique
<1> QED BY <1>2, <1>3, <1>5, <1>6, <1>7 DEF PInv

-----------------------------------------------------------------------------
(***************************************************************************)
(* The calls keep their type.                                              *)
(***************************************************************************)
LEMMA NewCall ==
    ASSUME NEW n \in Nodes, NEW b \in SUBSET Rows
    PROVE  Handler(n, b) \in Call
BY DEF Handler, Call

LEMMA AbandonedCalls ==
    ASSUME Typed
    PROVE  /\ Abandoned \in [Slots -> Call \cup {NoHandler}]
           /\ \A p \in Slots :
                /\ Abandoned[p].pc = handler[p].pc
                /\ handler[p].pc # "none" =>
                     /\ Abandoned[p].rows = handler[p].rows
                     /\ Abandoned[p].left = handler[p].left
                     /\ Abandoned[p].client = FALSE
<1> SUFFICES ASSUME NEW p \in Slots
             PROVE  /\ Abandoned[p] \in Call \cup {NoHandler}
                    /\ Abandoned[p].pc = handler[p].pc
                    /\ handler[p].pc # "none" =>
                         /\ Abandoned[p].rows = handler[p].rows
                         /\ Abandoned[p].left = handler[p].left
                         /\ Abandoned[p].client = FALSE
  BY DEF Abandoned
<1>1. CASE handler[p].pc = "none"
  BY <1>1, CallFields DEF Abandoned
<1>2. CASE handler[p].pc # "none"
  <2>1. Abandoned[p] = [handler[p] EXCEPT !.client = FALSE]
    BY <1>2 DEF Abandoned
  <2>2. handler[p] \in Call
    BY <1>2, CallFields
  <2> QED BY <2>1, <2>2 DEF Call
<1> QED BY <1>1, <1>2

(* A call moves on; none of the others changes.                            *)
LEMMA CallMoves ==
    ASSUME Typed, NEW p \in Slots, Served(p), NEW x \in {"resolve", "append"},
           NEW l \in SUBSET Tables,
           handler' = [handler EXCEPT ![p] = [handler[p] EXCEPT !.pc = x, !.left = l]]
    PROVE  /\ handler' \in [Slots -> Call \cup {NoHandler}]
           /\ \A q \in Slots : q # p => handler'[q] = handler[q]
           /\ handler'[p].pc = x /\ handler'[p].left = l
           /\ handler'[p].rows = handler[p].rows /\ handler'[p].node = handler[p].node
           /\ handler'[p].client = handler[p].client
<1>1. handler[p] \in Call /\ handler \in [Slots -> Call \cup {NoHandler}]
  BY CallFields DEF Served, Typed
<1> DEFINE h == [handler[p] EXCEPT !.pc = x, !.left = l]
<1>2. /\ h \in Call /\ h.pc = x /\ h.left = l /\ h.rows = handler[p].rows
      /\ h.node = handler[p].node /\ h.client = handler[p].client
  BY <1>1 DEF Call
<1> HIDE DEF h
<1>3. handler' = [handler EXCEPT ![p] = h]
  BY DEF h
<1> QED BY <1>1, <1>2, <1>3

(* What each step of a call does to the calls.                             *)
LEMMA CheckCall ==
    ASSUME Typed, NEW p \in Slots, NEW redis \in BOOLEAN, CheckBatch(p, redis)
    PROVE  /\ handler[p].pc = "check" /\ Served(p)
           /\ handler' \in [Slots -> Call \cup {NoHandler}]
           /\ \A q \in Slots : q # p => handler'[q] = handler[q]
           /\ \/ /\ redis /\ Marked(handler[p].rows) /\ Finish(p, "ok")
                 /\ handler'[p] = NoHandler
              \/ /\ ~(redis /\ Marked(handler[p].rows)) /\ answer' = answer
                 /\ handler'[p].pc = "resolve" /\ handler'[p].left = handler[p].left
                 /\ handler'[p].rows = handler[p].rows
                 /\ handler'[p].client = handler[p].client
<1>1. handler[p].pc = "check" /\ Served(p)
  BY DEF CheckBatch, Served
<1>2. handler[p] \in Call /\ handler[p].left \in SUBSET Tables
  BY <1>1, CallFields DEF Served
<1>3. CASE redis /\ Marked(handler[p].rows)
  BY <1>1, <1>3 DEF CheckBatch, Finish, Typed
<1>4. CASE ~(redis /\ Marked(handler[p].rows))
  <2> DEFINE l == handler[p].left
  <2>1. handler' = [handler EXCEPT ![p].pc = "resolve"] /\ answer' = answer
    BY <1>4 DEF CheckBatch
  <2>2. /\ [handler[p] EXCEPT !.pc = "resolve"]
             = [handler[p] EXCEPT !.pc = "resolve", !.left = l]
        /\ l \in SUBSET Tables
    BY <1>2 DEF Call
  <2> HIDE DEF l
  <2>3. handler' = [handler EXCEPT ![p] = [handler[p] EXCEPT !.pc = "resolve", !.left = l]]
    BY <2>1, <2>2
  <2>4. "resolve" \in {"resolve", "append"} /\ l \in SUBSET Tables
    BY <2>2
  <2>5. /\ handler' \in [Slots -> Call \cup {NoHandler}]
        /\ \A q \in Slots : q # p => handler'[q] = handler[q]
        /\ handler'[p].pc = "resolve" /\ handler'[p].left = l
        /\ handler'[p].rows = handler[p].rows
        /\ handler'[p].client = handler[p].client
    BY <1>1, <2>3, <2>4, CallMoves
  <2> QED BY <1>1, <1>4, <2>1, <2>5 DEF l
<1> QED BY <1>3, <1>4

LEMMA ResolveCall ==
    ASSUME Typed, NEW p \in Slots, NEW ok \in BOOLEAN, ResolveCaller(p, ok)
    PROVE  /\ handler[p].pc = "resolve" /\ Served(p)
           /\ handler' \in [Slots -> Call \cup {NoHandler}]
           /\ \A q \in Slots : q # p => handler'[q] = handler[q]
           /\ \/ /\ handler'[p] = NoHandler /\ Finish(p, "error") /\ refused' = refused
              \/ /\ answer' = answer
                 /\ refused' = refused \cup (handler[p].rows \ Kept(handler[p].rows))
                 /\ handler'[p].pc = "append"
                 /\ handler'[p].left = {TableOf[r] : r \in Kept(handler[p].rows)}
                 /\ handler'[p].rows = handler[p].rows
                 /\ handler'[p].client = handler[p].client
<1>1. handler[p].pc = "resolve" /\ Served(p)
  BY DEF ResolveCaller, Served
<1>2. handler[p] \in Call /\ handler[p].rows \subseteq Rows
  BY <1>1, CallFields DEF Served
<1>3. CASE ~ok
  BY <1>1, <1>3 DEF ResolveCaller, Finish, Typed
<1>4. CASE ok
  <2> DEFINE l == {TableOf[r] : r \in Kept(handler[p].rows)}
  <2>0. l \in SUBSET Tables
    BY <1>2, ResultPipelineAssumption DEF Kept
  <2>1. /\ handler' = [handler EXCEPT ![p].pc = "append", ![p].left = l]
        /\ answer' = answer
        /\ refused' = refused \cup (handler[p].rows \ Kept(handler[p].rows))
    BY <1>4 DEF ResolveCaller
  <2> HIDE DEF l
  <2>3. handler' = [handler EXCEPT ![p] = [handler[p] EXCEPT !.pc = "append", !.left = l]]
    BY <2>1
  <2>4. "append" \in {"resolve", "append"}
    OBVIOUS
  <2>5. /\ handler' \in [Slots -> Call \cup {NoHandler}]
        /\ \A q \in Slots : q # p => handler'[q] = handler[q]
        /\ handler'[p].pc = "append" /\ handler'[p].left = l
        /\ handler'[p].rows = handler[p].rows
        /\ handler'[p].client = handler[p].client
    BY <1>1, <2>0, <2>3, <2>4, CallMoves
  <2> QED BY <1>1, <2>1, <2>5 DEF l
<1> QED BY <1>3, <1>4

LEMMA AppendCall ==
    ASSUME Typed, NEW p \in Slots, NEW t \in Tables, AppendTable(p, t)
    PROVE  /\ handler[p].pc = "append" /\ Served(p) /\ t \in handler[p].left
           /\ handler' \in [Slots -> Call \cup {NoHandler}]
           /\ \A q \in Slots : q # p => handler'[q] = handler[q]
           /\ handler'[p].pc = "append" /\ handler'[p].left = handler[p].left \ {t}
           /\ handler'[p].rows = handler[p].rows
           /\ handler'[p].client = handler[p].client
<1>1. handler[p].pc = "append" /\ Served(p) /\ t \in handler[p].left
  BY DEF AppendTable, Served
<1>2. handler[p] \in Call /\ handler[p].left \in SUBSET Tables
  BY <1>1, CallFields DEF Served
<1> DEFINE l == handler[p].left \ {t}
<1>3. handler' = [handler EXCEPT ![p].left = l] /\ l \in SUBSET Tables
  BY <1>2 DEF AppendTable
<1>4. [handler[p] EXCEPT !.left = l] = [handler[p] EXCEPT !.pc = "append", !.left = l]
  BY <1>1, <1>2 DEF Call
<1> HIDE DEF l
<1>5. handler' = [handler EXCEPT ![p] = [handler[p] EXCEPT !.pc = "append", !.left = l]]
  BY <1>3, <1>4
<1>6. "append" \in {"resolve", "append"} /\ l \in SUBSET Tables
  BY <1>3
<1>7. /\ handler' \in [Slots -> Call \cup {NoHandler}]
      /\ \A q \in Slots : q # p => handler'[q] = handler[q]
      /\ handler'[p].pc = "append" /\ handler'[p].left = l
      /\ handler'[p].rows = handler[p].rows
      /\ handler'[p].client = handler[p].client
  BY <1>1, <1>5, <1>6, CallMoves
<1> QED BY <1>1, <1>7 DEF l

LEMMA StampCall ==
    ASSUME Typed, NEW p \in Slots, NEW redis \in BOOLEAN, StampBatch(p, redis)
    PROVE  /\ handler[p].pc = "append" /\ Served(p) /\ handler[p].left = {}
           /\ handler' \in [Slots -> Call \cup {NoHandler}]
           /\ \A q \in Slots : q # p => handler'[q] = handler[q]
           /\ handler'[p] = NoHandler /\ Finish(p, "ok")
BY DEF StampBatch, Served, Finish, Typed

LEMMA CrashCalls ==
    ASSUME Typed, NEW n \in Nodes, CentralCrash(n)
    PROVE  /\ handler' \in [Slots -> Call \cup {NoHandler}]
           /\ \A q \in Slots :
                \/ handler'[q] = handler[q]
                \/ /\ handler'[q] = NoHandler /\ Served(q)
                   /\ handler[q].rows \subseteq excused'
                   /\ handler[q].client => answer' = "error"
           /\ answer' \in {answer, "error"}
           /\ answer' # answer =>
                \E q \in Slots : Served(q) /\ handler[q].client /\ handler'[q] = NoHandler
<1> DEFINE here == {p \in Slots : handler[p].pc # "none" /\ handler[p].node = n}
<1>1. /\ excused' = excused \cup UNION {handler[p].rows : p \in here}
      /\ answer' = IF \E p \in here : handler[p].client THEN "error" ELSE answer
      /\ handler' = [p \in Slots |-> IF p \in here THEN NoHandler ELSE handler[p]]
  BY DEF CentralCrash
<1>2. \A q \in here : Served(q) /\ handler[q].rows \subseteq excused' /\ q \in Slots
  BY <1>1 DEF Served
<1>3. \A q \in Slots : handler'[q] = IF q \in here THEN NoHandler ELSE handler[q]
  BY <1>1
<1>4. handler' \in [Slots -> Call \cup {NoHandler}]
  BY <1>1 DEF Typed
<1> HIDE DEF here
<1> QED BY <1>1, <1>2, <1>3, <1>4

LEMMA FlushCall ==
    ASSUME Typed, NEW p \in Slots, NEW n \in Nodes, FlushBatch(p, n)
    PROVE  /\ fwd = "idle" /\ fwd' = "posting" /\ batch' = Oldest(unsent, BatchSize)
           /\ tried' = tried \cup {batch'} /\ excused' = excused \cup Regrouped(batch')
           /\ handler[p] = NoHandler
           /\ handler' \in [Slots -> Call \cup {NoHandler}]
           /\ \A q \in Slots : q # p => handler'[q] = handler[q]
           /\ \/ handler' = handler /\ answer' = "422"
              \/ /\ answer' = answer
                 /\ handler'[p].pc = "check" /\ handler'[p].rows = batch'
                 /\ handler'[p].client = TRUE /\ handler'[p].left = {}
<1> DEFINE b == Oldest(unsent, BatchSize)
<1>1. /\ fwd = "idle" /\ fwd' = "posting" /\ batch' = b
      /\ tried' = tried \cup {b} /\ excused' = excused \cup Regrouped(b)
      /\ handler[p] = NoHandler
      /\ \/ handler' = handler /\ answer' = "422"
         \/ answer' = answer /\ handler' = [handler EXCEPT ![p] = Handler(n, b)]
  BY DEF FlushBatch
<1>2. b \in SUBSET Rows
  BY DEF Oldest, Typed, TypeOK
<1> HIDE DEF b
<1>3. /\ Handler(n, b) \in Call /\ Handler(n, b).pc = "check" /\ Handler(n, b).rows = b
      /\ Handler(n, b).client = TRUE /\ Handler(n, b).left = {}
  BY <1>2, NewCall DEF Handler
<1>4. CASE handler' = handler /\ answer' = "422"
  BY <1>1, <1>4 DEF Typed, b
<1>5. CASE answer' = answer /\ handler' = [handler EXCEPT ![p] = Handler(n, b)]
  BY <1>1, <1>3, <1>5 DEF Typed, b
<1> QED BY <1>1, <1>4, <1>5

(***************************************************************************)
(* Types.                                                                  *)
(***************************************************************************)
LEMMA StepTyped ==
    ASSUME Typed, Ordered, Next
    PROVE  Typed'
<1>0. TypeOK /\ handler \in [Slots -> Call \cup {NoHandler}]
  BY DEF Typed
<1>h. handler' \in [Slots -> Call \cup {NoHandler}] =>
        \A p \in Slots : handler'[p].pc \in {"none", "check", "resolve", "append"}
  BY DEF Call, NoHandler
<1>b. Oldest(unsent, BatchSize) \subseteq Rows /\ Cardinality(Oldest(unsent, BatchSize)) <= BatchSize
  BY <1>0, OldestAreFew, ResultPipelineAssumption DEF TypeOK
<1>e. {} \subseteq Rows /\ Cardinality({}) <= BatchSize
  BY FS_EmptySet, ResultPipelineAssumption
<1>r. Running \subseteq Rows
  BY CallFields DEF Running, Typed
<1>1. CASE EnqueueResult
  <2>1. next \in Rows /\ next \notin sent /\ next' \in 1 .. RowLimit + 1
    BY <1>0, <1>1, ResultPipelineAssumption DEF EnqueueResult, TypeOK, Rows, Ordered
  <2>2. unsent' \subseteq Rows /\ unsent' \cap sent' = {} /\ sent' = sent
    BY <1>0, <1>1, <2>1 DEF EnqueueResult, TypeOK
  <2> QED BY <1>0, <1>1, <2>1, <2>2 DEF EnqueueResult, svars, TypeOK, Typed
<1>2. ASSUME NEW p \in Slots, NEW n \in Nodes, FlushBatch(p, n) PROVE Typed'
  <2>1. /\ fwd' = "posting" /\ batch' = Oldest(unsent, BatchSize)
        /\ tried' = tried \cup {batch'} /\ excused' = excused \cup Regrouped(batch')
        /\ handler' \in [Slots -> Call \cup {NoHandler}] /\ answer' \in {answer, "422"}
    BY <1>2, FlushCall
  <2>2. /\ UNCHANGED <<unsent, sent, next, markers, mem, stored, refused, crashed,
                       dropped, failed>>
    BY <1>2 DEF FlushBatch, cvars, svars
  <2>3. batch' \subseteq Rows /\ Cardinality(batch') <= BatchSize
    BY <2>1, <1>b
  <2>4. tried' \subseteq SUBSET Rows /\ excused' \subseteq Rows
    BY <1>0, <2>1, <2>3 DEF TypeOK, Regrouped
  <2> QED BY <1>0, <1>h, <2>1, <2>2, <2>3, <2>4 DEF TypeOK, Typed
<1>3. CASE PostUnreachable
  BY <1>0, <1>3, <1>b DEF PostUnreachable, cvars, svars, TypeOK, Typed
<1>4. CASE GetAnswer
  <2>1. /\ unsent' \subseteq Rows /\ sent' \subseteq Rows /\ unsent' \cap sent' = {}
        /\ batch' \subseteq Rows /\ Cardinality(batch') <= BatchSize /\ failed' \subseteq Rows
        /\ fwd' \in {"idle", "backoff"}
    BY <1>0, <1>4, <1>e DEF GetAnswer, MarkResultsSent, TypeOK
  <2>2. refused' \subseteq Rows /\ answer' = "none"
        /\ UNCHANGED <<next, handler, markers, mem, stored, crashed, dropped, tried, excused>>
    BY <1>0, <1>4 DEF GetAnswer, TypeOK
  <2> QED BY <1>0, <2>1, <2>2 DEF TypeOK, Typed
<1>5. CASE GiveUp \/ ForwarderCrash
  <2>1. /\ handler' = Abandoned /\ fwd' \in {"broken", "idle"} /\ failed' \in {batch, failed}
        /\ batch' \in {batch, {}} /\ answer' = "none" /\ excused' = excused \cup Running
        /\ UNCHANGED <<unsent, sent, next, markers, mem, stored, refused, crashed, dropped, tried>>
    BY <1>5 DEF GiveUp, ForwarderCrash, cvars, svars
  <2>2. handler' \in [Slots -> Call \cup {NoHandler}]
    BY <2>1, AbandonedCalls
  <2>3. batch' \subseteq Rows /\ Cardinality(batch') <= BatchSize /\ excused' \subseteq Rows
    BY <1>0, <1>e, <1>r, <2>1 DEF TypeOK
  <2> QED BY <1>0, <1>h, <2>1, <2>2, <2>3 DEF TypeOK, Typed
<1>6. ASSUME NEW peak \in BOOLEAN, Backoff(peak) PROVE Typed'
  <2>1. /\ fwd' = "idle" /\ batch' = {}
        /\ \/ UNCHANGED <<markers, excused>>
           \/ /\ markers' = OlderMarkers
              /\ excused' = excused \cup UNION {m[1] : m \in {x \in markers : x[2] <= 1}}
        /\ UNCHANGED <<unsent, sent, next, handler, answer, mem, stored, refused, crashed,
                       dropped, tried, failed>>
    BY <1>6 DEF Backoff, cvars
  <2>2. OlderMarkers \subseteq (SUBSET Rows) \X (1 .. MarkerLife)
    <3>1. ASSUME NEW m \in markers, m[2] > 1
          PROVE  <<m[1], m[2] - 1>> \in (SUBSET Rows) \X (1 .. MarkerLife)
      <4>1. m \in (SUBSET Rows) \X (1 .. MarkerLife)
        BY <1>0 DEF TypeOK
      <4>2. m[1] \in SUBSET Rows /\ m[2] \in 1 .. MarkerLife
        BY <4>1
      <4>3. m[2] - 1 \in 1 .. MarkerLife
        BY <3>1, <4>2, ResultPipelineAssumption
      <4> QED BY <4>2, <4>3
    <3> QED BY <3>1 DEF OlderMarkers
  <2>3. UNION {m[1] : m \in {x \in markers : x[2] <= 1}} \subseteq Rows
    BY <1>0 DEF TypeOK
  <2>4. markers' \subseteq (SUBSET Rows) \X (1 .. MarkerLife) /\ excused' \subseteq Rows
    BY <1>0, <2>1, <2>2, <2>3 DEF TypeOK
  <2> QED BY <1>0, <1>e, <2>1, <2>4 DEF TypeOK, Typed
<1>7. CASE EnforceSizeCap \/ \E cutoff \in Rows : Cleanup(cutoff)
  <2>1. /\ sent' \subseteq sent /\ unsent' \subseteq unsent
        /\ dropped' \subseteq dropped \cup unsent
        /\ UNCHANGED <<next, fwd, batch, handler, answer, markers, mem, stored, refused,
                       crashed, tried, failed, excused>>
    BY <1>7 DEF EnforceSizeCap, Cleanup, svars
  <2> QED BY <1>0, <2>1 DEF TypeOK, Typed
<1>8. ASSUME NEW p \in Slots, NEW yes \in BOOLEAN, CheckBatch(p, yes) PROVE Typed'
  <2>1. handler' \in [Slots -> Call \cup {NoHandler}] /\ handler[p].rows \subseteq Rows
    BY <1>8, CheckCall, CallFields DEF Served
  <2>2. answer' \in {answer, "ok"} /\ excused' \subseteq excused \cup handler[p].rows
    BY <1>8 DEF CheckBatch, Finish
  <2> QED BY <1>0, <1>8, <1>h, <2>1, <2>2 DEF CheckBatch, cvars, svars, TypeOK, Typed
<1>9. ASSUME NEW p \in Slots, NEW yes \in BOOLEAN, ResolveCaller(p, yes) PROVE Typed'
  <2>1. handler' \in [Slots -> Call \cup {NoHandler}] /\ handler[p].rows \subseteq Rows
    BY <1>9, ResolveCall, CallFields DEF Served
  <2>2. answer' \in {answer, "error"} /\ refused' \subseteq refused \cup handler[p].rows
    BY <1>9 DEF ResolveCaller, Finish
  <2> QED BY <1>0, <1>9, <1>h, <2>1, <2>2 DEF ResolveCaller, cvars, TypeOK, Typed
<1>10. ASSUME NEW p \in Slots, NEW t \in Tables, AppendTable(p, t) PROVE Typed'
  <2>1. handler' \in [Slots -> Call \cup {NoHandler}] /\ handler[p].node \in Nodes
    BY <1>10, AppendCall, CallFields DEF Served
  <2> DEFINE R == {r \in Kept(handler[p].rows) : TableOf[r] = t}
  <2>2. mem' = [mem EXCEPT ![handler[p].node] = Add(mem[handler[p].node], R)]
    BY <1>10 DEF AppendTable
  <2> HIDE DEF R
  <2>3. Add(mem[handler[p].node], R) \in Bag
    BY <1>0, <2>1, AddToBag DEF TypeOK, Bag
  <2>4. mem' \in [Nodes -> [Rows -> 0 .. CopyLimit]]
    BY <1>0, <2>2, <2>3 DEF TypeOK, Bag
  <2> QED BY <1>0, <1>10, <1>h, <2>1, <2>4 DEF AppendTable, cvars, TypeOK, Typed
<1>11. ASSUME NEW p \in Slots, NEW yes \in BOOLEAN, StampBatch(p, yes) PROVE Typed'
  <2>1. handler' \in [Slots -> Call \cup {NoHandler}] /\ handler[p].rows \subseteq Rows
    BY <1>11, StampCall, CallFields DEF Served
  <2>2. answer' \in {answer, "ok"} /\ excused' \subseteq excused \cup handler[p].rows
    BY <1>11 DEF StampBatch, Finish
  <2>3. <<handler[p].rows, MarkerLife>> \in (SUBSET Rows) \X (1 .. MarkerLife)
    BY <2>1, ResultPipelineAssumption
  <2>4. markers' \subseteq markers \cup {<<handler[p].rows, MarkerLife>>}
    BY <1>11 DEF StampBatch
  <2>5. markers' \subseteq (SUBSET Rows) \X (1 .. MarkerLife)
    BY <1>0, <2>3, <2>4 DEF TypeOK
  <2> QED BY <1>0, <1>11, <1>h, <2>1, <2>2, <2>5 DEF StampBatch, cvars, TypeOK, Typed
<1>12. ASSUME NEW n \in Nodes, FlushNode(n) PROVE Typed'
  <2>1. Sum2(stored, mem[n]) \in Bag
    BY <1>0, SumOfBags DEF TypeOK, Bag
  <2>2. mem' \in [Nodes -> [Rows -> 0 .. CopyLimit]] /\ stored' \in [Rows -> 0 .. CopyLimit]
    BY <1>0, <1>12, <2>1, EmptyBag DEF FlushNode, TypeOK, Bag
  <2> QED BY <1>0, <1>12, <2>2 DEF FlushNode, cvars, TypeOK, Typed
<1>13. ASSUME NEW n \in Nodes, CentralCrash(n) PROVE Typed'
  <2>1. handler' \in [Slots -> Call \cup {NoHandler}] /\ answer' \in {answer, "error"}
    BY <1>13, CrashCalls
  <2>2. mem' \in [Nodes -> [Rows -> 0 .. CopyLimit]]
    BY <1>0, <1>13, EmptyBag DEF CentralCrash, TypeOK, Bag
  <2>3. crashed' \subseteq Rows
    BY <1>0, <1>13 DEF CentralCrash, TypeOK
  <2>4. excused' \subseteq Rows
    <3>1. excused' \subseteq excused \cup Running
      BY <1>13 DEF CentralCrash, Running
    <3> QED BY <3>1, <1>0, <1>r DEF TypeOK
  <2>5. UNCHANGED <<unsent, sent, next, fwd, batch, markers, stored, refused, dropped, tried, failed>>
    BY <1>13 DEF CentralCrash, cvars
  <2> QED BY <1>0, <1>h, <2>1, <2>2, <2>3, <2>4, <2>5 DEF TypeOK, Typed
<1> QED
  BY <1>1, <1>2, <1>3, <1>4, <1>5, <1>6, <1>7, <1>8, <1>9, <1>10, <1>11, <1>12, <1>13 DEF Next

(***************************************************************************)
(* The order of the rows.                                                  *)
(***************************************************************************)
LEMMA StepOrdered ==
    ASSUME Typed, Ordered, Next
    PROVE  Ordered'
<1>0. /\ unsent \in SUBSET Rows /\ sent \in SUBSET Rows /\ batch \in SUBSET Rows
      /\ failed \in SUBSET Rows /\ next \in Int /\ Rows \subseteq Int
  BY RowsAreNumbers DEF Typed, TypeOK
<1>1. /\ \A r \in unsent \cup sent \cup batch \cup failed : r < next
      /\ \A r \in batch, u \in unsent \ batch : r < u
      /\ \A r \in failed, u \in unsent \ failed : r < u
      /\ \A s \in sent, u \in unsent : s < u
  BY DEF Ordered, ForwardedInOrder
<1> DEFINE O == Oldest(unsent, BatchSize)
<1>o. O \subseteq unsent /\ \A r \in O, u \in unsent \ O : r < u
  <2>1. O \subseteq unsent
    BY DEF Oldest
  <2>2. BatchSize \in Int
    BY ResultPipelineAssumption
  <2> QED BY <1>0, <2>1, <2>2, OldestAreFirst
<1> HIDE DEF O
<1>2. CASE EnqueueResult
  <2>1. /\ unsent' = unsent \cup {next} /\ next' = next + 1
        /\ sent' = sent /\ batch' = batch /\ failed' = failed
    BY <1>2 DEF EnqueueResult
  <2>2. ASSUME NEW r \in unsent' \cup sent' \cup batch' \cup failed' PROVE r < next'
    <3>1. CASE r = next
      BY <1>0, <2>1, <3>1
    <3>2. CASE r # next
      <4>1. r \in unsent \cup sent \cup batch \cup failed
        BY <2>1, <2>2, <3>2
      <4>2. r \in Int /\ r < next
        BY <1>0, <1>1, <4>1
      <4> QED BY <1>0, <2>1, <4>2
    <3> QED BY <3>1, <3>2
  <2>3. ASSUME NEW r \in unsent \cup sent \cup batch \cup failed, NEW u \in unsent', u \notin unsent
        PROVE  r < u
    BY <1>1, <2>1, <2>3
  <2> QED BY <1>1, <2>1, <2>2, <2>3 DEF Ordered, ForwardedInOrder
<1>3. CASE \E p \in Slots, n \in Nodes : FlushBatch(p, n)
  <2>1. batch' = O /\ UNCHANGED <<unsent, sent, next, failed>>
    BY <1>3 DEF FlushBatch, cvars, O
  <2> QED BY <1>1, <1>o, <2>1 DEF Ordered, ForwardedInOrder
<1>4. CASE PostUnreachable
  <2>1. batch' = O /\ failed' = O /\ UNCHANGED <<unsent, sent, next>>
    BY <1>4 DEF PostUnreachable, cvars, O
  <2> QED BY <1>1, <1>o, <2>1 DEF Ordered, ForwardedInOrder
<1>5. CASE GetAnswer
  <2>1. next' = next
    BY <1>5 DEF GetAnswer
  <2>2. CASE Settled(answer)
    <3>1. /\ sent' = sent \cup (batch \cap unsent) /\ unsent' = unsent \ batch
          /\ failed' = {} /\ batch' = {}
      BY <1>5, <2>2 DEF GetAnswer, MarkResultsSent
    <3> QED BY <1>1, <2>1, <3>1 DEF Ordered, ForwardedInOrder
  <2>3. CASE ~Settled(answer)
    <3>1. UNCHANGED <<unsent, sent, batch>> /\ failed' = batch
      BY <1>5, <2>3 DEF GetAnswer
    <3> QED BY <1>1, <2>1, <3>1 DEF Ordered, ForwardedInOrder
  <2> QED BY <2>2, <2>3
<1>6. CASE GiveUp \/ ForwarderCrash \/ \E peak \in BOOLEAN : Backoff(peak)
  <2>1. /\ batch' \in {batch, {}} /\ failed' \in {batch, failed}
        /\ UNCHANGED <<unsent, sent, next>>
    BY <1>6 DEF GiveUp, ForwarderCrash, Backoff, cvars
  <2> QED BY <1>1, <2>1 DEF Ordered, ForwardedInOrder
<1>7. CASE EnforceSizeCap \/ \E cutoff \in Rows : Cleanup(cutoff)
  <2>1. sent' \subseteq sent /\ unsent' \subseteq unsent /\ UNCHANGED <<next, batch, failed>>
    BY <1>7 DEF EnforceSizeCap, Cleanup
  <2> QED BY <1>1, <2>1 DEF Ordered, ForwardedInOrder
<1>8. CASE \/ \E n \in Nodes : FlushNode(n) \/ CentralCrash(n)
           \/ \E p \in Slots, yes \in BOOLEAN :
                CheckBatch(p, yes) \/ ResolveCaller(p, yes) \/ StampBatch(p, yes)
           \/ \E p \in Slots, t \in Tables : AppendTable(p, t)
  <2>1. UNCHANGED <<unsent, sent, next, batch, failed>>
    BY <1>8 DEF FlushNode, CentralCrash, CheckBatch, ResolveCaller, StampBatch, AppendTable, cvars
  <2> QED BY <1>1, <2>1 DEF Ordered, ForwardedInOrder
<1> QED
  BY <1>2, <1>3, <1>4, <1>5, <1>6, <1>7, <1>8 DEF Next

(***************************************************************************)
(* Who waits for what.                                                     *)
(***************************************************************************)

(* A call that ends, and answers the client it may have.                   *)
LEMMA CallEnds ==
    ASSUME Typed, Serving, NEW p \in Slots, Served(p), NEW s, Finish(p, s),
           fwd' = fwd, batch' = batch, tried' = tried, excused \subseteq excused'
    PROVE  Serving'
<1>1. handler' = [handler EXCEPT ![p] = NoHandler]
      /\ answer' = IF handler[p].client THEN s ELSE answer
  BY DEF Finish
<1>2. handler'[p].pc = "none" /\ \A q \in Slots : q # p => handler'[q] = handler[q]
  BY <1>1 DEF Typed, NoHandler
<1>3. \A q \in Slots : Served(q)' => q # p /\ Served(q) /\ handler'[q] = handler[q]
  BY <1>2 DEF Served
<1>4. answer' # "none" => fwd' = "posting"
  BY <1>1 DEF Serving
<1>5. ASSUME NEW q \in Slots, Served(q)'
      PROVE  /\ handler'[q].rows \in tried'
             /\ handler'[q].client =>
                  fwd' = "posting" /\ handler'[q].rows = batch' /\ answer' = "none"
             /\ ~handler'[q].client => handler'[q].rows \subseteq excused'
  BY <1>1, <1>3, <1>5 DEF Serving
<1> QED BY <1>3, <1>4, <1>5 DEF Serving

(* A call goes on with its batch and its client.                           *)
LEMMA CallGoesOn ==
    ASSUME Typed, Serving, NEW p \in Slots, Served(p),
           \A q \in Slots : q # p => handler'[q] = handler[q],
           handler'[p].rows = handler[p].rows, handler'[p].client = handler[p].client,
           UNCHANGED <<fwd, batch, tried, answer>>, excused \subseteq excused'
    PROVE  Serving'
<1>1. ASSUME NEW q \in Slots, Served(q)'
      PROVE  /\ Served(q) /\ handler'[q].rows = handler[q].rows
             /\ handler'[q].client = handler[q].client
  BY <1>1 DEF Served
<1>2. ASSUME NEW q \in Slots, Served(q)'
      PROVE  /\ handler'[q].rows \in tried'
             /\ handler'[q].client =>
                  fwd' = "posting" /\ handler'[q].rows = batch' /\ answer' = "none"
             /\ ~handler'[q].client => handler'[q].rows \subseteq excused'
  BY <1>1, <1>2 DEF Serving
<1>3. ASSUME NEW q \in Slots, NEW r \in Slots, Served(q)', Served(r)',
             handler'[q].client, handler'[r].client
      PROVE  q = r
  <2>1. Served(q) /\ Served(r) /\ handler[q].client /\ handler[r].client
    BY <1>1, <1>3
  <2> QED BY <2>1 DEF Serving
<1> QED BY <1>2, <1>3 DEF Serving

(* Nothing a call depends on changes, but what is excused may grow.        *)
LEMMA CallsUntouched ==
    ASSUME Serving, UNCHANGED <<fwd, batch, handler, answer, tried>>, excused \subseteq excused'
    PROVE  Serving'
BY DEF Serving, Served

(* No call has a client.                                                   *)
LEMMA NobodyWaits ==
    ASSUME Serving, \A p \in Slots : Served(p) => ~handler[p].client,
           handler' = handler, answer' # "none" => fwd' = "posting",
           tried \subseteq tried', excused \subseteq excused'
    PROVE  Serving'
BY DEF Serving, Served

LEMMA StepServing ==
    ASSUME Typed, Serving, Next
    PROVE  Serving'
<1>1. CASE \/ EnqueueResult \/ EnforceSizeCap \/ \E cutoff \in Rows : Cleanup(cutoff)
           \/ \E n \in Nodes : FlushNode(n)
  <2>1. UNCHANGED <<fwd, batch, handler, answer, tried, excused>>
    BY <1>1 DEF EnqueueResult, EnforceSizeCap, Cleanup, FlushNode
  <2> QED BY <2>1, CallsUntouched
<1>i. fwd # "posting" => answer = "none" /\ \A p \in Slots : Served(p) => ~handler[p].client
  BY DEF Serving
<1>2. ASSUME NEW p \in Slots, NEW n \in Nodes, FlushBatch(p, n) PROVE Serving'
  <2>1. /\ fwd = "idle" /\ fwd' = "posting" /\ tried' = tried \cup {batch'}
        /\ excused \subseteq excused' /\ handler[p] = NoHandler
        /\ \A q \in Slots : q # p => handler'[q] = handler[q]
    BY <1>2, FlushCall
  <2>2. answer = "none" /\ \A q \in Slots : Served(q) => ~handler[q].client
    BY <1>i, <2>1
  <2>3. CASE handler' = handler
    BY <2>1, <2>2, <2>3, NobodyWaits
  <2>4. CASE answer' = answer /\ handler'[p].rows = batch' /\ handler'[p].client = TRUE
    <3>1. \A q \in Slots : q # p /\ Served(q)' => Served(q) /\ handler'[q] = handler[q]
      BY <2>1 DEF Served
    <3>2. ASSUME NEW q \in Slots, Served(q)'
          PROVE  /\ handler'[q].rows \in tried'
                 /\ handler'[q].client => handler'[q].rows = batch' /\ q = p
                 /\ ~handler'[q].client => handler'[q].rows \subseteq excused'
      <4>1. CASE q = p
        BY <2>1, <2>4, <4>1
      <4>2. CASE q # p
        BY <2>1, <2>2, <3>1, <3>2, <4>2 DEF Serving
      <4> QED BY <4>1, <4>2
    <3> QED BY <2>1, <2>2, <2>4, <3>2 DEF Serving
  <2> QED BY <1>2, <2>3, <2>4, FlushCall
<1>3. CASE PostUnreachable \/ \E peak \in BOOLEAN : Backoff(peak)
  <2>1. fwd # "posting" /\ UNCHANGED <<handler, answer, tried>> /\ excused \subseteq excused'
    BY <1>3 DEF PostUnreachable, Backoff
  <2> QED BY <1>i, <2>1, NobodyWaits
<1>4. CASE GetAnswer
  <2>1. answer # "none" /\ answer' = "none" /\ UNCHANGED <<handler, tried, excused>>
    BY <1>4 DEF GetAnswer
  <2>2. \A p \in Slots : Served(p) => ~handler[p].client
    BY <2>1 DEF Serving
  <2> QED BY <2>1, <2>2, NobodyWaits
<1>5. CASE GiveUp \/ ForwarderCrash
  <2>1. handler' = Abandoned /\ answer' = "none" /\ excused' = excused \cup Running /\ tried' = tried
    BY <1>5 DEF GiveUp, ForwarderCrash
  <2>2. ASSUME NEW p \in Slots, Served(p)'
        PROVE  /\ handler'[p].rows \in tried' /\ ~handler'[p].client
               /\ handler'[p].rows \subseteq excused'
    <3>1. /\ Served(p) /\ handler'[p].rows = handler[p].rows /\ ~handler'[p].client
      BY <2>1, <2>2, AbandonedCalls DEF Served
    <3>2. handler[p].rows \subseteq Running
      BY <3>1 DEF Running, Served
    <3>3. handler[p].rows \in tried
      BY <3>1 DEF Serving
    <3> QED BY <2>1, <3>1, <3>2, <3>3
  <2> QED BY <2>1, <2>2 DEF Serving
<1>6. ASSUME NEW p \in Slots, NEW yes \in BOOLEAN, CheckBatch(p, yes) PROVE Serving'
  <2>1. fwd' = fwd /\ batch' = batch /\ tried' = tried /\ excused \subseteq excused'
    BY <1>6 DEF CheckBatch
  <2>2. Served(p) /\ \A q \in Slots : q # p => handler'[q] = handler[q]
    BY <1>6, CheckCall
  <2>3. CASE Finish(p, "ok")
    BY <2>1, <2>2, <2>3, CallEnds
  <2>4. CASE ~Finish(p, "ok")
    <3>1. handler'[p].rows = handler[p].rows /\ handler'[p].client = handler[p].client
          /\ answer' = answer
      BY <1>6, <2>4, CheckCall
    <3> QED BY <2>1, <2>2, <3>1, CallGoesOn
  <2> QED BY <2>3, <2>4
<1>7. ASSUME NEW p \in Slots, NEW yes \in BOOLEAN, ResolveCaller(p, yes) PROVE Serving'
  <2>1. fwd' = fwd /\ batch' = batch /\ tried' = tried /\ excused' = excused
    BY <1>7 DEF ResolveCaller
  <2>2. Served(p) /\ \A q \in Slots : q # p => handler'[q] = handler[q]
    BY <1>7, ResolveCall
  <2>3. CASE Finish(p, "error")
    BY <2>1, <2>2, <2>3, CallEnds
  <2>4. CASE ~Finish(p, "error")
    <3>1. handler'[p].rows = handler[p].rows /\ handler'[p].client = handler[p].client
          /\ answer' = answer
      BY <1>7, <2>4, ResolveCall
    <3> QED BY <2>1, <2>2, <3>1, CallGoesOn
  <2> QED BY <2>3, <2>4
<1>8. ASSUME NEW p \in Slots, NEW t \in Tables, AppendTable(p, t) PROVE Serving'
  <2>1. UNCHANGED <<fwd, batch, tried, excused, answer>>
    BY <1>8 DEF AppendTable
  <2>2. /\ Served(p) /\ \A q \in Slots : q # p => handler'[q] = handler[q]
        /\ handler'[p].rows = handler[p].rows /\ handler'[p].client = handler[p].client
    BY <1>8, AppendCall
  <2> QED BY <2>1, <2>2, CallGoesOn
<1>9. ASSUME NEW p \in Slots, NEW yes \in BOOLEAN, StampBatch(p, yes) PROVE Serving'
  <2>1. fwd' = fwd /\ batch' = batch /\ tried' = tried /\ excused \subseteq excused'
    BY <1>9 DEF StampBatch
  <2>2. Served(p) /\ Finish(p, "ok")
    BY <1>9, StampCall
  <2> QED BY <2>1, <2>2, CallEnds
<1>10. ASSUME NEW n \in Nodes, CentralCrash(n) PROVE Serving'
  <2>1. fwd' = fwd /\ batch' = batch /\ tried' = tried /\ excused \subseteq excused'
    BY <1>10 DEF CentralCrash
  <2>2. \A q \in Slots : Served(q)' => Served(q) /\ handler'[q] = handler[q]
    BY <1>10, CrashCalls DEF Served, NoHandler
  <2>3. \A q \in Slots : Served(q)' /\ handler'[q].client => answer' = answer
    <3>1. ASSUME NEW q \in Slots, Served(q)', handler'[q].client, answer' # answer PROVE FALSE
      <4>1. PICK x \in Slots : Served(x) /\ handler[x].client /\ handler'[x] = NoHandler
        BY <1>10, <3>1, CrashCalls
      <4>2. x = q
        BY <2>2, <3>1, <4>1 DEF Serving
      <4> QED BY <3>1, <4>1, <4>2 DEF Served, NoHandler
    <3> QED BY <3>1
  <2>4. answer' # "none" => fwd' = "posting"
    <3>1. CASE answer' = answer
      BY <2>1, <3>1 DEF Serving
    <3>2. CASE answer' # answer
      <4>1. PICK x \in Slots : Served(x) /\ handler[x].client
        BY <1>10, <3>2, CrashCalls
      <4> QED BY <2>1, <4>1 DEF Serving
    <3> QED BY <3>1, <3>2
  <2> QED BY <2>1, <2>2, <2>3, <2>4 DEF Serving
<1> QED
  BY <1>1, <1>2, <1>3, <1>4, <1>5, <1>6, <1>7, <1>8, <1>9, <1>10 DEF Next

(***************************************************************************)
(* What central has taken over.                                            *)
(***************************************************************************)

(* The write buffers after an append and after a flush.                    *)
LEMMA MemAfterAppend ==
    ASSUME Typed, NEW p \in Slots, NEW t \in Tables, AppendTable(p, t), NEW r \in Rows
    PROVE  LET n == handler[p].node
               in == r \in Kept(handler[p].rows) /\ TableOf[r] = t
           IN  /\ n \in Nodes /\ stored' = stored /\ crashed' = crashed
               /\ \A m \in Nodes : m # n => mem'[m] = mem[m]
               /\ ~in => mem'[n][r] = mem[n][r]
               /\ in => mem'[n][r] > 0
               /\ in /\ mem[n][r] = 0 => mem'[n][r] = 1
<1> DEFINE n == handler[p].node
           R == {x \in Kept(handler[p].rows) : TableOf[x] = t}
<1>1. n \in Nodes
  BY AppendCall, CallFields DEF Served
<1>2. mem' = [mem EXCEPT ![n] = Add(mem[n], R)] /\ stored' = stored /\ crashed' = crashed
  BY DEF AppendTable
<1>3. mem \in [Nodes -> Bag]
  BY DEF Typed, TypeOK, Bag
<1>4. r \in R <=> r \in Kept(handler[p].rows) /\ TableOf[r] = t
  OBVIOUS
<1> HIDE DEF n, R
<1>5. mem[n] \in Bag
  BY <1>1, <1>3
<1>6. /\ r \notin R => Add(mem[n], R)[r] = mem[n][r]
      /\ r \in R => Add(mem[n], R)[r] > 0
      /\ r \in R /\ mem[n][r] = 0 => Add(mem[n], R)[r] = 1
  BY <1>5, AddToBag
<1>7. mem'[n] = Add(mem[n], R) /\ \A m \in Nodes : m # n => mem'[m] = mem[m]
  BY <1>1, <1>2, <1>3
<1> QED BY <1>1, <1>2, <1>4, <1>6, <1>7 DEF n

LEMMA StoredAfterFlush ==
    ASSUME Typed, NEW n \in Nodes, FlushNode(n), NEW r \in Rows
    PROVE  /\ stored[r] \in 0 .. 2 /\ mem[n][r] \in 0 .. 2
           /\ stored'[r] = IF stored[r] + mem[n][r] <= 1 THEN stored[r] + mem[n][r] ELSE 2
           /\ mem'[n][r] = 0 /\ \A m \in Nodes : m # n => mem'[m] = mem[m]
<1>1. mem \in [Nodes -> Bag] /\ stored \in Bag
  BY DEF Typed, TypeOK, Bag
<1>2. stored' = Sum2(stored, mem[n]) /\ mem' = [mem EXCEPT ![n] = NoRows]
  BY DEF FlushNode
<1>3. stored'[r] = IF stored[r] + mem[n][r] <= 1 THEN stored[r] + mem[n][r] ELSE 2
  BY <1>1, <1>2, SumOfBags
<1>4. stored[r] \in 0 .. 2 /\ mem[n][r] \in 0 .. 2
  BY <1>1 DEF Bag, CopyLimit
<1>5. mem'[n] = NoRows /\ \A m \in Nodes : m # n => mem'[m] = mem[m]
  BY <1>1, <1>2
<1> QED BY <1>3, <1>4, <1>5, EmptyBag

LEMMA MemAfterCrash ==
    ASSUME Typed, NEW n \in Nodes, CentralCrash(n)
    PROVE  /\ stored' = stored /\ \A r \in Rows : mem'[n][r] = 0
           /\ \A m \in Nodes : m # n => mem'[m] = mem[m]
           /\ crashed \subseteq crashed' /\ \A r \in Rows : mem[n][r] > 0 => r \in crashed'
<1>1. mem \in [Nodes -> Bag]
  BY DEF Typed, TypeOK, Bag
<1>2. /\ mem' = [mem EXCEPT ![n] = NoRows] /\ stored' = stored
      /\ crashed' = crashed \cup {r \in Rows : mem[n][r] > 0}
  BY DEF CentralCrash
<1>3. mem'[n] = NoRows /\ \A m \in Nodes : m # n => mem'[m] = mem[m]
  BY <1>1, <1>2
<1> QED BY <1>2, <1>3, EmptyBag

(* No other step touches the write buffers or ClickHouse.                  *)
LEMMA ElsewhereUntouched ==
    ASSUME Next, ~\E p \in Slots, t \in Tables : AppendTable(p, t),
           ~\E n \in Nodes : FlushNode(n) \/ CentralCrash(n)
    PROVE  UNCHANGED <<mem, stored, crashed>>
BY DEF Next, EnqueueResult, FlushBatch, PostUnreachable, GetAnswer, GiveUp, Backoff,
       EnforceSizeCap, Cleanup, ForwarderCrash, CheckBatch, ResolveCaller, StampBatch, svars

(* What central has taken over it has or has lost with a node; what it     *)
(* refused stays refused.                                                  *)
LEMMA StillTakenOver ==
    ASSUME Typed, Next, NEW r \in Rows, TakenOver(r)
    PROVE  TakenOver(r)'
<1>0. stored[r] > 0 \/ (\E n \in Nodes : mem[n][r] > 0) \/ r \in crashed
  BY DEF TakenOver, Present, InMemory
<1>s. SUFFICES stored'[r] > 0 \/ (\E n \in Nodes : mem'[n][r] > 0) \/ r \in crashed'
  BY DEF TakenOver, Present, InMemory
<1>1. ASSUME NEW p \in Slots, NEW t \in Tables, AppendTable(p, t)
      PROVE  stored'[r] > 0 \/ (\E n \in Nodes : mem'[n][r] > 0) \/ r \in crashed'
  BY <1>0, <1>1, MemAfterAppend
<1>2. ASSUME NEW n \in Nodes, FlushNode(n)
      PROVE  stored'[r] > 0 \/ (\E m \in Nodes : mem'[m][r] > 0) \/ r \in crashed'
  <2>1. crashed' = crashed
    BY <1>2 DEF FlushNode
  <2>2. /\ stored[r] \in 0 .. 2 /\ mem[n][r] \in 0 .. 2
        /\ stored'[r] = IF stored[r] + mem[n][r] <= 1 THEN stored[r] + mem[n][r] ELSE 2
    BY <1>2, StoredAfterFlush
  <2>3. stored[r] > 0 \/ mem[n][r] > 0 => stored'[r] > 0
    BY <2>2
  <2>4. \A m \in Nodes : m # n => mem'[m] = mem[m]
    BY <1>2, StoredAfterFlush
  <2> QED BY <1>0, <2>1, <2>3, <2>4
<1>3. ASSUME NEW n \in Nodes, CentralCrash(n)
      PROVE  stored'[r] > 0 \/ (\E m \in Nodes : mem'[m][r] > 0) \/ r \in crashed'
  BY <1>0, <1>3, MemAfterCrash
<1>4. CASE UNCHANGED <<mem, stored, crashed>>
  BY <1>0, <1>4
<1> QED BY <1>1, <1>2, <1>3, <1>4, ElsewhereUntouched

LEMMA StillRefused == Next => refused \subseteq refused'
BY DEF Next, EnqueueResult, FlushBatch, PostUnreachable, GetAnswer, GiveUp, Backoff,
       EnforceSizeCap, Cleanup, ForwarderCrash, CheckBatch, ResolveCaller, StampBatch,
       AppendTable, FlushNode, CentralCrash, svars

LEMMA StillAccounted ==
    ASSUME Typed, Next, NEW b \in SUBSET Rows, Accounted(b)
    PROVE  Accounted(b)'
<1>1. ASSUME NEW r \in b
      PROVE  /\ r \in Kept(b) => TakenOver(r)'
             /\ r \notin Kept(b) => r \in refused'
  BY StillTakenOver, StillRefused DEF Accounted
<1>2. \A r \in b : IF r \in Kept(b) THEN TakenOver(r)' ELSE r \in refused'
  BY <1>1
<1> QED BY <1>2 DEF Accounted, Kept

(* A call that appends has kept the rows of the tables it is done with.    *)
CallKept(p) ==
    handler[p].pc = "append" => \A r \in handler[p].rows :
      IF r \in Kept(handler[p].rows)
      THEN TableOf[r] \in handler[p].left \/ TakenOver(r)
      ELSE r \in refused

LEMMA CallStillKept ==
    ASSUME Typed, Next, NEW p \in Slots, CallKept(p),
           handler'[p].pc = "append" =>
             handler[p].pc = "append" /\ handler'[p].rows = handler[p].rows
             /\ handler'[p].left = handler[p].left
    PROVE  CallKept(p)'
<1>1. ASSUME handler'[p].pc = "append", NEW r \in handler'[p].rows
      PROVE  IF r \in Kept(handler'[p].rows)
             THEN TableOf[r] \in handler'[p].left \/ TakenOver(r)'
             ELSE r \in refused'
  <2>1. /\ handler[p].pc = "append" /\ handler'[p].rows = handler[p].rows
        /\ handler'[p].left = handler[p].left
    BY <1>1
  <2>2. r \in Rows
    BY <1>1, <2>1, CallFields
  <2>3. IF r \in Kept(handler[p].rows)
        THEN TableOf[r] \in handler[p].left \/ TakenOver(r)
        ELSE r \in refused
    BY <1>1, <2>1 DEF CallKept
  <2>4. (TakenOver(r) => TakenOver(r)') /\ refused \subseteq refused'
    BY <2>2, StillTakenOver, StillRefused
  <2> QED BY <2>1, <2>3, <2>4
<1> QED BY <1>1 DEF CallKept, Kept

(* The calls after any step.                                               *)
LEMMA StepCallKept ==
    ASSUME Typed, Serving, Next, NEW q \in Slots, CallKept(q)
    PROVE  CallKept(q)'
<1> USE DEF NoHandler
<1>1. CASE handler'[q] = handler[q]
  BY <1>1, CallStillKept
<1>2. CASE handler'[q].pc # "append"
  BY <1>2, CallStillKept
<1>3. ASSUME NEW p \in Slots, NEW n \in Nodes, FlushBatch(p, n) PROVE CallKept(q)'
  <2>1. handler'[q] = handler[q] \/ handler'[q].pc = "check"
    BY <1>3, FlushCall
  <2> QED BY <1>1, <1>2, <2>1
<1>4. CASE GiveUp \/ ForwarderCrash
  <2>1. handler' = Abandoned
    BY <1>4 DEF GiveUp, ForwarderCrash
  <2>2. handler'[q].pc = "append" =>
          handler[q].pc = "append" /\ handler'[q].rows = handler[q].rows
          /\ handler'[q].left = handler[q].left
    BY <2>1, AbandonedCalls
  <2> QED BY <2>2, CallStillKept
<1>5. ASSUME NEW p \in Slots, NEW yes \in BOOLEAN, CheckBatch(p, yes) PROVE CallKept(q)'
  <2>1. handler'[q] = handler[q] \/ handler'[q].pc # "append"
    BY <1>5, CheckCall
  <2> QED BY <1>1, <1>2, <2>1
<1>6. ASSUME NEW p \in Slots, NEW yes \in BOOLEAN, StampBatch(p, yes) PROVE CallKept(q)'
  <2>1. handler'[q] = handler[q] \/ handler'[q].pc # "append"
    BY <1>6, StampCall
  <2> QED BY <1>1, <1>2, <2>1
<1>7. ASSUME NEW n \in Nodes, CentralCrash(n) PROVE CallKept(q)'
  <2>1. handler'[q] = handler[q] \/ handler'[q].pc # "append"
    BY <1>7, CrashCalls
  <2> QED BY <1>1, <1>2, <2>1
<1>8. ASSUME NEW p \in Slots, NEW yes \in BOOLEAN, ResolveCaller(p, yes) PROVE CallKept(q)'
  <2>1. CASE q # p \/ handler'[p] = NoHandler
    <3>1. handler'[q] = handler[q] \/ handler'[q].pc # "append"
      BY <1>8, <2>1, ResolveCall
    <3> QED BY <1>1, <1>2, <3>1
  <2>2. CASE q = p /\ handler'[p] # NoHandler
    <3>1. /\ refused' = refused \cup (handler[p].rows \ Kept(handler[p].rows))
          /\ handler'[p].left = {TableOf[r] : r \in Kept(handler[p].rows)}
          /\ handler'[p].rows = handler[p].rows
      BY <1>8, <2>2, ResolveCall
    <3>2. ASSUME NEW r \in handler'[p].rows
          PROVE  IF r \in Kept(handler'[p].rows) THEN TableOf[r] \in handler'[p].left
                 ELSE r \in refused'
      BY <3>1
    <3> QED BY <2>2, <3>2 DEF CallKept, Kept
  <2> QED BY <2>1, <2>2
<1>9. ASSUME NEW p \in Slots, NEW t \in Tables, AppendTable(p, t) PROVE CallKept(q)'
  <2>0. /\ handler[p].pc = "append" /\ handler'[p].rows = handler[p].rows
        /\ handler'[p].left = handler[p].left \ {t}
        /\ q # p => handler'[q] = handler[q]
    BY <1>9, AppendCall
  <2>1. CASE q # p
    BY <2>0, <2>1, <1>1
  <2>2. CASE q = p
    <3>1. ASSUME NEW r \in handler[p].rows
          PROVE  IF r \in Kept(handler[p].rows)
                 THEN TableOf[r] \in handler'[p].left \/ TakenOver(r)'
                 ELSE r \in refused'
      <4>1. r \in Rows
        BY <2>0, CallFields
      <4>2. CASE r \in Kept(handler[p].rows) /\ TableOf[r] = t
        <5>1. \E n \in Nodes : mem'[n][r] > 0
          BY <1>9, <4>1, <4>2, MemAfterAppend
        <5> QED BY <4>2, <5>1 DEF TakenOver, Present, InMemory
      <4>3. CASE ~(r \in Kept(handler[p].rows) /\ TableOf[r] = t)
        <5>1. IF r \in Kept(handler[p].rows)
              THEN TableOf[r] \in handler[p].left \/ TakenOver(r)
              ELSE r \in refused
          BY <2>0, <2>2 DEF CallKept
        <5>2. (TakenOver(r) => TakenOver(r)') /\ refused \subseteq refused'
          BY <4>1, StillTakenOver, StillRefused
        <5> QED BY <2>0, <4>3, <5>1, <5>2
      <4> QED BY <4>2, <4>3
    <3> QED BY <2>0, <2>2, <3>1 DEF CallKept, Kept
  <2> QED BY <2>1, <2>2
<1>10. CASE handler' = handler
  BY <1>1, <1>10
<1>11. CASE \/ EnqueueResult \/ PostUnreachable \/ GetAnswer \/ EnforceSizeCap
            \/ (\E cutoff \in Rows : Cleanup(cutoff)) \/ (\E peak \in BOOLEAN : Backoff(peak))
            \/ \E n \in Nodes : FlushNode(n)
  <2>1. handler' = handler
    BY <1>11 DEF EnqueueResult, PostUnreachable, GetAnswer, EnforceSizeCap, Cleanup,
                 Backoff, FlushNode
  <2> QED BY <1>10, <2>1
<1> QED
  BY <1>3, <1>4, <1>5, <1>6, <1>7, <1>8, <1>9, <1>11 DEF Next

(* A call done with all its tables has accounted for its batch.            *)
LEMMA DoneIsAccounted ==
    ASSUME NEW p \in Slots, CallKept(p), handler[p].pc = "append", handler[p].left = {}
    PROVE  Accounted(handler[p].rows)
BY DEF CallKept, Accounted

LEMMA StepIngested ==
    ASSUME Typed, Serving, Ingested, Next
    PROVE  Ingested'
<1>0. \A p \in Slots : CallKept(p)
  BY DEF Ingested, CallKept
<1>1. \A p \in Slots : CallKept(p)'
  BY <1>0, StepCallKept
<1>t. ASSUME NEW r \in Rows PROVE TakenOver(r) \/ r \in refused => TakenOver(r)' \/ r \in refused'
  BY StillTakenOver, StillRefused
<1>2. \A m \in markers' : m[1] \in tried' /\ Accounted(m[1])'
  <2>0. markers \subseteq (SUBSET Rows) \X (1 .. MarkerLife)
    BY DEF Typed, TypeOK
  <2>1. tried \subseteq tried'
    BY DEF Next, EnqueueResult, FlushBatch, PostUnreachable, GetAnswer, GiveUp, Backoff,
           EnforceSizeCap, Cleanup, ForwarderCrash, CheckBatch, ResolveCaller, StampBatch,
           AppendTable, FlushNode, CentralCrash
  <2>2. ASSUME NEW b \in SUBSET Rows, b \in tried, Accounted(b)
        PROVE  b \in tried' /\ Accounted(b)'
    BY <2>1, <2>2, StillAccounted
  <2>3. ASSUME NEW m \in markers PROVE m[1] \in tried' /\ Accounted(m[1])'
    <3>1. m[1] \in SUBSET Rows
      BY <2>0
    <3>2. m[1] \in tried /\ Accounted(m[1])
      BY DEF Ingested
    <3> HIDE DEF Accounted
    <3> QED BY <2>2, <3>1, <3>2
  <2>4. CASE \E peak \in BOOLEAN : Backoff(peak)
    <3>1. \A m \in markers' : \E x \in markers : m[1] = x[1]
      BY <2>4 DEF Backoff, OlderMarkers
    <3> QED BY <2>3, <3>1 DEF Accounted, Kept, TakenOver, Present, InMemory
  <2>5. ASSUME NEW p \in Slots, NEW yes \in BOOLEAN, StampBatch(p, yes)
        PROVE  \A m \in markers' : m[1] \in tried' /\ Accounted(m[1])'
    <3>1. handler[p].pc = "append" /\ handler[p].left = {} /\ Served(p)
      BY <2>5, StampCall
    <3>2. handler[p].rows \in tried /\ handler[p].rows \in SUBSET Rows
      BY <3>1, CallFields DEF Serving, Served
    <3>3. Accounted(handler[p].rows)
      BY <1>0, <3>1, DoneIsAccounted
    <3>b. PICK b \in SUBSET Rows : b = handler[p].rows
      BY <3>2
    <3>5. markers' \subseteq markers \cup {<<b, MarkerLife>>}
      BY <2>5, <3>b DEF StampBatch
    <3>4. b \in tried' /\ Accounted(b)'
      BY <2>2, <3>2, <3>3, <3>b
    <3>6. ASSUME NEW m \in markers' PROVE m[1] \in tried' /\ Accounted(m[1])'
      <4>1. CASE m \in markers
        BY <2>3, <4>1
      <4>2. CASE m = <<b, MarkerLife>>
        <5>1. m[1] = b
          BY <4>2
        <5> QED BY <3>4, <5>1 DEF Accounted, Kept, TakenOver, Present, InMemory
      <4> QED BY <3>5, <3>6, <4>1, <4>2
    <3> QED BY <3>6
  <2>6. CASE markers' = markers
    BY <2>3, <2>6
  <2>7. \/ \E peak \in BOOLEAN : Backoff(peak)
        \/ \E p \in Slots, yes \in BOOLEAN : StampBatch(p, yes)
        \/ markers' = markers
    BY DEF Next, EnqueueResult, FlushBatch, PostUnreachable, GetAnswer, GiveUp,
           EnforceSizeCap, Cleanup, ForwarderCrash, CheckBatch, ResolveCaller,
           AppendTable, FlushNode, CentralCrash, svars
  <2> QED BY <2>4, <2>5, <2>6, <2>7
<1>3. answer' = "ok" => \A r \in batch' : TakenOver(r)' \/ r \in refused'
  <2>0. batch \subseteq Rows
    BY DEF Typed, TypeOK
  <2>1. ASSUME answer' = "ok" /\ answer = "ok" /\ batch' = batch
        PROVE  \A r \in batch' : TakenOver(r)' \/ r \in refused'
    BY <1>t, <2>0, <2>1 DEF Ingested
  <2>2. ASSUME NEW p \in Slots, Served(p), handler[p].client, Accounted(handler[p].rows),
               batch' = batch
        PROVE  \A r \in batch' : TakenOver(r)' \/ r \in refused'
    <3>1. handler[p].rows = batch
      BY <2>2 DEF Serving
    <3>2. \A r \in batch : TakenOver(r) \/ r \in refused
      BY <2>2, <3>1 DEF Accounted
    <3> QED BY <1>t, <2>0, <2>2, <3>2
  <2>3. ASSUME NEW p \in Slots, NEW yes \in BOOLEAN, CheckBatch(p, yes), answer' = "ok"
        PROVE  \A r \in batch' : TakenOver(r)' \/ r \in refused'
    <3>1. batch' = batch /\ Served(p)
      BY <2>3 DEF CheckBatch, Served
    <3>2. CASE answer' = answer
      BY <2>1, <2>3, <3>1, <3>2
    <3>3. CASE answer' # answer
      <4>1. Marked(handler[p].rows) /\ Finish(p, "ok")
        BY <2>3, <3>3, CheckCall
      <4>2. handler[p].client
        BY <3>3, <4>1 DEF Finish
      <4>3. PICK m \in markers : m[1] = handler[p].rows
        BY <4>1 DEF Marked
      <4>4. Accounted(handler[p].rows)
        BY <4>3 DEF Ingested
      <4> QED BY <2>2, <3>1, <4>2, <4>4
    <3> QED BY <3>2, <3>3
  <2>4. ASSUME NEW p \in Slots, NEW yes \in BOOLEAN, StampBatch(p, yes), answer' = "ok"
        PROVE  \A r \in batch' : TakenOver(r)' \/ r \in refused'
    <3>1. /\ batch' = batch /\ Served(p) /\ handler[p].pc = "append" /\ handler[p].left = {}
          /\ answer' = IF handler[p].client THEN "ok" ELSE answer
      BY <2>4 DEF StampBatch, Served, Finish
    <3>2. Accounted(handler[p].rows)
      BY <1>0, <3>1, DoneIsAccounted
    <3> QED BY <2>1, <2>2, <2>4, <3>1, <3>2
  <2>5. CASE \/ (\E p \in Slots, n \in Nodes : FlushBatch(p, n)) \/ PostUnreachable
             \/ (\E peak \in BOOLEAN : Backoff(peak)) \/ GetAnswer \/ GiveUp \/ ForwarderCrash
    <3>1. answer' # "ok"
      <4>1. fwd # "posting" => answer = "none"
        BY DEF Serving
      <4> QED BY <2>5, <4>1 DEF FlushBatch, PostUnreachable, Backoff, GetAnswer, GiveUp, ForwarderCrash
    <3> QED BY <3>1
  <2>6. CASE \/ EnqueueResult \/ EnforceSizeCap \/ (\E cutoff \in Rows : Cleanup(cutoff))
             \/ (\E n \in Nodes : FlushNode(n) \/ CentralCrash(n))
             \/ (\E p \in Slots, yes \in BOOLEAN : ResolveCaller(p, yes))
             \/ (\E p \in Slots, t \in Tables : AppendTable(p, t))
    <3>1. batch' = batch /\ answer' \in {answer, "error"}
      BY <2>6 DEF EnqueueResult, EnforceSizeCap, Cleanup, FlushNode, CentralCrash,
                  ResolveCaller, AppendTable, Finish
    <3> QED BY <2>1, <3>1
  <2> QED BY <2>3, <2>4, <2>5, <2>6 DEF Next
<1>4. \A r \in sent' : TakenOver(r)' \/ r \in refused'
  <2>0. sent \subseteq Rows /\ batch \subseteq Rows
    BY DEF Typed, TypeOK
  <2>1. ASSUME NEW r \in sent PROVE TakenOver(r)' \/ r \in refused'
    BY <1>t, <2>0 DEF Ingested, SentWasTakenOver, TakenOver, Present
  <2>2. CASE sent' \subseteq sent
    BY <2>1, <2>2
  <2>3. CASE GetAnswer
    <3>1. CASE Settled(answer)
      <4>1. ASSUME NEW r \in batch PROVE TakenOver(r)' \/ r \in refused'
        <5>1. CASE answer = "ok"
          BY <1>t, <2>0, <5>1 DEF Ingested
        <5>2. CASE answer = "422"
          BY <2>3, <5>2 DEF GetAnswer
        <5> QED BY <3>1, <5>1, <5>2 DEF Settled
      <4>2. sent' \subseteq sent \cup batch
        BY <2>3, <3>1 DEF GetAnswer, MarkResultsSent
      <4> QED BY <2>1, <4>1, <4>2
    <3>2. CASE ~Settled(answer)
      <4>1. sent' = sent
        BY <2>3, <3>2 DEF GetAnswer
      <4> QED BY <2>2, <4>1
    <3> QED BY <3>1, <3>2
  <2>4. GetAnswer \/ sent' \subseteq sent
    BY DEF Next, EnqueueResult, FlushBatch, PostUnreachable, GiveUp, Backoff,
           EnforceSizeCap, Cleanup, ForwarderCrash, CheckBatch, ResolveCaller, StampBatch,
           AppendTable, FlushNode, CentralCrash, cvars
  <2> QED BY <2>2, <2>3, <2>4
<1> QED
  BY <1>1, <1>2, <1>3, <1>4 DEF Ingested, CallKept, SentWasTakenOver, TakenOver, Present

(***************************************************************************)
(* A row that is not excused is in central once.                           *)
(***************************************************************************)
IsMarked(r) == \E m \in markers : r \in m[1]
Pending(p, r) ==
    handler[p].pc \in {"resolve", "append"} /\ r \in handler[p].rows /\ ~Appended(p, r)

OnceOnly(r) ==
    /\ \A a, b \in tried : r \in a /\ r \in b => a = b
    /\ ~Twice(r)
    /\ Present(r) => IsMarked(r) \/ \E p \in Slots : Appended(p, r)
    /\ \A p \in Slots : Pending(p, r) => ~Present(r)

LEMMA UniqueIsOnceOnly == Unique <=> \A r \in Rows \ excused : OnceOnly(r)
BY DEF Unique, OnceOnly, IsMarked, Pending

(* The steps after which central has no more of the row than before.       *)
LEMMA StillOnce ==
    ASSUME NEW r, OnceOnly(r), tried' = tried, ~Twice(r)', Present(r)' => Present(r),
           IsMarked(r) => IsMarked(r)',
           \A p \in Slots : Appended(p, r) => IsMarked(r)' \/ Appended(p, r)',
           \A p \in Slots : Pending(p, r)' => Pending(p, r)
    PROVE  OnceOnly(r)'
<1>1. \A a, b \in tried' : r \in a /\ r \in b => a = b
  BY DEF OnceOnly
<1>2. Present(r)' => IsMarked(r)' \/ \E p \in Slots : Appended(p, r)'
  BY DEF OnceOnly
<1>3. \A p \in Slots : Pending(p, r)' => ~Present(r)'
  BY DEF OnceOnly
<1> QED BY <1>1, <1>2, <1>3 DEF OnceOnly

LEMMA SameCopies ==
    ASSUME NEW r, UNCHANGED <<mem, stored>>
    PROVE  (Twice(r)' <=> Twice(r)) /\ (Present(r)' <=> Present(r))
BY DEF Twice, Present, InMemory

LEMMA SameCall ==
    ASSUME NEW p, NEW r, handler'[p] = handler[p]
    PROVE  (Appended(p, r)' <=> Appended(p, r)) /\ (Pending(p, r)' <=> Pending(p, r))
BY DEF Appended, Pending

LEMMA SameMarkers ==
    ASSUME NEW r, markers' = markers
    PROVE  IsMarked(r)' <=> IsMarked(r)
BY DEF IsMarked

(* A call that is over, or only checks, has appended nothing and is not    *)
(* about to.                                                               *)
LEMMA IdleCall ==
    ASSUME NEW p, NEW r
    PROVE  /\ handler[p].pc \in {"none", "check"} => ~Appended(p, r) /\ ~Pending(p, r)
           /\ handler[p].pc = "resolve" => ~Appended(p, r)
           /\ handler'[p].pc \in {"none", "check"} => ~Appended(p, r)' /\ ~Pending(p, r)'
           /\ r \notin handler[p].rows => ~Appended(p, r) /\ ~Pending(p, r)
BY DEF Appended, Pending

(* A row that is not excused is carried by one call at most.               *)
LEMMA OneCarrier ==
    ASSUME Typed, Serving, NEW r \in Rows \ excused, NEW p \in Slots, NEW q \in Slots,
           Served(p), Served(q), r \in handler[p].rows, r \in handler[q].rows
    PROVE  p = q
<1>1. handler[p].client /\ handler[q].client
  BY DEF Serving
<1> QED BY <1>1 DEF Serving

LEMMA MoreExcused == Next => excused \subseteq excused'
<1> SUFFICES ASSUME Next PROVE excused \subseteq excused'
  OBVIOUS
<1>1. CASE \/ EnqueueResult \/ PostUnreachable \/ GetAnswer \/ GiveUp
           \/ EnforceSizeCap \/ ForwarderCrash
           \/ \E peak \in BOOLEAN : Backoff(peak)
           \/ \E cutoff \in Rows : Cleanup(cutoff)
  BY <1>1 DEF EnqueueResult, PostUnreachable, GetAnswer, GiveUp, EnforceSizeCap,
     ForwarderCrash, Backoff, Cleanup
<1>2. ASSUME NEW n \in Nodes, NEW p \in Slots, FlushBatch(p, n)
      PROVE  excused \subseteq excused'
  BY <1>2 DEF FlushBatch
<1>3. ASSUME NEW n \in Nodes, FlushNode(n) \/ CentralCrash(n)
      PROVE  excused \subseteq excused'
  BY <1>3 DEF FlushNode, CentralCrash
<1>4. ASSUME NEW p \in Slots, NEW yes \in BOOLEAN,
             CheckBatch(p, yes) \/ ResolveCaller(p, yes) \/ StampBatch(p, yes)
      PROVE  excused \subseteq excused'
  BY <1>4 DEF CheckBatch, ResolveCaller, StampBatch
<1>5. ASSUME NEW p \in Slots, NEW t \in Tables, AppendTable(p, t)
      PROVE  excused \subseteq excused'
  BY <1>5 DEF AppendTable
<1> QED BY <1>1, <1>2, <1>3, <1>4, <1>5 DEF Next

(* The steps of a call, for a row that stays unexcused.                    *)
LEMMA CheckOnce ==
    ASSUME Typed, Serving, Ingested, NEW r \in Rows \ excused', r \notin excused, OnceOnly(r),
           NEW p \in Slots, NEW redis \in BOOLEAN, CheckBatch(p, redis)
    PROVE  OnceOnly(r)'
<1>1. /\ UNCHANGED <<mem, stored, markers, tried>>
      /\ excused' = IF redis THEN excused ELSE excused \cup handler[p].rows
  BY DEF CheckBatch, svars
<1>2. /\ handler[p].pc = "check" /\ Served(p)
      /\ \A q \in Slots : q # p => handler'[q] = handler[q]
  BY CheckCall
<1>3. ~Appended(p, r)
  BY <1>2, IdleCall
<1>4. \A q \in Slots : Appended(q, r) => Appended(q, r)'
  <2> TAKE q \in Slots
  <2>1. CASE q = p
    BY <1>3, <2>1
  <2>2. CASE q # p
    BY <1>2, <2>2, SameCall
  <2> QED BY <2>1, <2>2
<1>5. ~Twice(r)' /\ (Present(r)' <=> Present(r)) /\ (IsMarked(r)' <=> IsMarked(r))
  BY <1>1, SameCopies, SameMarkers DEF OnceOnly
<1>6. \A q \in Slots : Pending(q, r)' => ~Present(r)
  <2> SUFFICES ASSUME NEW q \in Slots, Pending(q, r)' PROVE ~Present(r)
    OBVIOUS
  <2>1. CASE q # p
    <3>1. Pending(q, r)
      BY <1>2, <2>1, SameCall
    <3> QED BY <3>1 DEF OnceOnly
  <2>2. CASE q = p
    <3>0. handler'[p].pc # "none" /\ r \in handler'[p].rows
      BY <2>2 DEF Pending
    <3>1. handler'[p] # NoHandler
      BY <3>0 DEF NoHandler
    <3>2. ~(redis /\ Marked(handler[p].rows)) /\ handler'[p].rows = handler[p].rows
      BY <3>1, CheckCall
    <3>3. redis /\ ~Marked(handler[p].rows) /\ r \in handler[p].rows
      BY <1>1, <3>0, <3>2
    <3>4. ~IsMarked(r)
      <4> SUFFICES ASSUME NEW m \in markers, r \in m[1] PROVE FALSE
        BY DEF IsMarked
      <4>1. m[1] \in tried /\ handler[p].rows \in tried
        BY <1>2 DEF Ingested, Serving
      <4>2. m[1] = handler[p].rows
        BY <3>3, <4>1 DEF OnceOnly
      <4> QED BY <3>3, <4>2 DEF Marked
    <3>5. ASSUME NEW x \in Slots, Appended(x, r) PROVE FALSE
      <4>1. Served(x) /\ r \in handler[x].rows
        BY <3>5 DEF Appended, Served
      <4>2. x = p
        BY <1>2, <3>3, <4>1, OneCarrier
      <4> QED BY <1>3, <3>5, <4>2
    <3> QED BY <3>4, <3>5 DEF OnceOnly
  <2> QED BY <2>1, <2>2
<1>7. Present(r)' => IsMarked(r)' \/ \E q \in Slots : Appended(q, r)'
  BY <1>4, <1>5 DEF OnceOnly
<1>8. \A a, b \in tried' : r \in a /\ r \in b => a = b
  BY <1>1 DEF OnceOnly
<1> QED BY <1>5, <1>6, <1>7, <1>8 DEF OnceOnly

LEMMA ResolveOnce ==
    ASSUME Typed, NEW r \in Rows, OnceOnly(r),
           NEW p \in Slots, NEW ok \in BOOLEAN, ResolveCaller(p, ok)
    PROVE  OnceOnly(r)'
<1>1. UNCHANGED <<mem, stored, markers, tried>>
  BY DEF ResolveCaller
<1>2. /\ handler[p].pc = "resolve"
      /\ \A q \in Slots : q # p => handler'[q] = handler[q]
      /\ handler'[p] = NoHandler \/ handler'[p].rows = handler[p].rows
  BY ResolveCall
<1>3. ~Appended(p, r)
  BY <1>2, IdleCall
<1>4. \A q \in Slots : Appended(q, r) => Appended(q, r)'
  BY <1>2, <1>3, SameCall
<1>5. Pending(p, r)' => Pending(p, r)
  BY <1>2, <1>3 DEF Pending, NoHandler
<1>6. \A q \in Slots : Pending(q, r)' => Pending(q, r)
  BY <1>2, <1>5, SameCall
<1>7. ~Twice(r)' /\ (Present(r)' => Present(r)) /\ (IsMarked(r)' <=> IsMarked(r))
  BY <1>1, SameCopies, SameMarkers DEF OnceOnly
<1> QED BY <1>1, <1>4, <1>6, <1>7, StillOnce

LEMMA StampOnce ==
    ASSUME Typed, NEW r \in Rows \ excused', OnceOnly(r),
           NEW p \in Slots, NEW redis \in BOOLEAN, StampBatch(p, redis)
    PROVE  OnceOnly(r)'
<1>1. /\ UNCHANGED <<mem, stored, tried>>
      /\ markers' = IF redis
                    THEN {m \in markers : m[1] # handler[p].rows} \cup {<<handler[p].rows, MarkerLife>>}
                    ELSE markers
      /\ excused' = IF redis THEN excused ELSE excused \cup handler[p].rows
  BY DEF StampBatch
<1>2. /\ handler'[p] = NoHandler
      /\ \A q \in Slots : q # p => handler'[q] = handler[q]
  BY StampCall
<1>3. r \in handler[p].rows => IsMarked(r)'
  <2> SUFFICES ASSUME r \in handler[p].rows PROVE IsMarked(r)'
    OBVIOUS
  <2>1. <<handler[p].rows, MarkerLife>> \in markers'
    BY <1>1
  <2>2. r \in <<handler[p].rows, MarkerLife>>[1]
    OBVIOUS
  <2> QED BY <2>1, <2>2 DEF IsMarked
<1>4. IsMarked(r) => IsMarked(r)'
  <2> SUFFICES ASSUME NEW m \in markers, r \in m[1] PROVE IsMarked(r)'
    BY DEF IsMarked
  <2>1. CASE m[1] = handler[p].rows
    BY <1>3, <2>1
  <2>2. CASE m[1] # handler[p].rows
    <3>1. m \in markers'
      BY <1>1, <2>2
    <3> QED BY <3>1 DEF IsMarked
  <2> QED BY <2>1, <2>2
<1>5. Appended(p, r) => IsMarked(r)'
  BY <1>3 DEF Appended
<1>6. \A q \in Slots : Appended(q, r) => IsMarked(r)' \/ Appended(q, r)'
  BY <1>2, <1>5, SameCall
<1>7. \A q \in Slots : Pending(q, r)' => Pending(q, r)
  BY <1>2, SameCall, IdleCall DEF NoHandler
<1>8. ~Twice(r)' /\ (Present(r)' => Present(r))
  BY <1>1, SameCopies DEF OnceOnly
<1> QED BY <1>1, <1>4, <1>6, <1>7, <1>8, StillOnce

LEMMA AppendOnce ==
    ASSUME Typed, Serving, NEW r \in Rows \ excused, OnceOnly(r),
           NEW p \in Slots, NEW t \in Tables, AppendTable(p, t)
    PROVE  OnceOnly(r)'
<1>1. /\ UNCHANGED <<markers, tried>>
  BY DEF AppendTable
<1>2. /\ handler[p].pc = "append" /\ Served(p) /\ t \in handler[p].left
      /\ \A q \in Slots : q # p => handler'[q] = handler[q]
      /\ handler'[p].pc = "append" /\ handler'[p].left = handler[p].left \ {t}
      /\ handler'[p].rows = handler[p].rows
  BY AppendCall
<1>3. (Appended(p, r) => Appended(p, r)') /\ (Pending(p, r)' => Pending(p, r))
  BY <1>2 DEF Appended, Pending
<1>4. \A q \in Slots : /\ Appended(q, r) => Appended(q, r)'
                       /\ Pending(q, r)' => Pending(q, r)
  BY <1>2, <1>3, SameCall
<1>5. IsMarked(r)' <=> IsMarked(r)
  BY <1>1, SameMarkers
<1> DEFINE n == handler[p].node
           in == r \in Kept(handler[p].rows) /\ TableOf[r] = t
<1>6. /\ n \in Nodes /\ stored' = stored
      /\ \A m \in Nodes : m # n => mem'[m] = mem[m]
      /\ ~in => mem'[n][r] = mem[n][r]
      /\ in /\ mem[n][r] = 0 => mem'[n][r] = 1
  BY MemAfterAppend
<1>7. CASE ~in
  <2>1. \A m \in Nodes : mem'[m][r] = mem[m][r]
    BY <1>6, <1>7
  <2>2. ~Twice(r)' /\ (Present(r)' => Present(r))
    BY <1>6, <2>1 DEF OnceOnly, Twice, Present, InMemory
  <2> QED BY <1>1, <1>4, <1>5, <2>2, StillOnce
<1>8. CASE in
  <2>1. r \in handler[p].rows
    BY <1>8 DEF Kept
  <2>2. Pending(p, r) /\ Appended(p, r)'
    BY <1>2, <1>8, <2>1 DEF Pending, Appended
  <2>3. ~Present(r)
    BY <2>2 DEF OnceOnly
  <2>4. mem \in [Nodes -> [Rows -> 0 .. 2]] /\ stored \in [Rows -> 0 .. 2]
    BY DEF Typed, TypeOK, CopyLimit
  <2>a. \A m \in Nodes : mem[m][r] \in 0 .. 2 /\ ~(mem[m][r] > 0)
    BY <2>3, <2>4 DEF Present, InMemory
  <2>b. stored[r] \in 0 .. 2 /\ ~(stored[r] > 0)
    BY <2>3, <2>4 DEF Present
  <2>5. stored[r] = 0 /\ \A m \in Nodes : mem[m][r] = 0
    BY <2>a, <2>b
  <2>6. stored'[r] = 0 /\ mem'[n][r] = 1 /\ \A m \in Nodes : m # n => mem'[m][r] = 0
    BY <1>6, <1>8, <2>5
  <2>7. ~Twice(r)'
    <3> HIDE DEF n
    <3> QED BY <2>6 DEF Twice
  <2>8. \A q \in Slots : ~Pending(q, r)'
    <3> SUFFICES ASSUME NEW q \in Slots, Pending(q, r)' PROVE FALSE
      OBVIOUS
    <3>1. Pending(q, r)
      BY <1>4
    <3>2. Served(q) /\ r \in handler[q].rows
      BY <3>1 DEF Pending, Served
    <3>3. q = p
      BY <1>2, <2>1, <3>2, OneCarrier
    <3>4. ~Appended(p, r)'
      BY <3>3 DEF Pending
    <3> QED BY <2>2, <3>4
  <2>9. \A a, b \in tried' : r \in a /\ r \in b => a = b
    BY <1>1 DEF OnceOnly
  <2> QED BY <2>2, <2>7, <2>8, <2>9 DEF OnceOnly
<1> QED BY <1>7, <1>8

LEMMA FlushOnce ==
    ASSUME Typed, NEW r \in Rows, OnceOnly(r), NEW n \in Nodes, FlushNode(n)
    PROVE  OnceOnly(r)'
<1>1. UNCHANGED <<markers, tried, handler>>
  BY DEF FlushNode
<1>2. /\ stored[r] \in 0 .. 2 /\ mem[n][r] \in 0 .. 2
      /\ stored'[r] = IF stored[r] + mem[n][r] <= 1 THEN stored[r] + mem[n][r] ELSE 2
      /\ mem'[n][r] = 0 /\ \A m \in Nodes : m # n => mem'[m] = mem[m]
  BY StoredAfterFlush
<1>3. /\ ~(stored[r] > 1) /\ ~(mem[n][r] > 1) /\ ~(mem[n][r] > 0 /\ stored[r] > 0)
      /\ \A m \in Nodes : ~(mem[m][r] > 1) /\ ~(mem[m][r] > 0 /\ stored[r] > 0)
      /\ \A k, m \in Nodes : k # m => ~(mem[k][r] > 0 /\ mem[m][r] > 0)
  BY DEF OnceOnly, Twice
<1>4. ~(stored'[r] > 1) /\ (stored'[r] > 0 => stored[r] > 0 \/ mem[n][r] > 0)
  BY <1>2, <1>3
<1>5. ~Twice(r)'
  <2>1. \A m \in Nodes : ~(mem'[m][r] > 1) /\ ~(mem'[m][r] > 0 /\ stored'[r] > 0)
    BY <1>2, <1>3, <1>4
  <2>2. \A k, m \in Nodes : k # m => ~(mem'[k][r] > 0 /\ mem'[m][r] > 0)
    BY <1>2, <1>3
  <2> QED BY <1>4, <2>1, <2>2 DEF Twice
<1>6. Present(r)' => Present(r)
  BY <1>2, <1>4 DEF Present, InMemory
<1>7. IsMarked(r)' <=> IsMarked(r)
  BY <1>1, SameMarkers
<1>8. \A q \in Slots : /\ Appended(q, r) => Appended(q, r)'
                       /\ Pending(q, r)' => Pending(q, r)
  BY <1>1, SameCall
<1> QED BY <1>1, <1>5, <1>6, <1>7, <1>8, StillOnce

LEMMA CrashOnce ==
    ASSUME Typed, NEW r \in Rows \ excused', OnceOnly(r), NEW n \in Nodes, CentralCrash(n)
    PROVE  OnceOnly(r)'
<1>1. UNCHANGED <<markers, tried>>
  BY DEF CentralCrash
<1>2. /\ stored' = stored /\ mem'[n][r] = 0
      /\ \A m \in Nodes : m # n => mem'[m] = mem[m]
  BY MemAfterCrash
<1>3. ~Twice(r)' /\ (Present(r)' => Present(r))
  BY <1>2 DEF OnceOnly, Twice, Present, InMemory
<1>4. ASSUME NEW q \in Slots
      PROVE  (Appended(q, r) => Appended(q, r)') /\ (Pending(q, r)' => Pending(q, r))
  <2>1. CASE handler'[q] = handler[q]
    BY <2>1, SameCall
  <2>2. CASE handler'[q] # handler[q]
    <3>1. handler'[q] = NoHandler /\ handler[q].rows \subseteq excused'
      BY <2>2, CrashCalls
    <3> QED BY <3>1, IdleCall DEF NoHandler
  <2> QED BY <2>1, <2>2
<1>5. IsMarked(r)' <=> IsMarked(r)
  BY <1>1, SameMarkers
<1> QED BY <1>1, <1>3, <1>4, <1>5, StillOnce

(* A new batch shares no row with an earlier one, but the excused ones.    *)
LEMMA PostOnce ==
    ASSUME Typed, NEW r \in Rows \ excused', OnceOnly(r),
           NEW p \in Slots, NEW n \in Nodes, FlushBatch(p, n)
    PROVE  OnceOnly(r)'
<1>1. UNCHANGED <<mem, stored, markers>>
  BY DEF FlushBatch, svars
<1>2. /\ tried' = tried \cup {batch'} /\ excused' = excused \cup Regrouped(batch')
      /\ handler[p] = NoHandler
      /\ \A q \in Slots : q # p => handler'[q] = handler[q]
      /\ handler'[p] = handler[p] \/ handler'[p].pc = "check"
  BY FlushCall
<1>3. \A o \in tried : r \in o /\ r \in batch' => o = batch'
  BY <1>2 DEF Regrouped
<1>4. \A a, b \in tried' : r \in a /\ r \in b => a = b
  BY <1>2, <1>3 DEF OnceOnly
<1>5. ASSUME NEW q \in Slots
      PROVE  (Appended(q, r) => Appended(q, r)') /\ (Pending(q, r)' => Pending(q, r))
  <2>1. CASE handler'[q] = handler[q]
    BY <2>1, SameCall
  <2>2. CASE handler'[q] # handler[q]
    BY <1>2, <2>2, IdleCall DEF NoHandler
  <2> QED BY <2>1, <2>2
<1>6. (Twice(r)' <=> Twice(r)) /\ (Present(r)' <=> Present(r)) /\ (IsMarked(r)' <=> IsMarked(r))
  BY <1>1, SameCopies, SameMarkers
<1> QED BY <1>4, <1>5, <1>6 DEF OnceOnly

LEMMA AbandonOnce ==
    ASSUME Typed, NEW r \in Rows \ excused', OnceOnly(r), GiveUp \/ ForwarderCrash
    PROVE  OnceOnly(r)'
<1>1. /\ UNCHANGED <<mem, stored, markers, tried>>
      /\ handler' = Abandoned /\ excused' = excused \cup Running
  BY DEF GiveUp, ForwarderCrash, svars
<1>2. ASSUME NEW q \in Slots PROVE ~Appended(q, r) /\ ~Pending(q, r)'
  <2>1. handler[q].pc # "none" => r \notin handler[q].rows
    BY <1>1 DEF Running
  <2>2. handler'[q].pc = handler[q].pc
        /\ (handler[q].pc # "none" => handler'[q].rows = handler[q].rows)
    BY <1>1, AbandonedCalls
  <2> QED BY <2>1, <2>2 DEF Appended, Pending
<1>3. (Twice(r)' <=> Twice(r)) /\ (Present(r)' <=> Present(r)) /\ (IsMarked(r)' <=> IsMarked(r))
  BY <1>1, SameCopies, SameMarkers
<1>4. ~Twice(r)'
  BY <1>3 DEF OnceOnly
<1> QED BY <1>1, <1>2, <1>3, <1>4, StillOnce

LEMMA BackoffOnce ==
    ASSUME Typed, NEW r \in Rows \ excused', OnceOnly(r), NEW peak \in BOOLEAN, Backoff(peak)
    PROVE  OnceOnly(r)'
<1>1. /\ UNCHANGED <<mem, stored, tried, handler>>
      /\ \/ markers' = markers
         \/ /\ markers' = OlderMarkers
            /\ excused' = excused \cup UNION {m[1] : m \in {x \in markers : x[2] <= 1}}
  BY DEF Backoff
<1>2. IsMarked(r) => IsMarked(r)'
  <2> SUFFICES ASSUME NEW m \in markers, r \in m[1] PROVE IsMarked(r)'
    BY DEF IsMarked
  <2>1. CASE markers' = markers
    BY <2>1 DEF IsMarked
  <2>2. CASE /\ markers' = OlderMarkers
             /\ excused' = excused \cup UNION {x[1] : x \in {y \in markers : y[2] <= 1}}
    <3>0. m \in (SUBSET Rows) \X (1 .. MarkerLife)
      BY DEF Typed, TypeOK
    <3>1. m[2] \in Int
      BY <3>0, ResultPipelineAssumption
    <3>2. ~(m[2] <= 1)
      BY <2>2
    <3>3. m[2] > 1
      BY <3>1, <3>2
    <3>4. <<m[1], m[2] - 1>> \in markers'
      BY <2>2, <3>3 DEF OlderMarkers
    <3>5. r \in <<m[1], m[2] - 1>>[1]
      OBVIOUS
    <3> QED BY <3>4, <3>5 DEF IsMarked
  <2> QED BY <1>1, <2>1, <2>2
<1>3. \A q \in Slots : /\ Appended(q, r) => Appended(q, r)'
                       /\ Pending(q, r)' => Pending(q, r)
  BY <1>1, SameCall
<1>4. ~Twice(r)' /\ (Present(r)' => Present(r))
  BY <1>1, SameCopies DEF OnceOnly
<1> QED BY <1>1, <1>2, <1>3, <1>4, StillOnce

LEMMA StepUnique ==
    ASSUME Typed, Serving, Ingested, Unique, Next
    PROVE  Unique'
<1> SUFFICES ASSUME NEW r \in Rows \ excused' PROVE OnceOnly(r)'
  <2>1. \A x \in Rows \ excused' : OnceOnly(x)'
    OBVIOUS
  <2> QED BY <2>1 DEF Unique, OnceOnly, IsMarked, Pending
<1>0. r \in Rows \ excused /\ r \notin excused /\ r \in Rows
  BY MoreExcused
<1>1. OnceOnly(r)
  BY <1>0, UniqueIsOnceOnly
<1>2. CASE \/ EnqueueResult \/ PostUnreachable \/ GetAnswer \/ EnforceSizeCap
           \/ \E cutoff \in Rows : Cleanup(cutoff)
  <2>1. UNCHANGED <<mem, stored, markers, tried, handler>>
    BY <1>2 DEF EnqueueResult, PostUnreachable, GetAnswer, EnforceSizeCap, Cleanup, svars
  <2> QED BY <1>1, <2>1 DEF OnceOnly, Twice, Present, InMemory, IsMarked, Appended, Pending
<1>3. ASSUME NEW p \in Slots, NEW n \in Nodes, FlushBatch(p, n) PROVE OnceOnly(r)'
  BY <1>1, <1>3, PostOnce
<1>4. CASE GiveUp \/ ForwarderCrash
  BY <1>1, <1>4, AbandonOnce
<1>5. ASSUME NEW peak \in BOOLEAN, Backoff(peak) PROVE OnceOnly(r)'
  BY <1>1, <1>5, BackoffOnce
<1>6. ASSUME NEW p \in Slots, NEW yes \in BOOLEAN, CheckBatch(p, yes) PROVE OnceOnly(r)'
  BY <1>0, <1>1, <1>6, CheckOnce
<1>7. ASSUME NEW p \in Slots, NEW yes \in BOOLEAN, ResolveCaller(p, yes) PROVE OnceOnly(r)'
  BY <1>0, <1>1, <1>7, ResolveOnce
<1>8. ASSUME NEW p \in Slots, NEW yes \in BOOLEAN, StampBatch(p, yes) PROVE OnceOnly(r)'
  BY <1>1, <1>8, StampOnce
<1>9. ASSUME NEW p \in Slots, NEW t \in Tables, AppendTable(p, t) PROVE OnceOnly(r)'
  BY <1>0, <1>1, <1>9, AppendOnce
<1>10. ASSUME NEW n \in Nodes, FlushNode(n) PROVE OnceOnly(r)'
  BY <1>0, <1>1, <1>10, FlushOnce
<1>11. ASSUME NEW n \in Nodes, CentralCrash(n) PROVE OnceOnly(r)'
  BY <1>1, <1>11, CrashOnce
<1> QED
  BY <1>2, <1>3, <1>4, <1>5, <1>6, <1>7, <1>8, <1>9, <1>10, <1>11 DEF Next

-----------------------------------------------------------------------------
(***************************************************************************)
(* The theorems.                                                           *)
(***************************************************************************)
LEMMA StepPInv == PInv /\ [Next]_vars => PInv'
<1>1. CASE PInv /\ Next
  BY <1>1, StepTyped, StepOrdered, StepServing, StepIngested, StepUnique DEF PInv
<1>2. CASE PInv /\ UNCHANGED vars
  <2>1. UNCHANGED <<unsent, sent, next, fwd, batch, handler, answer, markers, mem, stored,
                    refused, dropped, crashed, tried, failed, excused>>
    BY <1>2 DEF vars
  <2>2. Typed'
    BY <1>2, <2>1 DEF PInv, Typed, TypeOK
  <2>3. Ordered'
    BY <1>2, <2>1 DEF PInv, Ordered, ForwardedInOrder
  <2>4. Serving'
    BY <1>2, <2>1 DEF PInv, Serving, Served
  <2>5. Ingested'
    BY <1>2, <2>1 DEF PInv, Ingested, SentWasTakenOver, TakenOver, Present, InMemory, Accounted, Kept
  <2>6. Unique'
    BY <1>2, <2>1 DEF PInv, Unique, Twice, Present, InMemory, Appended
  <2> QED BY <2>2, <2>3, <2>4, <2>5, <2>6 DEF PInv
<1> QED BY <1>1, <1>2

(* The five parts hold in every state the pipeline can reach.              *)
THEOREM InvariantPInv == Spec => []PInv
BY InitPInv, StepPInv, PTL DEF Spec

(***************************************************************************)
(* No false acknowledgement and no marker before its batch is ingested:    *)
(* whatever times out, crashes or is retried, a row marked sent by the     *)
(* forwarder was taken over or refused by submit_results, and batch_seen   *)
(* is set only for batches whose rows were all appended.                   *)
(***************************************************************************)
THEOREM NoFalseAcknowledgement == Spec => []PipelineInvariant
<1>1. PInv => PipelineInvariant
  BY DEF PInv, Typed, Ingested, PipelineInvariant, MarkerAfterIngest, Accounted, TakenOver,
         Present, Kept
<1> QED BY <1>1, InvariantPInv, PTL

(***************************************************************************)
(* A row is in central twice only after one of the gaps the batch          *)
(* deduplication is known to have.                                         *)
(***************************************************************************)
THEOREM DuplicatesHaveACause == Spec => []DuplicateHasCause
<1>1. PInv => DuplicateHasCause
  BY DEF PInv, Unique, DuplicateHasCause
<1> QED BY <1>1, InvariantPInv, PTL

(* No row is marked sent while an older one still waits.                   *)
THEOREM OldestFirst == Spec => []ForwardedInOrder
<1>1. PInv => ForwardedInOrder
  BY DEF PInv, Ordered
<1> QED BY <1>1, InvariantPInv, PTL

(***************************************************************************)
(* A full batch whose POST failed is posted again unchanged, so that the   *)
(* retry carries the batch_id central may already know.                    *)
(***************************************************************************)
LEMMA StepRetry ==
    PInv /\ [Next]_vars => [Retry /\ Cardinality(failed) = BatchSize => batch' = failed]_vars
<1> SUFFICES ASSUME PInv, Next, Retry, Cardinality(failed) = BatchSize PROVE batch' = failed
  OBVIOUS
<1>1. fwd = "idle" /\ fwd' = "posting" /\ failed \subseteq unsent
  BY DEF Retry
<1>2. \E p \in Slots, n \in Nodes : FlushBatch(p, n)
  BY <1>1 DEF Next, EnqueueResult, PostUnreachable, GetAnswer, GiveUp, Backoff,
       EnforceSizeCap, Cleanup, ForwarderCrash, CheckBatch, ResolveCaller, StampBatch,
       AppendTable, FlushNode, CentralCrash
<1>3. batch' = Oldest(unsent, BatchSize)
  BY <1>2 DEF FlushBatch
<1>4. \A r \in failed, u \in unsent \ failed : r < u
  BY DEF PInv, Ordered
<1>5. unsent \in SUBSET Rows
  BY DEF PInv, Typed, TypeOK
<1>6. Oldest(unsent, Cardinality(failed)) = failed
  BY <1>1, <1>4, <1>5, FullBatchIsOldest
<1> QED BY <1>3, <1>6

THEOREM FullBatchIsRetriedUnchanged == Spec => FullBatchRetriesUnchanged
BY InvariantPInv, StepRetry, PTL DEF Spec, FullBatchRetriesUnchanged
=============================================================================
