--------------------------- MODULE ChBufferProofs ---------------------------
(***************************************************************************)
(* Proofs about ChBuffer, for every set of tables and requests and every   *)
(* threshold, cap and bound that satisfy ChBufferAssumption.               *)
(***************************************************************************)
EXTENDS ChBuffer, TLAPS, SequenceTheorems, FiniteSetTheorems

(* The elements of a sequence over S are members of S.                     *)
LEMMA ToSetType ==
    ASSUME NEW S, NEW s \in Seq(S)
    PROVE  ToSet(s) \subseteq S
BY LenProperties, ElementOfSeq DEF ToSet

(* The elements of a concatenation, and of the two parts of a cut.         *)
LEMMA ToSetConcat ==
    ASSUME NEW S, NEW a \in Seq(S), NEW b \in Seq(S)
    PROVE  ToSet(a \o b) = ToSet(a) \cup ToSet(b)
<1>1. /\ a \o b \in Seq(S)
      /\ Len(a \o b) = Len(a) + Len(b)
      /\ Len(a) \in Nat /\ Len(b) \in Nat
      /\ \A i \in 1..(Len(a) + Len(b)) :
            (a \o b)[i] = IF i <= Len(a) THEN a[i] ELSE b[i - Len(a)]
  BY ConcatProperties, LenProperties
<1>2. /\ DOMAIN (a \o b) = 1..(Len(a) + Len(b))
      /\ DOMAIN a = 1..Len(a) /\ DOMAIN b = 1..Len(b)
  BY <1>1, LenProperties
<1>3. ASSUME NEW x \in ToSet(a \o b) PROVE x \in ToSet(a) \cup ToSet(b)
  <2>1. PICK i \in 1..(Len(a) + Len(b)) : x = (a \o b)[i]
    BY <1>2 DEF ToSet
  <2>2. CASE i <= Len(a)
    <3>1. i \in DOMAIN a /\ x = a[i]
      BY <2>1, <2>2, <1>1, <1>2
    <3> QED BY <3>1 DEF ToSet
  <2>3. CASE ~(i <= Len(a))
    <3>1. i - Len(a) \in DOMAIN b /\ x = b[i - Len(a)]
      BY <2>1, <2>3, <1>1, <1>2
    <3> QED BY <3>1 DEF ToSet
  <2> QED BY <2>2, <2>3
<1>4. ASSUME NEW x \in ToSet(a) PROVE x \in ToSet(a \o b)
  <2>1. PICK i \in 1..Len(a) : x = a[i]
    BY <1>2 DEF ToSet
  <2>2. i \in DOMAIN (a \o b) /\ x = (a \o b)[i]
    BY <2>1, <1>1, <1>2
  <2> QED BY <2>2 DEF ToSet
<1>5. ASSUME NEW x \in ToSet(b) PROVE x \in ToSet(a \o b)
  <2>1. PICK i \in 1..Len(b) : x = b[i]
    BY <1>2 DEF ToSet
  <2>2. Len(a) + i \in DOMAIN (a \o b) /\ x = (a \o b)[Len(a) + i]
    BY <2>1, <1>1, <1>2
  <2> QED BY <2>2 DEF ToSet
<1> QED
  BY <1>3, <1>4, <1>5

LEMMA ToSetSplit ==
    ASSUME NEW S, NEW m \in Seq(S), NEW n \in 0..Len(m)
    PROVE  ToSet(m) = ToSet(SubSeq(m, 1, n)) \cup ToSet(SubSeq(m, n + 1, Len(m)))
<1> DEFINE u == SubSeq(m, 1, n)
           v == SubSeq(m, n + 1, Len(m))
<1>1. /\ Len(m) \in Nat /\ n \in Nat /\ n <= Len(m)
      /\ DOMAIN m = 1..Len(m)
  BY LenProperties
<1>2. /\ u \in Seq(S) /\ DOMAIN u = 1..n
      /\ \A i \in 1..n : u[i] = m[i]
  BY <1>1, SubSeqProperties, LenProperties
<1>3. /\ v \in Seq(S) /\ DOMAIN v = 1..(Len(m) - n)
      /\ \A i \in 1..(Len(m) - n) : v[i] = m[n + i]
  BY <1>1, SubSeqProperties, LenProperties
<1>4. ASSUME NEW x \in ToSet(m) PROVE x \in ToSet(u) \cup ToSet(v)
  <2>1. PICK i \in 1..Len(m) : x = m[i]
    BY <1>1 DEF ToSet
  <2>2. CASE i <= n
    <3>1. i \in DOMAIN u /\ x = u[i]
      BY <2>1, <2>2, <1>1, <1>2
    <3> QED BY <3>1 DEF ToSet
  <2>3. CASE ~(i <= n)
    <3>1. i - n \in DOMAIN v /\ x = v[i - n]
      BY <2>1, <2>3, <1>1, <1>3
    <3> QED BY <3>1 DEF ToSet
  <2> QED BY <2>2, <2>3
<1>5. ASSUME NEW x \in ToSet(u) PROVE x \in ToSet(m)
  <2>1. PICK i \in 1..n : x = u[i]
    BY <1>2 DEF ToSet
  <2>2. i \in DOMAIN m /\ x = m[i]
    BY <2>1, <1>1, <1>2
  <2> QED BY <2>2 DEF ToSet
<1>6. ASSUME NEW x \in ToSet(v) PROVE x \in ToSet(m)
  <2>1. PICK i \in 1..(Len(m) - n) : x = v[i]
    BY <1>3 DEF ToSet
  <2>2. n + i \in DOMAIN m /\ x = m[n + i]
    BY <2>1, <1>1, <1>3
  <2> QED BY <2>2 DEF ToSet
<1> QED
  BY <1>4, <1>5, <1>6

(* A re-buffered table holds rows, and no more of them than the cap.       *)
LEMMA RebufferType ==
    ASSUME NEW a \in Seq(Rows), NEW b \in Seq(Rows)
    PROVE  /\ Rebuffer(a, b) \in Seq(Rows)
           /\ Len(Rebuffer(a, b)) <= MaxBufferRows
           /\ Cut(a, b) \subseteq Rows
<1> DEFINE m == a \o b
<1>1. m \in Seq(Rows) /\ Len(m) \in Nat
  BY ConcatProperties, LenProperties
<1>2. Excess(m) \in 0..Len(m)
  BY <1>1, ChBufferAssumption DEF Excess
<1>3. /\ SubSeq(m, Excess(m) + 1, Len(m)) \in Seq(Rows)
      /\ SubSeq(m, 1, Excess(m)) \in Seq(Rows)
  BY <1>1, <1>2, SubSeqProperties
<1>4. Len(SubSeq(m, Excess(m) + 1, Len(m))) <= MaxBufferRows
  BY <1>1, <1>2, SubSeqProperties, ChBufferAssumption DEF Excess
<1>5. ToSet(SubSeq(m, 1, Excess(m))) \subseteq Rows
  BY <1>3, ToSetType
<1> QED
  BY <1>3, <1>4, <1>5 DEF Rebuffer, Cut

-----------------------------------------------------------------------------
(***************************************************************************)
(* The inductive invariant.  Beyond the types it says that only a task     *)
(* inside an insert holds rows, and that an orphaned insert exists only    *)
(* during a stop(): Pop, Stop and OrphanEnds would otherwise overwrite     *)
(* rows.                                                                   *)
(***************************************************************************)
HeldOnlyInserting == \A f \in Flushers : pc[f] # "insert" => held[f] = <<>>
OrphanOnlyStopping == phase # "stopping" => orphan = <<>>
IInv == TypeOK /\ HeldOnlyInserting /\ OrphanOnlyStopping

LEMMA InitIInv == Init => IInv
<1> SUFFICES ASSUME Init PROVE IInv
  OBVIOUS
<1> USE ChBufferAssumption DEF Init
<1>1. TypeOK
  BY DEF TypeOK, Flushers, Rows
<1> QED
  BY <1>1 DEF IInv, HeldOnlyInserting, OrphanOnlyStopping

LEMMA StepIInv == IInv /\ [Next]_vars => IInv'
<1> SUFFICES ASSUME IInv, [Next]_vars PROVE IInv'
  OBVIOUS
<1> USE DEF IInv, HeldOnlyInserting, OrphanOnlyStopping, TypeOK
<1>1. ASSUME NEW r \in Requests, NEW t \in Tables, NEW k \in 1..MaxRequestRows,
             AppendRows(r, t, k)
      PROVE  IInv'
  <2>1. NewRows(k) \in Seq(Rows)
    <3>1. \A i \in 1..k : next + i - 1 \in Rows
      BY <1>1, ChBufferAssumption DEF AppendRows, Rows
    <3>2. k \in Nat
      BY ChBufferAssumption
    <3> QED BY <3>1, <3>2, IsASeq DEF NewRows
  <2>2. buffers[t] \o NewRows(k) \in Seq(Rows)
    BY <2>1, ConcatProperties
  <2>3. buffers' \in [Tables -> Seq(Rows)]
    BY <1>1, <2>2 DEF AppendRows
  <2>4. next' \in 1..(RowLimit + 1)
    BY <1>1, ChBufferAssumption DEF AppendRows
  <2>5. /\ pc' \in [Flushers -> {"idle", "pop", "insert"}]
        /\ tab' \in [Flushers -> Tables]
        /\ \A f \in Flushers : pc'[f] # "insert" => pc[f] # "insert"
    BY <1>1 DEF AppendRows, Flushers
  <2> QED
    BY <1>1, <2>3, <2>4, <2>5 DEF AppendRows
<1>2. CASE FlushAll
  BY <1>2 DEF FlushAll, Waiting
<1>3. ASSUME NEW t \in Tables, VisitTable(t) PROVE IInv'
  BY <1>3 DEF VisitTable, Flushers
<1>4. ASSUME NEW f \in Flushers, Pop(f) PROVE IInv'
  <2>1. CASE buffers[tab[f]] = <<>>
    BY <1>4, <2>1 DEF Pop
  <2>2. CASE buffers[tab[f]] # <<>>
    <3>a. /\ tab[f] \in Tables
          /\ buffers[tab[f]] \in Seq(Rows)
          /\ pc' = [pc EXCEPT ![f] = "insert"]
          /\ held' = [held EXCEPT ![f] = buffers[tab[f]]]
          /\ buffers' = [buffers EXCEPT ![tab[f]] = <<>>]
      BY <1>4, <2>2 DEF Pop
    <3>b. <<>> \in Seq(Rows)
      OBVIOUS
    <3>1. /\ buffers' \in [Tables -> Seq(Rows)]
          /\ held' \in [Flushers -> Seq(Rows)]
          /\ pc' \in [Flushers -> {"idle", "pop", "insert"}]
      BY <3>a, <3>b
    <3>2. HeldOnlyInserting'
      BY <1>4, <2>2 DEF Pop
    <3> QED BY <1>4, <3>1, <3>2 DEF Pop
  <2> QED BY <2>1, <2>2
<1>5. ASSUME NEW f \in Flushers, InsertOk(f) PROVE IInv'
  <2>1. ToSet(held[f]) \subseteq Rows
    BY ToSetType
  <2>2. stored' \subseteq Rows /\ doubled' \subseteq Rows
    BY <1>5, <2>1 DEF InsertOk, Store
  <2> QED
    BY <1>5, <2>2 DEF InsertOk
<1>6. ASSUME NEW f \in Flushers, NEW hit \in BOOLEAN, InsertFail(f, hit) PROVE IInv'
  <2>1. ToSet(held[f]) \subseteq Rows
    BY ToSetType
  <2>2. stored' \subseteq Rows /\ doubled' \subseteq Rows /\ landed' \subseteq Rows
    BY <1>6, <2>1 DEF InsertFail, Store
  <2>3. /\ Rebuffer(held[f], buffers[tab[f]]) \in Seq(Rows)
        /\ Cut(held[f], buffers[tab[f]]) \subseteq Rows
    BY RebufferType
  <2>4. buffers' \in [Tables -> Seq(Rows)] /\ dropped' \subseteq Rows
    BY <1>6, <2>3 DEF InsertFail
  <2> QED
    BY <1>6, <2>2, <2>4 DEF InsertFail
<1>7. CASE Stop
  BY <1>7 DEF Stop, Waiting, Flushers
<1>8. ASSUME NEW ok \in BOOLEAN, OrphanEnds(ok) PROVE IInv'
  <2>1. ToSet(orphan) \subseteq Rows
    BY ToSetType
  <2>2. stored' \subseteq Rows /\ doubled' \subseteq Rows /\ lost' \subseteq Rows
    BY <1>8, <2>1 DEF OrphanEnds, Store
  <2> QED
    BY <1>8, <2>2 DEF OrphanEnds
<1>9. ASSUME Die PROVE IInv'
  <2>1. Buffered \subseteq Rows /\ Held \subseteq Rows /\ ToSet(orphan) \subseteq Rows
    BY ToSetType DEF Buffered, Held
  <2>2. lost' \subseteq Rows
    BY <1>9, <2>1 DEF Die
  <2>3. /\ buffers' \in [Tables -> Seq(Rows)]
        /\ held' \in [Flushers -> Seq(Rows)]
        /\ orphan' \in Seq(Rows)
    BY <1>9 DEF Die
  <2> QED
    BY <1>9, <2>2, <2>3 DEF Die
<1>10. CASE Exit
  BY <1>9, <1>10 DEF Exit
<1>11. CASE Crash
  BY <1>9, <1>11 DEF Crash
<1>12. CASE Start
  BY <1>12 DEF Start
<1>13. CASE UNCHANGED vars
  BY <1>13 DEF vars
<1> QED
  BY <1>1, <1>2, <1>3, <1>4, <1>5, <1>6, <1>7, <1>8, <1>10, <1>11, <1>12,
     <1>13 DEF Next

(***************************************************************************)
(* The types of the write buffer's state hold in every behaviour.          *)
(***************************************************************************)
THEOREM TypeCorrect == Spec => []TypeOK
<1>1. Spec => []IInv
  BY InitIInv, StepIInv, PTL DEF Spec
<1>2. IInv => TypeOK
  BY DEF IInv
<1> QED
  BY <1>1, <1>2, PTL

-----------------------------------------------------------------------------
(* Nothing of two parts is lost by a re-buffering: it is kept or cut.      *)
LEMMA RebufferKeeps ==
    ASSUME NEW a \in Seq(Rows), NEW b \in Seq(Rows)
    PROVE  ToSet(a) \cup ToSet(b) \subseteq ToSet(Rebuffer(a, b)) \cup Cut(a, b)
<1> DEFINE m == a \o b
<1>1. m \in Seq(Rows) /\ Len(m) \in Nat
  BY ConcatProperties, LenProperties
<1>2. Excess(m) \in 0..Len(m)
  BY <1>1, ChBufferAssumption DEF Excess
<1>3. ToSet(m) = ToSet(SubSeq(m, 1, Excess(m))) \cup ToSet(SubSeq(m, Excess(m) + 1, Len(m)))
  BY <1>1, <1>2, ToSetSplit
<1>4. ToSet(m) = ToSet(a) \cup ToSet(b)
  BY ToSetConcat
<1> QED
  BY <1>3, <1>4 DEF Rebuffer, Cut

(* Where an accounted row is.                                              *)
LEMMA Where ==
    \A x : x \in Accounted <=>
        \/ \E t \in Tables : x \in ToSet(buffers[t])
        \/ \E f \in Flushers : x \in ToSet(held[f])
        \/ x \in ToSet(orphan) \/ x \in stored \/ x \in dropped \/ x \in lost
BY DEF Accounted, Buffered, Held

LEMMA ToSetEmpty == ToSet(<<>>) = {}
BY DEF ToSet

(***************************************************************************)
(* Every step keeps every accepted row accounted for.  The cases that need *)
(* the inductive invariant: Pop overwrites held[f], Stop overwrites the    *)
(* orphan, and both were empty.                                            *)
(***************************************************************************)
LEMMA StepAccounted == IInv /\ NoSilentLoss /\ [Next]_vars => NoSilentLoss'
<1> SUFFICES ASSUME IInv, NoSilentLoss, [Next]_vars, NEW x \in 1..(next' - 1)
             PROVE  x \in Accounted'
  BY DEF NoSilentLoss
<1> DEFINE At(b, h, o, s, d, l) ==
             \/ \E t \in Tables : x \in ToSet(b[t])
             \/ \E f \in Flushers : x \in ToSet(h[f])
             \/ x \in ToSet(o) \/ x \in s \/ x \in d \/ x \in l
<1>a. x \in Accounted <=> At(buffers, held, orphan, stored, dropped, lost)
  BY Where
<1>b. x \in Accounted' <=> At(buffers', held', orphan', stored', dropped', lost')
  BY DEF Accounted, Buffered, Held
<1>c. next' = next => x \in Accounted
  BY DEF NoSilentLoss
<1>t. TypeOK /\ HeldOnlyInserting /\ OrphanOnlyStopping
  BY DEF IInv
<1> HIDE DEF IInv
<1>1. ASSUME NEW r \in Requests, NEW t \in Tables, NEW k \in 1..MaxRequestRows,
             AppendRows(r, t, k)
      PROVE  x \in Accounted'
  <2>1. NewRows(k) \in Seq(Rows)
    <3>1. \A i \in 1..k : next + i - 1 \in Rows
      BY <1>1, <1>t, ChBufferAssumption DEF AppendRows, Rows, TypeOK
    <3>2. k \in Nat
      BY ChBufferAssumption
    <3> QED BY <3>1, <3>2, IsASeq DEF NewRows
  <2>2. buffers[t] \in Seq(Rows)
    BY <1>t DEF TypeOK
  <2>3. /\ buffers' = [buffers EXCEPT ![t] = buffers[t] \o NewRows(k)]
        /\ UNCHANGED <<held, orphan, stored, dropped, lost>>
        /\ next' = next + k
        /\ buffers'[t] = buffers[t] \o NewRows(k)
        /\ \A u \in Tables : u # t => buffers'[u] = buffers[u]
    BY <1>1, <1>t DEF AppendRows, TypeOK
  <2>4. ToSet(buffers'[t]) = ToSet(buffers[t]) \cup ToSet(NewRows(k))
    <3>1. ToSet(buffers[t] \o NewRows(k)) = ToSet(buffers[t]) \cup ToSet(NewRows(k))
      BY <2>1, <2>2, ToSetConcat
    <3>2. buffers'[t] = buffers[t] \o NewRows(k)
      BY <2>3
    <3> QED BY ONLY <3>1, <3>2
  <2>5. CASE x \in 1..(next - 1)
    <3>1. At(buffers, held, orphan, stored, dropped, lost)
      BY <2>5, <1>a DEF NoSilentLoss
    <3> QED BY <3>1, <2>3, <2>4, <1>b
  <2>6. CASE ~(x \in 1..(next - 1))
    <3>1. next \in Nat /\ k \in Nat /\ next >= 1
      BY <1>t, ChBufferAssumption DEF TypeOK
    <3>2. x - next + 1 \in 1..k
      BY <2>3, <2>6, <3>1
    <3>3. NewRows(k)[x - next + 1] = x /\ DOMAIN NewRows(k) = 1..k
      BY <3>1, <3>2 DEF NewRows
    <3>4. x \in ToSet(NewRows(k))
      BY <3>2, <3>3 DEF ToSet
    <3> QED BY <3>4, <2>4, <1>b
  <2> QED BY <2>5, <2>6
<1>2. CASE FlushAll
  BY <1>2, <1>a, <1>b, <1>c DEF FlushAll
<1>3. ASSUME NEW t \in Tables, VisitTable(t) PROVE x \in Accounted'
  BY <1>3, <1>a, <1>b, <1>c DEF VisitTable
<1>4. ASSUME NEW f \in Flushers, Pop(f) PROVE x \in Accounted'
  <2>1. CASE buffers[tab[f]] = <<>>
    BY <1>4, <2>1, <1>a, <1>b, <1>c DEF Pop
  <2>2. CASE buffers[tab[f]] # <<>>
    <3>1. /\ tab[f] \in Tables
          /\ held' = [held EXCEPT ![f] = buffers[tab[f]]]
          /\ buffers' = [buffers EXCEPT ![tab[f]] = <<>>]
          /\ UNCHANGED <<next, orphan, stored, dropped, lost>>
      BY <1>4, <2>2, <1>t DEF Pop, TypeOK
    <3>2. /\ held'[f] = buffers[tab[f]]
          /\ \A g \in Flushers : g # f => held'[g] = held[g]
          /\ \A u \in Tables : u # tab[f] => buffers'[u] = buffers[u]
      BY <3>1, <1>t DEF TypeOK
    <3>3. ToSet(held[f]) = {}
      BY <1>4, <1>t, ToSetEmpty DEF Pop, HeldOnlyInserting
    <3> QED BY <3>1, <3>2, <3>3, <1>a, <1>b, <1>c
  <2> QED BY <2>1, <2>2
<1>5. ASSUME NEW f \in Flushers, InsertOk(f) PROVE x \in Accounted'
  <2>1. /\ UNCHANGED <<buffers, next, orphan, dropped, lost>>
        /\ stored' = stored \cup ToSet(held[f])
        /\ \A g \in Flushers : g # f => held'[g] = held[g]
    BY <1>5, <1>t DEF InsertOk, Store, TypeOK
  <2> QED BY <2>1, <1>a, <1>b, <1>c
<1>6. ASSUME NEW f \in Flushers, NEW hit \in BOOLEAN, InsertFail(f, hit)
      PROVE  x \in Accounted'
  <2> DEFINE t == tab[f]
  <2>1. /\ t \in Tables /\ held[f] \in Seq(Rows) /\ buffers[t] \in Seq(Rows)
        /\ UNCHANGED <<next, orphan, lost>>
        /\ buffers'[t] = Rebuffer(held[f], buffers[t])
        /\ \A u \in Tables : u # t => buffers'[u] = buffers[u]
        /\ dropped' = dropped \cup Cut(held[f], buffers[t])
        /\ \A g \in Flushers : g # f => held'[g] = held[g]
    BY <1>6, <1>t DEF InsertFail, TypeOK
  <2>2. stored \subseteq stored'
    BY <1>6 DEF InsertFail, Store
  <2>3. ToSet(held[f]) \cup ToSet(buffers[t]) \subseteq ToSet(buffers'[t]) \cup dropped'
    BY <2>1, RebufferKeeps
  <2> QED BY <2>1, <2>2, <2>3, <1>a, <1>b, <1>c
<1>7. CASE Stop
  <2>1. /\ UNCHANGED <<buffers, next, stored, dropped, lost>>
        /\ orphan' = held[Loop] /\ orphan = <<>>
        /\ \A g \in Flushers : g # Loop => held'[g] = held[g]
    BY <1>7, <1>t DEF Stop, TypeOK, OrphanOnlyStopping, Flushers
  <2> QED BY <2>1, ToSetEmpty, <1>a, <1>b, <1>c
<1>8. ASSUME NEW ok \in BOOLEAN, OrphanEnds(ok) PROVE x \in Accounted'
  <2>1. /\ UNCHANGED <<buffers, held, next, dropped>>
        /\ stored \subseteq stored' /\ lost \subseteq lost'
        /\ ToSet(orphan) \subseteq stored' \cup lost'
    BY <1>8 DEF OrphanEnds, Store
  <2> QED BY <2>1, <1>a, <1>b, <1>c
<1>9. ASSUME Die PROVE x \in Accounted'
  <2>1. UNCHANGED <<next, stored, dropped>>
    BY <1>9 DEF Die
  <2>2. lost' = lost \cup Buffered \cup Held \cup ToSet(orphan)
    BY <1>9 DEF Die
  <2>3. x \in stored' \cup dropped' \cup lost'
    BY <2>1, <2>2, <1>c DEF Accounted
  <2> QED BY <2>3, <1>b
<1>10. CASE Exit
  BY <1>9, <1>10 DEF Exit
<1>11. CASE Crash
  BY <1>9, <1>11 DEF Crash
<1>12. CASE Start
  BY <1>12, <1>a, <1>b, <1>c DEF Start
<1>13. CASE UNCHANGED vars
  BY <1>13, <1>a, <1>b, <1>c DEF vars
<1> QED
  BY <1>1, <1>2, <1>3, <1>4, <1>5, <1>6, <1>7, <1>8, <1>10, <1>11, <1>12,
     <1>13 DEF Next

(***************************************************************************)
(* No row append() accepted is ever forgotten, whatever the interleaving   *)
(* of requests, flushes, failed inserts, stops and crashes.                *)
(***************************************************************************)
THEOREM RowsAccounted == Spec => []NoSilentLoss
<1>1. Init => NoSilentLoss
  BY DEF Init, NoSilentLoss
<1>2. Spec => []IInv
  BY InitIInv, StepIInv, PTL DEF Spec
<1> QED
  BY <1>1, <1>2, StepAccounted, PTL DEF Spec

-----------------------------------------------------------------------------
(***************************************************************************)
(* The bound of one table: the cap plus one request's rows for each        *)
(* request about to pop it.                                                *)
(***************************************************************************)
Bounded(t) == Len(buffers[t]) <= MaxBufferRows + MaxRequestRows * Cardinality(AboutToPop(t))

LEMMA PoppersFinite ==
    ASSUME NEW t
    PROVE  IsFiniteSet(AboutToPop(t)) /\ Cardinality(AboutToPop(t)) \in Nat
<1>1. AboutToPop(t) \subseteq Requests
  BY DEF AboutToPop
<1> QED
  BY <1>1, ChBufferAssumption, FS_Subset, FS_CardinalityType

(* A table within the cap satisfies the bound, whoever is about to pop it. *)
LEMMA CapSuffices ==
    ASSUME NEW c \in Nat, NEW n \in Nat, n <= MaxBufferRows
    PROVE  n <= MaxBufferRows + MaxRequestRows * c
<1>1. MaxRequestRows * c \in Nat
  BY ChBufferAssumption
<1> QED
  BY <1>1, ChBufferAssumption

LEMMA StepBounded == IInv /\ IInv' /\ BufferBounded /\ [Next]_vars => BufferBounded'
<1> SUFFICES ASSUME IInv, IInv', BufferBounded, [Next]_vars, NEW t \in Tables
             PROVE  Bounded(t)'
  BY DEF BufferBounded, Bounded
<1>a. Bounded(t)
  BY DEF BufferBounded, Bounded
<1>b. /\ TypeOK /\ TypeOK'
      /\ Len(buffers[t]) \in Nat /\ Len(buffers'[t]) \in Nat
  BY LenProperties DEF IInv, TypeOK
<1>c. /\ IsFiniteSet(AboutToPop(t)) /\ Cardinality(AboutToPop(t)) \in Nat
  BY PoppersFinite
<1>d. IsFiniteSet(AboutToPop(t)') /\ Cardinality(AboutToPop(t)') \in Nat
  <2>1. AboutToPop(t)' \subseteq Requests
    BY DEF AboutToPop
  <2> QED BY <2>1, ChBufferAssumption, FS_Subset, FS_CardinalityType
<1>e. ASSUME Len(buffers'[t]) <= MaxBufferRows PROVE Bounded(t)'
  BY <1>b, <1>d, <1>e, CapSuffices DEF Bounded
<1>f. ASSUME buffers'[t] = buffers[t], AboutToPop(t)' = AboutToPop(t) PROVE Bounded(t)'
  BY <1>a, <1>f DEF Bounded
<1>1. ASSUME NEW r \in Requests, NEW u \in Tables, NEW k \in 1..MaxRequestRows,
             AppendRows(r, u, k)
      PROVE  Bounded(t)'
  <2>1. /\ pc[r] = "idle" /\ r \in Flushers /\ k \in Nat /\ k <= MaxRequestRows
        /\ r \notin AboutToPop(t)
    BY <1>1, <1>b, ChBufferAssumption DEF AppendRows, Flushers, AboutToPop
  <2>2. Len(NewRows(k)) = k /\ NewRows(k) \in Seq(Rows)
    <3>1. \A i \in 1..k : next + i - 1 \in Rows
      BY <1>1, <1>b, ChBufferAssumption DEF AppendRows, Rows, TypeOK
    <3>2. NewRows(k) \in Seq(Rows)
      BY <2>1, <3>1, IsASeq DEF NewRows
    <3>3. DOMAIN NewRows(k) = 1..k
      BY DEF NewRows
    <3> QED BY <2>1, <3>2, <3>3, LenProperties
  <2>3. CASE u # t
    <3>1. buffers'[t] = buffers[t]
      BY <1>1, <1>b, <2>3 DEF AppendRows, TypeOK
    <3>2. AboutToPop(t)' = AboutToPop(t)
      BY <1>1, <1>b, <2>1, <2>3 DEF AppendRows, TypeOK, AboutToPop, Flushers
    <3> QED BY <1>f, <3>1, <3>2
  <2>4. CASE u = t
    <3>1. Len(buffers'[t]) = Len(buffers[t]) + k
      <4>1. buffers[t] \in Seq(Rows)
        BY <1>b DEF TypeOK
      <4>2. buffers'[t] = buffers[t] \o NewRows(k)
        BY <1>1, <1>b, <2>4 DEF AppendRows, TypeOK
      <4>3. Len(buffers[t] \o NewRows(k)) = Len(buffers[t]) + Len(NewRows(k))
        BY <4>1, <2>2, ConcatProperties
      <4> QED BY ONLY <4>2, <4>3, <2>2
    <3>2. CASE Len(buffers[t]) + k >= FlushThreshold
      <4>1. AboutToPop(t)' = AboutToPop(t) \cup {r}
        BY <1>1, <1>b, <2>1, <2>4, <3>2 DEF AppendRows, TypeOK, AboutToPop, Flushers
      <4>2. Cardinality(AboutToPop(t)') = Cardinality(AboutToPop(t)) + 1
        BY <4>1, <2>1, <1>c, FS_AddElement
      <4>3. MaxRequestRows * (Cardinality(AboutToPop(t)) + 1)
              = MaxRequestRows * Cardinality(AboutToPop(t)) + MaxRequestRows
        BY <1>c, ChBufferAssumption
      <4>4. MaxRequestRows * Cardinality(AboutToPop(t)) \in Nat
        BY <1>c, ChBufferAssumption
      <4> QED BY <1>a, <1>b, <2>1, <3>1, <4>2, <4>3, <4>4, ChBufferAssumption DEF Bounded
    <3>3. CASE ~(Len(buffers[t]) + k >= FlushThreshold)
      BY <3>1, <3>3, <1>b, <1>e, <2>1, ChBufferAssumption
    <3> QED BY <3>2, <3>3
  <2> QED BY <2>3, <2>4
<1>2. CASE FlushAll
  BY <1>2, <1>f DEF FlushAll, AboutToPop
<1>3. ASSUME NEW u \in Tables, VisitTable(u) PROVE Bounded(t)'
  <2>1. AboutToPop(t)' = AboutToPop(t)
    BY <1>3, <1>b, ChBufferAssumption DEF VisitTable, AboutToPop, TypeOK, Flushers
  <2> QED BY <1>3, <1>f, <2>1 DEF VisitTable
<1>4. ASSUME NEW f \in Flushers, Pop(f) PROVE Bounded(t)'
  <2>1. CASE tab[f] = t
    <3>1. buffers'[t] = <<>>
      BY <1>4, <1>b, <2>1 DEF Pop, TypeOK
    <3>2. Len(buffers'[t]) <= MaxBufferRows
      BY <3>1, ChBufferAssumption
    <3> QED BY <3>2, <1>e
  <2>2. CASE tab[f] # t
    <3>1. buffers'[t] = buffers[t]
      BY <1>4, <1>b, <2>2 DEF Pop, TypeOK
    <3>2. AboutToPop(t)' = AboutToPop(t)
      BY <1>4, <1>b, <2>2 DEF Pop, TypeOK, AboutToPop, Flushers
    <3> QED BY <1>f, <3>1, <3>2
  <2> QED BY <2>1, <2>2
<1>5. ASSUME NEW f \in Flushers, InsertOk(f) PROVE Bounded(t)'
  <2>1. AboutToPop(t)' = AboutToPop(t)
    BY <1>5, <1>b DEF InsertOk, AboutToPop, TypeOK, Flushers
  <2> QED BY <1>5, <1>f, <2>1 DEF InsertOk
<1>6. ASSUME NEW f \in Flushers, NEW hit \in BOOLEAN, InsertFail(f, hit)
      PROVE  Bounded(t)'
  <2>1. CASE tab[f] = t
    <3>1. buffers'[t] = Rebuffer(held[f], buffers[t])
      BY <1>6, <1>b, <2>1 DEF InsertFail, TypeOK
    <3>2. Len(Rebuffer(held[f], buffers[t])) <= MaxBufferRows
      BY <1>b, RebufferType DEF TypeOK
    <3>3. Len(buffers'[t]) <= MaxBufferRows
      BY ONLY <3>1, <3>2
    <3> QED BY <3>3, <1>e
  <2>2. CASE tab[f] # t
    <3>1. buffers'[t] = buffers[t]
      BY <1>6, <1>b, <2>2 DEF InsertFail, TypeOK
    <3>2. AboutToPop(t)' = AboutToPop(t)
      BY <1>6, <1>b DEF InsertFail, TypeOK, AboutToPop, Flushers
    <3> QED BY <1>f, <3>1, <3>2
  <2> QED BY <2>1, <2>2
<1>7. CASE Stop
  <2>1. AboutToPop(t)' = AboutToPop(t)
    BY <1>7, <1>b, ChBufferAssumption DEF Stop, AboutToPop, TypeOK, Flushers
  <2> QED BY <1>7, <1>f, <2>1 DEF Stop
<1>8. ASSUME NEW ok \in BOOLEAN, OrphanEnds(ok) PROVE Bounded(t)'
  BY <1>8, <1>f DEF OrphanEnds, AboutToPop
<1>9. ASSUME Die PROVE Bounded(t)'
  <2>1. Len(buffers'[t]) <= MaxBufferRows
    BY <1>9, ChBufferAssumption DEF Die
  <2> QED BY <2>1, <1>e
<1>10. CASE Exit
  BY <1>9, <1>10 DEF Exit
<1>11. CASE Crash
  BY <1>9, <1>11 DEF Crash
<1>12. CASE Start
  BY <1>12, <1>f DEF Start, AboutToPop
<1>13. CASE UNCHANGED vars
  BY <1>13, <1>f DEF vars, AboutToPop
<1> QED
  BY <1>1, <1>2, <1>3, <1>4, <1>5, <1>6, <1>7, <1>8, <1>10, <1>11, <1>12,
     <1>13 DEF Next

(***************************************************************************)
(* append() has no cap, yet a table never holds more than the cap and one  *)
(* request's rows for each request about to pop it.                        *)
(***************************************************************************)
THEOREM TablesBounded == Spec => []BufferBounded
<1>1. Init => BufferBounded
  <2> SUFFICES ASSUME Init, NEW t \in Tables PROVE Bounded(t)
    BY DEF BufferBounded, Bounded
  <2>1. Len(buffers[t]) = 0
    BY DEF Init
  <2> QED BY <2>1, PoppersFinite, CapSuffices, ChBufferAssumption DEF Bounded
<1>2. Spec => []IInv
  BY InitIInv, StepIInv, PTL DEF Spec
<1> QED
  BY <1>1, <1>2, StepBounded, PTL DEF Spec

-----------------------------------------------------------------------------
(* Two sequences without a row in common, one after the other, and what a  *)
(* cut leaves of them, have no row twice.                                  *)
LEMMA InjectiveConcat ==
    ASSUME NEW a \in Seq(Rows), NEW b \in Seq(Rows),
           IsInjective(a), IsInjective(b), ToSet(a) \cap ToSet(b) = {}
    PROVE  IsInjective(a \o b)
<1>1. /\ DOMAIN a = 1..Len(a) /\ DOMAIN b = 1..Len(b)
      /\ DOMAIN (a \o b) = 1..(Len(a) + Len(b))
      /\ Len(a) \in Nat /\ Len(b) \in Nat
      /\ \A i \in 1..(Len(a) + Len(b)) :
            (a \o b)[i] = IF i <= Len(a) THEN a[i] ELSE b[i - Len(a)]
  BY ConcatProperties, LenProperties
<1> SUFFICES ASSUME NEW i \in 1..(Len(a) + Len(b)), NEW j \in 1..(Len(a) + Len(b)),
                    (a \o b)[i] = (a \o b)[j]
             PROVE  i = j
  BY <1>1 DEF IsInjective
<1>2. \A m \in 1..Len(a), n \in 1..Len(b) : a[m] # b[n]
  BY <1>1 DEF ToSet
<1>3. /\ \A m, n \in 1..Len(a) : a[m] = a[n] => m = n
      /\ \A m, n \in 1..Len(b) : b[m] = b[n] => m = n
  BY <1>1 DEF IsInjective
<1>4. CASE i <= Len(a) /\ j <= Len(a)
  BY <1>1, <1>3, <1>4
<1>5. CASE i <= Len(a) /\ ~(j <= Len(a))
  <2>1. i \in 1..Len(a) /\ j - Len(a) \in 1..Len(b) /\ a[i] = b[j - Len(a)]
    BY <1>1, <1>5
  <2> QED BY <2>1, <1>2
<1>6. CASE ~(i <= Len(a)) /\ j <= Len(a)
  <2>1. j \in 1..Len(a) /\ i - Len(a) \in 1..Len(b) /\ a[j] = b[i - Len(a)]
    BY <1>1, <1>6
  <2> QED BY <2>1, <1>2
<1>7. CASE ~(i <= Len(a)) /\ ~(j <= Len(a))
  <2>1. /\ i - Len(a) \in 1..Len(b) /\ j - Len(a) \in 1..Len(b)
        /\ b[i - Len(a)] = b[j - Len(a)]
    BY <1>1, <1>7
  <2> QED BY <2>1, <1>1, <1>3
<1> QED BY <1>4, <1>5, <1>6, <1>7

LEMMA InjectiveSplit ==
    ASSUME NEW m \in Seq(Rows), NEW n \in 0..Len(m), IsInjective(m)
    PROVE  /\ IsInjective(SubSeq(m, n + 1, Len(m)))
           /\ ToSet(SubSeq(m, 1, n)) \cap ToSet(SubSeq(m, n + 1, Len(m))) = {}
<1> DEFINE u == SubSeq(m, 1, n)
           v == SubSeq(m, n + 1, Len(m))
<1>1. /\ Len(m) \in Nat /\ n \in Nat /\ n <= Len(m)
      /\ DOMAIN m = 1..Len(m)
  BY LenProperties
<1>2. DOMAIN u = 1..n /\ \A i \in 1..n : u[i] = m[i]
  BY <1>1, SubSeqProperties, LenProperties
<1>3. DOMAIN v = 1..(Len(m) - n) /\ \A i \in 1..(Len(m) - n) : v[i] = m[n + i]
  BY <1>1, SubSeqProperties, LenProperties
<1>4. \A i, j \in 1..Len(m) : m[i] = m[j] => i = j
  BY <1>1 DEF IsInjective
<1> HIDE DEF u, v
<1>5. IsInjective(v)
  <2> SUFFICES ASSUME NEW i \in 1..(Len(m) - n), NEW j \in 1..(Len(m) - n), v[i] = v[j]
               PROVE  i = j
    BY <1>3 DEF IsInjective
  <2>1. n + i \in 1..Len(m) /\ n + j \in 1..Len(m) /\ m[n + i] = m[n + j]
    BY <1>1, <1>3
  <2> QED BY <2>1, <1>1, <1>4
<1>6. ASSUME NEW x \in ToSet(u), x \in ToSet(v) PROVE FALSE
  <2>1. PICK i \in 1..n : x = u[i]
    BY <1>2 DEF ToSet
  <2>2. PICK j \in 1..(Len(m) - n) : x = v[j]
    BY <1>3, <1>6 DEF ToSet
  <2>3. m[i] = m[n + j]
    BY <1>2, <1>3, <2>1, <2>2
  <2>4. i \in 1..Len(m) /\ n + j \in 1..Len(m) /\ i # n + j
    BY <1>1
  <2> QED BY <2>3, <2>4, <1>4
<1> QED BY <1>5, <1>6 DEF u, v

(* A re-buffering parts the failed rows and the arrivals: each is kept or  *)
(* cut, never both, and nothing else appears.                              *)
LEMMA RebufferParts ==
    ASSUME NEW a \in Seq(Rows), NEW b \in Seq(Rows),
           IsInjective(a), IsInjective(b), ToSet(a) \cap ToSet(b) = {}
    PROVE  /\ IsInjective(Rebuffer(a, b))
           /\ ToSet(Rebuffer(a, b)) \cap Cut(a, b) = {}
           /\ ToSet(Rebuffer(a, b)) \cup Cut(a, b) = ToSet(a) \cup ToSet(b)
<1> DEFINE m == a \o b
<1>1. m \in Seq(Rows) /\ Len(m) \in Nat
  BY ConcatProperties, LenProperties
<1>2. Excess(m) \in 0..Len(m)
  BY <1>1, ChBufferAssumption DEF Excess
<1>3. IsInjective(m) /\ ToSet(m) = ToSet(a) \cup ToSet(b)
  BY InjectiveConcat, ToSetConcat
<1> HIDE DEF m
<1>4. /\ IsInjective(SubSeq(m, Excess(m) + 1, Len(m)))
      /\ ToSet(SubSeq(m, 1, Excess(m))) \cap ToSet(SubSeq(m, Excess(m) + 1, Len(m))) = {}
  BY <1>1, <1>2, <1>3, InjectiveSplit
<1>5. ToSet(m) = ToSet(SubSeq(m, 1, Excess(m))) \cup ToSet(SubSeq(m, Excess(m) + 1, Len(m)))
  BY <1>1, <1>2, ToSetSplit
<1> QED BY <1>3, <1>4, <1>5 DEF Rebuffer, Cut, m

(* The rows of one append are numbered from next on, each once.            *)
LEMMA NewRowsFresh ==
    ASSUME NEW k \in 1..MaxRequestRows, TypeOK, next + k - 1 <= RowLimit
    PROVE  /\ NewRows(k) \in Seq(Rows)
           /\ IsInjective(NewRows(k))
           /\ ToSet(NewRows(k)) = next .. next + k - 1
<1>1. k \in Nat /\ next \in Nat /\ next >= 1
  BY ChBufferAssumption DEF TypeOK
<1>2. DOMAIN NewRows(k) = 1..k /\ \A i \in 1..k : NewRows(k)[i] = next + i - 1
  BY DEF NewRows
<1>3. NewRows(k) \in Seq(Rows)
  <2>1. \A i \in 1..k : next + i - 1 \in Rows
    BY <1>1, ChBufferAssumption DEF Rows
  <2> QED BY <1>1, <2>1, IsASeq DEF NewRows
<1>4. IsInjective(NewRows(k))
  BY <1>1, <1>2 DEF IsInjective
<1>5. ASSUME NEW x \in ToSet(NewRows(k)) PROVE x \in next .. next + k - 1
  BY <1>1, <1>2 DEF ToSet
<1>6. ASSUME NEW x \in next .. next + k - 1 PROVE x \in ToSet(NewRows(k))
  <2>1. x - next + 1 \in 1..k /\ NewRows(k)[x - next + 1] = x
    BY <1>1, <1>2
  <2> QED BY <2>1, <1>2 DEF ToSet
<1> QED BY <1>3, <1>4, <1>5, <1>6

-----------------------------------------------------------------------------
(***************************************************************************)
(* The inductive invariant of custody.  SingleCustody is Distinct and      *)
(* Apart in one formula; an append needs that the numbers from next on are *)
(* new, and a store needs that a row in ClickHouse that is still in memory *)
(* got there by an insert that reported an error.                          *)
(***************************************************************************)
Distinct ==
    /\ \A t \in Tables : IsInjective(buffers[t])
    /\ \A f \in Flushers : IsInjective(held[f])
    /\ IsInjective(orphan)

Apart ==
    /\ \A t, u \in Tables : t # u => ToSet(buffers[t]) \cap ToSet(buffers[u]) = {}
    /\ \A f, g \in Flushers : f # g => ToSet(held[f]) \cap ToSet(held[g]) = {}
    /\ \A t \in Tables, f \in Flushers : ToSet(buffers[t]) \cap ToSet(held[f]) = {}
    /\ \A t \in Tables : ToSet(buffers[t]) \cap ToSet(orphan) = {}
    /\ \A f \in Flushers : ToSet(held[f]) \cap ToSet(orphan) = {}

Below(S) == \A x \in S : x < next
Numbered ==
    /\ \A t \in Tables : Below(ToSet(buffers[t]))
    /\ \A f \in Flushers : Below(ToSet(held[f]))
    /\ Below(ToSet(orphan)) /\ Below(stored)

KeptIsLanded ==
    /\ \A t \in Tables : ToSet(buffers[t]) \cap stored \subseteq landed
    /\ \A f \in Flushers : ToSet(held[f]) \cap stored \subseteq landed
    /\ ToSet(orphan) \cap stored \subseteq landed

CInv == Distinct /\ Apart /\ Numbered /\ KeptIsLanded /\ DuplicateOnlyAfterAmbiguousError

LEMMA InjectiveEmpty == IsInjective(<<>>)
BY DEF IsInjective

LEMMA InitCInv == Init => CInv
BY ToSetEmpty, InjectiveEmpty DEF Init, CInv, Distinct, Apart, Numbered, Below,
   KeptIsLanded, DuplicateOnlyAfterAmbiguousError

LEMMA StepCInv == IInv /\ CInv /\ [Next]_vars => CInv'
<1> SUFFICES ASSUME IInv, CInv, [Next]_vars PROVE CInv'
  OBVIOUS
<1>t. TypeOK /\ HeldOnlyInserting /\ OrphanOnlyStopping
  BY DEF IInv
<1>c. Distinct /\ Apart /\ Numbered /\ KeptIsLanded /\ DuplicateOnlyAfterAmbiguousError
  BY DEF CInv
<1>n. next \in Nat /\ \A S : S \subseteq Rows => \A x \in S : x \in Nat
  BY <1>t, ChBufferAssumption DEF TypeOK, Rows
<1>s. ASSUME UNCHANGED <<buffers, held, orphan, next, stored, doubled, landed>>
      PROVE  CInv'
  BY <1>s, <1>c DEF CInv, Distinct, Apart, Numbered, Below, KeptIsLanded,
     DuplicateOnlyAfterAmbiguousError
<1>1. ASSUME NEW r \in Requests, NEW t \in Tables, NEW k \in 1..MaxRequestRows,
             AppendRows(r, t, k)
      PROVE  CInv'
  <2> DEFINE fresh == next .. next + k - 1
  <2>1. /\ NewRows(k) \in Seq(Rows) /\ IsInjective(NewRows(k))
        /\ ToSet(NewRows(k)) = fresh
    BY <1>1, <1>t, NewRowsFresh DEF AppendRows
  <2>2. buffers[t] \in Seq(Rows)
    BY <1>t DEF TypeOK
  <2>3. /\ UNCHANGED <<held, orphan, stored, doubled, landed>>
        /\ next' = next + k /\ k \in Nat
        /\ buffers'[t] = buffers[t] \o NewRows(k)
        /\ \A u \in Tables : u # t => buffers'[u] = buffers[u]
    BY <1>1, <1>t, ChBufferAssumption DEF AppendRows, TypeOK
  <2>4. ASSUME NEW S, Below(S) PROVE S \cap fresh = {}
    BY <1>n, <2>3, <2>4 DEF Below
  <2>5. ToSet(buffers[t] \o NewRows(k)) = ToSet(buffers[t]) \cup fresh
    <3>1. ToSet(buffers[t] \o NewRows(k)) = ToSet(buffers[t]) \cup ToSet(NewRows(k))
      <4>1. NewRows(k) \in Seq(Rows)
        BY <2>1
      <4> QED BY ONLY <2>2, <4>1, ToSetConcat
    <3>2. ToSet(NewRows(k)) = fresh
      BY <2>1
    <3> HIDE DEF fresh
    <3> QED BY ONLY <3>1, <3>2
  <2>6. ToSet(buffers'[t]) = ToSet(buffers[t]) \cup fresh
    BY ONLY <2>3, <2>5
  <2>7. IsInjective(buffers'[t])
    <3>1. ToSet(buffers[t]) \cap ToSet(NewRows(k)) = {}
      BY <2>1, <2>4, <1>c DEF Numbered
    <3>2. IsInjective(buffers[t] \o NewRows(k))
      BY <2>1, <2>2, <3>1, <1>c, InjectiveConcat DEF Distinct
    <3> QED BY ONLY <2>3, <3>2
  <2>8. /\ \A u \in Tables : ToSet(buffers[u]) \cap fresh = {}
        /\ \A f \in Flushers : ToSet(held[f]) \cap fresh = {}
        /\ ToSet(orphan) \cap fresh = {} /\ stored \cap fresh = {}
    BY <2>4, <1>c DEF Numbered
  <2>9. Distinct'
    BY <2>3, <2>7, <1>c DEF Distinct
  <2> HIDE DEF fresh
  <2>10. Apart'
    BY <2>3, <2>6, <2>8, <1>c DEF Apart
  <2>11. KeptIsLanded' /\ DuplicateOnlyAfterAmbiguousError'
    BY <2>3, <2>6, <2>8, <1>c DEF KeptIsLanded, DuplicateOnlyAfterAmbiguousError
  <2>12. Numbered'
    <3>1. ASSUME NEW S, S \subseteq Rows, Below(S) PROVE \A x \in S : x < next + k
      BY <1>n, <2>3, <3>1 DEF Below
    <3>2. \A x \in fresh : x < next + k
      BY <1>n, <2>3 DEF fresh
    <3>3. /\ \A u \in Tables : ToSet(buffers[u]) \subseteq Rows
          /\ \A f \in Flushers : ToSet(held[f]) \subseteq Rows
          /\ ToSet(orphan) \subseteq Rows /\ stored \subseteq Rows
      BY <1>t, ToSetType DEF TypeOK
    <3>4. \A u \in Tables : \A x \in ToSet(buffers'[u]) : x < next + k
      BY <2>3, <2>6, <3>1, <3>2, <3>3, <1>c DEF Numbered
    <3>5. /\ \A f \in Flushers : \A x \in ToSet(held[f]) : x < next + k
          /\ \A x \in ToSet(orphan) : x < next + k
          /\ \A x \in stored : x < next + k
      BY <3>1, <3>3, <1>c DEF Numbered
    <3> QED BY <2>3, <3>4, <3>5 DEF Numbered, Below
  <2> QED BY <2>9, <2>10, <2>11, <2>12 DEF CInv
<1>2. CASE FlushAll
  BY <1>2, <1>s DEF FlushAll
<1>3. ASSUME NEW t \in Tables, VisitTable(t) PROVE CInv'
  BY <1>3, <1>s DEF VisitTable
<1>4. ASSUME NEW f \in Flushers, Pop(f) PROVE CInv'
  <2>1. CASE buffers[tab[f]] = <<>>
    BY <1>4, <2>1, <1>s DEF Pop
  <2>2. CASE buffers[tab[f]] # <<>>
    <3> DEFINE t == tab[f]
    <3>1. /\ t \in Tables
          /\ UNCHANGED <<next, orphan, stored, doubled, landed>>
          /\ held'[f] = buffers[t] /\ buffers'[t] = <<>>
          /\ \A g \in Flushers : g # f => held'[g] = held[g]
          /\ \A u \in Tables : u # t => buffers'[u] = buffers[u]
      BY <1>4, <2>2, <1>t DEF Pop, TypeOK
    <3>2. ToSet(buffers'[t]) = {} /\ IsInjective(buffers'[t])
      BY <3>1, ToSetEmpty, InjectiveEmpty
    <3> HIDE DEF t
    <3>3. Distinct'
      BY <3>1, <3>2, <1>c DEF Distinct
    <3>4. Apart'
      <4>1. \A u, v \in Tables : u # v => ToSet(buffers'[u]) \cap ToSet(buffers'[v]) = {}
        BY <3>1, <3>2, <1>c DEF Apart
      <4>2. ASSUME NEW g \in Flushers, NEW h \in Flushers, g # h
            PROVE  ToSet(held'[g]) \cap ToSet(held'[h]) = {}
        <5>1. CASE g = f
          BY <3>1, <4>2, <5>1, <1>c DEF Apart
        <5>2. CASE h = f
          BY <3>1, <4>2, <5>2, <1>c DEF Apart
        <5>3. CASE g # f /\ h # f
          BY <3>1, <4>2, <5>3, <1>c DEF Apart
        <5> QED BY <5>1, <5>2, <5>3
      <4>3. \A u \in Tables, g \in Flushers : ToSet(buffers'[u]) \cap ToSet(held'[g]) = {}
        BY <3>1, <3>2, <1>c DEF Apart
      <4>4. /\ \A u \in Tables : ToSet(buffers'[u]) \cap ToSet(orphan') = {}
           /\ \A g \in Flushers : ToSet(held'[g]) \cap ToSet(orphan') = {}
        BY <3>1, <3>2, <1>c DEF Apart
      <4> QED BY <4>1, <4>2, <4>3, <4>4 DEF Apart
    <3>5. Numbered' /\ KeptIsLanded' /\ DuplicateOnlyAfterAmbiguousError'
      BY <3>1, <3>2, <1>c DEF Numbered, Below, KeptIsLanded, DuplicateOnlyAfterAmbiguousError
    <3> QED BY <3>3, <3>4, <3>5 DEF CInv
  <2> QED BY <2>1, <2>2
<1>5. ASSUME NEW f \in Flushers, InsertOk(f) PROVE CInv'
  <2>1. /\ UNCHANGED <<buffers, next, orphan, landed>>
        /\ held'[f] = <<>>
        /\ \A g \in Flushers : g # f => held'[g] = held[g]
        /\ stored' = stored \cup ToSet(held[f])
        /\ doubled' = doubled \cup (ToSet(held[f]) \cap stored)
    BY <1>5, <1>t DEF InsertOk, Store, TypeOK
  <2>2. ToSet(held'[f]) = {} /\ IsInjective(held'[f])
    BY <2>1, ToSetEmpty, InjectiveEmpty
  <2>3. Distinct' /\ Apart'
    BY <2>1, <2>2, <1>c DEF Distinct, Apart
  <2>4. Numbered'
    BY <2>1, <2>2, <1>c DEF Numbered, Below
  <2>5. KeptIsLanded'
    BY <2>1, <2>2, <1>c DEF KeptIsLanded, Apart
  <2>6. DuplicateOnlyAfterAmbiguousError'
    BY <2>1, <1>c DEF KeptIsLanded, DuplicateOnlyAfterAmbiguousError
  <2> QED BY <2>3, <2>4, <2>5, <2>6 DEF CInv
<1>6. ASSUME NEW f \in Flushers, NEW hit \in BOOLEAN, InsertFail(f, hit)
      PROVE  CInv'
  <2> DEFINE t == tab[f]
             H == ToSet(held[f])
  <2>1. /\ t \in Tables /\ held[f] \in Seq(Rows) /\ buffers[t] \in Seq(Rows)
        /\ UNCHANGED <<next, orphan>>
        /\ buffers'[t] = Rebuffer(held[f], buffers[t])
        /\ \A u \in Tables : u # t => buffers'[u] = buffers[u]
        /\ held'[f] = <<>>
        /\ \A g \in Flushers : g # f => held'[g] = held[g]
    BY <1>6, <1>t DEF InsertFail, TypeOK
  <2>2. \/ /\ stored' = stored \cup H /\ landed' = landed \cup H
           /\ doubled' = doubled \cup (H \cap stored)
        \/ UNCHANGED <<stored, doubled, landed>>
    BY <1>6 DEF InsertFail, Store
  <2>3. ToSet(held'[f]) = {} /\ IsInjective(held'[f])
    BY <2>1, ToSetEmpty, InjectiveEmpty
  <2>4. /\ IsInjective(Rebuffer(held[f], buffers[t]))
        /\ ToSet(Rebuffer(held[f], buffers[t])) \subseteq H \cup ToSet(buffers[t])
    <3>1. /\ IsInjective(held[f]) /\ IsInjective(buffers[t])
          /\ ToSet(held[f]) \cap ToSet(buffers[t]) = {}
      BY <2>1, <1>c DEF Distinct, Apart
    <3> QED BY <2>1, <3>1, RebufferParts
  <2>5. IsInjective(buffers'[t]) /\ ToSet(buffers'[t]) \subseteq H \cup ToSet(buffers[t])
    BY ONLY <2>1, <2>4
  <2> HIDE DEF t
  <2>6. Distinct'
    BY <2>1, <2>3, <2>5, <1>c DEF Distinct
  <2>7. Apart'
    <3>1. ASSUME NEW u \in Tables, NEW v \in Tables, u # v
          PROVE  ToSet(buffers'[u]) \cap ToSet(buffers'[v]) = {}
      <4>0. \A w \in Tables \ {t} : ToSet(buffers'[t]) \cap ToSet(buffers[w]) = {}
        BY <2>1, <2>5, <1>c DEF Apart
      <4>1. CASE u = t
        BY <2>1, <3>1, <4>0, <4>1
      <4>2. CASE v = t
        BY <2>1, <3>1, <4>0, <4>2
      <4>3. CASE u # t /\ v # t
        BY <2>1, <3>1, <4>3, <1>c DEF Apart
      <4> QED BY <4>1, <4>2, <4>3
    <3>2. \A g, h \in Flushers : g # h => ToSet(held'[g]) \cap ToSet(held'[h]) = {}
      BY <2>1, <2>3, <2>5, <1>c DEF Apart
    <3>3. \A u \in Tables, g \in Flushers : ToSet(buffers'[u]) \cap ToSet(held'[g]) = {}
      BY <2>1, <2>3, <2>5, <1>c DEF Apart
    <3>4. /\ \A u \in Tables : ToSet(buffers'[u]) \cap ToSet(orphan') = {}
         /\ \A g \in Flushers : ToSet(held'[g]) \cap ToSet(orphan') = {}
      BY <2>1, <2>3, <2>5, <1>c DEF Apart
    <3> QED BY <3>1, <3>2, <3>3, <3>4 DEF Apart
  <2>8. Numbered'
    BY <2>1, <2>2, <2>3, <2>5, <1>c DEF Numbered, Below
  <2>9. KeptIsLanded'
    BY <2>1, <2>2, <2>3, <2>5, <1>c DEF KeptIsLanded
  <2>10. DuplicateOnlyAfterAmbiguousError'
    BY <2>2, <1>c DEF KeptIsLanded, DuplicateOnlyAfterAmbiguousError
  <2> QED BY <2>6, <2>7, <2>8, <2>9, <2>10 DEF CInv
<1>7. CASE Stop
  <2>1. /\ UNCHANGED <<buffers, next, stored, doubled, landed>>
        /\ Loop \in Flushers
        /\ orphan' = held[Loop] /\ held'[Loop] = <<>>
        /\ \A g \in Flushers : g # Loop => held'[g] = held[g]
    BY <1>7, <1>t DEF Stop, TypeOK, Flushers
  <2>2. ToSet(held'[Loop]) = {} /\ IsInjective(held'[Loop])
    BY <2>1, ToSetEmpty, InjectiveEmpty
  <2>3. Distinct'
    BY <2>1, <2>2, <1>c DEF Distinct
  <2>4. Apart'
    BY <2>1, <2>2, <1>c DEF Apart
  <2>5. Numbered' /\ KeptIsLanded' /\ DuplicateOnlyAfterAmbiguousError'
    BY <2>1, <2>2, <1>c DEF Numbered, Below, KeptIsLanded, DuplicateOnlyAfterAmbiguousError
  <2> QED BY <2>3, <2>4, <2>5 DEF CInv
<1>8. ASSUME NEW ok \in BOOLEAN, OrphanEnds(ok) PROVE CInv'
  <2>1. /\ UNCHANGED <<buffers, held, next, landed>>
        /\ orphan' = <<>>
        /\ \/ /\ stored' = stored \cup ToSet(orphan)
              /\ doubled' = doubled \cup (ToSet(orphan) \cap stored)
           \/ UNCHANGED <<stored, doubled>>
    BY <1>8 DEF OrphanEnds, Store
  <2>2. ToSet(orphan') = {} /\ IsInjective(orphan')
    BY <2>1, ToSetEmpty, InjectiveEmpty
  <2>3. Distinct' /\ Apart'
    BY <2>1, <2>2, <1>c DEF Distinct, Apart
  <2>4. Numbered'
    BY <2>1, <2>2, <1>c DEF Numbered, Below
  <2>5. KeptIsLanded' /\ DuplicateOnlyAfterAmbiguousError'
    BY <2>1, <2>2, <1>c DEF KeptIsLanded, Apart, DuplicateOnlyAfterAmbiguousError
  <2> QED BY <2>3, <2>4, <2>5 DEF CInv
<1>9. ASSUME Die PROVE CInv'
  <2>1. /\ UNCHANGED <<next, stored, doubled, landed>>
        /\ orphan' = <<>>
        /\ \A t \in Tables : buffers'[t] = <<>>
        /\ \A f \in Flushers : held'[f] = <<>>
    BY <1>9 DEF Die
  <2> QED
    BY <2>1, <1>c, ToSetEmpty, InjectiveEmpty DEF CInv, Distinct, Apart, Numbered,
       Below, KeptIsLanded, DuplicateOnlyAfterAmbiguousError
<1>10. CASE Exit
  BY <1>9, <1>10 DEF Exit
<1>11. CASE Crash
  BY <1>9, <1>11 DEF Crash
<1>12. CASE Start
  BY <1>12, <1>s DEF Start
<1>13. CASE UNCHANGED vars
  BY <1>13, <1>s DEF vars
<1> QED
  BY <1>1, <1>2, <1>3, <1>4, <1>5, <1>6, <1>7, <1>8, <1>10, <1>11, <1>12,
     <1>13 DEF Next

LEMMA InvariantCInv == Spec => [](IInv /\ CInv)
BY InitIInv, StepIInv, InitCInv, StepCInv, PTL DEF Spec

(***************************************************************************)
(* No row is with two tasks, in two tables, or twice in one place,         *)
(* whatever the order of appends, flushes, failed inserts and stops.       *)
(***************************************************************************)
THEOREM CustodySingle == Spec => []SingleCustody
<1>1. Distinct /\ Apart => SingleCustody
  BY DEF SingleCustody, Distinct, Apart
<1> QED
  BY <1>1, InvariantCInv, PTL DEF CInv

(***************************************************************************)
(* ClickHouse gets a row twice only after an insert that had stored it     *)
(* reported an error.                                                      *)
(***************************************************************************)
THEOREM DuplicatesExplained == Spec => []DuplicateOnlyAfterAmbiguousError
<1>1. CInv => DuplicateOnlyAfterAmbiguousError
  BY DEF CInv
<1> QED
  BY <1>1, InvariantCInv, PTL

-----------------------------------------------------------------------------
(***************************************************************************)
(* The refinement.  Custody is the union of the three places; a step that  *)
(* does not append settles some rows of custody, possibly none.            *)
(***************************************************************************)
Custody == Buffered \cup Held \cup ToSet(orphan)

LEMMA InCustody ==
    \A x : x \in Custody <=>
        \/ \E t \in Tables : x \in ToSet(buffers[t])
        \/ \E f \in Flushers : x \in ToSet(held[f])
        \/ x \in ToSet(orphan)
BY DEF Custody, Buffered, Held

LEMMA StepSink == IInv /\ CInv /\ [Next]_vars => [Sink!Next]_(Sink!vars)
<1> SUFFICES ASSUME IInv, CInv, [Next]_vars
             PROVE  Sink!Accept \/ Sink!Settle \/ UNCHANGED Sink!vars
  BY DEF Sink!Next
<1>t. TypeOK /\ HeldOnlyInserting /\ OrphanOnlyStopping
  BY DEF IInv
<1>c. Distinct /\ Apart
  BY DEF CInv
<1>a. \A x : x \in Custody <=>
        \/ \E t \in Tables : x \in ToSet(buffers[t])
        \/ \E f \in Flushers : x \in ToSet(held[f])
        \/ x \in ToSet(orphan)
  BY InCustody
<1>b. \A x : x \in Custody' <=>
        \/ \E t \in Tables : x \in ToSet(buffers'[t])
        \/ \E f \in Flushers : x \in ToSet(held'[f])
        \/ x \in ToSet(orphan')
  BY DEF Custody, Buffered, Held
<1>g. ASSUME next' = next, Custody' \subseteq Custody,
             stored \subseteq stored', stored' \subseteq stored \cup Custody,
             dropped \subseteq dropped', dropped' \subseteq dropped \cup (Custody \ Custody'),
             lost \subseteq lost', lost' \subseteq lost \cup (Custody \ Custody'),
             Custody \ Custody' \subseteq stored' \cup dropped' \cup lost'
      PROVE  Sink!Settle
  BY <1>g DEF Sink!Settle, Sink!Gone, Custody
<1>s. ASSUME UNCHANGED <<buffers, held, orphan, next, stored, dropped, lost>>
      PROVE  UNCHANGED Sink!vars
  BY <1>s DEF Sink!vars, Buffered, Held
<1>1. ASSUME NEW r \in Requests, NEW t \in Tables, NEW k \in 1..MaxRequestRows,
             AppendRows(r, t, k)
      PROVE  Sink!Accept
  <2> DEFINE fresh == next .. next + k - 1
  <2>1. NewRows(k) \in Seq(Rows) /\ ToSet(NewRows(k)) = fresh
    BY <1>1, <1>t, NewRowsFresh DEF AppendRows
  <2>2. buffers[t] \in Seq(Rows) /\ next \in Nat
    BY <1>t DEF TypeOK
  <2>3. /\ UNCHANGED <<held, orphan, stored, dropped, lost>>
        /\ next' = next + k /\ k \in Nat /\ k >= 1
        /\ buffers'[t] = buffers[t] \o NewRows(k)
        /\ \A u \in Tables : u # t => buffers'[u] = buffers[u]
    BY <1>1, <1>t, ChBufferAssumption DEF AppendRows, TypeOK
  <2>4. ToSet(buffers'[t]) = ToSet(buffers[t]) \cup fresh
    <3>1. ToSet(buffers[t] \o NewRows(k)) = ToSet(buffers[t]) \cup ToSet(NewRows(k))
      BY <2>1, <2>2, ToSetConcat
    <3> QED BY ONLY <2>1, <2>3, <3>1
  <2>5. Custody' = Custody \cup fresh
    <3> HIDE DEF fresh
    <3> QED BY <2>3, <2>4, <1>a, <1>b
  <2>6. fresh = ((next - 1) + 1) .. (next' - 1)
    BY <2>2, <2>3
  <2>7. Custody' = Custody \cup ((next - 1) + 1 .. next' - 1)
    BY ONLY <2>5, <2>6
  <2>8. next' - 1 \in Int /\ next' - 1 > next - 1
    BY <2>2, <2>3
  <2> QED BY <2>3, <2>7, <2>8 DEF Sink!Accept, Custody
<1>2. CASE FlushAll
  BY <1>2, <1>s DEF FlushAll
<1>3. ASSUME NEW t \in Tables, VisitTable(t) PROVE UNCHANGED Sink!vars
  BY <1>3, <1>s DEF VisitTable
<1>4. ASSUME NEW f \in Flushers, Pop(f) PROVE Sink!Settle \/ UNCHANGED Sink!vars
  <2>1. CASE buffers[tab[f]] = <<>>
    BY <1>4, <2>1, <1>s DEF Pop
  <2>2. CASE buffers[tab[f]] # <<>>
    <3> DEFINE t == tab[f]
    <3>1. /\ t \in Tables
          /\ UNCHANGED <<next, orphan, stored, dropped, lost>>
          /\ held'[f] = buffers[t] /\ buffers'[t] = <<>>
          /\ \A g \in Flushers : g # f => held'[g] = held[g]
          /\ \A u \in Tables : u # t => buffers'[u] = buffers[u]
          /\ held[f] = <<>>
      BY <1>4, <2>2, <1>t DEF Pop, TypeOK, HeldOnlyInserting
    <3>2. ToSet(buffers'[t]) = {} /\ ToSet(held[f]) = {}
      BY <3>1, ToSetEmpty
    <3> HIDE DEF t
    <3>3. Custody' = Custody
      BY <3>1, <3>2, <1>a, <1>b
    <3> QED BY <3>1, <3>3, <1>g
  <2> QED BY <2>1, <2>2
<1>5. ASSUME NEW f \in Flushers, InsertOk(f) PROVE Sink!Settle
  <2>1. /\ UNCHANGED <<buffers, next, orphan, dropped, lost>>
        /\ held'[f] = <<>>
        /\ \A g \in Flushers : g # f => held'[g] = held[g]
        /\ stored' = stored \cup ToSet(held[f])
    BY <1>5, <1>t DEF InsertOk, Store, TypeOK
  <2>2. ToSet(held'[f]) = {}
    BY <2>1, ToSetEmpty
  <2>3. Custody' \subseteq Custody /\ Custody \ Custody' \subseteq ToSet(held[f])
    BY <2>1, <2>2, <1>a, <1>b
  <2>4. ToSet(held[f]) \subseteq Custody
    BY <1>a
  <2> QED BY <2>1, <2>3, <2>4, <1>g
<1>6. ASSUME NEW f \in Flushers, NEW hit \in BOOLEAN, InsertFail(f, hit)
      PROVE  Sink!Settle
  <2> DEFINE t == tab[f]
             H == ToSet(held[f])
             C == Cut(held[f], buffers[t])
  <2>1. /\ t \in Tables /\ held[f] \in Seq(Rows) /\ buffers[t] \in Seq(Rows)
        /\ UNCHANGED <<next, orphan, lost>>
        /\ dropped' = dropped \cup C
        /\ buffers'[t] = Rebuffer(held[f], buffers[t])
        /\ \A u \in Tables : u # t => buffers'[u] = buffers[u]
        /\ held'[f] = <<>>
        /\ \A g \in Flushers : g # f => held'[g] = held[g]
    BY <1>6, <1>t DEF InsertFail, TypeOK
  <2>2. stored' = stored \cup H \/ stored' = stored
    BY <1>6 DEF InsertFail, Store
  <2>3. ToSet(held'[f]) = {}
    BY <2>1, ToSetEmpty
  <2>4. /\ ToSet(Rebuffer(held[f], buffers[t])) \cap C = {}
        /\ ToSet(Rebuffer(held[f], buffers[t])) \cup C = H \cup ToSet(buffers[t])
    <3>1. /\ IsInjective(held[f]) /\ IsInjective(buffers[t])
          /\ ToSet(held[f]) \cap ToSet(buffers[t]) = {}
      BY <2>1, <1>c DEF Distinct, Apart
    <3> QED BY <2>1, <3>1, RebufferParts
  <2>5. ToSet(buffers'[t]) \cap C = {} /\ ToSet(buffers'[t]) \cup C = H \cup ToSet(buffers[t])
    BY ONLY <2>1, <2>4
  <2> HIDE DEF t, C
  <2>6. H \subseteq Custody /\ ToSet(buffers[t]) \subseteq Custody
    BY <2>1, <1>a
  <2>7. Custody' \subseteq Custody
    BY <2>1, <2>3, <2>5, <2>6, <1>a, <1>b
  <2>8. C \cap Custody' = {}
    <3> SUFFICES ASSUME NEW x \in C, x \in Custody' PROVE FALSE
      OBVIOUS
    <3>1. x \in H \/ x \in ToSet(buffers[t])
      BY <2>5
    <3>2. x \notin ToSet(buffers'[t]) /\ x \notin ToSet(held'[f])
      BY <2>3, <2>5
    <3>3. /\ \A u \in Tables : u # t => x \notin ToSet(buffers[u])
          /\ \A g \in Flushers : g # f => x \notin ToSet(held[g])
          /\ x \notin ToSet(orphan)
      BY <3>1, <2>1, <1>c DEF Apart
    <3> QED BY <3>2, <3>3, <2>1, <1>b
  <2>9. Custody \ Custody' \subseteq C
    BY <2>1, <2>5, <1>a, <1>b
  <2>10. C \subseteq Custody
    BY <2>5, <2>6
  <2>11. /\ dropped \subseteq dropped'
         /\ dropped' \subseteq dropped \cup (Custody \ Custody')
         /\ stored \subseteq stored' /\ stored' \subseteq stored \cup Custody
         /\ Custody \ Custody' \subseteq dropped'
    BY <2>1, <2>2, <2>6, <2>8, <2>9, <2>10
  <2> QED BY <2>1, <2>7, <2>11, <1>g
<1>7. CASE Stop
  <2>1. /\ UNCHANGED <<buffers, next, stored, dropped, lost>>
        /\ Loop \in Flushers /\ orphan = <<>>
        /\ orphan' = held[Loop] /\ held'[Loop] = <<>>
        /\ \A g \in Flushers : g # Loop => held'[g] = held[g]
    BY <1>7, <1>t DEF Stop, TypeOK, Flushers, OrphanOnlyStopping
  <2>2. ToSet(held'[Loop]) = {} /\ ToSet(orphan) = {}
    BY <2>1, ToSetEmpty
  <2>3. Custody' = Custody
    BY <2>1, <2>2, <1>a, <1>b
  <2> QED BY <2>1, <2>3, <1>g
<1>8. ASSUME NEW ok \in BOOLEAN, OrphanEnds(ok) PROVE Sink!Settle
  <2>1. /\ UNCHANGED <<buffers, held, next, dropped>>
        /\ orphan' = <<>>
        /\ \/ stored' = stored \cup ToSet(orphan) /\ lost' = lost
           \/ stored' = stored /\ lost' = lost \cup ToSet(orphan)
    BY <1>8 DEF OrphanEnds, Store
  <2>2. ToSet(orphan') = {}
    BY <2>1, ToSetEmpty
  <2>3. Custody' = Custody \ ToSet(orphan) /\ ToSet(orphan) \subseteq Custody
    <3>1. ASSUME NEW x \in ToSet(orphan) PROVE x \in Custody /\ x \notin Custody'
      BY <2>1, <2>2, <1>a, <1>b, <1>c DEF Apart
    <3>2. ASSUME NEW x, x \notin ToSet(orphan) PROVE x \in Custody' <=> x \in Custody
      BY <2>1, <2>2, <3>2, <1>a, <1>b
    <3> QED BY <3>1, <3>2
  <2> QED BY <2>1, <2>3, <1>g
<1>9. ASSUME Die PROVE Sink!Settle
  <2>1. /\ UNCHANGED <<next, stored, dropped>>
        /\ orphan' = <<>>
        /\ \A t \in Tables : buffers'[t] = <<>>
        /\ \A f \in Flushers : held'[f] = <<>>
        /\ lost' = lost \cup Custody
    BY <1>9 DEF Die, Custody
  <2>2. Custody' = {}
    BY <2>1, <1>b, ToSetEmpty
  <2> QED BY <2>1, <2>2, <1>g
<1>10. CASE Exit
  BY <1>9, <1>10 DEF Exit
<1>11. CASE Crash
  BY <1>9, <1>11 DEF Crash
<1>12. CASE Start
  BY <1>12, <1>s DEF Start
<1>13. CASE UNCHANGED vars
  BY <1>13, <1>s DEF vars
<1> QED
  BY <1>1, <1>2, <1>3, <1>4, <1>5, <1>6, <1>7, <1>8, <1>10, <1>11, <1>12,
     <1>13 DEF Next

(***************************************************************************)
(* The write buffer implements RowSink: every row leaves its custody once, *)
(* stored, counted as dropped or lost with the process, and a row that was *)
(* dropped or lost is not kept.                                            *)
(***************************************************************************)
THEOREM RefinesRowSink == Spec => ImplementsRowSink
<1>1. Init => Sink!Init
  BY ToSetEmpty DEF Init, Sink!Init, Buffered, Held
<1> QED
  BY <1>1, InvariantCInv, StepSink, PTL DEF Spec, ImplementsRowSink, Sink!Spec

=============================================================================
