-------------------------- MODULE IncidentsProofs --------------------------
(***************************************************************************)
(* Proofs about Incidents, for every set of nodes, entities, companions    *)
(* and incidents, every ladder, threshold and flap guard that satisfy      *)
(* IncidentsAssumption.                                                    *)
(***************************************************************************)
EXTENDS Incidents, TLAPS, FiniteSetTheorems

(***************************************************************************)
(* The inductive invariant.  A plan opens at most one incident per entity: *)
(* the unique index only compares it with what is in the database.  A      *)
(* firing alert has a severity.                                            *)
(***************************************************************************)
FiringHasSeverity == \A e \in Entities : alert[e].state = "firing" => alert[e].sev \in Severity
PlansOneEach == \A n \in Nodes : \A o, p \in plan[n].opens : o[1] = p[1] => o = p
OneOpen == \A i, j \in Open : inc[i].ent = inc[j].ent => i = j
IInv == TypeOK /\ FiringHasSeverity /\ PlansOneEach /\ OneOpen

LEMMA NoPlanType == NoPlan \in Plan
BY DEF NoPlan, Plan

LEMMA LadderType == LastAge \in Nat /\ (Ladder # <<>> => \A a \in 0..LastAge : Ladder[a + 1] \in Severity)
<1>1. CASE Ladder = <<>>
  BY <1>1 DEF LastAge
<1>2. CASE Ladder # <<>>
  <2>1. Ladder \in Seq(Severity) /\ Len(Ladder) \in Nat \ {0}
    BY <1>2, IncidentsAssumption DEF Severity
  <2> QED BY <1>2, <2>1 DEF LastAge
<1> QED BY <1>1, <1>2

LEMMA InitIInv == Init => IInv
<1> SUFFICES ASSUME Init PROVE IInv
  OBVIOUS
<1>1. TypeOK
  BY NoPlanType, LadderType, IncidentsAssumption DEF Init, TypeOK, Alert, Incident, NoPlan
<1> QED
  BY <1>1 DEF IInv, Init, FiringHasSeverity, PlansOneEach, OneOpen, Open, NoPlan

-----------------------------------------------------------------------------
(* What an evaluation decides has the type of a plan, and opens one        *)
(* incident per entity.                                                    *)
LEMMA EvaluateKeeps ==
    ASSUME IInv, NEW n \in Nodes, NEW pick \in Picks, EvaluateRule(n, pick)
    PROVE  IInv'
<1>t. TypeOK /\ FiringHasSeverity /\ PlansOneEach /\ OneOpen
  BY DEF IInv
<1> DEFINE P == [pc |-> "commit",
                 opens |-> {<<e, alert[e].sev>> : e \in Opens},
                 fires |-> Fires,
                 raises |-> {<<i, Ladder[inc[i].age + 1]>> : i \in Raises},
                 clears |-> OwnClears \cup CompanionClears(pick)]
<1>1. /\ plan' = [plan EXCEPT ![n] = P]
      /\ UNCHANGED <<alert, healthy, scope, inc, due, raced, told>>
      /\ stale' = stale \ {n}
  BY DEF EvaluateRule
<1>2. {<<e, alert[e].sev>> : e \in Opens} \subseteq Entities \X Severity
  BY <1>t DEF Opens, FiringHasSeverity, TypeOK
<1>3. Fires \subseteq Slots /\ OwnClears \cup CompanionClears(pick) \subseteq Slots
  BY DEF Fires, OwnClears, CompanionClears, Open
<1>4. {<<i, Ladder[inc[i].age + 1]>> : i \in Raises} \subseteq Fires \X Severity
  <2> SUFFICES ASSUME NEW i \in Raises
               PROVE  i \in Fires /\ Ladder[inc[i].age + 1] \in Severity
    OBVIOUS
  <2>1. i \in Fires /\ Ladder # <<>> /\ i \in Slots
    BY DEF Raises, Fires, Open
  <2>2. inc[i].age \in 0..LastAge
    BY <1>t, <2>1 DEF TypeOK, Incident
  <2> QED BY <2>1, <2>2, LadderType
<1>5. P \in Plan
  <2>1. {<<i, Ladder[inc[i].age + 1]>> : i \in Raises} \subseteq Slots \X Severity
    BY <1>3, <1>4
  <2> QED BY <1>2, <1>3, <2>1 DEF Plan
<1>6. plan' \in [Nodes -> Plan]
  BY <1>1, <1>5, <1>t DEF TypeOK
<1>7. \A m \in Nodes : plan'[m] = IF m = n THEN P ELSE plan[m]
  BY <1>1, <1>t DEF TypeOK
<1>8. TypeOK'
  <2>1. \A m \in Nodes : plan'[m].raises \subseteq plan'[m].fires \X Severity
    <3>1. P.raises \subseteq P.fires \X Severity
      BY <1>4
    <3> HIDE DEF P
    <3> QED BY <3>1, <1>7, <1>t DEF TypeOK
  <2> QED BY <1>1, <1>6, <2>1, <1>t DEF TypeOK
<1>9. PlansOneEach'
  <2>1. \A o, p \in P.opens : o[1] = p[1] => o = p
    OBVIOUS
  <2> QED BY <2>1, <1>7, <1>t DEF PlansOneEach
<1>10. FiringHasSeverity' /\ OneOpen'
  BY <1>1, <1>t DEF FiringHasSeverity, OneOpen, Open
<1> QED
  BY <1>8, <1>9, <1>10 DEF IInv

(***************************************************************************)
(* A commit keeps the entity of every incident, opens no incident but the  *)
(* planned ones, in slots of their own, and the index saw no other open    *)
(* incident of their entities.                                             *)
(***************************************************************************)
LEMMA ClearedType ==
    ASSUME NEW r \in Incident
    PROVE  Cleared(r) \in Incident /\ Cleared(r).ent = r.ent /\ Cleared(r).state = "cleared"
BY LadderType, IncidentsAssumption DEF Cleared, Incident

LEMMA WrittenKeeps ==
    ASSUME TypeOK, NEW n \in Nodes, NEW i \in Slots
    PROVE  /\ Written(n, i) \in Incident
           /\ Written(n, i).ent = inc[i].ent
           /\ Written(n, i).state = "open" => i \in Open
<1>1. inc[i] \in Incident
  BY DEF TypeOK
<1>2. LastAge \in Nat /\ Guard \in Nat /\ TopSeverity \in Nat
  BY LadderType, IncidentsAssumption
<1>3. CASE i \in plan[n].clears
  <2>1. Written(n, i) = Cleared(inc[i])
    BY <1>3 DEF Written
  <2> QED BY <1>1, <2>1, ClearedType
<1>4. CASE i \notin plan[n].clears /\ inc[i].state # "open"
  BY <1>1, <1>4 DEF Written
<1>5. CASE i \notin plan[n].clears /\ inc[i].state = "open"
  <2> DEFINE raised == {r \in plan[n].raises : r[1] = i}
             s == IF raised = {} THEN inc[i].sev ELSE (CHOOSE x \in raised : TRUE)[2]
             q == IF i \in plan[n].fires THEN 0 ELSE inc[i].quiet
  <2>1. Written(n, i) = [inc[i] EXCEPT !.sev = s, !.quiet = q]
    BY <1>5 DEF Written
  <2>2. s \in 0..TopSeverity
    <3>1. CASE raised = {}
      BY <1>1, <3>1 DEF Incident
    <3>2. CASE raised # {}
      <4>1. (CHOOSE x \in raised : TRUE) \in plan[n].raises
        BY <3>2
      <4>2. (CHOOSE x \in raised : TRUE) \in Slots \X Severity
        BY <4>1 DEF TypeOK, Plan
      <4> QED BY <3>2, <4>2, <1>2 DEF Severity
    <3> QED BY <3>1, <3>2
  <2>3. q \in 0..Guard
    BY <1>1, <1>2 DEF Incident
  <2> HIDE DEF s, q
  <2> QED BY <1>1, <1>5, <2>1, <2>2, <2>3 DEF Incident, Open
<1> QED
  BY <1>3, <1>4, <1>5

LEMMA CommitKeeps ==
    ASSUME IInv, NEW n \in Nodes, Commit(n)
    PROVE  IInv'
<1>t. TypeOK /\ FiringHasSeverity /\ PlansOneEach /\ OneOpen
  BY DEF IInv
<1> DEFINE O == plan[n].opens
           f == CHOOSE g \in Assign(n) : TRUE
           new == Range(f)
           slot(i) == CHOOSE o \in O : f[o] = i
<1>1. /\ plan[n].pc = "commit" /\ ~Conflict(n) /\ Assign(n) # {}
      /\ inc' = [i \in Slots |-> IF i \in new THEN Opened(slot(i)) ELSE Written(n, i)]
      /\ due' = [due EXCEPT ![n] = News(n, new)]
      /\ told' = [i \in Slots |-> IF i \in new THEN 0 ELSE told[i]]
      /\ raced' = (raced \ new) \cup (IF n \in stale THEN Named(n) ELSE {})
      /\ plan' = [plan EXCEPT ![n] = NoPlan]
      /\ stale' = (stale \ {n}) \cup
                   {m \in Nodes \ {n} : Writes(n) /\ plan[m].pc = "commit"}
      /\ UNCHANGED <<alert, healthy, scope>>
  BY DEF Commit
<1>2. f \in [O -> Free] /\ \A a, b \in O : f[a] = f[b] => a = b
  <2>1. f \in Assign(n)
    BY <1>1
  <2> QED BY <2>1 DEF Assign, Injection, IsInjective
<1>3. plan[n] \in Plan /\ O \subseteq Entities \X Severity
  BY <1>t DEF TypeOK, Plan
<1> HIDE DEF f
<1>4. new \subseteq Free /\ Free \subseteq Slots \ Open
  BY <1>2 DEF Range, Free
<1>5. ASSUME NEW i \in new
      PROVE  slot(i) \in O /\ f[slot(i)] = i
  <2>1. \E o \in O : f[o] = i
    BY <1>2, <1>5 DEF Range
  <2> QED BY <2>1
<1>6. ASSUME NEW i \in new
      PROVE  /\ Opened(slot(i)) \in Incident
             /\ Opened(slot(i)).ent = slot(i)[1]
  <2>1. slot(i) \in Entities \X Severity
    BY <1>3, <1>5
  <2> HIDE DEF slot
  <2>2. slot(i)[1] \in Entities /\ slot(i)[2] \in Severity
    BY <2>1
  <2> QED BY <2>2, LadderType, IncidentsAssumption DEF Opened, Incident, Severity
<1> HIDE DEF slot, new
<1>7. inc' \in [Slots -> Incident]
  BY <1>1, <1>6, WrittenKeeps, <1>t
<1>8. TypeOK'
  <2>1. plan' \in [Nodes -> Plan] /\ plan'[n] = NoPlan
        /\ \A m \in Nodes : m # n => plan'[m] = plan[m]
    BY <1>1, <1>t, NoPlanType DEF TypeOK
  <2>2. \A m \in Nodes : plan'[m].raises \subseteq plan'[m].fires \X Severity
    BY <2>1, <1>t DEF TypeOK, NoPlan
  <2>3. News(n, new) \subseteq Slots \X Kinds
    BY <1>3, <1>4 DEF News, Kinds, Plan
  <2>4. due' \in [Nodes -> SUBSET (Slots \X Kinds)]
    BY <1>1, <2>3, <1>t DEF TypeOK
  <2>5. told' \in [Slots -> 0..2]
    BY <1>1, <1>t DEF TypeOK
  <2>6. raced' \subseteq Slots /\ stale' \subseteq Nodes
    BY <1>1, <1>3, <1>t DEF TypeOK, Named, Plan
  <2> QED BY <1>1, <1>7, <2>1, <2>2, <2>4, <2>5, <2>6, <1>t DEF TypeOK
<1>9. OneOpen'
  <2> SUFFICES ASSUME NEW i \in Slots, NEW j \in Slots, inc'[i].state = "open",
                      inc'[j].state = "open", inc'[i].ent = inc'[j].ent
               PROVE  i = j
    BY DEF OneOpen, Open
  <2>1. ASSUME NEW a \in Slots, NEW b \in Slots, a \in new, b \notin new,
               inc'[b].state = "open", inc'[a].ent = inc'[b].ent
        PROVE  FALSE
    <3>1. b \in Open /\ inc'[b].ent = inc[b].ent
      BY <1>1, <1>t, <2>1, WrittenKeeps
    <3>2. slot(a) \in O /\ inc'[a].ent = slot(a)[1]
      BY <1>1, <1>5, <1>6, <2>1
    <3>3. OpenOf(slot(a)[1]) = {}
      BY <1>1, <3>2 DEF Conflict
    <3> QED BY <2>1, <3>1, <3>2, <3>3 DEF OpenOf
  <2>2. CASE i \in new /\ j \in new
    <3>1. slot(i) \in O /\ slot(j) \in O /\ slot(i)[1] = slot(j)[1]
      BY <1>1, <1>5, <1>6, <2>2
    <3>2. slot(i) = slot(j)
      BY <3>1, <1>t DEF PlansOneEach
    <3> QED BY <3>2, <1>5, <2>2
  <2>3. CASE i \notin new /\ j \notin new
    <3>1. i \in Open /\ j \in Open /\ inc'[i].ent = inc[i].ent /\ inc'[j].ent = inc[j].ent
      BY <1>1, <1>t, <2>3, WrittenKeeps
    <3> QED BY <3>1, <1>t DEF OneOpen
  <2> QED BY <2>1, <2>2, <2>3
<1>10. PlansOneEach'
  BY <1>1, <1>t DEF TypeOK, PlansOneEach, NoPlan
<1>11. FiringHasSeverity'
  BY <1>1, <1>t DEF FiringHasSeverity
<1> QED
  BY <1>8, <1>9, <1>10, <1>11 DEF IInv

-----------------------------------------------------------------------------
LEMMA StepIInv == IInv /\ [Next]_vars => IInv'
<1> SUFFICES ASSUME IInv, [Next]_vars PROVE IInv'
  OBVIOUS
<1>t. TypeOK /\ FiringHasSeverity /\ PlansOneEach /\ OneOpen
  BY DEF IInv
<1>c. TopSeverity \in Nat /\ Threshold \in Nat /\ LastAge \in Nat /\ Guard \in Nat
      /\ Threshold >= 1 /\ Tiers \subseteq Severity
  BY LadderType, IncidentsAssumption DEF Severity
(* A step that touches alerts only, or none of what IInv relates.          *)
<1>a. ASSUME alert' \in [Entities -> Alert], FiringHasSeverity',
             UNCHANGED <<healthy, scope, inc, plan, due, stale, raced, told>>
      PROVE  IInv'
  BY <1>a, <1>t DEF IInv, TypeOK, PlansOneEach, OneOpen, Open
<1>1. ASSUME NEW e \in Entities, NEW s \in Tiers \cup {0}, EvaluateAlert(e, s)
      PROVE  IInv'
  <2> DEFINE a == IF s = 0 THEN [state |-> "resolved", sev |-> 0, fires |-> 0]
                  ELSE Fired(alert[e], s)
  <2>1. alert[e] \in Alert
    BY <1>t DEF TypeOK
  <2>2. a \in Alert /\ (a.state = "firing" => a.sev \in Severity)
    <3>1. CASE s = 0
      BY <3>1, <1>c DEF Alert
    <3>2. CASE s # 0
      <4> DEFINE k == IF alert[e].state = "firing" /\ alert[e].sev = s
                      THEN IF alert[e].fires < Threshold THEN alert[e].fires + 1
                           ELSE alert[e].fires
                      ELSE 1
      <4>1. k \in 0..Threshold
        BY <2>1, <1>c DEF Alert
      <4>2. a = [state |-> "firing", sev |-> s, fires |-> k]
        BY <3>2 DEF Fired
      <4>3. s \in Severity
        BY <3>2, <1>c
      <4> HIDE DEF k
      <4> QED BY <4>1, <4>2, <4>3, <1>c DEF Alert, Severity
    <3> QED BY <3>1, <3>2
  <2>3. /\ alert' = [alert EXCEPT ![e] = a]
        /\ UNCHANGED <<healthy, scope, inc, plan, due, stale, raced, told>>
    BY <1>1 DEF EvaluateAlert
  <2> HIDE DEF a
  <2>4. alert' \in [Entities -> Alert] /\ FiringHasSeverity'
    BY <2>2, <2>3, <1>t DEF TypeOK, FiringHasSeverity
  <2> QED BY <2>3, <2>4, <1>a
<1>2. ASSUME NEW e \in Entities, ResetResolved(e) PROVE IInv'
  <2>1. /\ alert[e] \in Alert
        /\ alert' = [alert EXCEPT ![e] = [alert[e] EXCEPT !.state = "ok"]]
        /\ UNCHANGED <<healthy, scope, inc, plan, due, stale, raced, told>>
    BY <1>2, <1>t DEF ResetResolved, TypeOK
  <2>2. /\ [alert[e] EXCEPT !.state = "ok"] \in Alert
        /\ [alert[e] EXCEPT !.state = "ok"].state = "ok"
    BY <2>1 DEF Alert
  <2>3. alert' \in [Entities -> Alert] /\ FiringHasSeverity'
    BY <2>1, <2>2, <1>t DEF TypeOK, FiringHasSeverity
  <2> QED BY <2>1, <2>3, <1>a
<1>3. ASSUME NEW e \in Entities, NEW c \in Companions, ToggleCompanion(c, e) PROVE IInv'
  <2>1. healthy' \subseteq Companions \X Entities
    BY <1>3, <1>t DEF ToggleCompanion, TypeOK
  <2> QED BY <1>3, <2>1, <1>t DEF ToggleCompanion, IInv, TypeOK, FiringHasSeverity,
             PlansOneEach, OneOpen, Open
<1>4. ASSUME NEW e \in Entities, EditScope(e) PROVE IInv'
  BY <1>4, <1>t DEF EditScope, IInv, TypeOK, FiringHasSeverity, PlansOneEach, OneOpen, Open
<1>5. ASSUME NEW n \in Nodes, NEW pick \in Picks, EvaluateRule(n, pick) PROVE IInv'
  BY <1>5, EvaluateKeeps
<1>6. ASSUME NEW n \in Nodes, Commit(n) PROVE IInv'
  BY <1>6, CommitKeeps
<1>7. ASSUME NEW n \in Nodes,
             plan' = [plan EXCEPT ![n] = NoPlan], due' = [due EXCEPT ![n] = {}],
             stale' \subseteq stale, UNCHANGED <<alert, healthy, scope, inc, raced, told>>
      PROVE  IInv'
  <2>1. /\ plan' \in [Nodes -> Plan] /\ plan'[n] = NoPlan
        /\ \A m \in Nodes : m # n => plan'[m] = plan[m]
        /\ due' \in [Nodes -> SUBSET (Slots \X Kinds)]
    BY <1>7, <1>t, NoPlanType DEF TypeOK
  <2>2. \A m \in Nodes : plan'[m].raises \subseteq plan'[m].fires \X Severity
    BY <2>1, <1>t DEF TypeOK, NoPlan
  <2>3. TypeOK'
    BY <1>7, <2>1, <2>2, <1>t DEF TypeOK
  <2>4. PlansOneEach'
    BY <2>1, <1>t DEF PlansOneEach, NoPlan
  <2> QED BY <1>7, <2>3, <2>4, <1>t DEF IInv, FiringHasSeverity, OneOpen, Open
<1>8. ASSUME NEW n \in Nodes, CommitFails(n) PROVE IInv'
  BY <1>7, <1>8 DEF CommitFails, FailedNews
<1>9. ASSUME NEW n \in Nodes, Crash(n) PROVE IInv'
  BY <1>7, <1>9 DEF Crash
<1>10. ASSUME NEW n \in Nodes, NEW t \in due[n], Dispatch(n, t) PROVE IInv'
  <2>1. due' \in [Nodes -> SUBSET (Slots \X Kinds)]
    BY <1>10, <1>t DEF Dispatch, TypeOK
  <2>2. told' \in [Slots -> 0..2]
    <3>1. t[1] \in Slots /\ told[t[1]] \in 0..2
      BY <1>10, <1>t DEF TypeOK
    <3> QED BY <1>10, <3>1, <1>t DEF Dispatch, TypeOK
  <2>3. TypeOK'
    BY <1>10, <2>1, <2>2, <1>t DEF Dispatch, TypeOK
  <2> QED BY <1>10, <2>3, <1>t DEF Dispatch, IInv, FiringHasSeverity, PlansOneEach, OneOpen, Open
<1>11. ASSUME NEW i \in Slots, ClearIncident(i) PROVE IInv'
  <2> DEFINE c == Cleared(inc[i])
  <2>1. c \in Incident /\ c.ent = inc[i].ent /\ c.state = "cleared"
    BY <1>t, ClearedType DEF TypeOK
  <2>2. inc' = [inc EXCEPT ![i] = c] /\ UNCHANGED <<alert, healthy, scope, plan, due, raced, told>>
    BY <1>11 DEF ClearIncident
  <2> HIDE DEF c
  <2>3. /\ inc' \in [Slots -> Incident]
        /\ \A j \in Slots : /\ inc'[j].ent = inc[j].ent
                            /\ inc'[j].state = "open" => inc[j].state = "open"
    BY <2>1, <2>2, <1>t DEF TypeOK
  <2>4. stale' \subseteq Nodes
    BY <1>11, <1>t DEF ClearIncident, TypeOK
  <2>5. TypeOK'
    BY <2>2, <2>3, <2>4, <1>t DEF TypeOK
  <2>6. OneOpen'
    <3> SUFFICES ASSUME NEW a \in Slots, NEW b \in Slots, inc'[a].state = "open",
                        inc'[b].state = "open", inc'[a].ent = inc'[b].ent
                 PROVE  a = b
      BY DEF OneOpen, Open
    <3>1. a \in Open /\ b \in Open /\ inc[a].ent = inc[b].ent
      BY <2>3 DEF Open
    <3> QED BY <3>1, <1>t DEF OneOpen
  <2>7. FiringHasSeverity' /\ PlansOneEach'
    BY <2>2, <1>t DEF FiringHasSeverity, PlansOneEach
  <2> QED BY <2>5, <2>6, <2>7 DEF IInv
<1>12. CASE Tick
  <2> DEFINE g(i) == IF inc[i].age < LastAge THEN inc[i].age + 1 ELSE inc[i].age
             q(i) == IF inc[i].quiet < Guard THEN inc[i].quiet + 1 ELSE inc[i].quiet
  <2>1. inc' = [i \in Slots |-> IF inc[i].state # "open" THEN inc[i]
                                ELSE [inc[i] EXCEPT !.age = g(i), !.quiet = q(i)]]
    BY <1>12 DEF Tick
  <2>2. \A i \in Slots : /\ inc[i] \in Incident
                         /\ g(i) \in 0..LastAge /\ q(i) \in 0..Guard
    BY <1>t, <1>c DEF TypeOK, Incident
  <2> HIDE DEF g, q
  <2>3. /\ inc' \in [Slots -> Incident]
        /\ \A j \in Slots : /\ inc'[j].ent = inc[j].ent
                            /\ inc'[j].state = "open" => inc[j].state = "open"
    <3> SUFFICES ASSUME NEW j \in Slots
                 PROVE  /\ inc'[j] \in Incident
                        /\ inc'[j].ent = inc[j].ent
                        /\ inc'[j].state = "open" => inc[j].state = "open"
      BY <2>1
    <3>1. CASE inc[j].state # "open"
      BY <2>1, <2>2, <3>1
    <3>2. CASE inc[j].state = "open"
      BY <2>1, <2>2, <3>2 DEF Incident
    <3> QED BY <3>1, <3>2
  <2>4. UNCHANGED <<alert, healthy, scope, plan, due, stale, raced, told>>
    BY <1>12 DEF Tick
  <2>5. TypeOK'
    BY <2>3, <2>4, <1>t DEF TypeOK
  <2>6. OneOpen'
    <3> SUFFICES ASSUME NEW a \in Slots, NEW b \in Slots, inc'[a].state = "open",
                        inc'[b].state = "open", inc'[a].ent = inc'[b].ent
                 PROVE  a = b
      BY DEF OneOpen, Open
    <3>1. a \in Open /\ b \in Open /\ inc[a].ent = inc[b].ent
      BY <2>3 DEF Open
    <3> QED BY <3>1, <1>t DEF OneOpen
  <2>7. FiringHasSeverity' /\ PlansOneEach'
    BY <2>4, <1>t DEF FiringHasSeverity, PlansOneEach
  <2> QED BY <2>5, <2>6, <2>7 DEF IInv
<1>13. CASE UNCHANGED vars
  BY <1>13, <1>t DEF vars, IInv, TypeOK, FiringHasSeverity, PlansOneEach, OneOpen, Open
<1> QED
  BY <1>1, <1>2, <1>3, <1>4, <1>5, <1>6, <1>8, <1>9, <1>10, <1>11, <1>12, <1>13 DEF Next

(* Two distinct members make the only way to have more than one.           *)
LEMMA AtMostOneMember ==
    ASSUME NEW S, \A a, b \in S : a = b
    PROVE  Cardinality(S) <= 1
<1>1. CASE S = {}
  BY <1>1, FS_EmptySet
<1>2. CASE S # {}
  <2>1. PICK a \in S : S = {a}
    BY <1>2
  <2> QED BY <2>1, FS_Singleton
<1> QED BY <1>1, <1>2

(***************************************************************************)
(* An entity never has two open incidents of a rule, whatever number of    *)
(* nodes evaluate the rule at once.                                        *)
(***************************************************************************)
THEOREM OpenIncidentUnique == Spec => []OneOpenPerEntity
<1>1. Spec => []IInv
  BY InitIInv, StepIInv, PTL DEF Spec
<1>2. IInv => OneOpenPerEntity
  <2> SUFFICES ASSUME IInv, NEW e \in Entities PROVE Cardinality(OpenOf(e)) <= 1
    BY DEF OneOpenPerEntity
  <2>1. \A i, j \in OpenOf(e) : i = j
    BY DEF IInv, OneOpen, OpenOf
  <2> QED BY <2>1, AtMostOneMember
<1> QED
  BY <1>1, <1>2, PTL

(* Every variable of the incident model has its type in every behaviour.   *)
THEOREM TypeCorrect == Spec => []TypeOK
<1>1. Spec => []IInv
  BY InitIInv, StepIInv, PTL DEF Spec
<1>2. IInv => TypeOK
  BY DEF IInv
<1> QED
  BY <1>1, <1>2, PTL

-----------------------------------------------------------------------------
(***************************************************************************)
(* The inductive invariant of the transitions.  A plan names incidents     *)
(* that exist, and one that is no longer open only if it is stale; so a    *)
(* second clearing of an incident comes from a stale plan, whose commit    *)
(* puts the incident into raced.  Outside raced, a clearing is either      *)
(* still due, at one node, or was told, once.                              *)
(***************************************************************************)
NamesWhileCommitting == \A n \in Nodes : Named(n) # {} => plan[n].pc = "commit"
NamesExisting == \A n \in Nodes : \A i \in Named(n) : inc[i].state # "none"
NamesOpenUnlessStale ==
    \A n \in Nodes : \A i \in Named(n) : inc[i].state = "open" \/ n \in stale
RaisesUnlessStale ==
    \A n \in Nodes \ stale : \A r \in plan[n].raises : r[2] > inc[r[1]].sev
ToldIsCleared == \A i \in Slots : told[i] > 0 => inc[i].state = "cleared"
HeardOnce ==
    \A i \in Slots \ raced : \A n \in Nodes : <<i, "cleared">> \in due[n] =>
        /\ told[i] = 0
        /\ \A m \in Nodes : <<i, "cleared">> \in due[m] => m = n

PlanInv == NamesWhileCommitting /\ NamesExisting /\ NamesOpenUnlessStale /\ RaisesUnlessStale
NewsInv == ToldIsCommitted /\ ToldIsCleared /\ HeardOnce /\ ToldOnce
TInv == PlanInv /\ NewsInv

(* What a commit writes to an incident it did not open.                    *)
LEMMA WrittenSays ==
    ASSUME TypeOK, NEW n \in Nodes, NEW i \in Slots
    PROVE  /\ i \in plan[n].clears => Written(n, i).state = "cleared"
           /\ i \notin plan[n].clears => Written(n, i).state = inc[i].state
           /\ i \notin Named(n) => Written(n, i) = inc[i]
           /\ \/ i \in plan[n].clears
              \/ Written(n, i).sev = inc[i].sev
              \/ \E r \in plan[n].raises : r[1] = i /\ Written(n, i).sev = r[2]
<1>1. inc[i] \in Incident
  BY DEF TypeOK
<1>2. CASE i \in plan[n].clears
  <2>1. Written(n, i) = Cleared(inc[i])
    BY <1>2 DEF Written
  <2> QED BY <1>1, <1>2, <2>1, ClearedType DEF Named
<1>3. CASE i \notin plan[n].clears /\ inc[i].state # "open"
  BY <1>3 DEF Written
<1>4. CASE i \notin plan[n].clears /\ inc[i].state = "open"
  <2> DEFINE raised == {r \in plan[n].raises : r[1] = i}
             c == CHOOSE x \in raised : TRUE
             s == IF raised = {} THEN inc[i].sev ELSE c[2]
             q == IF i \in plan[n].fires THEN 0 ELSE inc[i].quiet
  <2>1. Written(n, i) = [inc[i] EXCEPT !.sev = s, !.quiet = q]
    BY <1>4 DEF Written
  <2>2. Written(n, i).state = inc[i].state /\ Written(n, i).sev = s
    BY <1>1, <2>1 DEF Incident
  <2>3. raised # {} => c \in plan[n].raises /\ c[1] = i
    OBVIOUS
  <2>4. i \notin Named(n) => Written(n, i) = inc[i]
    <3> SUFFICES ASSUME i \notin Named(n) PROVE Written(n, i) = inc[i]
      OBVIOUS
    <3>1. raised = {} /\ i \notin plan[n].fires
      BY DEF Named, TypeOK
    <3>2. s = inc[i].sev /\ q = inc[i].quiet
      BY <3>1
    <3> HIDE DEF s, q
    <3> QED BY <1>1, <2>1, <3>2 DEF Incident
  <2>5. Written(n, i).sev = inc[i].sev \/ \E r \in plan[n].raises : r[1] = i /\ Written(n, i).sev = r[2]
    BY <2>2, <2>3
  <2> QED BY <1>4, <2>2, <2>4, <2>5
<1> QED
  BY <1>2, <1>3, <1>4

(* What a commit does: it opens incidents in free slots, none if it plans  *)
(* none, writes the others, and owes the news of both.                     *)
LEMMA CommitEffect ==
    ASSUME TypeOK, NEW n \in Nodes, Commit(n)
    PROVE  \E new \in SUBSET Free :
             /\ plan[n].opens = {} => new = {}
             /\ \A i \in new : inc'[i].state = "open"
             /\ \A i \in Slots \ new : inc'[i] = Written(n, i)
             /\ due' = [due EXCEPT ![n] = News(n, new)]
             /\ told' = [i \in Slots |-> IF i \in new THEN 0 ELSE told[i]]
             /\ raced' = (raced \ new) \cup (IF n \in stale THEN Named(n) ELSE {})
             /\ plan' = [plan EXCEPT ![n] = NoPlan]
             /\ stale' = (stale \ {n}) \cup
                           {m \in Nodes \ {n} : Writes(n) /\ plan[m].pc = "commit"}
<1> DEFINE O == plan[n].opens
           f == CHOOSE g \in Assign(n) : TRUE
           new == Range(f)
           slot(i) == CHOOSE o \in O : f[o] = i
<1>1. /\ Assign(n) # {}
      /\ inc' = [i \in Slots |-> IF i \in new THEN Opened(slot(i)) ELSE Written(n, i)]
      /\ due' = [due EXCEPT ![n] = News(n, new)]
      /\ told' = [i \in Slots |-> IF i \in new THEN 0 ELSE told[i]]
      /\ raced' = (raced \ new) \cup (IF n \in stale THEN Named(n) ELSE {})
      /\ plan' = [plan EXCEPT ![n] = NoPlan]
      /\ stale' = (stale \ {n}) \cup
                   {m \in Nodes \ {n} : Writes(n) /\ plan[m].pc = "commit"}
  BY DEF Commit
<1>2. f \in [O -> Free]
  <2>1. f \in Assign(n)
    BY <1>1
  <2> QED BY <2>1 DEF Assign, Injection
<1> HIDE DEF f
<1>3. new \subseteq Free /\ Free \subseteq Slots
  BY <1>2 DEF Range, Free
<1>4. O = {} => new = {}
  BY <1>2 DEF Range
<1>5. \A i \in new : inc'[i].state = "open"
  BY <1>1, <1>3 DEF Opened
<1>6. \A i \in Slots \ new : inc'[i] = Written(n, i)
  BY <1>1
<1> HIDE DEF new, O
<1>7. new \in SUBSET Free
  BY <1>3
<1> QED
  BY <1>1, <1>4, <1>5, <1>6, <1>7 DEF O

(***************************************************************************)
(* Every step keeps PlanInv: a plan is fresh when made, and whoever writes *)
(* an incident makes the plans of all others stale.                        *)
(***************************************************************************)
LEMMA StepPlanInv == IInv /\ PlanInv /\ [Next]_vars => PlanInv'
<1> SUFFICES ASSUME IInv, PlanInv, [Next]_vars PROVE PlanInv'
  OBVIOUS
<1>t. TypeOK
  BY DEF IInv
<1>p. NamesWhileCommitting /\ NamesExisting /\ NamesOpenUnlessStale /\ RaisesUnlessStale
  BY DEF PlanInv
<1>r. \A n \in Nodes : \A r \in plan[n].raises : r[1] \in Named(n) /\ r[1] \in Slots /\ r[2] \in Severity
  BY <1>t DEF TypeOK, Named, Plan
<1>n. \A n \in Nodes : Named(n) \subseteq Slots
  BY <1>t DEF TypeOK, Named, Plan
(* Nobody's plan changes, and the incidents keep what plans rely on.       *)
<1>s. ASSUME UNCHANGED <<plan, stale>>,
             \A i \in Slots : inc'[i].state = inc[i].state /\ inc'[i].sev = inc[i].sev
      PROVE  PlanInv'
  BY <1>s, <1>p, <1>r, <1>n DEF PlanInv, NamesWhileCommitting, NamesExisting,
     NamesOpenUnlessStale, RaisesUnlessStale, Named
(* A node drops its plan.                                                  *)
<1>d. ASSUME NEW n \in Nodes, plan' = [plan EXCEPT ![n] = NoPlan], inc' = inc,
             stale \ {n} \subseteq stale'
      PROVE  PlanInv'
  <2>1. /\ \A m \in Nodes : m # n => plan'[m] = plan[m]
        /\ plan'[n] = NoPlan
        /\ \A m \in Nodes : m # n => Named(m)' = Named(m)
        /\ Named(n)' = {} /\ plan'[n].raises = {}
    BY <1>d, <1>t DEF TypeOK, Named, NoPlan
  <2> QED BY <1>d, <2>1, <1>p DEF PlanInv, NamesWhileCommitting, NamesExisting,
             NamesOpenUnlessStale, RaisesUnlessStale
<1>1. ASSUME NEW e \in Entities, NEW s \in Tiers \cup {0}, EvaluateAlert(e, s)
      PROVE  PlanInv'
  BY <1>1, <1>s DEF EvaluateAlert
<1>2. ASSUME NEW e \in Entities, ResetResolved(e) PROVE PlanInv'
  BY <1>2, <1>s DEF ResetResolved
<1>3. ASSUME NEW e \in Entities, NEW c \in Companions, ToggleCompanion(c, e) PROVE PlanInv'
  BY <1>3, <1>s DEF ToggleCompanion
<1>4. ASSUME NEW e \in Entities, EditScope(e) PROVE PlanInv'
  BY <1>4, <1>s DEF EditScope
<1>5. ASSUME NEW n \in Nodes, NEW pick \in Picks, EvaluateRule(n, pick) PROVE PlanInv'
  <2> DEFINE P == [pc |-> "commit",
                   opens |-> {<<e, alert[e].sev>> : e \in Opens},
                   fires |-> Fires,
                   raises |-> {<<i, Ladder[inc[i].age + 1]>> : i \in Raises},
                   clears |-> OwnClears \cup CompanionClears(pick)]
  <2>1. /\ plan' = [plan EXCEPT ![n] = P] /\ inc' = inc /\ stale' = stale \ {n}
    BY <1>5 DEF EvaluateRule
  <2>2. /\ P.pc = "commit"
        /\ P.fires \cup P.clears \subseteq Open
        /\ \A r \in P.raises : r[2] > inc[r[1]].sev
    BY DEF Fires, OwnClears, CompanionClears, Raises, LadderRaises
  <2> HIDE DEF P
  <2>3. /\ \A m \in Nodes : m # n => plan'[m] = plan[m]
        /\ plan'[n] = P
        /\ \A m \in Nodes : m # n => Named(m)' = Named(m)
        /\ Named(n)' \subseteq Open
    BY <2>1, <2>2, <1>t DEF TypeOK, Named
  <2>4. \A i \in Open : inc[i].state = "open"
    BY DEF Open
  <2> QED BY <2>1, <2>2, <2>3, <2>4, <1>p DEF PlanInv, NamesWhileCommitting,
             NamesExisting, NamesOpenUnlessStale, RaisesUnlessStale
<1>6. ASSUME NEW n \in Nodes, Commit(n) PROVE PlanInv'
  <2>1. PICK new \in SUBSET Free :
             /\ plan[n].opens = {} => new = {}
             /\ \A i \in new : inc'[i].state = "open"
             /\ \A i \in Slots \ new : inc'[i] = Written(n, i)
             /\ plan' = [plan EXCEPT ![n] = NoPlan]
             /\ stale' = (stale \ {n}) \cup
                           {m \in Nodes \ {n} : Writes(n) /\ plan[m].pc = "commit"}
    BY <1>6, <1>t, CommitEffect
  <2>2. /\ \A m \in Nodes : m # n => plan'[m] = plan[m]
        /\ plan'[n] = NoPlan
        /\ \A m \in Nodes : m # n => Named(m)' = Named(m)
        /\ Named(n)' = {} /\ plan'[n].raises = {}
    BY <2>1, <1>t DEF TypeOK, Named, NoPlan
  <2>3. \A m \in Nodes : new \cap Named(m) = {}
    BY DEF Free
  <2>4. NamesWhileCommitting'
    BY <2>2, <1>p DEF NamesWhileCommitting
  <2>5. NamesExisting'
    BY <2>1, <2>2, <2>3, <1>p, <1>n, <1>t, WrittenSays DEF NamesExisting
  <2>6. CASE Writes(n)
    <3>1. \A m \in Nodes : m # n /\ Named(m) # {} => m \in stale'
      BY <2>1, <2>6, <1>p DEF NamesWhileCommitting
    <3>2. NamesOpenUnlessStale'
      BY <2>2, <3>1 DEF NamesOpenUnlessStale
    <3>3. RaisesUnlessStale'
      BY <2>2, <3>1, <1>r DEF RaisesUnlessStale
    <3> QED BY <2>4, <2>5, <3>2, <3>3 DEF PlanInv
  <2>7. CASE ~Writes(n)
    <3>1. new = {} /\ Named(n) = {}
      BY <2>1, <2>7 DEF Writes
    <3>2. \A i \in Slots : inc'[i] = inc[i]
      BY <2>1, <3>1, <1>t, WrittenSays
    <3>3. NamesOpenUnlessStale'
      BY <2>1, <2>2, <3>2, <1>p, <1>n DEF NamesOpenUnlessStale
    <3>4. RaisesUnlessStale'
      BY <2>1, <2>2, <3>2, <1>p, <1>r DEF RaisesUnlessStale
    <3> QED BY <2>4, <2>5, <3>3, <3>4 DEF PlanInv
  <2> QED BY <2>6, <2>7
<1>7. ASSUME NEW n \in Nodes, CommitFails(n) PROVE PlanInv'
  BY <1>7, <1>d DEF CommitFails
<1>8. ASSUME NEW n \in Nodes, NEW t \in due[n], Dispatch(n, t) PROVE PlanInv'
  BY <1>8, <1>s DEF Dispatch
<1>9. ASSUME NEW n \in Nodes, Crash(n) PROVE PlanInv'
  BY <1>9, <1>d DEF Crash
<1>10. ASSUME NEW i \in Slots, ClearIncident(i) PROVE PlanInv'
  <2>1. /\ plan' = plan
        /\ stale' = stale \cup {n \in Nodes : plan[n].pc = "commit"}
        /\ \A j \in Slots : j # i => inc'[j] = inc[j]
        /\ inc'[i] = Cleared(inc[i])
    BY <1>10, <1>t DEF ClearIncident, TypeOK
  <2>2. inc'[i].state = "cleared"
    BY <2>1 DEF Cleared
  <2>3. \A n \in Nodes : Named(n)' = Named(n) /\ (Named(n) # {} => n \in stale')
    BY <2>1, <1>p DEF Named, NamesWhileCommitting
  <2>4. NamesWhileCommitting' /\ NamesOpenUnlessStale'
    BY <2>1, <2>3, <1>p DEF NamesWhileCommitting, NamesOpenUnlessStale
  <2>5. NamesExisting'
    BY <2>1, <2>2, <2>3, <1>p, <1>n DEF NamesExisting
  <2>6. RaisesUnlessStale'
    BY <2>1, <2>3, <1>r DEF RaisesUnlessStale
  <2> QED BY <2>4, <2>5, <2>6 DEF PlanInv
<1>11. CASE Tick
  <2>1. \A i \in Slots : inc'[i].state = inc[i].state /\ inc'[i].sev = inc[i].sev
    BY <1>11, <1>t DEF Tick, TypeOK, Incident
  <2> QED BY <1>11, <2>1, <1>s DEF Tick
<1>12. CASE UNCHANGED vars
  BY <1>12, <1>s DEF vars
<1> QED
  BY <1>1, <1>2, <1>3, <1>4, <1>5, <1>6, <1>7, <1>8, <1>9, <1>10, <1>11, <1>12 DEF Next

(***************************************************************************)
(* Every step keeps NewsInv.  In a commit that is not stale, the incidents *)
(* it clears were open, so nothing was told or due about their clearing.   *)
(***************************************************************************)
LEMMA StepNewsInv == IInv /\ PlanInv /\ NewsInv /\ [Next]_vars => NewsInv'
<1> SUFFICES ASSUME IInv, PlanInv, NewsInv, [Next]_vars PROVE NewsInv'
  OBVIOUS
<1>t. TypeOK
  BY DEF IInv
<1>p. NamesExisting /\ NamesOpenUnlessStale
  BY DEF PlanInv
<1>w. ToldIsCommitted /\ ToldIsCleared /\ HeardOnce /\ ToldOnce
  BY DEF NewsInv
<1>d. \A n \in Nodes : \A t \in due[n] : t[1] \in Slots /\ t[2] \in Kinds /\ t = <<t[1], t[2]>>
  BY <1>t DEF TypeOK
<1>o. \A i \in Slots : told[i] \in 0..2
  BY <1>t DEF TypeOK
(* No news, and every incident stays where the news left it.               *)
<1>s. ASSUME \A n \in Nodes : due'[n] \subseteq due[n], UNCHANGED <<raced, told>>,
             \A i \in Slots : /\ inc[i].state # "none" => inc'[i].state # "none"
                              /\ inc[i].state = "cleared" => inc'[i].state = "cleared"
      PROVE  NewsInv'
  <2>1. ToldIsCommitted'
    BY <1>s, <1>w, <1>d DEF ToldIsCommitted
  <2>2. ToldIsCleared' /\ ToldOnce' /\ HeardOnce'
    BY <1>s, <1>w DEF ToldIsCleared, ToldOnce, HeardOnce
  <2> QED BY <2>1, <2>2 DEF NewsInv
<1>1. ASSUME NEW e \in Entities, NEW s \in Tiers \cup {0}, EvaluateAlert(e, s)
      PROVE  NewsInv'
  BY <1>1, <1>s DEF EvaluateAlert
<1>2. ASSUME NEW e \in Entities, ResetResolved(e) PROVE NewsInv'
  BY <1>2, <1>s DEF ResetResolved
<1>3. ASSUME NEW e \in Entities, NEW c \in Companions, ToggleCompanion(c, e) PROVE NewsInv'
  BY <1>3, <1>s DEF ToggleCompanion
<1>4. ASSUME NEW e \in Entities, EditScope(e) PROVE NewsInv'
  BY <1>4, <1>s DEF EditScope
<1>5. ASSUME NEW n \in Nodes, NEW pick \in Picks, EvaluateRule(n, pick) PROVE NewsInv'
  BY <1>5, <1>s DEF EvaluateRule
<1>6. ASSUME NEW n \in Nodes, Commit(n) PROVE NewsInv'
  <2> DEFINE C == plan[n].clears
  <2>1. PICK new \in SUBSET Free :
             /\ \A i \in new : inc'[i].state = "open"
             /\ \A i \in Slots \ new : inc'[i] = Written(n, i)
             /\ due' = [due EXCEPT ![n] = News(n, new)]
             /\ told' = [i \in Slots |-> IF i \in new THEN 0 ELSE told[i]]
             /\ raced' = (raced \ new) \cup (IF n \in stale THEN Named(n) ELSE {})
    BY <1>6, <1>t, CommitEffect
  <2>2. /\ new \subseteq Slots
        /\ C \subseteq Named(n) /\ C \subseteq Slots /\ C \cap new = {}
        /\ \A m \in Nodes, i \in new, k \in Kinds : <<i, k>> \notin due[m]
        /\ \A r \in plan[n].raises : r[1] \in Named(n) /\ r[1] \in Slots /\ r[1] \notin new
    BY <1>t DEF Free, Named, TypeOK, Plan
  <2>3. /\ \A m \in Nodes : m # n => due'[m] = due[m]
        /\ due'[n] = News(n, new)
    BY <2>1, <1>t DEF TypeOK
  <2>4. \A t \in News(n, new) :
          \/ t[1] \in new /\ t[2] = "opened"
          \/ t[2] = "escalated" /\ \E r \in plan[n].raises : t[1] = r[1]
          \/ t[1] \in C /\ t[2] = "cleared"
    BY DEF News
  <2>5. \A i \in Slots \ new :
          /\ inc[i].state # "none" => inc'[i].state # "none"
          /\ inc[i].state = "cleared" => inc'[i].state = "cleared"
          /\ i \in C => inc'[i].state = "cleared"
    BY <2>1, <1>t, WrittenSays
  <2>6. ToldIsCommitted'
    <3>1. ASSUME NEW m \in Nodes, m # n, NEW t \in due[m]
          PROVE  inc'[t[1]].state # "none" /\ (t[2] = "cleared" => inc'[t[1]].state = "cleared")
      <4>1. t[1] \in Slots \ new
        BY <2>2, <1>d
      <4> QED BY <4>1, <2>5, <1>w DEF ToldIsCommitted
    <3>2. ASSUME NEW t \in News(n, new)
          PROVE  inc'[t[1]].state # "none" /\ (t[2] = "cleared" => inc'[t[1]].state = "cleared")
      <4>1. CASE t[1] \in new /\ t[2] = "opened"
        BY <4>1, <2>1
      <4>2. CASE t[2] = "escalated" /\ \E r \in plan[n].raises : t[1] = r[1]
        <5>1. t[1] \in Named(n) /\ t[1] \in Slots \ new
          BY <4>2, <2>2
        <5> QED BY <4>2, <5>1, <2>5, <1>p DEF NamesExisting
      <4>3. CASE t[1] \in C /\ t[2] = "cleared"
        BY <4>3, <2>2, <2>5
      <4> QED BY <4>1, <4>2, <4>3, <2>4
    <3> QED BY <3>1, <3>2, <2>3 DEF ToldIsCommitted
  <2>7. ToldIsCleared'
    <3> SUFFICES ASSUME NEW i \in Slots, told'[i] > 0 PROVE inc'[i].state = "cleared"
      BY DEF ToldIsCleared
    <3>1. i \notin new /\ told'[i] = told[i]
      BY <2>1
    <3> QED BY <3>1, <2>5, <1>w DEF ToldIsCleared
  <2>8. \A i \in Slots \ new : i \in raced => i \in raced'
    BY <2>1
  <2>9. ToldOnce'
    <3> SUFFICES ASSUME NEW i \in Slots, told'[i] > 1 PROVE i \in raced'
      BY DEF ToldOnce
    <3>1. i \notin new /\ told'[i] = told[i]
      BY <2>1
    <3> QED BY <3>1, <2>8, <1>w DEF ToldOnce
  <2>10. HeardOnce'
    <3> SUFFICES ASSUME NEW i \in Slots, i \notin raced',
                        NEW m \in Nodes, <<i, "cleared">> \in due'[m]
                 PROVE  /\ told'[i] = 0
                        /\ \A l \in Nodes : <<i, "cleared">> \in due'[l] => l = m
      BY DEF HeardOnce
    <3>n. <<i, "cleared">> \in News(n, new) => i \in C
      BY <2>4
    <3>1. i \notin new
      BY <2>2, <2>3, <3>n DEF Kinds
    <3>2. i \notin raced /\ told'[i] = told[i]
      BY <2>1, <2>8, <3>1
    <3>3. CASE i \in C
      <4>1. n \notin stale
        BY <2>1, <2>2, <3>3
      <4>2. inc[i].state = "open"
        BY <4>1, <2>2, <3>3, <1>p DEF NamesOpenUnlessStale
      <4>3. ~(told[i] > 0)
        BY <4>2, <1>w DEF ToldIsCleared
      <4>4. told[i] = 0
        BY <4>3, <1>o
      <4>5. \A l \in Nodes : <<i, "cleared">> \notin due[l]
        <5> SUFFICES ASSUME NEW l \in Nodes, <<i, "cleared">> \in due[l] PROVE FALSE
          OBVIOUS
        <5>1. inc[<<i, "cleared">>[1]].state = "cleared"
          BY <1>w DEF ToldIsCommitted
        <5> QED BY <5>1, <4>2
      <4> QED BY <3>2, <4>4, <4>5, <2>3
    <3>4. CASE i \notin C
      BY <3>2, <3>4, <3>n, <2>3, <1>w DEF HeardOnce
    <3> QED BY <3>3, <3>4
  <2> QED BY <2>6, <2>7, <2>9, <2>10 DEF NewsInv
<1>7. ASSUME NEW n \in Nodes, CommitFails(n) PROVE NewsInv'
  <2>1. \A m \in Nodes : due'[m] \subseteq due[m]
    BY <1>7, <1>t DEF CommitFails, FailedNews, TypeOK
  <2> QED BY <1>7, <2>1, <1>s DEF CommitFails
<1>8. ASSUME NEW n \in Nodes, NEW t \in due[n], Dispatch(n, t) PROVE NewsInv'
  <2>1. /\ UNCHANGED <<inc, raced>>
        /\ due'[n] = due[n] \ {t}
        /\ \A m \in Nodes : m # n => due'[m] = due[m]
    BY <1>8, <1>t DEF Dispatch, TypeOK
  <2>2. t[1] \in Slots /\ t = <<t[1], t[2]>>
    BY <1>d
  <2>3. CASE t[2] # "cleared"
    <3>1. told' = told
      BY <1>8, <2>3, <1>t DEF Dispatch, TypeOK
    <3> QED BY <2>1, <3>1, <1>s
  <2>4. CASE t[2] = "cleared"
    <3> DEFINE j == t[1]
    <3>1. /\ \A i \in Slots : i # j => told'[i] = told[i]
          /\ told'[j] = IF told[j] < 2 THEN told[j] + 1 ELSE told[j]
      BY <1>8, <2>2, <2>4, <1>t DEF Dispatch, TypeOK
    <3>2. <<j, "cleared">> \in due[n] /\ inc[j].state = "cleared"
      BY <2>2, <2>4, <1>w DEF ToldIsCommitted
    <3>3. j \notin raced => told[j] = 0 /\ \A m \in Nodes : <<j, "cleared">> \in due[m] => m = n
      BY <2>2, <3>2, <1>w DEF HeardOnce
    <3>4. <<j, "cleared">> \notin due'[n]
      BY <2>1, <2>2, <2>4
    <3> HIDE DEF j
    <3>5. j \in Slots
      BY <2>2 DEF j
    <3>6. ToldIsCommitted'
      BY <2>1, <1>w DEF ToldIsCommitted
    <3>7. ToldIsCleared'
      BY <2>1, <3>1, <3>2, <1>w DEF ToldIsCleared
    <3>8. ToldOnce'
      BY <2>1, <3>1, <3>3, <1>w DEF ToldOnce
    <3>9. HeardOnce'
      <4> SUFFICES ASSUME NEW i \in Slots, i \notin raced,
                          NEW m \in Nodes, <<i, "cleared">> \in due'[m]
                   PROVE  /\ told'[i] = 0
                          /\ \A l \in Nodes : <<i, "cleared">> \in due'[l] => l = m
        BY <2>1 DEF HeardOnce
      <4>1. \A l \in Nodes : due'[l] \subseteq due[l]
        BY <2>1
      <4>2. i # j
        BY <3>3, <3>4, <4>1
      <4> QED BY <4>1, <4>2, <3>1, <1>w DEF HeardOnce
    <3> QED BY <3>6, <3>7, <3>8, <3>9 DEF NewsInv
  <2> QED BY <2>3, <2>4
<1>9. ASSUME NEW n \in Nodes, Crash(n) PROVE NewsInv'
  <2>1. \A m \in Nodes : due'[m] \subseteq due[m]
    BY <1>9, <1>t DEF Crash, TypeOK
  <2> QED BY <1>9, <2>1, <1>s DEF Crash
<1>10. ASSUME NEW i \in Slots, ClearIncident(i) PROVE NewsInv'
  <2>1. /\ \A j \in Slots : j # i => inc'[j] = inc[j]
        /\ inc'[i] = Cleared(inc[i])
    BY <1>10, <1>t DEF ClearIncident, TypeOK
  <2>2. inc'[i].state = "cleared"
    BY <2>1 DEF Cleared
  <2> QED BY <1>10, <2>1, <2>2, <1>s DEF ClearIncident
<1>11. CASE Tick
  <2>1. \A i \in Slots : inc'[i].state = inc[i].state
    BY <1>11, <1>t DEF Tick, TypeOK, Incident
  <2> QED BY <1>11, <2>1, <1>s DEF Tick
<1>12. CASE UNCHANGED vars
  BY <1>12, <1>s DEF vars
<1> QED
  BY <1>1, <1>2, <1>3, <1>4, <1>5, <1>6, <1>7, <1>8, <1>9, <1>10, <1>11, <1>12 DEF Next

LEMMA InvariantTInv == Spec => [](IInv /\ TInv)
<1>1. Init => TInv
  BY DEF Init, TInv, PlanInv, NamesWhileCommitting, NamesExisting, NamesOpenUnlessStale,
     RaisesUnlessStale, Named, NoPlan, NewsInv, ToldIsCommitted, ToldIsCleared, HeardOnce,
     ToldOnce
<1>2. IInv /\ TInv /\ [Next]_vars => TInv'
  BY StepPlanInv, StepNewsInv DEF TInv
<1> QED
  BY <1>1, <1>2, InitIInv, StepIInv, PTL DEF Spec

(***************************************************************************)
(* What automations are told is committed, a clearing stays true however   *)
(* late it is told, and is told twice only of an incident two overlapping  *)
(* evaluations both wrote.                                                 *)
(***************************************************************************)
THEOREM NewsIsRight == Spec => []ToldRightly
<1>1. TInv => ToldRightly
  BY DEF TInv, NewsInv, ToldRightly
<1> QED
  BY <1>1, InvariantTInv, PTL

(***************************************************************************)
(* No step lowers the severity of an open incident, except the commit of a *)
(* stale plan.                                                             *)
(***************************************************************************)
THEOREM SeverityHolds == Spec => DemotesOnlyWhenStale
<1>1. IInv /\ PlanInv /\ [Next]_vars =>
        [\A i \in Slots :
           (inc[i].state = "open" /\ inc'[i].state = "open" /\ inc'[i].sev < inc[i].sev)
              => i \in raced']_vars
  <2> SUFFICES ASSUME IInv, PlanInv, Next, NEW i \in Slots, inc[i].state = "open",
                      inc'[i].state = "open", inc'[i].sev < inc[i].sev
               PROVE  i \in raced'
    OBVIOUS
  <2>t. TypeOK /\ inc[i] \in Incident /\ inc[i].sev \in Nat
    BY IncidentsAssumption DEF IInv, TypeOK, Incident
  <2>1. ASSUME inc' = inc PROVE FALSE
    BY <2>1, <2>t
  <2>2. ASSUME NEW n \in Nodes, Commit(n) PROVE i \in raced'
    <3>1. PICK new \in SUBSET Free :
               /\ \A j \in Slots \ new : inc'[j] = Written(n, j)
               /\ raced' = (raced \ new) \cup (IF n \in stale THEN Named(n) ELSE {})
      BY <2>2, <2>t, CommitEffect
    <3>2. i \notin new
      BY DEF Free, Open
    <3>3. i \notin plan[n].clears
      BY <3>1, <3>2, <2>t, WrittenSays
    <3>4. PICK r \in plan[n].raises : r[1] = i /\ inc'[i].sev = r[2]
      <4>1. inc'[i].sev # inc[i].sev
        BY <2>t
      <4> QED BY <4>1, <3>1, <3>2, <3>3, <2>t, WrittenSays
    <3>5. i \in Named(n) /\ r[2] \in Nat
      BY <3>4, <2>t DEF TypeOK, Named, Plan, Severity
    <3>6. n \in stale
      <4> SUFFICES ASSUME n \notin stale PROVE FALSE
        OBVIOUS
      <4>1. r[2] > inc[i].sev
        BY <3>4 DEF PlanInv, RaisesUnlessStale
      <4> QED BY <4>1, <3>4, <3>5, <2>t
    <3> QED BY <3>1, <3>5, <3>6
  <2>3. ASSUME NEW j \in Slots, ClearIncident(j) PROVE FALSE
    <3>1. /\ j # i => inc'[i] = inc[i]
          /\ j = i => inc'[i] = Cleared(inc[i])
      BY <2>3, <2>t DEF ClearIncident, TypeOK
    <3> QED BY <3>1, <2>t DEF Cleared
  <2>4. ASSUME Tick PROVE FALSE
    <3>1. inc'[i].sev = inc[i].sev
      BY <2>4, <2>t DEF Tick, Incident
    <3> QED BY <3>1, <2>t
  <2> QED BY <2>1, <2>2, <2>3, <2>4 DEF Next, EvaluateAlert, ResetResolved,
             ToggleCompanion, EditScope, EvaluateRule, CommitFails, Dispatch, Crash
<1>2. TInv => PlanInv
  BY DEF TInv
<1> QED
  BY <1>1, <1>2, InvariantTInv, PTL DEF Spec, DemotesOnlyWhenStale
=============================================================================
