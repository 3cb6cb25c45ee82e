----------------------------- MODULE Incidents -----------------------------
(***************************************************************************)
(* One incident rule and its alert entities                                *)
(* (monctl_central/incidents/engine.py, class IncidentEngine, fed by       *)
(* alerting/engine.py, class AlertEngine).                                 *)
(*                                                                         *)
(* evaluate_all reads alerts and open incidents, decides, and writes all   *)
(* of it in one commit at the end; then it hands the transitions to the    *)
(* automation engine one by one.  The scheduler lease can be overrun, so   *)
(* several nodes may be between read and commit at a time, and operators   *)
(* clear incidents by the API at any moment.  PostgreSQL's partial unique  *)
(* index admits one open incident per rule and entity and fails the commit *)
(* that would add a second.                                                *)
(***************************************************************************)
EXTENDS Integers, Sequences, FiniteSets, Functions

CONSTANTS
    Nodes,       \* central nodes that may run the engine
    Entities,    \* alert entities of the rule's definition, one per assignment
    RawKey,      \* entity -> its entity_key, the part after "assignment_id|"
    Companions,  \* clear_on_companion_ids
    Mode,        \* clear_companion_mode: "any" or "all"
    Tiers,       \* the severities of the alert definition's fire tiers
    Threshold,   \* fire_count_threshold of a consecutive rule
    Ladder,      \* Ladder[a + 1]: severity of the ladder at age a; <<>>: none
    TopSeverity, \* severities are 1..TopSeverity, by priority
    Guard,       \* flap_guard_seconds
    Slots        \* bound: incidents that are kept apart

ASSUME IncidentsAssumption ==
    /\ Entities # {}
    /\ TopSeverity \in Nat \ {0} /\ Tiers \subseteq 1..TopSeverity /\ Threshold \in Nat \ {0} /\ Guard \in Nat
    /\ Ladder \in Seq(1..TopSeverity)
    /\ \A a, b \in DOMAIN Ladder : a <= b => Ladder[a] <= Ladder[b]
    /\ Slots \subseteq Nat /\ Mode \in {"any", "all"}

VARIABLES
    alert,    \* entity -> [state, sev, fires] of its AlertEntity
    healthy,  \* <<companion, entity>> pairs whose companion alert is resolved
    scope,    \* the entities inside the rule's scope_filter
    inc,      \* slot -> [ent, state, sev, age, quiet] of an incident
    plan,     \* node -> what its evaluation has decided, or NoPlan
    due,      \* node -> the <<slot, transition>> it still has to dispatch
    stale,    \* nodes whose plan was read before someone else's write
    raced,    \* incidents a stale plan has written to
    told      \* slot -> how often its clearing was dispatched, up to 2

vars == <<alert, healthy, scope, inc, plan, due, stale, raced, told>>

Severity == 1..TopSeverity
Kinds == {"opened", "escalated", "cleared"}
LastAge == IF Ladder = <<>> THEN 0 ELSE Len(Ladder) - 1

Alert == [state : {"ok", "firing", "resolved"}, sev : 0..TopSeverity, fires : 0..Threshold]
Incident == [ent : Entities, state : {"none", "open", "cleared"}, sev : 0..TopSeverity,
             age : 0..LastAge, quiet : 0..Guard]

Plan == [pc : {"idle", "commit"}, opens : SUBSET (Entities \X Severity), fires : SUBSET Slots,
         raises : SUBSET (Slots \X Severity), clears : SUBSET Slots]
NoPlan == [pc |-> "idle", opens |-> {}, fires |-> {}, raises |-> {}, clears |-> {}]

Init ==
    /\ alert = [e \in Entities |-> [state |-> "ok", sev |-> 0, fires |-> 0]]
    /\ healthy = {}
    /\ scope = Entities
    /\ inc = [i \in Slots |-> [ent |-> CHOOSE e \in Entities : TRUE, state |-> "none",
                               sev |-> 0, age |-> 0, quiet |-> 0]]
    /\ plan = [n \in Nodes |-> NoPlan]
    /\ due = [n \in Nodes |-> {}]
    /\ stale = {} /\ raced = {}
    /\ told = [i \in Slots |-> 0]

Open == {i \in Slots : inc[i].state = "open"}
OpenOf(e) == {i \in Open : inc[i].ent = e}

-----------------------------------------------------------------------------
(***************************************************************************)
(* AlertEngine._evaluate_definition for one fresh entity: s is the highest *)
(* tier that matched, or 0 for a (positive) clear.  Anything in between    *)
(* changes nothing.                                                        *)
(***************************************************************************)
Fired(a, s) ==
    [state |-> "firing", sev |-> s,
     fires |-> IF a.state = "firing" /\ a.sev = s
               THEN IF a.fires < Threshold THEN a.fires + 1 ELSE a.fires
               ELSE 1]

EvaluateAlert(e, s) ==
    /\ s = 0 => alert[e].state = "firing"
    /\ alert' = [alert EXCEPT ![e] =
                   IF s = 0 THEN [state |-> "resolved", sev |-> 0, fires |-> 0]
                   ELSE Fired(@, s)]
    /\ UNCHANGED <<healthy, scope, inc, plan, due, stale, raced, told>>

(* cleanup_resolved_instances.                                             *)
ResetResolved(e) ==
    /\ alert[e].state = "resolved"
    /\ alert' = [alert EXCEPT ![e].state = "ok"]
    /\ UNCHANGED <<healthy, scope, inc, plan, due, stale, raced, told>>

(* A companion alert of an entity resolves or leaves that state.           *)
ToggleCompanion(c, e) ==
    /\ healthy' = IF <<c, e>> \in healthy THEN healthy \ {<<c, e>>}
                  ELSE healthy \cup {<<c, e>>}
    /\ UNCHANGED <<alert, scope, inc, plan, due, stale, raced, told>>

(* The operator edits the scope filter.                                    *)
EditScope(e) ==
    /\ scope' = IF e \in scope THEN scope \ {e} ELSE scope \cup {e}
    /\ UNCHANGED <<alert, healthy, inc, plan, due, stale, raced, told>>

-----------------------------------------------------------------------------
(***************************************************************************)
(* _evaluate_rule: what this cycle decides about each entity, and then the *)
(* companion pass over the incidents that were open and still are.  The    *)
(* companions are indexed by their raw entity_key, without the assignment: *)
(* which of several entities with that key counts is the query's order.    *)
(***************************************************************************)
MeetsThreshold(e) == alert[e].fires >= Threshold

OpensOnce ==
    {e \in scope : /\ alert[e].state = "firing" /\ MeetsThreshold(e)
                   /\ \A i \in Slots : inc[i].state = "none" \/ inc[i].ent # e}
Opens ==
    {e \in scope : alert[e].state = "firing" /\ OpenOf(e) = {} /\ MeetsThreshold(e)}

Fires == {i \in Open : inc[i].ent \in scope /\ alert[inc[i].ent].state = "firing"}

DemotingTarget(i) == Ladder[inc[i].age + 1] # inc[i].sev
LadderRaises(i) == Ladder[inc[i].age + 1] > inc[i].sev

Raises == {i \in Fires : Ladder # <<>> /\ LadderRaises(i)}

HeldTooLong(i) == FALSE
GuardElapsed(i) == inc[i].quiet >= Guard

OwnClears ==
    {i \in Open : \/ inc[i].ent \notin scope
                  \/ alert[inc[i].ent].state = "resolved" /\ GuardElapsed(i)}

CompanionOf(pick, c, e) == pick[c, RawKey[e]]

CompanionClears(pick) ==
    {i \in Open \ OwnClears :
        LET well(c) == <<c, CompanionOf(pick, c, inc[i].ent)>> \in healthy
        IN  /\ Companions # {}
            /\ IF Mode = "all" THEN \A c \in Companions : well(c)
                               ELSE \E c \in Companions : well(c)}

Picks ==
    {p \in [Companions \X Range(RawKey) -> Entities] :
        \A c \in Companions, k \in Range(RawKey) : RawKey[p[c, k]] = k}

EvaluateRule(n, pick) ==
    /\ plan[n].pc = "idle" /\ due[n] = {}
    /\ plan' = [plan EXCEPT ![n] =
                  [pc |-> "commit",
                   opens |-> {<<e, alert[e].sev>> : e \in Opens},
                   fires |-> Fires,
                   raises |-> {<<i, Ladder[inc[i].age + 1]>> : i \in Raises},
                   clears |-> OwnClears \cup CompanionClears(pick)]]
    /\ stale' = stale \ {n}
    /\ UNCHANGED <<alert, healthy, scope, inc, due, raced, told>>

-----------------------------------------------------------------------------
(***************************************************************************)
(* The commit.  An insert that breaks the unique index undoes everything   *)
(* and no transition is dispatched.  Updates write their own columns only: *)
(* one that meets an incident cleared in the meantime leaves it cleared.   *)
(***************************************************************************)
NeverConflict(n) == FALSE
Conflict(n) == \E o \in plan[n].opens : OpenOf(o[1]) # {}

Named(n) == plan[n].fires \cup plan[n].clears

(* Slots no plan and no dispatch refers to stand for new incidents.        *)
Free == {i \in Slots \ Open : \A n \in Nodes :
            i \notin Named(n) /\ \A k \in Kinds : <<i, k>> \notin due[n]}

Assign(n) == Injection(plan[n].opens, Free)

Cleared(r) == [ent |-> r.ent, state |-> "cleared", sev |-> 0, age |-> 0, quiet |-> 0]

Written(n, i) ==
    LET raised == {r \in plan[n].raises : r[1] = i}
        r == inc[i]
    IN  IF i \in plan[n].clears
        THEN Cleared(r)
        ELSE IF r.state # "open" THEN r
        ELSE [r EXCEPT !.sev = IF raised = {} THEN @ ELSE (CHOOSE x \in raised : TRUE)[2],
                       !.quiet = IF i \in plan[n].fires THEN 0 ELSE @]

Opened(o) == [ent |-> o[1], state |-> "open", sev |-> o[2], age |-> 0, quiet |-> 0]

News(n, new) ==
    {<<i, "opened">> : i \in new} \cup {<<r[1], "escalated">> : r \in plan[n].raises}
        \cup {<<i, "cleared">> : i \in plan[n].clears}

NewsAnyway(n) == News(n, Free)
FailedNews(n) == {}

CommitFails(n) ==
    /\ plan[n].pc = "commit" /\ Conflict(n)
    /\ plan' = [plan EXCEPT ![n] = NoPlan]
    /\ due' = [due EXCEPT ![n] = FailedNews(n)]
    /\ UNCHANGED <<alert, healthy, scope, inc, stale, raced, told>>

Writes(n) == plan[n].opens # {} \/ Named(n) # {}

Commit(n) ==
    /\ plan[n].pc = "commit" /\ ~Conflict(n) /\ Assign(n) # {}
    /\ LET f == CHOOSE g \in Assign(n) : TRUE
           new == Range(f)
           slot(i) == CHOOSE o \in plan[n].opens : f[o] = i
       IN  /\ inc' = [i \in Slots |-> IF i \in new THEN Opened(slot(i)) ELSE Written(n, i)]
           /\ due' = [due EXCEPT ![n] = News(n, new)]
           /\ told' = [i \in Slots |-> IF i \in new THEN 0 ELSE told[i]]
           /\ raced' = (raced \ new) \cup (IF n \in stale THEN Named(n) ELSE {})
    /\ plan' = [plan EXCEPT ![n] = NoPlan]
    /\ stale' = (stale \ {n}) \cup
                {m \in Nodes \ {n} : Writes(n) /\ plan[m].pc = "commit"}
    /\ UNCHANGED <<alert, healthy, scope>>

(* The transitions go out one by one, an escalation before a clear.        *)
Dispatch(n, t) ==
    /\ t \in due[n]
    /\ t[2] = "cleared" => <<t[1], "escalated">> \notin due[n]
    /\ due' = [due EXCEPT ![n] = @ \ {t}]
    /\ told' = [told EXCEPT ![t[1]] = IF t[2] = "cleared" /\ @ < 2 THEN @ + 1 ELSE @]
    /\ UNCHANGED <<alert, healthy, scope, inc, plan, stale, raced>>

(* The node dies, between read and commit or between commit and dispatch.  *)
Crash(n) ==
    /\ plan[n].pc # "idle" \/ due[n] # {}
    /\ plan' = [plan EXCEPT ![n] = NoPlan]
    /\ due' = [due EXCEPT ![n] = {}]
    /\ stale' = stale \ {n}
    /\ UNCHANGED <<alert, healthy, scope, inc, raced, told>>

(* clear_incidents of incidents/router.py.                                 *)
ClearIncident(i) ==
    /\ i \in Open
    /\ inc' = [inc EXCEPT ![i] = Cleared(@)]
    /\ stale' = stale \cup {n \in Nodes : plan[n].pc = "commit"}
    /\ UNCHANGED <<alert, healthy, scope, plan, due, raced, told>>

Tick ==
    /\ inc' = [i \in Slots |->
                 IF inc[i].state # "open" THEN inc[i]
                 ELSE [inc[i] EXCEPT !.age = IF @ < LastAge THEN @ + 1 ELSE @,
                                     !.quiet = IF @ < Guard THEN @ + 1 ELSE @]]
    /\ inc' # inc
    /\ UNCHANGED <<alert, healthy, scope, plan, due, stale, raced, told>>

Next ==
    \/ \E e \in Entities :
          \/ \E s \in Tiers \cup {0} : EvaluateAlert(e, s)
          \/ ResetResolved(e)
          \/ \E c \in Companions : ToggleCompanion(c, e)
          \/ EditScope(e)
    \/ \E n \in Nodes :
          \/ \E pick \in Picks : EvaluateRule(n, pick)
          \/ Commit(n) \/ CommitFails(n)
          \/ \E t \in due[n] : Dispatch(n, t)
          \/ Crash(n)
    \/ \E i \in Slots : ClearIncident(i)
    \/ Tick

Spec == Init /\ [][Next]_vars

(***************************************************************************)
(* Some node leads and runs the engine every cycle, which node may change; *)
(* not every one of its cycles dies before the commit; time passes.        *)
(***************************************************************************)
Fairness ==
    /\ WF_vars(Tick)
    /\ WF_vars(\E n \in Nodes, pick \in Picks : EvaluateRule(n, pick))
    /\ SF_vars(\E n \in Nodes : Commit(n))
    /\ \A n \in Nodes : /\ WF_vars(CommitFails(n))
                        /\ WF_vars(\E t \in due[n] : Dispatch(n, t))

FairSpec == Spec /\ Fairness

-----------------------------------------------------------------------------
(* Every variable has its type.                                            *)
TypeOK ==
    /\ alert \in [Entities -> Alert]
    /\ healthy \subseteq Companions \X Entities
    /\ scope \subseteq Entities
    /\ inc \in [Slots -> Incident]
    /\ plan \in [Nodes -> Plan]
    /\ \A n \in Nodes : plan[n].raises \subseteq plan[n].fires \X Severity
    /\ due \in [Nodes -> SUBSET (Slots \X Kinds)]
    /\ stale \subseteq Nodes /\ raced \subseteq Slots
    /\ told \in [Slots -> 0..2]

(***************************************************************************)
(* An entity never has two open incidents of the rule, although two nodes  *)
(* may both decide to open one from what they read.                        *)
(***************************************************************************)
OneOpenPerEntity == \A e \in Entities : Cardinality(OpenOf(e)) <= 1

(***************************************************************************)
(* "Dispatch transitions AFTER the session is closed so the                *)
(* AutomationEngine sees committed state" (engine.py:348): a transition on *)
(* its way to the automations is in the database, and a clearing stays     *)
(* true however late it is dispatched.                                     *)
(***************************************************************************)
ToldIsCommitted ==
    \A n \in Nodes : \A t \in due[n] :
        /\ inc[t[1]].state # "none"
        /\ t[2] = "cleared" => inc[t[1]].state = "cleared"

(***************************************************************************)
(* Automations hear of a clearing once; twice only when two overlapping    *)
(* evaluations both wrote the incident.                                    *)
(***************************************************************************)
ToldOnce == \A i \in Slots : told[i] > 1 => i \in raced

(* What the automations may rely on: both of them.                         *)
ToldRightly == ToldIsCommitted /\ ToldOnce

(***************************************************************************)
(* "Never demotes" (engine.py:735): the severity of an open incident only  *)
(* falls when a node commits a ladder step it had read before another      *)
(* node's commit.                                                          *)
(***************************************************************************)
DemotesOnlyWhenStale ==
    [][\A i \in Slots :
         (inc[i].state = "open" /\ inc'[i].state = "open" /\ inc'[i].sev < inc[i].sev)
            => i \in raced']_vars

(***************************************************************************)
(* A healthy companion clears the incident of its own entity: "Scoped to   *)
(* the same inst.entity_key so the clear only applies to the matching      *)
(* device/assignment" (engine.py:596).                                     *)
(***************************************************************************)
CompanionClearsOwnEntity ==
    [][\A n \in Nodes : plan'[n].pc = "commit" /\ plan[n].pc = "idle" =>
          \A i \in plan'[n].clears \ OwnClears :
             \E c \in Companions : <<c, inc[i].ent>> \in healthy]_vars

(***************************************************************************)
(* An entity whose alert has resolved for good loses its incident, after   *)
(* the flap guard, despite overlapping, failed and lost evaluations.       *)
(***************************************************************************)
ResolvedIsCleared ==
    \A e \in Entities : <>[](alert[e].state = "resolved") => <>[](OpenOf(e) = {})

(***************************************************************************)
(* An entity that fires for good, in scope, has an open incident again and *)
(* again, even when operators clear it.                                    *)
(***************************************************************************)
FiringIsTracked ==
    \A e \in Entities :
        <>[](alert[e].state = "firing" /\ MeetsThreshold(e) /\ e \in scope)
            => []<>(OpenOf(e) # {})
=============================================================================
