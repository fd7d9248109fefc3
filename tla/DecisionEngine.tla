--------------------------- MODULE DecisionEngine ---------------------------
(***************************************************************************)
(* DecisionEngine.runEnginesOnce.  The console starts it in a servlet      *)
(* thread, so several runs can be under way; each has an engine object,    *)
(* and with it rule containers, of its own.  A run loads the rules, then   *)
(* works through a snapshot of the OPEN alerts and through a second one of *)
(* the PENDING alerts.  A decision and the status of its alert are written *)
(* by two transactions.                                                    *)
(***************************************************************************)
EXTENDS ResponseStore

CONSTANT DecisionRuns   \* threads that can execute runEnginesOnce

VARIABLE run            \* run[e]: the locals of thread e

(* What processAlert has decided to do with an alert: the write to table   *)
(* decision, its arguments and the status the alert then gets.             *)
Plans ==
    [write : {"none", "throw", "add", "updateForFinding", "setTypeAndRule"},
     decision : Nat, type : DecisionType, rule : RuleIds \cup {NoRule},
     final : {"PROCESSED", "PENDING"}]

(* Nothing to write: the fields that name a decision are irrelevant.       *)
NoPlan == [write |-> "none", decision |-> 0, type |-> "IGNORE", rule |-> NoRule,
           final |-> "PENDING"]

Throws == [NoPlan EXCEPT !.write = "throw"]

Runs ==
    [pc : {"idle", "query", "loop", "write", "status"},
     phase : {"OPEN", "PENDING"},
     loaded : SUBSET RuleIds,
     todo : SUBSET AlertIds,
     severity : [AlertIds -> Severities],
     alert : AlertIds \cup {-1},
     plan : Plans]

Idle == [pc |-> "idle", phase |-> "OPEN", loaded |-> {}, todo |-> {},
         severity |-> [a \in AlertIds |-> NoValue], alert |-> -1, plan |-> NoPlan]

DETypeOK == run \in [DecisionRuns -> Runs]

DEInit == run = [e \in DecisionRuns |-> Idle]

Becomes(e, rec) == run' = [run EXCEPT ![e] = rec]

(* The locals of a run between two alerts: what it no longer needs of its  *)
(* snapshot is forgotten.                                                  *)
Rest(x, todo) ==
    [x EXCEPT !.pc = "loop", !.todo = todo, !.alert = -1, !.plan = NoPlan,
              !.severity = [a \in AlertIds |-> IF a \in todo THEN x.severity[a]
                                                              ELSE NoValue]]

-----------------------------------------------------------------------------
(* runEnginesOnce: loadDecisionRules ...                                   *)
LoadDecisionRules(e) ==
    /\ run[e].pc = "idle"
    /\ Becomes(e, [Idle EXCEPT !.pc = "query", !.loaded = decisionRules])
    /\ UNCHANGED store

(* ... then getActiveAlertsByStatus, first OPEN and later PENDING: the     *)
(* list holds the alerts as they were when the query ran.                  *)
QueryAlerts(e) ==
    /\ run[e].pc = "query"
    /\ LET list == ActiveAlertsByStatus(run[e].phase)
       IN  Becomes(e, Rest([run[e] EXCEPT !.severity = alertSeverity], list))
    /\ UNCHANGED store

(* Both loops done: the PENDING alerts follow the OPEN ones, then the run  *)
(* returns.                                                                *)
EndOfList(e) ==
    /\ run[e].pc = "loop"
    /\ run[e].todo = {}
    /\ IF run[e].phase = "OPEN"
       THEN Becomes(e, [run[e] EXCEPT !.pc = "query", !.phase = "PENDING"])
       ELSE Becomes(e, Idle)
    /\ UNCHANGED store

-----------------------------------------------------------------------------
(* processAlert: the branch taken for an alert of the snapshot.            *)

(* Mutant: every new decision closes its alert.                            *)
PlanAddProcessed(rule, type, final) ==
    [NoPlan EXCEPT !.write = "add", !.rule = rule, !.type = type, !.final = "PROCESSED"]

PlanAdd(rule, type, final) ==
    [NoPlan EXCEPT !.write = "add", !.rule = rule, !.type = type, !.final = final]

(* Branch 1: the rule of the violated detection rule.                      *)
HasDetectionRuleBased(R, a) ==
    AlertOf[a].origin = "rule" /\ DetectionRuleBased(R, AlertOf[a].refRuleId) # {}

(* Branch 2: the rules of the detector.                                    *)
HasDetectionTypeBased(R, a) ==
    AlertOf[a].origin = "rule" /\ DetectionTypeBased(R, AlertOf[a].detectorType) # {}

(* Branches for an anomaly: the cause, else the state an operator set on   *)
(* its decision, which is read from the database now.                      *)
AnomalyDecision(a) ==
    IF AlertOf[a].origin = "anomaly" THEN DecisionByAlertId(a) ELSE 0

HasCause(d) == d # 0 /\ decisions[d].cause # NoValue

HasState(d) == d # 0 /\ decisions[d].state # NoValue

(* A cause without a matching rule: selected is null and dereferenced.     *)
PlanForCause(R, d) ==
    LET rule == SelectCauseRule(R, decisions[d].cause, decisions[d].state)
    IN  IF rule = NoRule THEN Throws
        ELSE [write |-> "setTypeAndRule", decision |-> d, rule |-> rule,
              type |-> RuleOf[rule].decisionType, final |-> "PROCESSED"]

(* A state: either no rule matches and selected is null, or saveDecision   *)
(* persists a detached row, which Hibernate refuses.                       *)
PlanForState == Throws

(* Mutants: a PENDING alert gets another decision, or stays PENDING.       *)
PlanForSeverityAdding(R, phase, severity) ==
    LET rule == SelectTieBreaker(SeverityTypeBased(R, severity))
    IN  PlanAdd(rule, RuleOf[rule].decisionType, "PROCESSED")

PlanForSeverityStillPending(R, phase, severity) ==
    LET rule == SelectTieBreaker(SeverityTypeBased(R, severity))
        add  == PlanAdd(rule, RuleOf[rule].decisionType, "PROCESSED")
    IN  IF phase = "OPEN" THEN add
        ELSE [add EXCEPT !.write = "updateForFinding", !.final = "PENDING"]

PlanForSeverity(R, phase, severity) ==
    LET rule == SelectTieBreaker(SeverityTypeBased(R, severity))
        add  == PlanAdd(rule, RuleOf[rule].decisionType, "PROCESSED")
    IN  IF phase = "OPEN" THEN add
        ELSE [add EXCEPT !.write = "updateForFinding"]

PlanOf(R, a, phase, severity) ==
    LET d == AnomalyDecision(a)
        byRule == SelectDetectionRuleBased(R, AlertOf[a].refRuleId)
        byType == SelectTieBreaker(DetectionTypeBased(R, AlertOf[a].detectorType))
    IN  CASE phase = "OPEN" /\ HasDetectionRuleBased(R, a) ->
                PlanAdd(byRule, RuleOf[byRule].decisionType, "PROCESSED")
          [] phase = "OPEN" /\ ~HasDetectionRuleBased(R, a)
                /\ HasDetectionTypeBased(R, a) ->
                PlanAdd(byType, RuleOf[byType].decisionType, "PROCESSED")
          [] HasCause(d) -> PlanForCause(R, d)
          [] ~HasCause(d) /\ HasState(d) -> PlanForState
          [] OTHER ->
                IF SeverityTypeBased(R, severity) # {}
                THEN PlanForSeverity(R, phase, severity)
                ELSE IF phase = "OPEN"
                THEN PlanAdd(NoRule, "MANUAL_ACTION", "PENDING")
                ELSE NoPlan

(* Mutant: the default manual decision is not stored.                      *)
ProcessAlertForgetsDefault(e) ==
    /\ run[e].pc = "loop"
    /\ \E a \in run[e].todo :
       LET x == run[e]
           plan == PlanOf(x.loaded, a, x.phase, x.severity[a])
           rest == Rest(x, x.todo \ {a})
       IN  CASE plan.write = "throw" -> Becomes(e, Idle)
             [] plan.write = "none"  -> Becomes(e, rest)
             [] OTHER -> Becomes(e, [rest EXCEPT
                            !.pc = IF plan.rule = NoRule THEN "status" ELSE "write",
                            !.alert = a, !.plan = plan])
    /\ UNCHANGED store

(* The next alert of the list, whichever the query put there: it asks for  *)
(* no order.                                                               *)
ProcessAlert(e) ==
    /\ run[e].pc = "loop"
    /\ \E a \in run[e].todo :
       LET x == run[e]
           plan == PlanOf(x.loaded, a, x.phase, x.severity[a])
       IN  CASE plan.write = "throw" -> Becomes(e, Idle)
             [] plan.write = "none"  -> Becomes(e, Rest(x, x.todo \ {a}))
             [] OTHER -> Becomes(e, [Rest(x, x.todo \ {a}) EXCEPT
                                       !.pc = "write", !.alert = a, !.plan = plan])
    /\ UNCHANGED store

(* Mutant: the refusal of the foreign key is swallowed.                    *)
WriteDecisionUnchecked(e) ==
    LET x == run[e]
    IN  /\ x.pc = "write"
        /\ IF ReferencesHold(x.plan.rule) /\ x.plan.write = "add"
           THEN AddDecision(NewDecision(x.alert, x.plan.type, x.plan.rule,
                                        AlertOf[x.alert].src, AlertOf[x.alert].dst))
           ELSE UNCHANGED decisions
        /\ Becomes(e, [x EXCEPT !.pc = "status"])
        /\ UNCHANGED <<alertStatus, alertSeverity, decisionRules, actions, flows>>

(* The first transaction: the decision.  The foreign key refuses a rule    *)
(* removed since it was loaded, and the exception ends the run.            *)
WriteDecision(e) ==
    LET x == run[e]
    IN  /\ x.pc = "write"
        /\ IF ReferencesHold(x.plan.rule)
           THEN /\ CASE x.plan.write = "add" ->
                         AddDecision(NewDecision(x.alert, x.plan.type, x.plan.rule,
                                                 AlertOf[x.alert].src,
                                                 AlertOf[x.alert].dst))
                     [] x.plan.write = "updateForFinding" ->
                         UpdateDecisionForFinding(x.alert, x.plan.rule, x.plan.type)
                     [] x.plan.write = "setTypeAndRule" ->
                         SetDecisionTypeAndRule(x.plan.decision, x.plan.type, x.plan.rule)
                /\ Becomes(e, [x EXCEPT !.pc = "status"])
           ELSE /\ Becomes(e, Idle)
                /\ UNCHANGED decisions
        /\ UNCHANGED <<alertStatus, alertSeverity, decisionRules, actions, flows>>

(* The second transaction: the status of the alert.                        *)
WriteAlertStatus(e) ==
    /\ run[e].pc = "status"
    /\ UpdateAlertStatus(run[e].alert, run[e].plan.final)
    /\ Becomes(e, Rest(run[e], run[e].todo))
    /\ UNCHANGED <<alertSeverity, decisionRules, decisions, actions, flows>>

(* The server stops, or the database fails: the run is over.               *)
RunDies(e) ==
    /\ run[e].pc # "idle"
    /\ Becomes(e, Idle)
    /\ UNCHANGED store

DEStep(e) ==
    \/ LoadDecisionRules(e)
    \/ QueryAlerts(e)
    \/ EndOfList(e)
    \/ ProcessAlert(e)
    \/ WriteDecision(e)
    \/ WriteAlertStatus(e)
=============================================================================
