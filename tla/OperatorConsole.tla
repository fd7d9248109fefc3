-------------------------- MODULE OperatorConsole --------------------------
(***************************************************************************)
(* What operators and detectors do to the store: the operations of the     *)
(* browser console (GreetingServiceImpl) and of the REST services          *)
(* (AnomalyResource, AlertResource).  Each is a thread of the server that  *)
(* runs one DAO call after the other.  setCause, setState and              *)
(* setClassification of DecisionDAO read a decision, then open the         *)
(* transaction that writes the whole row back.                             *)
(***************************************************************************)
EXTENDS ResponseStore

CONSTANTS
    Operators,      \* server threads
    OperatorOps     \* the operations in use

VARIABLE task       \* task[o]: the request thread o executes

AllOperatorOps ==
    {"setCauseOnAlert", "setAnomalyStateOnAlert", "setActionType", "setSeverity",
     "addDecisionRule", "removeDecisionRule", "REST state", "REST cause",
     "REST confirm", "REST confirm all", "REST classification"}

ASSUME OperatorAssumption ==
    /\ OperatorOps \subseteq AllOperatorOps
    /\ NoValue \notin Operators

(* A column an operation sets on the decision of an alert.                 *)
Writes ==
    [field : {"cause"}, value : Causes]
    \cup [field : {"state"}, value : States]
    \cup [field : {"classification"}, value : {NoValue}]

NoRow == NewDecision(CHOOSE a \in AlertIds : TRUE, "IGNORE", NoRule, NoValue, NoValue)

(* decision and row: the decision read, 0 for none.  memo: the action type *)
(* chosen.  final: the status the alert is then given, if any.             *)
Tasks ==
    [pc : {"idle", "read", "commit", "memo", "status"},
     alert : AlertIds, writes : Seq(Writes),
     decision : Nat, row : Decisions, memo : Automated \cup {NoValue},
     final : {NoValue, "PENDING", "PROCESSED"}]

NoTask == [pc |-> "idle", alert |-> CHOOSE a \in AlertIds : TRUE, writes |-> <<>>,
           decision |-> 0, row |-> NoRow, memo |-> NoValue, final |-> NoValue]

OCTypeOK == task \in [Operators -> Tasks]

OCInit == task = [o \in Operators |-> NoTask]

Proceed(o, rec) == task' = [task EXCEPT ![o] = rec]

Free(o) == task[o].pc = "idle"

Known(a) == alertStatus[a] # "ABSENT"

IsAnomaly(a) == AlertOf[a].origin = "anomaly"

-----------------------------------------------------------------------------
(* Requests *)

Request(o, op, a, writes, final) ==
    /\ op \in OperatorOps
    /\ Free(o)
    /\ Known(a)
    /\ Proceed(o, [NoTask EXCEPT !.pc = "read", !.alert = a, !.writes = writes,
                                 !.final = final])
    /\ UNCHANGED store

SetCauseOnAlert(o, a, c) ==
    /\ IsAnomaly(a)
    /\ Request(o, "setCauseOnAlert", a, <<[field |-> "cause", value |-> c]>>, "PENDING")

SetAnomalyStateOnAlert(o, a, s) ==
    /\ IsAnomaly(a)
    /\ Request(o, "setAnomalyStateOnAlert", a, <<[field |-> "state", value |-> s]>>,
               "PENDING")

(* The REST services leave the status of the alert alone ...               *)
RestSetCause(o, a, c) ==
    /\ IsAnomaly(a)
    /\ Request(o, "REST cause", a, <<[field |-> "cause", value |-> c]>>, NoValue)

RestSetState(o, a, s) ==
    /\ IsAnomaly(a)
    /\ Request(o, "REST state", a, <<[field |-> "state", value |-> s]>>, NoValue)

Predicted(c, s) == <<[field |-> "cause", value |-> c], [field |-> "state", value |-> s]>>

RestConfirm(o, a, c, s) ==
    /\ IsAnomaly(a)
    /\ Request(o, "REST confirm", a, Predicted(c, s), NoValue)

(* ... but for the confirmation of all predictions, here that of one of    *)
(* the anomalies it goes through.                                          *)
RestConfirmAll(o, a, c, s) ==
    /\ IsAnomaly(a)
    /\ Request(o, "REST confirm all", a, Predicted(c, s), "PENDING")

RestSetClassification(o, a) ==
    Request(o, "REST classification", a,
            <<[field |-> "classification", value |-> NoValue]>>, NoValue)

-----------------------------------------------------------------------------
(* DecisionDAO.setCause, setState, setClassification                       *)

(* The query, before the transaction.                                      *)
ReadDecision(o) ==
    /\ task[o].pc = "read"
    /\ LET d == DecisionByAlertId(task[o].alert)
       IN  Proceed(o, [task[o] EXCEPT !.pc = "commit", !.decision = d,
                                      !.row = IF d = 0 THEN NoRow ELSE decisions[d]])
    /\ UNCHANGED store

SetField(row, w) ==
    CASE w.field = "cause"          -> [row EXCEPT !.cause = w.value]
      [] w.field = "state"          -> [row EXCEPT !.state = w.value]
      [] w.field = "classification" -> row

(* No decision yet: a manual one, with the source of the finding unless    *)
(* only a classification is set.                                           *)
DecisionFor(a, w) ==
    SetField(NewDecision(a, "MANUAL_ACTION", NoRule,
                         IF w.field = "classification" THEN NoValue ELSE AlertOf[a].src,
                         NoValue), w)

(* After a DAO call: the next one, the status of the alert, or the reply.  *)
AfterWrite(t) ==
    IF Len(t.writes) > 1
    THEN [t EXCEPT !.pc = "read", !.writes = Tail(t.writes), !.decision = 0, !.row = NoRow]
    ELSE IF t.final # NoValue
    THEN [NoTask EXCEPT !.pc = "status", !.alert = t.alert, !.final = t.final]
    ELSE NoTask

(* Mutant: the new decision is not persisted.                              *)
CommitDecisionWithoutInsert(o) ==
    LET t == task[o]
        w == Head(t.writes)
    IN  /\ t.pc = "commit"
        /\ IF t.decision = 0 THEN UNCHANGED decisions
           ELSE decisions' = [decisions EXCEPT ![t.decision] = SetField(t.row, w)]
        /\ Proceed(o, AfterWrite(t))
        /\ UNCHANGED <<alertStatus, alertSeverity, decisionRules, actions, flows>>

(* The transaction.  Hibernate writes every column as it was read, unless  *)
(* nothing changed; the foreign key refuses a rule removed meanwhile.      *)
CommitDecision(o) ==
    LET t == task[o]
        w == Head(t.writes)
        row == SetField(t.row, w)
    IN  /\ t.pc = "commit"
        /\ \/ /\ t.decision = 0
              /\ AddDecision(DecisionFor(t.alert, w))
              /\ Proceed(o, AfterWrite(t))
           \/ /\ t.decision # 0
              /\ row # t.row \/ w.field = "classification"
              /\ ReferencesHold(row.rule)
              /\ decisions' = [decisions EXCEPT ![t.decision] = row]
              /\ Proceed(o, AfterWrite(t))
           \/ /\ t.decision # 0
              /\ row # t.row \/ w.field = "classification"
              /\ ~ReferencesHold(row.rule)
              /\ Proceed(o, NoTask)
              /\ UNCHANGED decisions
           \/ /\ t.decision # 0
              /\ row = t.row
              /\ Proceed(o, AfterWrite(t))
              /\ UNCHANGED decisions
        /\ UNCHANGED <<alertStatus, alertSeverity, decisionRules, actions, flows>>

WriteStatus(o) ==
    /\ task[o].pc = "status"
    /\ UpdateAlertStatus(task[o].alert, task[o].final)
    /\ Proceed(o, NoTask)
    /\ UNCHANGED <<alertSeverity, decisionRules, decisions, actions, flows>>

-----------------------------------------------------------------------------
(* The other operations of the console *)

(* DecisionUI offers an action type for a decision it shows as OPEN and    *)
(* MANUAL_ACTION.  The browser keeps the decision, and the status its      *)
(* alert had, until the operator has chosen.                               *)
ChooseAction(o, d, type) ==
    /\ "setActionType" \in OperatorOps
    /\ Free(o)
    /\ decisions[d].decisionType = "MANUAL_ACTION"
    /\ decisions[d].status = "OPEN"
    /\ LET a == decisions[d].issue
       IN  Proceed(o, [NoTask EXCEPT
                         !.pc = "memo", !.alert = a, !.decision = d, !.memo = type,
                         !.final = IF alertStatus[a] = "PENDING" THEN "PROCESSED"
                                   ELSE NoValue])
    /\ UNCHANGED store

(* setActionTypeOnManualDecision *)
SetActionTypeOnManualDecision(o) ==
    /\ task[o].pc = "memo"
    /\ SetActionType(task[o].decision, task[o].memo)
    /\ Proceed(o, AfterWrite(task[o]))
    /\ UNCHANGED <<alertStatus, alertSeverity, decisionRules, actions, flows>>

(* setSeverityOnAlert, of an alert the console showed as OPEN or PENDING;  *)
(* it may have been processed since.                                       *)
SetSeverity(o, a, severity) ==
    /\ "setSeverity" \in OperatorOps
    /\ Free(o)
    /\ Known(a)
    /\ SetSeverityOnAlert(a, severity)
    /\ UNCHANGED <<alertStatus, decisionRules, decisions, actions, flows, task>>

AddDecisionRule(k) ==
    /\ "addDecisionRule" \in OperatorOps
    /\ k \notin decisionRules
    /\ decisionRules' = decisionRules \cup {k}
    /\ UNCHANGED <<alertStatus, alertSeverity, decisions, actions, flows, task>>

(* The foreign key refuses the removal of a rule a decision refers to.     *)
RemoveDecisionRule(k) ==
    /\ "removeDecisionRule" \in OperatorOps
    /\ k \in decisionRules
    /\ \A d \in DOMAIN decisions : decisions[d].rule # k
    /\ decisionRules' = decisionRules \ {k}
    /\ UNCHANGED <<alertStatus, alertSeverity, decisions, actions, flows, task>>

(* AlertDAO.addAlert, by a detector or AnomalyResource.newAnomaly.         *)
NewAlert(a) ==
    /\ AddAlert(a)
    /\ UNCHANGED <<alertSeverity, decisionRules, decisions, actions, flows, task>>

(* The server stops, or a transaction fails: the rest is not done.         *)
RequestDies(o) ==
    /\ ~Free(o)
    /\ Proceed(o, NoTask)
    /\ UNCHANGED store

Submit(o) ==
    \/ \E a \in AlertIds, c \in Causes :
          SetCauseOnAlert(o, a, c) \/ RestSetCause(o, a, c)
    \/ \E a \in AlertIds, s \in States :
          SetAnomalyStateOnAlert(o, a, s) \/ RestSetState(o, a, s)
    \/ \E a \in AlertIds, c \in Causes, s \in States :
          RestConfirm(o, a, c, s) \/ RestConfirmAll(o, a, c, s)
    \/ \E a \in AlertIds : RestSetClassification(o, a)
    \/ \E d \in DOMAIN decisions, type \in Automated : ChooseAction(o, d, type)
    \/ \E a \in AlertIds, severity \in SeverityType : SetSeverity(o, a, severity)

OCStep(o) ==
    \/ ReadDecision(o)
    \/ CommitDecision(o)
    \/ WriteStatus(o)
    \/ SetActionTypeOnManualDecision(o)
=============================================================================
