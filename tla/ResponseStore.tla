--------------------------- MODULE ResponseStore ---------------------------
(***************************************************************************)
(* The state the detectors, the decision engine, the action engine and the *)
(* operators share: the tables alert, decision_rule, decision and action   *)
(* of the relational database and the flow tables of the OpenDaylight      *)
(* switches.  Each operator below is one committed transaction of a DAO,   *)
(* or one request to the controller, and gives the table it changes its    *)
(* next value; the engines are interleaved between transactions.           *)
(***************************************************************************)
EXTENDS DecisionRules

CONSTANTS
    AlertIds,       \* primary keys of alert
    AlertOf,        \* what a detector wrote: an analyzer_result or an anomaly
    Causes,         \* rows of table cause
    States,         \* rows of table anomaly_state
    Hosts,          \* IP addresses
    Switches        \* switches the controller knows

(* The match of a flow entry is an address or, for any, this range.        *)
AnyHost == "0.0.0.0/0"

ASSUME StoreAssumption ==
    /\ AlertIds \subseteq Nat /\ AlertIds # {}
    /\ \A a \in AlertIds :
          /\ AlertOf[a].origin \in {"rule", "anomaly"}
          /\ {"refRuleId", "detectorType", "src", "dst"} \subseteq DOMAIN AlertOf[a]
          /\ {AlertOf[a].src, AlertOf[a].dst} \subseteq Hosts \cup {NoValue}
          /\ AlertOf[a].origin = "anomaly" => AlertOf[a].dst = NoValue
    /\ NoValue \notin Causes \cup States \cup Hosts \cup Switches
    /\ AnyHost \notin Hosts

VARIABLES
    alertStatus,    \* column status of alert; "ABSENT" before its insertion
    alertSeverity,  \* column severity of alert
    decisionRules,  \* primary keys present in decision_rule
    decisions,      \* rows of decision; the id is the position
    actions,        \* rows of action, in insertion order
    flows           \* entry /table/0/flow/1 of each switch

store == <<alertStatus, alertSeverity, decisionRules, decisions, actions, flows>>

AlertStatus == {"ABSENT", "OPEN", "PENDING", "PROCESSED"}

Severities == SeverityType \cup {NoValue}

(* The types and memos ActionEngine.processDecision acts upon.             *)
Automated == DecisionType \ {"MANUAL_ACTION"}

Decisions ==
    [issue : AlertIds, decisionType : DecisionType, rule : RuleIds \cup {NoRule},
     src : Hosts \cup {NoValue}, dst : Hosts \cup {NoValue},
     memo : Automated \cup {NoValue}, status : {"OPEN", "PERFORMED"},
     cause : Causes \cup {NoValue}, state : States \cup {NoValue}]

Actions == [decision : Nat \ {0}, kind : Automated]

NoFlow == [src |-> NoValue, dst |-> NoValue]

Flows == [src : Hosts \cup {AnyHost, NoValue}, dst : Hosts \cup {AnyHost, NoValue}]

StoreTypeOK ==
    /\ alertStatus \in [AlertIds -> AlertStatus]
    /\ alertSeverity \in [AlertIds -> Severities]
    /\ decisionRules \subseteq RuleIds
    /\ decisions \in Seq(Decisions)
    /\ actions \in Seq(Actions)
    /\ flows \in [Switches -> Flows]

StoreInit ==
    /\ alertStatus = [a \in AlertIds |-> "ABSENT"]
    /\ alertSeverity = [a \in AlertIds |-> NoValue]
    /\ decisionRules \in SUBSET RuleIds
    /\ decisions = <<>>
    /\ actions = <<>>
    /\ flows = [s \in Switches |-> NoFlow]

-----------------------------------------------------------------------------
(* AlertDAO *)
AddAlert(a) ==
    /\ alertStatus[a] = "ABSENT"
    /\ alertStatus' = [alertStatus EXCEPT ![a] = "OPEN"]

UpdateAlertStatus(a, status) ==
    alertStatus' = [alertStatus EXCEPT ![a] = status]

SetSeverityOnAlert(a, severity) ==
    alertSeverity' = [alertSeverity EXCEPT ![a] = severity]

ActiveAlertsByStatus(status) == {a \in AlertIds : alertStatus[a] = status}

-----------------------------------------------------------------------------
(* DecisionDAO *)
NewDecision(a, type, rule, src, dst) ==
    [issue |-> a, decisionType |-> type, rule |-> rule, src |-> src, dst |-> dst,
     memo |-> NoValue, status |-> "OPEN", cause |-> NoValue, state |-> NoValue]

(* Foreign key decision_ibfk_2: a row cannot refer to a missing rule.      *)
ReferencesHold(rule) == rule = NoRule \/ rule \in decisionRules

AddDecision(d) == decisions' = Append(decisions, d)

DecisionsOfAlert(a) == {d \in DOMAIN decisions : decisions[d].issue = a}

(* getDecisionByAlertId: the first row of the alert, 0 for null.           *)
DecisionByAlertId(a) ==
    IF DecisionsOfAlert(a) = {} THEN 0 ELSE Min(DecisionsOfAlert(a))

(* Mutants: a native update that forgets the type, or reopens.             *)
UpdateDecisionRuleOnly(a, rule, type) ==
    decisions' = [d \in DOMAIN decisions |->
                    IF decisions[d].issue = a
                    THEN [decisions[d] EXCEPT !.rule = rule] ELSE decisions[d]]

SetDecisionRuleOnly(d, type, rule) == decisions' = [decisions EXCEPT ![d].rule = rule]

UpdateDecisionForFindingReopening(a, rule, type) ==
    decisions' = [d \in DOMAIN decisions |->
                    IF decisions[d].issue = a
                    THEN [decisions[d] EXCEPT !.rule = rule, !.decisionType = type,
                                              !.status = "OPEN"]
                    ELSE decisions[d]]

(* Mutant: a query without its condition.                                  *)
DecisionsOfAnyStatus(status) == DOMAIN decisions

(* updateDecisionForFinding: every decision of the alert.                  *)
UpdateDecisionForFinding(a, rule, type) ==
    decisions' = [d \in DOMAIN decisions |->
                    IF decisions[d].issue = a
                    THEN [decisions[d] EXCEPT !.rule = rule, !.decisionType = type]
                    ELSE decisions[d]]

SetDecisionTypeAndRule(d, type, rule) ==
    decisions' = [decisions EXCEPT ![d].decisionType = type, ![d].rule = rule]

UpdateDecisionStatus(d, status) ==
    decisions' = [decisions EXCEPT ![d].status = status]

SetActionType(d, type) == decisions' = [decisions EXCEPT ![d].memo = type]

DecisionsByStatus(status) == {d \in DOMAIN decisions : decisions[d].status = status}

-----------------------------------------------------------------------------
(* ActionDAO *)
AddAction(d, kind) == actions' = Append(actions, [decision |-> d, kind |-> kind])

ActionsOf(d) == {n \in DOMAIN actions : actions[n].decision = d}
=============================================================================
