--------------------------- MODULE DecisionRules ---------------------------
(***************************************************************************)
(* The containers DecisionEngine.loadDecisionRules sorts the rows of table *)
(* decision_rule into, and the choice of a rule from a container.  A row   *)
(* goes into the first container whose criterion it carries.  An engine is *)
(* created for one run, so a container is a function of the set R of rows  *)
(* the run has loaded; a list is in the order of the primary key.          *)
(***************************************************************************)
EXTENDS DecisionTypes, FiniteSets, FiniteSetsExt

CONSTANTS
    RuleIds,        \* primary keys of decision_rule
    RuleOf,         \* the columns of each row
    CachedStates    \* anomaly states whose ids the JVM boxes to one object

ASSUME RulesAssumption ==
    /\ RuleIds \subseteq Nat \ {0} /\ IsFiniteSet(RuleIds)
    /\ \A k \in RuleIds :
          /\ {"detectionRuleRef", "detectionRuleType", "severity", "cause",
              "state", "decisionType"} \subseteq DOMAIN RuleOf[k]
          /\ RuleOf[k].decisionType \in DecisionType

(* The null reference to a rule, and null for a rule not found.            *)
NoRule == 0

(* detectionRuleBasedDecisionRules1: one rule per detection rule, the last *)
(* put into the map.                                                       *)
DetectionRuleBased(R, ref) ==
    {k \in R : RuleOf[k].detectionRuleRef = ref /\ ref # NoValue}

SelectDetectionRuleBased(R, ref) == Max(DetectionRuleBased(R, ref))

(* detectionTypeBasedDecisionRules2                                        *)
DetectionTypeBased(R, type) ==
    {k \in R : /\ RuleOf[k].detectionRuleRef = NoValue
               /\ RuleOf[k].detectionRuleType = type
               /\ type # NoValue}

(* severityTypeBasedDecisionRules3                                         *)
SeverityTypeBased(R, severity) ==
    {k \in R : /\ RuleOf[k].detectionRuleRef = NoValue
               /\ RuleOf[k].detectionRuleType = NoValue
               /\ RuleOf[k].severity = severity
               /\ severity # NoValue}

Remaining(R) ==
    {k \in R : /\ RuleOf[k].detectionRuleRef = NoValue
               /\ RuleOf[k].detectionRuleType = NoValue
               /\ RuleOf[k].severity = NoValue}

(* causeDecisionRules4                                                     *)
CauseRules(R, cause) == {k \in Remaining(R) : RuleOf[k].cause = cause}

-----------------------------------------------------------------------------
(* selectTieBreakerRule over the list a container holds; TieBreaker shows  *)
(* that its loop returns the winner.                                       *)
SelectTieBreaker(S) == CHOOSE k \in S : WinsTieBreak(RuleOf, S, k)

(* r.getState().getId() == state.getId() compares two Long objects: equal  *)
(* ids are the same object only when the JVM caches them.                  *)
SameState(s, t) == s = t /\ s # NoValue /\ s \in CachedStates

(* selectCauseDecisionRule over causeDecisionRules4: the first rule of the *)
(* cause and the state, else the first rule of the cause with no state.    *)
SelectCauseRule(R, cause, state) ==
    LET rules    == CauseRules(R, cause)
        matching == {k \in rules : SameState(RuleOf[k].state, state)}
        general  == {k \in rules : RuleOf[k].state = NoValue}
    IN  IF matching # {} THEN Min(matching)
        ELSE IF general # {} THEN Min(general)
        ELSE NoRule
=============================================================================
