CONSTANTS
    RuleIds = {2, 3}
    RuleOf <- FindingRules
    CachedStates = {"s1"}
    AlertIds = {1}
    AlertOf <- Findings
    Causes = {}
    States = {}
    Hosts = {"h1", "h2"}
    Switches = {"sw1"}
    SwitchOf <- OneSwitch
    DecisionRuns = {e1, e2}
    ActionWorkers = {w1, w2}
    Operators = {o1}
    OperatorOps = {"setSeverity", "setActionType", "addDecisionRule", "removeDecisionRule"}
    MaxRequests = 1
    MaxCrashes = 0
SPECIFICATION Spec
SYMMETRY ThreadSymmetry
INVARIANTS
    DecidedHasDecision
    DecisionFollowsItsRule
PROPERTIES
    PerformedStays
