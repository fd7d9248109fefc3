CONSTANTS
    RuleIds = {3, 5}
    RuleOf <- FindingRules
    CachedStates = {"s1"}
    AlertIds = {2}
    AlertOf <- Findings
    Causes = {}
    States = {}
    Hosts = {"h1", "h2"}
    Switches = {"sw1", "sw2"}
    SwitchOf <- TwoSwitches
    DecisionRuns = {e1}
    ActionWorkers = {w1}
    Operators = {o1}
    OperatorOps = {"setSeverity", "setActionType"}
    MaxRequests = 2
    MaxCrashes = 1
SPECIFICATION FairSpec
INVARIANTS
    OneDecisionPerAlert
    OneActionPerDecision
    PerformedMatchesAction
PROPERTIES
    ActionableIsPerformed
