CONSTANTS
    RuleIds = {1, 2, 3}
    RuleOf <- FindingRules
    CachedStates = {"s1"}
    AlertIds = {1, 2}
    AlertOf <- Findings
    Causes = {}
    States = {}
    Hosts = {"h1", "h2"}
    Switches = {"sw1", "sw2"}
    SwitchOf <- TwoSwitches
    DecisionRuns = {e1}
    ActionWorkers = {w1}
    Operators = {o1}
    OperatorOps = {"setSeverity", "setActionType"}
    MaxRequests = 1
    MaxCrashes = 1
SPECIFICATION Spec
INVARIANTS
    PerformedHasAction
    FlowsOrdered
    ProcessedIsDecided
PROPERTIES
    ImplementsLifecycle
