CONSTANTS
    RuleIds = {1, 2}
    RuleOf <- AnomalyRules
    CachedStates = {"s1"}
    AlertIds = {1}
    AlertOf <- Anomalies
    Causes = {"c1", "c2"}
    States = {"s1"}
    Hosts = {"h1", "h2"}
    Switches = {"sw1", "sw2"}
    SwitchOf <- TwoSwitches
    DecisionRuns = {e1}
    ActionWorkers = {w1}
    Operators = {o1, o2}
    OperatorOps = {"setCauseOnAlert", "setAnomalyStateOnAlert", "REST state", "REST cause", "REST confirm", "REST confirm all", "REST classification"}
    MaxRequests = 2
    MaxCrashes = 0
SPECIFICATION Spec
INVARIANTS
    IInv
    DecisionFollowsItsRule
PROPERTIES
    ImplementsLifecycle
