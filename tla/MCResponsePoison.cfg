CONSTANTS
    RuleIds = {1, 4}
    RuleOf <- AnomalyRules
    CachedStates = {"s1"}
    AlertIds = {1, 2}
    AlertOf <- AnomalyThenFinding
    Causes = {"c1"}
    States = {"s1"}
    Hosts = {"h1", "h2"}
    Switches = {"sw1", "sw2"}
    SwitchOf <- TwoSwitches
    DecisionRuns = {e1}
    ActionWorkers = {w1}
    Operators = {o1}
    OperatorOps = {"REST state"}
    MaxRequests = 1
    MaxCrashes = 0
SPECIFICATION EagerSpec
PROPERTIES
    OpenIsDecided
