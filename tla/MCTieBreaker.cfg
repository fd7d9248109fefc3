CONSTANTS
    MaxRules = 3
    Severities = {"NULL", "UNKNOWN", "LOW", "HIGH"}
    Types = {"IGNORE", "ALERT_ONLY", "BLOCK_DESTINATION", "BLOCK_BETWEEN_PAIR"}
    Candidates <- MCCandidates
SPECIFICATION Spec
INVARIANTS
    ReturnsTieBreakWinner
    LoopInv
CHECK_DEADLOCK FALSE
