----------------------------- MODULE MCResponse -----------------------------
(* Instances of the response pipeline for the model checker: the rows of   *)
(* decision_rule and the findings, chosen by each configuration.           *)
EXTENDS ResponsePipeline, TLC

Rule(ref, type, severity, cause, state, decisionType) ==
    [detectionRuleRef |-> ref, detectionRuleType |-> type, severity |-> severity,
     cause |-> cause, state |-> state, decisionType |-> decisionType]

(* Rules of the four criteria; two of one severity make a tie.             *)
FindingRules ==
    1 :> Rule("r1", NoValue, NoValue, NoValue, NoValue, "BLOCK_BETWEEN_PAIR")
    @@ 2 :> Rule(NoValue, "DOS", NoValue, NoValue, NoValue, "BLOCK_SOURCE")
    @@ 3 :> Rule(NoValue, NoValue, "HIGH", NoValue, NoValue, "BLOCK_DESTINATION")
    @@ 4 :> Rule(NoValue, NoValue, "HIGH", NoValue, NoValue, "ALERT_ONLY")
    @@ 5 :> Rule(NoValue, NoValue, "LOW", NoValue, NoValue, "ALERT_ONLY")

(* Two findings of detectors.                                              *)
Finding(ref, type, src, dst) ==
    [origin |-> "rule", refRuleId |-> ref, detectorType |-> type, src |-> src, dst |-> dst]

Findings == 1 :> Finding("r1", "DOS", "h1", "h2")
            @@ 2 :> Finding("r2", "CONNECTIVITY", "h2", "h1")

(* Rules for anomalies, and one by severity.                               *)
AnomalyRules ==
    1 :> Rule(NoValue, NoValue, NoValue, "c1", NoValue, "ALERT_ONLY")
    @@ 2 :> Rule(NoValue, NoValue, NoValue, "c1", "s1", "BLOCK_SOURCE")
    @@ 3 :> Rule(NoValue, NoValue, NoValue, NoValue, "s1", "IGNORE")
    @@ 4 :> Rule(NoValue, NoValue, "HIGH", NoValue, NoValue, "BLOCK_SOURCE")

AnomalyAlert(src) ==
    [origin |-> "anomaly", refRuleId |-> NoValue, detectorType |-> NoValue,
     src |-> src, dst |-> NoValue]

Anomalies == 1 :> AnomalyAlert("h1")

AnomalyThenFinding == 1 :> AnomalyAlert("h1") @@ 2 :> Finding("r2", "DOS", "h2", "h1")

(* h2 is not in the inventory of the controller.                           *)
TwoSwitches == "h1" :> "sw1" @@ "h2" :> "sw2"
OneSwitch   == "h1" :> "sw1" @@ "h2" :> NoValue

(* Runs of the decision engine differ only in name, as do passes of the    *)
(* action engine.                                                          *)
ThreadSymmetry == Permutations(ActionWorkers) \cup Permutations(DecisionRuns)
=============================================================================
