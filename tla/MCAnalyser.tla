----------------------------- MODULE MCAnalyser -----------------------------
(* Instances of the packet analyser for the model checker: packets of one  *)
(* host at distinct times, the third to another destination; the first two *)
(* violate a rule.                                                         *)
EXTENDS AnalyserEngine

TwoModules   == <<"DoS", "MSPConnectivity">>
OneEachTime  == [p \in Packets |-> p]
FromA        == [p \in Packets |-> "a"]
FirstTwoToB  == [p \in Packets |-> IF p <= 2 THEN "b" ELSE "c"]
FirstTwoHit  == "MSPConnectivity" :> {1, 2}
=============================================================================
