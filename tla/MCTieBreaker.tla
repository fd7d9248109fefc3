---------------------------- MODULE MCTieBreaker ----------------------------
(* Candidate lists of up to MaxRules rules over the given severities and   *)
(* decision types, for the model checker.                                  *)
EXTENDS TieBreaker, TLC

CONSTANTS MaxRules, Severities, Types

MCRules == [severity : Severities, decisionType : Types]

MCCandidates == UNION {[1 .. n -> MCRules] : n \in 1 .. MaxRules}
=============================================================================
