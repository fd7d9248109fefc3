--------------------------- MODULE DecisionTypes ---------------------------
(***************************************************************************)
(* The enumerations of com.essence.model that the decision and the action  *)
(* engine compare, their ranks, and what it means for a rule to win the    *)
(* tie-break of DecisionEngine.selectTieBreakerRule.                       *)
(***************************************************************************)
EXTENDS Integers, Sequences

(* A null column or field. *)
NoValue == "NULL"

SeverityType == {"HIGH", "MEDIUM", "LOW", "INFORMATIONAL"}

DecisionType == {"BLOCK_SOURCE", "BLOCK_BETWEEN_PAIR", "BLOCK_DESTINATION",
                 "ALERT_ONLY", "MANUAL_ACTION", "IGNORE"}

(* getOrder(String): null, empty and unknown strings rank below every      *)
(* constant of the enumeration.                                            *)
SeverityOrder(s) ==
    CASE s = "HIGH"          -> 3
      [] s = "MEDIUM"        -> 2
      [] s = "LOW"           -> 1
      [] s = "INFORMATIONAL" -> 0
      [] OTHER               -> -1

DecisionTypeOrder(t) ==
    CASE t = "BLOCK_SOURCE"       -> 5
      [] t = "BLOCK_BETWEEN_PAIR" -> 4
      [] t = "BLOCK_DESTINATION"  -> 3
      [] t = "ALERT_ONLY"         -> 2
      [] t = "MANUAL_ACTION"      -> 1
      [] t = "IGNORE"             -> 0
      [] OTHER                    -> -1

-----------------------------------------------------------------------------
(* The tie-break among the rules rs[j], j in the index set D, which is     *)
(* also their order: a list and its positions, or table decision_rule and  *)
(* primary keys.                                                           *)

RanksBySeverity(rs, D) == \E j \in D : SeverityOrder(rs[j].severity) > -1

(* s is the first candidate of the highest severity. *)
WinsBySeverity(rs, D, s) ==
    /\ s \in D
    /\ \A j \in D :
          /\ SeverityOrder(rs[j].severity) <= SeverityOrder(rs[s].severity)
          /\ j < s => SeverityOrder(rs[j].severity) < SeverityOrder(rs[s].severity)

(* A candidate whose severity column is not null, even with an unknown     *)
(* value, never takes part in the comparison of decision types.            *)
Typed(rs, D) ==
    {j \in D : /\ rs[j].severity = NoValue
               /\ DecisionTypeOrder(rs[j].decisionType) > -1}

(* s is the first typed candidate of the highest decision type, or the     *)
(* first candidate of all when none is typed.                              *)
WinsByType(rs, D, s) ==
    \/ /\ Typed(rs, D) = {}
       /\ \A j \in D : s <= j
    \/ /\ s \in Typed(rs, D)
       /\ \A j \in Typed(rs, D) :
             /\ DecisionTypeOrder(rs[j].decisionType) <= DecisionTypeOrder(rs[s].decisionType)
             /\ j < s => DecisionTypeOrder(rs[j].decisionType)
                             < DecisionTypeOrder(rs[s].decisionType)

WinsTieBreak(rs, D, s) ==
    IF RanksBySeverity(rs, D) THEN WinsBySeverity(rs, D, s)
                              ELSE WinsByType(rs, D, s)
=============================================================================
