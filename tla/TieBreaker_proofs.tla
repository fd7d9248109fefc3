------------------------- MODULE TieBreaker_proofs -------------------------
(***************************************************************************)
(* selectTieBreakerRule returns the winner of the tie-break for every list *)
(* of candidate rules.  The loop invariant LoopInv is inductive.           *)
(***************************************************************************)
EXTENDS TieBreaker, TLAPS

(* The ranks of severities and of decision types are bounded integers.     *)
LEMMA SeverityOrderRange ==
    ASSUME NEW s PROVE SeverityOrder(s) \in -1 .. 3
BY DEF SeverityOrder

(* DecisionType.getOrder is an integer from 0 to 5.                        *)
LEMMA DecisionTypeOrderRange ==
    ASSUME NEW t PROVE DecisionTypeOrder(t) \in -1 .. 5
BY DEF DecisionTypeOrder

(* A null field ranks below every constant of its enumeration.             *)
LEMMA NoValueOrder ==
    SeverityOrder(NoValue) = -1 /\ DecisionTypeOrder(NoValue) = -1
BY DEF SeverityOrder, DecisionTypeOrder, NoValue

(* The parameter of selectTieBreakerRule is a non-empty list.              *)
LEMMA RulesAreSequences ==
    ASSUME TypeOK PROVE /\ Len(rules) \in Nat \ {0}
                        /\ rules \in Seq([severity : STRING, decisionType : STRING])
BY CandidatesAssumption DEF TypeOK

(* The invariant holds before the first iteration.                         *)
LEMMA LoopInvInit == Init => LoopInv
<1> SUFFICES ASSUME Init PROVE LoopInv
  OBVIOUS
<1>1. Len(rules) \in Nat \ {0}
  BY CandidatesAssumption DEF Init
<1>2. TypeOK
  BY <1>1 DEF Init, TypeOK
<1>3. ~RanksBySeverity(rules, 1 .. i - 1) /\ Typed(rules, 1 .. i - 1) = {}
  BY DEF Init, RanksBySeverity, Typed
<1>4. WinsTieBreak(rules, 1 .. i - 1, selected)
  BY <1>3 DEF WinsTieBreak, WinsByType, Init
<1> QED
  BY <1>2, <1>3, <1>4 DEF LoopInv, Init

(* An iteration of branch 2 keeps the invariant: once a severity has been  *)
(* seen the winner among the rules seen is the first of highest severity.  *)
LEMMA CompareSeverityKeepsLoopInv ==
    ASSUME LoopInv, CompareSeverity PROVE LoopInv'
<1> DEFINE o(j) == SeverityOrder(rules[j].severity)
<1>1. /\ Len(rules) \in Nat \ {0} /\ i \in 1 .. Len(rules)
      /\ selected \in 1 .. Len(rules)
      /\ \A j : o(j) \in -1 .. 3
  BY RulesAreSequences, SeverityOrderRange DEF LoopInv, TypeOK, CompareSeverity
<1>2. TypeOK'
  BY <1>1 DEF LoopInv, TypeOK, CompareSeverity, r
<1>3. rules' = rules /\ i' - 1 = i /\ i' # 1 /\ decisionTypeOrder' = decisionTypeOrder
  BY <1>1 DEF CompareSeverity
<1>4. CASE o(i) > severityOrder
  <2>1. severityOrder' = o(i) /\ selected' = i
    BY <1>4 DEF CompareSeverity, r
  <2>2. o(i) > -1
    BY <1>1, <1>4 DEF LoopInv, TypeOK
  <2>3. RanksBySeverity(rules, 1 .. i)
    BY <1>1, <2>2 DEF RanksBySeverity
  <2>4. \A j \in 1 .. (i - 1) : o(j) <= severityOrder
    <3>1. CASE RanksBySeverity(rules, 1 .. i - 1)
      BY <1>1, <3>1 DEF LoopInv, WinsTieBreak, WinsBySeverity
    <3>2. CASE ~RanksBySeverity(rules, 1 .. i - 1)
      BY <1>1, <3>2 DEF LoopInv, RanksBySeverity
    <3> QED
      BY <3>1, <3>2
  <2>5. WinsBySeverity(rules, 1 .. i, i)
    BY <1>1, <1>4, <2>4, SMTT(30) DEF WinsBySeverity, LoopInv, TypeOK
  <2> QED
    BY <1>2, <1>3, <2>1, <2>3, <2>5 DEF LoopInv, WinsTieBreak
<1>5. CASE ~(o(i) > severityOrder)
  <2>1. severityOrder' = severityOrder /\ selected' = selected
    BY <1>5 DEF CompareSeverity, r
  <2>2. CASE severityOrder > -1
    <3>1. RanksBySeverity(rules, 1 .. i - 1)
      BY <2>2 DEF LoopInv
    <3>2. RanksBySeverity(rules, 1 .. i)
      BY <1>1, <3>1 DEF RanksBySeverity
    <3>3. severityOrder = o(selected) /\ WinsBySeverity(rules, 1 .. i - 1, selected)
      BY <3>1 DEF LoopInv, WinsTieBreak
    <3>4. WinsBySeverity(rules, 1 .. i, selected)
      BY <1>1, <1>5, <3>3 DEF WinsBySeverity
    <3> QED
      BY <1>2, <1>3, <2>1, <3>2, <3>3, <3>4 DEF LoopInv, WinsTieBreak
  <2>3. CASE ~(severityOrder > -1)
    <3>1. severityOrder = -1 /\ o(i) = -1
      BY <1>1, <1>5, <2>3 DEF LoopInv, TypeOK
    <3>2. rules[i].severity # NoValue
      BY <2>3 DEF CompareSeverity, SeverityDecides, r
    <3>3. ~RanksBySeverity(rules, 1 .. i - 1)
      <4> SUFFICES ASSUME RanksBySeverity(rules, 1 .. i - 1) PROVE FALSE
        OBVIOUS
      <4>1. o(selected) = -1 /\ WinsBySeverity(rules, 1 .. i - 1, selected)
        BY <3>1 DEF LoopInv, WinsTieBreak
      <4> QED
        BY <1>1, <4>1 DEF RanksBySeverity, WinsBySeverity
    <3>4. ~RanksBySeverity(rules, 1 .. i)
      BY <1>1, <3>1, <3>3 DEF RanksBySeverity
    <3>5. Typed(rules, 1 .. i) = Typed(rules, 1 .. i - 1)
      BY <1>1, <3>2 DEF Typed
    <3>6. WinsByType(rules, 1 .. i, selected)
      BY <1>1, <3>3, <3>5 DEF LoopInv, WinsTieBreak, WinsByType
    <3> QED
      BY <1>2, <1>3, <2>1, <3>1, <3>3, <3>4, <3>5, <3>6 DEF LoopInv, WinsTieBreak
  <2> QED
    BY <2>2, <2>3
<1> QED
  BY <1>4, <1>5

(* An iteration of branch 3 keeps the invariant: as long as no rule had a  *)
(* severity, the winner is the first of the highest decision type.         *)
LEMMA CompareDecisionTypeKeepsLoopInv ==
    ASSUME LoopInv, CompareDecisionType PROVE LoopInv'
<1> DEFINE o(j) == SeverityOrder(rules[j].severity)
           t(j) == DecisionTypeOrder(rules[j].decisionType)
<1>1. /\ Len(rules) \in Nat \ {0} /\ i \in 1 .. Len(rules)
      /\ selected \in 1 .. Len(rules)
      /\ \A j : t(j) \in -1 .. 5
  BY RulesAreSequences, DecisionTypeOrderRange DEF LoopInv, TypeOK, CompareDecisionType
<1>2. TypeOK'
  BY <1>1 DEF LoopInv, TypeOK, CompareDecisionType, r
<1>3. rules' = rules /\ i' - 1 = i /\ i' # 1 /\ severityOrder' = severityOrder
  BY <1>1 DEF CompareDecisionType
<1>4. rules[i].severity = NoValue /\ severityOrder = -1
  BY DEF CompareDecisionType, SeverityDecides, r, LoopInv, TypeOK
<1>5. ~RanksBySeverity(rules, 1 .. i - 1)
  <2> SUFFICES ASSUME RanksBySeverity(rules, 1 .. i - 1) PROVE FALSE
    OBVIOUS
  <2>1. o(selected) = -1 /\ WinsBySeverity(rules, 1 .. i - 1, selected)
    BY <1>4 DEF LoopInv, WinsTieBreak
  <2>2. \A j \in 1 .. (i - 1) : o(j) <= -1
    BY <2>1 DEF WinsBySeverity
  <2> QED
    BY <2>2, SeverityOrderRange DEF RanksBySeverity
<1>6. ~RanksBySeverity(rules, 1 .. i)
  BY <1>1, <1>4, <1>5, NoValueOrder DEF RanksBySeverity
<1>7. /\ WinsByType(rules, 1 .. i - 1, selected)
      /\ decisionTypeOrder = (IF Typed(rules, 1 .. i - 1) = {} THEN -1 ELSE t(selected))
  BY <1>5 DEF LoopInv, WinsTieBreak
<1>8. \A j \in Typed(rules, 1 .. i - 1) : t(j) <= decisionTypeOrder /\ j < i
  BY <1>1, <1>7 DEF WinsByType, Typed
<1>9. CASE t(i) > decisionTypeOrder
  <2>1. decisionTypeOrder' = t(i) /\ selected' = i
    BY <1>9, <1>1, NoValueOrder DEF CompareDecisionType, r, LoopInv, TypeOK
  <2>2. Typed(rules, 1 .. i) = Typed(rules, 1 .. i - 1) \cup {i}
    BY <1>1, <1>4, <1>9 DEF Typed, LoopInv, TypeOK
  <2>3. WinsByType(rules, 1 .. i, i)
    BY <1>1, <1>8, <1>9, <2>2, SMTT(30) DEF WinsByType, LoopInv, TypeOK
  <2> QED
    BY <1>2, <1>3, <1>4, <1>6, <2>1, <2>2, <2>3 DEF LoopInv, WinsTieBreak
<1>10. CASE ~(t(i) > decisionTypeOrder)
  <2>1. decisionTypeOrder' = decisionTypeOrder /\ selected' = selected
    BY <1>10, <1>1 DEF CompareDecisionType, r
  <2>2. CASE Typed(rules, 1 .. i - 1) = {}
    <3>1. Typed(rules, 1 .. i) = {}
      BY <1>1, <1>7, <1>10, <2>2 DEF Typed
    <3>2. \A j \in 1 .. i : selected <= j
      BY <1>1, <1>7, <2>2 DEF WinsByType, LoopInv
    <3>3. WinsByType(rules, 1 .. i, selected)
      BY <3>1, <3>2 DEF WinsByType
    <3> QED
      BY <1>2, <1>3, <1>4, <1>6, <1>7, <2>1, <2>2, <3>1, <3>3 DEF LoopInv, WinsTieBreak
  <2>3. CASE Typed(rules, 1 .. i - 1) # {}
    <3>1. selected \in Typed(rules, 1 .. i - 1) /\ decisionTypeOrder = t(selected)
      BY <1>7, <2>3 DEF WinsByType
    <3>2. Typed(rules, 1 .. i) \subseteq Typed(rules, 1 .. i - 1) \cup {i}
      BY <1>1 DEF Typed
    <3>3. selected \in Typed(rules, 1 .. i) /\ selected < i
      BY <1>1, <3>1 DEF Typed
    <3>4. WinsByType(rules, 1 .. i, selected)
      BY <1>1, <1>7, <1>10, <2>3, <3>1, <3>2, <3>3 DEF WinsByType
    <3> QED
      BY <1>2, <1>3, <1>4, <1>6, <2>1, <3>1, <3>3, <3>4 DEF LoopInv, WinsTieBreak
  <2> QED
    BY <2>2, <2>3
<1> QED
  BY <1>9, <1>10

(* LoopInv, and with it the type invariant, holds after every iteration of *)
(* selectTieBreakerRule.                                                   *)
THEOREM LoopInvariant == Spec => []LoopInv
<1>1. LoopInv /\ [Next]_vars => LoopInv'
  <2> SUFFICES ASSUME LoopInv, [Next]_vars PROVE LoopInv'
    OBVIOUS
  <2>1. CASE CompareSeverity
    BY <2>1, CompareSeverityKeepsLoopInv
  <2>2. CASE CompareDecisionType
    BY <2>2, CompareDecisionTypeKeepsLoopInv
  <2>3. CASE UNCHANGED vars
    BY <2>3 DEF vars, LoopInv, TypeOK, WinsTieBreak, RanksBySeverity,
                WinsBySeverity, WinsByType, Typed
  <2> QED
    BY <2>1, <2>2, <2>3 DEF Next
<1> QED
  BY <1>1, LoopInvInit, PTL DEF Spec

(* For every list of candidate rules, the rule selectTieBreakerRule        *)
(* returns is the first of the highest severity, or, when no candidate has *)
(* a known severity, the first of the highest type of decision among those *)
(* that have none, and the first of all when none of these has a type.     *)
THEOREM TieBreakerCorrect == Spec => []ReturnsTieBreakWinner
<1>1. LoopInv => ReturnsTieBreakWinner
  <2> SUFFICES ASSUME LoopInv, Returned PROVE WinsTieBreak(rules, 1 .. Len(rules), selected)
    BY DEF ReturnsTieBreakWinner
  <2>1. i - 1 = Len(rules)
    BY RulesAreSequences DEF LoopInv, TypeOK, Returned
  <2> QED
    BY <2>1 DEF LoopInv
<1> QED
  BY <1>1, LoopInvariant, PTL
=============================================================================
