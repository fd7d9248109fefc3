----------------------------- MODULE TieBreaker -----------------------------
(***************************************************************************)
(* DecisionEngine.selectTieBreakerRule, one iteration of its loop per      *)
(* step: it keeps a selected rule and the best severity and decision type  *)
(* seen so far, and lets severity, once seen, overrule decision types.     *)
(***************************************************************************)
EXTENDS DecisionTypes

CONSTANT Candidates     \* the lists of candidate rules the loop is run on

ASSUME CandidatesAssumption ==
    /\ Candidates \subseteq Seq([severity : STRING, decisionType : STRING])
    /\ \A rs \in Candidates : Len(rs) > 0

VARIABLES
    rules,              \* the parameter: one container list of the engine
    i,                  \* index of the next rule of the for loop
    selected,           \* index of the rule selected so far
    severityOrder,
    decisionTypeOrder

vars == <<rules, i, selected, severityOrder, decisionTypeOrder>>

TypeOK ==
    /\ rules \in Candidates
    /\ i \in 1 .. (Len(rules) + 1)
    /\ selected \in 1 .. Len(rules)
    /\ severityOrder \in -1 .. 3
    /\ decisionTypeOrder \in -1 .. 5

Init ==
    /\ rules \in Candidates
    /\ i = 1
    /\ selected = 1
    /\ severityOrder = -1
    /\ decisionTypeOrder = -1

r == rules[i]

(* Mutant: a severity seen earlier no longer decides.                      *)
SeverityDecidesHere == r.severity # NoValue

(* The guard of branch 2: this rule has a severity, or an earlier one had. *)
SeverityDecides == r.severity # NoValue \/ severityOrder > -1

(* Mutant of the comparison: the last rule of a rank instead of the first. *)
CompareSeverityLast ==
    /\ i <= Len(rules)
    /\ SeverityDecides
    /\ IF SeverityOrder(r.severity) >= severityOrder
       THEN /\ severityOrder' = SeverityOrder(r.severity)
            /\ selected' = i
       ELSE UNCHANGED <<severityOrder, selected>>
    /\ i' = i + 1
    /\ UNCHANGED <<rules, decisionTypeOrder>>

CompareSeverity ==
    /\ i <= Len(rules)
    /\ SeverityDecides
    /\ IF SeverityOrder(r.severity) > severityOrder
       THEN /\ severityOrder' = SeverityOrder(r.severity)
            /\ selected' = i
       ELSE UNCHANGED <<severityOrder, selected>>
    /\ i' = i + 1
    /\ UNCHANGED <<rules, decisionTypeOrder>>

CompareDecisionType ==
    /\ i <= Len(rules)
    /\ ~SeverityDecides
    /\ IF /\ r.decisionType # NoValue
          /\ DecisionTypeOrder(r.decisionType) > decisionTypeOrder
       THEN /\ decisionTypeOrder' = DecisionTypeOrder(r.decisionType)
            /\ selected' = i
       ELSE UNCHANGED <<decisionTypeOrder, selected>>
    /\ i' = i + 1
    /\ UNCHANGED <<rules, severityOrder>>

Next == CompareSeverity \/ CompareDecisionType

Spec == Init /\ [][Next]_vars

Returned == i > Len(rules)

-----------------------------------------------------------------------------
(* When the loop ends, the rule returned wins the tie-break as the ranks   *)
(* of the two enumerations have it: it is the first of the highest         *)
(* severity when a candidate has a known one, and otherwise the first of   *)
(* the highest type of decision among those whose severity is null.  The   *)
(* running maxima of selectTieBreakerRule, the skip of the type comparison *)
(* and the strict comparisons compute it.  Two comments of the source rank *)
(* otherwise: one puts a rule of the finding's severity first (:65-67),    *)
(* the other a block of the destination before one of the pair (:167-168). *)
ReturnsTieBreakWinner == Returned => WinsTieBreak(rules, 1 .. Len(rules), selected)

(* What holds after each iteration: selected wins among the rules already  *)
(* seen and the two running maxima are its ranks.                          *)
LoopInv ==
    /\ TypeOK
    /\ i = 1 => selected = 1
    /\ WinsTieBreak(rules, 1 .. i - 1, selected)
    /\ severityOrder = (IF RanksBySeverity(rules, 1 .. i - 1)
                        THEN SeverityOrder(rules[selected].severity) ELSE -1)
    /\ ~RanksBySeverity(rules, 1 .. i - 1) =>
          decisionTypeOrder = (IF Typed(rules, 1 .. i - 1) = {} THEN -1
                               ELSE DecisionTypeOrder(rules[selected].decisionType))

=============================================================================
