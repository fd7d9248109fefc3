----------------------- MODULE ResponsePipeline_proofs -----------------------
(***************************************************************************)
(* IInv is an invariant of the response pipeline for every number of       *)
(* alerts, rules, threads, requests and crashes; with it, no alert leaves  *)
(* OPEN without a decision and no decision is PERFORMED without an action  *)
(* on record.  The proof is compositional: every step keeps what is stored *)
(* (Kept), so the locals of the threads that do not move stay right.       *)
(* The lemmas about the choices of rules, on which the steps of the        *)
(* decision engine rest, come first.                                       *)
(***************************************************************************)
EXTENDS ResponsePipeline, WellFoundedInduction, FiniteSetTheorems, TLAPS

-----------------------------------------------------------------------------
(* The choices of the decision engine are defined: from a container that   *)
(* is not empty, each selection returns one of its rules.                  *)

(* A finite, non-empty set of ids has a first and a last one: of the sets  *)
(* of ids up to (from) an id, one is the smallest.                         *)
LEMMA FirstExists ==
    ASSUME NEW S \in SUBSET Nat, IsFiniteSet(S), S # {}
    PROVE  \E x \in S : \A y \in S : x <= y
<1> DEFINE UpTo(x) == {y \in S : y <= x}
           T == {UpTo(x) : x \in S}
           SS == StrictSubsetOrdering(S)
<1>0. \A y \in S : y \in Nat
  OBVIOUS
<1>1. T \subseteq FiniteSubsetsOf(S) /\ T # {}
  <2>1. ASSUME NEW x \in S PROVE UpTo(x) \in FiniteSubsetsOf(S)
    <3>1. UpTo(x) \in SUBSET S
      OBVIOUS
    <3> QED
      BY <3>1, FS_Subset DEF FiniteSubsetsOf
  <2> QED
    BY <2>1
<1>2. IsWellFoundedOn(SS, FiniteSubsetsOf(S))
  BY FS_StrictSubsetOrderingWellFounded
<1>3. \E U \in T : \A V \in T : ~(<<V, U>> \in SS)
  <2> HIDE DEF T, SS
  <2> QED
    BY <1>1, <1>2, WFMin
<1>4. PICK x \in S : \A z \in S : ~(<<UpTo(z), UpTo(x)>> \in SS)
  BY <1>3
<1>5. ASSUME NEW z \in S, z < x PROVE FALSE
  <2>0. x \in Nat /\ z \in Nat
    BY <1>0
  <2>1. UpTo(z) \subseteq UpTo(x)
    <3>1. ASSUME NEW y \in S, y <= z PROVE y <= x
      <4>1. y \in Nat
        BY <1>0
      <4> QED
        BY <1>5, <2>0, <3>1, <4>1
    <3> QED
      BY <3>1
  <2>2. x \in UpTo(x) /\ x \notin UpTo(z)
    BY <1>5, <2>0
  <2> QED
    BY <1>4, <2>1, <2>2 DEF StrictSubsetOrdering
<1> QED
  BY <1>0, <1>5

(* Likewise, of ids from an id on, one is the largest.                     *)
LEMMA LastExists ==
    ASSUME NEW S \in SUBSET Nat, IsFiniteSet(S), S # {}
    PROVE  \E x \in S : \A y \in S : x >= y
<1> DEFINE From(x) == {y \in S : y >= x}
           T == {From(x) : x \in S}
           SS == StrictSubsetOrdering(S)
<1>0. \A y \in S : y \in Nat
  OBVIOUS
<1>1. T \subseteq FiniteSubsetsOf(S) /\ T # {}
  <2>1. ASSUME NEW x \in S PROVE From(x) \in FiniteSubsetsOf(S)
    <3>1. From(x) \in SUBSET S
      OBVIOUS
    <3> QED
      BY <3>1, FS_Subset DEF FiniteSubsetsOf
  <2> QED
    BY <2>1
<1>2. IsWellFoundedOn(SS, FiniteSubsetsOf(S))
  BY FS_StrictSubsetOrderingWellFounded
<1>3. \E U \in T : \A V \in T : ~(<<V, U>> \in SS)
  <2> HIDE DEF T, SS
  <2> QED
    BY <1>1, <1>2, WFMin
<1>4. PICK x \in S : \A z \in S : ~(<<From(z), From(x)>> \in SS)
  BY <1>3
<1>5. ASSUME NEW z \in S, z > x PROVE FALSE
  <2>0. x \in Nat /\ z \in Nat
    BY <1>0
  <2>1. From(z) \subseteq From(x)
    <3>1. ASSUME NEW y \in S, y >= z PROVE y >= x
      <4>1. y \in Nat
        BY <1>0
      <4> QED
        BY <1>5, <2>0, <3>1, <4>1
    <3> QED
      BY <3>1
  <2>2. x \in From(x) /\ x \notin From(z)
    BY <1>5, <2>0
  <2> QED
    BY <1>4, <2>1, <2>2 DEF StrictSubsetOrdering
<1> QED
  BY <1>0, <1>5

(* Min and Max of the community modules return the first and the last id.  *)
LEMMA MinIsFirst ==
    ASSUME NEW S \in SUBSET Nat, S # {}
    PROVE  Min(S) \in S /\ \A y \in S : Min(S) <= y
<1>0. \A y \in S : y \in Nat
  OBVIOUS
<1>1. PICK n \in S : TRUE
  OBVIOUS
<1> DEFINE F == {y \in S : y <= n}
<1>2. F \in SUBSET Nat /\ F # {} /\ \A s \in F : s <= n
  <2>1. n \in Nat
    BY <1>0, <1>1
  <2>2. n \in F
    BY <1>1, <2>1
  <2> QED
    BY <2>2
<1>3. IsFiniteSet(F)
  BY <1>1, <1>2, FS_BoundedSetOfNaturals
<1>4. \E x \in F : \A y \in F : x <= y
  <2> HIDE DEF F
  <2> QED
    BY <1>2, <1>3, FirstExists
<1>5. \E x \in S : \A y \in S : x <= y
  BY <1>0, <1>1, <1>4
<1> QED
  BY <1>5 DEF Min

(* The last id of a bounded set is the one Max returns.                    *)
LEMMA MaxIsLast ==
    ASSUME NEW S \in SUBSET Nat, IsFiniteSet(S), S # {}
    PROVE  Max(S) \in S /\ \A y \in S : Max(S) >= y
BY LastExists DEF Max

(* The first of the candidates of the highest rank: with ranks o from -1   *)
(* to 5 the highest one is found, and its candidates have a first.         *)
LEMMA BestExists ==
    ASSUME NEW S \in SUBSET Nat, S # {},
           NEW o, \A j \in S : o[j] \in -1 .. 5
    PROVE  \E s \in S : \A j \in S : o[j] <= o[s] /\ (j < s => o[j] < o[s])
<1> DEFINE Top(m) == {j \in S : o[j] = m}
<1>1. PICK m \in -1 .. 5 : Top(m) # {} /\ \A j \in S : o[j] <= m
  <2> DEFINE Upto(n) == \A j \in S : o[j] <= n
  <2>1. Upto(5)
    OBVIOUS
  <2>2. ASSUME NEW n \in -1 .. 5, Upto(n), Top(n) = {} PROVE Upto(n - 1)
    BY <2>2
  <2>3. ~Upto(-2)
    <3>1. PICK j \in S : TRUE
      OBVIOUS
    <3>2. o[j] \in -1 .. 5
      BY <3>1
    <3>3. ~(o[j] <= -2)
      BY <3>2
    <3> QED
      BY <3>1, <3>3
  <2>4. \E n \in -1 .. 5 : Upto(n) /\ Top(n) # {}
    <3>1. SUFFICES ASSUME \A n \in -1 .. 5 : Upto(n) => Top(n) = {} PROVE FALSE
      OBVIOUS
    <3>2. \A n \in -1 .. 5 : Upto(n) => Upto(n - 1)
      BY <2>2, <3>1
    <3> HIDE DEF Upto
    <3>3. Upto(4) /\ Upto(3) /\ Upto(2) /\ Upto(1)
      BY <2>1, <3>2
    <3>4. Upto(0) /\ Upto(-1) /\ Upto(-2)
      BY <3>3, <3>2
    <3> QED
      BY <3>4, <2>3
  <2> QED
    BY <2>4
<1>2. Top(m) \in SUBSET Nat
  OBVIOUS
<1>3. Min(Top(m)) \in Top(m) /\ \A y \in Top(m) : Min(Top(m)) <= y
  <2> HIDE DEF Top
  <2> QED
    BY <1>1, <1>2, MinIsFirst
<1> DEFINE s == Min(Top(m))
<1>4. s \in S /\ o[s] = m
  BY <1>3
<1>5. ASSUME NEW j \in S, j < s PROVE o[j] < o[s]
  <2>1. o[j] # m
    <3>1. SUFFICES ASSUME o[j] = m PROVE FALSE
      OBVIOUS
    <3>2. s <= j
      BY <1>3, <3>1
    <3>3. s \in Nat /\ j \in Nat
      BY <1>4
    <3> HIDE DEF s
    <3> QED
      BY <1>5, <3>2, <3>3
  <2>2. o[j] <= m /\ o[j] \in -1 .. 5
    BY <1>1
  <2> QED
    BY <1>4, <2>1, <2>2
<1> QED
  <2> HIDE DEF s
  <2> QED
    BY <1>1, <1>4, <1>5

(* The tie-break of selectTieBreakerRule always has a winner, and returns  *)
(* it: the first rule of the highest severity when one has a severity, and *)
(* otherwise the first of the highest type of decision.                    *)
LEMMA TieBreakerSelects ==
    ASSUME NEW S \in SUBSET RuleIds, S # {}
    PROVE  /\ SelectTieBreaker(S) \in S
           /\ WinsTieBreak(RuleOf, S, SelectTieBreaker(S))
<1>1. S \in SUBSET Nat
  BY RulesAssumption
<1>2. \E s \in S : WinsTieBreak(RuleOf, S, s)
  <2>1. CASE RanksBySeverity(RuleOf, S)
    <3> DEFINE o == [j \in S |-> SeverityOrder(RuleOf[j].severity)]
    <3>1. \A j \in S : o[j] \in -1 .. 5
      BY DEF SeverityOrder
    <3>2. PICK s \in S : \A j \in S : o[j] <= o[s] /\ (j < s => o[j] < o[s])
      <4> HIDE DEF o
      <4> QED
        BY <1>1, <3>1, BestExists
    <3>3. WinsBySeverity(RuleOf, S, s)
      BY <3>2 DEF WinsBySeverity
    <3> QED
      BY <2>1, <3>3 DEF WinsTieBreak
  <2>2. CASE ~RanksBySeverity(RuleOf, S) /\ Typed(RuleOf, S) = {}
    BY <1>1, <2>2, MinIsFirst DEF WinsTieBreak, WinsByType
  <2>3. CASE ~RanksBySeverity(RuleOf, S) /\ Typed(RuleOf, S) # {}
    <3> DEFINE D == Typed(RuleOf, S)
               o == [j \in D |-> DecisionTypeOrder(RuleOf[j].decisionType)]
    <3>1. \A j \in D : o[j] \in -1 .. 5
      BY DEF DecisionTypeOrder
    <3>2. D \in SUBSET Nat /\ D \subseteq S
      BY <1>1 DEF Typed
    <3>3. PICK s \in D : \A j \in D : o[j] <= o[s] /\ (j < s => o[j] < o[s])
      <4> HIDE DEF o, D
      <4> QED
        BY <2>3, <3>1, <3>2, BestExists DEF D
    <3>4. WinsByType(RuleOf, S, s)
      BY <3>3 DEF WinsByType
    <3> QED
      BY <2>3, <3>2, <3>4 DEF WinsTieBreak
  <2> QED
    BY <2>1, <2>2, <2>3
<1> QED
  BY <1>2 DEF SelectTieBreaker

(* detectionRuleBasedDecisionRules1 holds a rule for each key.             *)
LEMMA DetectionRuleBasedSelects ==
    ASSUME NEW R \in SUBSET RuleIds, NEW ref, DetectionRuleBased(R, ref) # {}
    PROVE  SelectDetectionRuleBased(R, ref) \in R
<1>1. DetectionRuleBased(R, ref) \in SUBSET R
  BY DEF DetectionRuleBased
<1>2. DetectionRuleBased(R, ref) \in SUBSET Nat /\ IsFiniteSet(DetectionRuleBased(R, ref))
  <2>1. DetectionRuleBased(R, ref) \in SUBSET RuleIds
    BY <1>1
  <2> QED
    BY <2>1, FS_Subset, RulesAssumption
<1> QED
  BY <1>1, <1>2, MaxIsLast DEF SelectDetectionRuleBased

(* selectCauseDecisionRule returns a rule of the container or null.        *)
LEMMA CauseRuleSelects ==
    ASSUME NEW R \in SUBSET RuleIds, NEW cause, NEW state
    PROVE  SelectCauseRule(R, cause, state) \in R \cup {NoRule}
<1> DEFINE rules    == CauseRules(R, cause)
           matching == {k \in rules : SameState(RuleOf[k].state, state)}
           general  == {k \in rules : RuleOf[k].state = NoValue}
<1>1. matching \in SUBSET R /\ general \in SUBSET R
  BY DEF CauseRules, Remaining
<1>2. \A T \in SUBSET R : T # {} => Min(T) \in R
  <2>1. ASSUME NEW T \in SUBSET R, T # {} PROVE Min(T) \in R
    <3>1. T \in SUBSET Nat
      BY RulesAssumption
    <3> QED
      BY <2>1, <3>1, MinIsFirst
  <2> QED
    BY <2>1
<1>3. SelectCauseRule(R, cause, state) =
        IF matching # {} THEN Min(matching)
        ELSE IF general # {} THEN Min(general) ELSE NoRule
  BY DEF SelectCauseRule
<1> QED
  <2> HIDE DEF matching, general
  <2> QED
    BY <1>1, <1>2, <1>3

-----------------------------------------------------------------------------
(* What each step leaves in the store: decisions stay, about the alert     *)
(* they were about, and so do the actions on record.                       *)
Kept ==
    /\ \A d \in DOMAIN decisions :
          d \in DOMAIN decisions' /\ decisions'[d].issue = decisions[d].issue
    /\ \A d \in DOMAIN decisions : ActionsOf(d) # {} => ActionsOf(d)' # {}

(* The type a decision gets from the rule it refers to.                    *)
RuleType(k) == IF k = NoRule THEN "MANUAL_ACTION" ELSE RuleOf[k].decisionType

(* A plan asks for the type of its rule; only a new decision can go        *)
(* without a rule, and then the alert waits for an operator.               *)
Agrees(plan) ==
    /\ plan.type = RuleType(plan.rule)
    /\ plan.final = IF plan.rule = NoRule THEN "PENDING" ELSE "PROCESSED"
    /\ plan.rule = NoRule => plan.write = "add"

-----------------------------------------------------------------------------
(* Table decision as a sequence of rows *)

(* A row of table decision has an id between 1 and the number of rows.     *)
LEMMA DecisionRows ==
    ASSUME StoreTypeOK
    PROVE  /\ Len(decisions) \in Nat
           /\ DOMAIN decisions = 1 .. Len(decisions)
           /\ \A d \in DOMAIN decisions : decisions[d] \in Decisions /\ d \in Nat \ {0}
<1>1. decisions \in Seq(Decisions)
  BY DEF StoreTypeOK
<1> QED
  BY <1>1

(* An update keeps the rows and their number.                              *)
LEMMA RowsUpdated ==
    ASSUME NEW s \in Seq(Decisions), NEW t,
           t = [d \in DOMAIN s |-> t[d]],
           \A d \in DOMAIN s : t[d] \in Decisions
    PROVE  t \in Seq(Decisions) /\ DOMAIN t = DOMAIN s
<1>1. Len(s) \in Nat /\ DOMAIN s = 1 .. Len(s)
  OBVIOUS
<1>2. t \in [1 .. Len(s) -> Decisions]
  BY <1>1
<1> QED
  BY <1>1, <1>2

(* addDecision: one row more, in a new place.                              *)
LEMMA RowAdded ==
    ASSUME StoreTypeOK, NEW row \in Decisions, AddDecision(row)
    PROVE  /\ decisions' \in Seq(Decisions)
           /\ DOMAIN decisions' = DOMAIN decisions \cup {Len(decisions) + 1}
           /\ Len(decisions) + 1 \notin DOMAIN decisions
           /\ decisions'[Len(decisions) + 1] = row
           /\ \A d \in DOMAIN decisions : decisions'[d] = decisions[d]
<1>1. decisions \in Seq(Decisions)
  BY DEF StoreTypeOK
<1>2. decisions' = Append(decisions, row)
  BY DEF AddDecision
<1>3. Len(decisions) \in Nat /\ DOMAIN decisions = 1 .. Len(decisions)
  BY <1>1
<1>4. decisions' \in Seq(Decisions) /\ Len(decisions') = Len(decisions) + 1
  BY <1>1, <1>2
<1>5. DOMAIN decisions' = 1 .. (Len(decisions) + 1)
  BY <1>4
<1>6. /\ decisions'[Len(decisions) + 1] = row
      /\ \A d \in 1 .. Len(decisions) : decisions'[d] = decisions[d]
  BY <1>1, <1>2
<1> QED
  BY <1>3, <1>4, <1>5, <1>6

(* Statuses, memos, rules and types are columns of a row.                  *)
LEMMA RowChanged ==
    ASSUME NEW row \in Decisions
    PROVE  /\ \A m \in Automated \cup {NoValue} : [row EXCEPT !.memo = m] \in Decisions
           /\ \A s \in {"OPEN", "PERFORMED"} : [row EXCEPT !.status = s] \in Decisions
           /\ \A k \in RuleIds \cup {NoRule}, t \in DecisionType :
                 /\ [row EXCEPT !.rule = k, !.decisionType = t] \in Decisions
                 /\ [row EXCEPT !.decisionType = t, !.rule = k] \in Decisions
           /\ \A c \in Causes \cup {NoValue} : [row EXCEPT !.cause = c] \in Decisions
           /\ \A s \in States \cup {NoValue} : [row EXCEPT !.state = s] \in Decisions
<1>1. ASSUME NEW m \in Automated \cup {NoValue} PROVE [row EXCEPT !.memo = m] \in Decisions
  BY DEF Decisions
<1>2. ASSUME NEW s \in {"OPEN", "PERFORMED"} PROVE [row EXCEPT !.status = s] \in Decisions
  BY DEF Decisions
<1>3. ASSUME NEW k \in RuleIds \cup {NoRule}, NEW t \in DecisionType
      PROVE  /\ [row EXCEPT !.rule = k, !.decisionType = t] \in Decisions
             /\ [row EXCEPT !.decisionType = t, !.rule = k] \in Decisions
  BY DEF Decisions
<1>4. ASSUME NEW c \in Causes \cup {NoValue} PROVE [row EXCEPT !.cause = c] \in Decisions
  BY DEF Decisions
<1>5. ASSUME NEW s \in States \cup {NoValue} PROVE [row EXCEPT !.state = s] \in Decisions
  BY DEF Decisions
<1> QED
  BY <1>1, <1>2, <1>3, <1>4, <1>5

(* The alerts of the decisions that were there are those of the decisions  *)
(* that are there still.                                                   *)
LEMMA DecisionsKept ==
    ASSUME Kept, NEW a
    PROVE  DecisionsOfAlert(a) \subseteq DecisionsOfAlert(a)'
BY DEF Kept, DecisionsOfAlert

-----------------------------------------------------------------------------
(* What a thread knows stays true while it does not move *)

(* What a run knows stays true while decisions and alerts are only added   *)
(* to.                                                                     *)
LEMMA EngineUndisturbed ==
    ASSUME Kept, NEW e, EngineInv(e), run'[e] = run[e]
    PROVE  EngineInv(e)'
<1>1. \A a : DecisionsOfAlert(a) \subseteq DecisionsOfAlert(a)'
  BY DecisionsKept
<1> QED
  BY <1>1 DEF EngineInv

(* What a pass knows stays true while decisions and actions are kept.      *)
LEMMA WorkerUndisturbed ==
    ASSUME Kept, NEW w, WorkerInv(w), worker'[w] = worker[w]
    PROVE  WorkerInv(w)'
BY DEF Kept, WorkerInv

(* What a request knows stays true while decisions and actions are kept.   *)
LEMMA OperatorUndisturbed ==
    ASSUME Kept, NEW o, OperatorInv(o), task'[o] = task[o]
    PROVE  OperatorInv(o)'
<1>1. \A a : DecisionsOfAlert(a) \subseteq DecisionsOfAlert(a)'
  BY DecisionsKept
<1>2. \A a, d : d \in DecisionsOfAlert(a) => d \in DOMAIN decisions
  BY DEF DecisionsOfAlert
<1> QED
  BY <1>1, <1>2 DEF OperatorInv, Kept

-----------------------------------------------------------------------------
(* One thread moves *)

(* A step that writes no table keeps the type of the store and the two     *)
(* properties of decided alerts and performed decisions.                   *)
LEMMA StoreUntouched ==
    ASSUME IInv, UNCHANGED store
    PROVE  StoreTypeOK' /\ Kept /\ DecidedHasDecision' /\ PerformedHasAction'
<1>1. /\ alertStatus' = alertStatus /\ alertSeverity' = alertSeverity
      /\ decisionRules' = decisionRules /\ decisions' = decisions
      /\ actions' = actions /\ flows' = flows
  BY DEF store
<1>2. StoreTypeOK'
  BY <1>1 DEF IInv, TypeOK, StoreTypeOK
<1>3. Kept
  BY <1>1 DEF Kept, ActionsOf
<1>4. DecidedHasDecision' /\ PerformedHasAction'
  BY <1>1 DEF IInv, DecidedHasDecision, PerformedHasAction, DecisionsOfAlert, ActionsOf
<1> QED
  BY <1>2, <1>3, <1>4

(* A step of one run that leaves the other threads alone: only what that   *)
(* run knows has to be shown again.                                        *)
LEMMA EngineMoves ==
    ASSUME IInv, NEW e \in DecisionRuns, NEW x \in Runs, Becomes(e, x),
           UNCHANGED <<worker, task, requests, crashes>>,
           StoreTypeOK', Kept, DecidedHasDecision', PerformedHasAction',
           (run'[e] = x) => EngineInv(e)'
    PROVE  IInv'
<1>1. /\ run' \in [DecisionRuns -> Runs]
      /\ run'[e] = x
      /\ \A f \in DecisionRuns : f # e => run'[f] = run[f]
  BY DEF IInv, TypeOK, DETypeOK, Becomes
<1>2. TypeOK'
  BY <1>1 DEF IInv, TypeOK, DETypeOK, AETypeOK, OCTypeOK
<1>3. \A f \in DecisionRuns : EngineInv(f)'
  BY <1>1, EngineUndisturbed DEF IInv
<1>4. \A w \in ActionWorkers : WorkerInv(w)'
  BY WorkerUndisturbed DEF IInv
<1>5. \A o \in Operators : OperatorInv(o)'
  BY OperatorUndisturbed DEF IInv
<1> QED
  BY <1>2, <1>3, <1>4, <1>5 DEF IInv

(* The same for a step of one pass of the action engine.                   *)
LEMMA WorkerMoves ==
    ASSUME IInv, NEW w \in ActionWorkers, NEW x \in Workers, Continue(w, x),
           UNCHANGED <<run, task, requests, crashes>>,
           StoreTypeOK', Kept, DecidedHasDecision', PerformedHasAction',
           (worker'[w] = x) => WorkerInv(w)'
    PROVE  IInv'
<1>1. /\ worker' \in [ActionWorkers -> Workers]
      /\ worker'[w] = x
      /\ \A f \in ActionWorkers : f # w => worker'[f] = worker[f]
  BY DEF IInv, TypeOK, AETypeOK, Continue
<1>2. TypeOK'
  BY <1>1 DEF IInv, TypeOK, DETypeOK, AETypeOK, OCTypeOK
<1>3. \A e \in DecisionRuns : EngineInv(e)'
  BY EngineUndisturbed DEF IInv
<1>4. \A f \in ActionWorkers : WorkerInv(f)'
  BY <1>1, WorkerUndisturbed DEF IInv
<1>5. \A o \in Operators : OperatorInv(o)'
  BY OperatorUndisturbed DEF IInv
<1> QED
  BY <1>2, <1>3, <1>4, <1>5 DEF IInv

(* The same for a step of one operator request.                            *)
LEMMA OperatorMoves ==
    ASSUME IInv, NEW o \in Operators, NEW t \in Tasks, Proceed(o, t),
           UNCHANGED <<run, worker>>,
           requests' \in 0 .. MaxRequests, crashes' \in 0 .. MaxCrashes,
           StoreTypeOK', Kept, DecidedHasDecision', PerformedHasAction',
           (task'[o] = t) => OperatorInv(o)'
    PROVE  IInv'
<1>1. /\ task' \in [Operators -> Tasks]
      /\ task'[o] = t
      /\ \A f \in Operators : f # o => task'[f] = task[f]
  BY DEF IInv, TypeOK, OCTypeOK, Proceed
<1>2. TypeOK'
  BY <1>1 DEF IInv, TypeOK, DETypeOK, AETypeOK, OCTypeOK
<1>3. \A e \in DecisionRuns : EngineInv(e)'
  BY EngineUndisturbed DEF IInv
<1>4. \A w \in ActionWorkers : WorkerInv(w)'
  BY WorkerUndisturbed DEF IInv
<1>5. \A f \in Operators : OperatorInv(f)'
  BY <1>1, OperatorUndisturbed DEF IInv
<1> QED
  BY <1>2, <1>3, <1>4, <1>5 DEF IInv

-----------------------------------------------------------------------------
(* One transaction *)

(* A decision more, which is OPEN.                                         *)
LEMMA DecisionAdded ==
    ASSUME IInv, NEW row \in Decisions, row.status = "OPEN", AddDecision(row),
           UNCHANGED <<alertStatus, alertSeverity, decisionRules, actions, flows>>
    PROVE  /\ StoreTypeOK' /\ Kept /\ DecidedHasDecision' /\ PerformedHasAction'
           /\ DecisionsOfAlert(row.issue)' # {}
<1>1. StoreTypeOK
  BY DEF IInv, TypeOK
<1>2. /\ decisions' \in Seq(Decisions)
      /\ DOMAIN decisions' = DOMAIN decisions \cup {Len(decisions) + 1}
      /\ Len(decisions) + 1 \notin DOMAIN decisions
      /\ decisions'[Len(decisions) + 1] = row
      /\ \A d \in DOMAIN decisions : decisions'[d] = decisions[d]
  BY <1>1, RowAdded
<1>3. StoreTypeOK'
  BY <1>1, <1>2 DEF StoreTypeOK
<1>4. \A d : ActionsOf(d)' = ActionsOf(d)
  BY DEF ActionsOf
<1>5. Kept
  BY <1>2, <1>4 DEF Kept
<1>6. \A a : DecisionsOfAlert(a) \subseteq DecisionsOfAlert(a)'
  BY <1>5, DecisionsKept
<1>7. DecidedHasDecision'
  BY <1>6 DEF IInv, DecidedHasDecision
<1>8. PerformedHasAction'
  BY <1>2, <1>4 DEF IInv, PerformedHasAction
<1>9. Len(decisions) + 1 \in DecisionsOfAlert(row.issue)'
  BY <1>2 DEF DecisionsOfAlert
<1> QED
  BY <1>3, <1>5, <1>7, <1>8, <1>9

(* Rows change, but for their alert; the ones that become PERFORMED have   *)
(* an action.                                                              *)
LEMMA DecisionsUpdated ==
    ASSUME IInv, decisions' \in Seq(Decisions), DOMAIN decisions' = DOMAIN decisions,
           \A d \in DOMAIN decisions :
              /\ decisions'[d].issue = decisions[d].issue
              /\ decisions'[d].status = "PERFORMED" =>
                    decisions[d].status = "PERFORMED" \/ ActionsOf(d) # {},
           UNCHANGED <<alertStatus, alertSeverity, decisionRules, actions, flows>>
    PROVE  StoreTypeOK' /\ Kept /\ DecidedHasDecision' /\ PerformedHasAction'
<1>1. StoreTypeOK'
  BY DEF IInv, TypeOK, StoreTypeOK
<1>2. \A d : ActionsOf(d)' = ActionsOf(d)
  BY DEF ActionsOf
<1>3. Kept
  BY <1>2 DEF Kept
<1>4. \A a : DecisionsOfAlert(a) \subseteq DecisionsOfAlert(a)'
  BY <1>3, DecisionsKept
<1>5. DecidedHasDecision'
  BY <1>4 DEF IInv, DecidedHasDecision
<1>6. PerformedHasAction'
  BY <1>2 DEF IInv, PerformedHasAction
<1> QED
  BY <1>1, <1>3, <1>5, <1>6

(* The native updates: the row of one decision.                            *)
LEMMA OneDecisionUpdated ==
    ASSUME IInv, NEW d \in DOMAIN decisions, NEW row \in Decisions,
           decisions' = [decisions EXCEPT ![d] = row],
           row.issue = decisions[d].issue,
           row.status = "PERFORMED" => decisions[d].status = "PERFORMED" \/ ActionsOf(d) # {},
           UNCHANGED <<alertStatus, alertSeverity, decisionRules, actions, flows>>
    PROVE  StoreTypeOK' /\ Kept /\ DecidedHasDecision' /\ PerformedHasAction'
<1>1. decisions \in Seq(Decisions)
  BY DEF IInv, TypeOK, StoreTypeOK
<1>2. decisions' \in Seq(Decisions) /\ DOMAIN decisions' = DOMAIN decisions
  BY <1>1
<1>3. \A f \in DOMAIN decisions : decisions'[f] = IF f = d THEN row ELSE decisions[f]
  BY <1>1
<1> QED
  BY <1>2, <1>3, DecisionsUpdated

(* The status of an alert with a decision.                                 *)
LEMMA AlertLeaves ==
    ASSUME IInv, NEW a \in AlertIds, NEW s \in {"PENDING", "PROCESSED"},
           DecisionsOfAlert(a) # {}, UpdateAlertStatus(a, s),
           UNCHANGED <<alertSeverity, decisionRules, decisions, actions, flows>>
    PROVE  StoreTypeOK' /\ Kept /\ DecidedHasDecision' /\ PerformedHasAction'
<1>1. /\ alertStatus' \in [AlertIds -> AlertStatus]
      /\ \A b \in AlertIds : b # a => alertStatus'[b] = alertStatus[b]
  BY DEF IInv, TypeOK, StoreTypeOK, UpdateAlertStatus, AlertStatus
<1>2. StoreTypeOK'
  BY <1>1 DEF IInv, TypeOK, StoreTypeOK
<1>3. (\A d : ActionsOf(d)' = ActionsOf(d)) /\ (\A b : DecisionsOfAlert(b)' = DecisionsOfAlert(b))
  BY DEF ActionsOf, DecisionsOfAlert
<1>4. Kept
  BY <1>3 DEF Kept
<1>5. DecidedHasDecision'
  BY <1>1, <1>3 DEF IInv, DecidedHasDecision
<1>6. PerformedHasAction'
  BY <1>3 DEF IInv, PerformedHasAction
<1> QED
  BY <1>2, <1>4, <1>5, <1>6

(* A row of table action.                                                  *)
LEMMA ActionAdded ==
    ASSUME IInv, NEW d \in Nat \ {0}, NEW kind \in Automated, AddAction(d, kind),
           UNCHANGED <<alertStatus, alertSeverity, decisionRules, decisions, flows>>
    PROVE  /\ StoreTypeOK' /\ Kept /\ DecidedHasDecision' /\ PerformedHasAction'
           /\ ActionsOf(d)' # {}
<1> DEFINE row == [decision |-> d, kind |-> kind]
<1>1. actions \in Seq(Actions) /\ row \in Actions /\ actions' = Append(actions, row)
  BY DEF IInv, TypeOK, StoreTypeOK, Actions, AddAction
<1>2. /\ actions' \in Seq(Actions)
      /\ Len(actions) \in Nat /\ DOMAIN actions = 1 .. Len(actions)
      /\ DOMAIN actions' = 1 .. (Len(actions) + 1)
      /\ actions'[Len(actions) + 1] = row
      /\ \A n \in 1 .. Len(actions) : actions'[n] = actions[n]
  <2> HIDE DEF row
  <2> QED
    BY <1>1
<1>3. StoreTypeOK'
  BY <1>2 DEF IInv, TypeOK, StoreTypeOK
<1>4. \A f : ActionsOf(f) \subseteq ActionsOf(f)'
  BY <1>2 DEF ActionsOf
<1>5. Len(actions) + 1 \in ActionsOf(d)'
  BY <1>2 DEF ActionsOf
<1>6. \A b : DecisionsOfAlert(b)' = DecisionsOfAlert(b)
  BY DEF DecisionsOfAlert
<1>7. Kept
  BY <1>4 DEF Kept
<1>8. DecidedHasDecision' /\ PerformedHasAction'
  BY <1>4, <1>6 DEF IInv, DecidedHasDecision, PerformedHasAction
<1> QED
  BY <1>3, <1>5, <1>7, <1>8

(* An alert that arrives, a severity, the rules or the switches.           *)
LEMMA NothingDecided ==
    ASSUME IInv, StoreTypeOK', UNCHANGED <<decisions, actions>>,
           \A a \in AlertIds : alertStatus'[a] \in {alertStatus[a], "OPEN"}
    PROVE  Kept /\ DecidedHasDecision' /\ PerformedHasAction'
<1>1. (\A d : ActionsOf(d)' = ActionsOf(d)) /\ (\A b : DecisionsOfAlert(b)' = DecisionsOfAlert(b))
  BY DEF ActionsOf, DecisionsOfAlert
<1> QED
  BY <1>1 DEF IInv, Kept, DecidedHasDecision, PerformedHasAction

-----------------------------------------------------------------------------
(* The decision engine *)

(* The locals of a run before it starts, and its empty plans, are of       *)
(* their types.                                                            *)
LEMMA IdleRun == Idle \in Runs /\ NoPlan \in Plans /\ Throws \in Plans
<1>1. NoPlan \in Plans /\ Throws \in Plans
  BY DEF NoPlan, Throws, Plans, DecisionType
<1> QED
  BY <1>1 DEF Idle, Runs, Severities

(* The locals of a run that has found no further alert are of their type.  *)
LEMMA RestRun ==
    ASSUME NEW x \in Runs, NEW todo \in SUBSET AlertIds
    PROVE  /\ Rest(x, todo) \in Runs
           /\ Rest(x, todo).pc = "loop"
           /\ Rest(x, todo).todo = todo
           /\ Rest(x, todo).phase = x.phase
BY IdleRun DEF Rest, Runs, Severities

(* getDecisionByAlertId returns null or a decision of the alert.           *)
LEMMA DecisionByAlert ==
    ASSUME StoreTypeOK, NEW a
    PROVE  /\ DecisionByAlertId(a) \in DecisionsOfAlert(a) \cup {0}
           /\ DecisionsOfAlert(a) \subseteq Nat \ {0}
           /\ DecisionsOfAlert(a) # {} => DecisionByAlertId(a) # 0
<1>1. DecisionsOfAlert(a) \subseteq Nat \ {0}
  BY DecisionRows DEF DecisionsOfAlert
<1>2. CASE DecisionsOfAlert(a) = {}
  BY <1>2 DEF DecisionByAlertId
<1>3. CASE DecisionsOfAlert(a) # {}
  BY <1>1, <1>3, MinIsFirst DEF DecisionByAlertId
<1> QED
  BY <1>1, <1>2, <1>3
(* A new decision with a rule of the run, or without one.                  *)
LEMMA AddIsPlan ==
    ASSUME NEW k \in RuleIds \cup {NoRule}, NEW type \in DecisionType,
           NEW final \in {"PROCESSED", "PENDING"}
    PROVE  /\ PlanAdd(k, type, final) \in Plans
           /\ PlanAdd(k, type, final).write = "add"
           /\ PlanAdd(k, type, final).type = type
           /\ PlanAdd(k, type, final).rule = k
           /\ PlanAdd(k, type, final).final = final
<1>1. /\ NoPlan \in Plans
      /\ [NoPlan EXCEPT !.write = "add", !.rule = k, !.type = type, !.final = final] \in Plans
  BY IdleRun DEF Plans
<1> DEFINE plan == [NoPlan EXCEPT !.write = "add", !.rule = k, !.type = type, !.final = final]
<1>2. plan.write = "add" /\ plan.type = type /\ plan.rule = k /\ plan.final = final
  BY DEF NoPlan
<1> QED
  BY <1>1, <1>2 DEF PlanAdd

(* processAlert with the severity of a finding plans a write the store     *)
(* accepts.                                                                *)
LEMMA SeverityIsPlan ==
    ASSUME NEW R \in SUBSET RuleIds, NEW phase \in {"OPEN", "PENDING"}, NEW severity,
           SeverityTypeBased(R, severity) # {}
    PROVE  /\ PlanForSeverity(R, phase, severity) \in Plans
           /\ PlanForSeverity(R, phase, severity).write =
                 IF phase = "OPEN" THEN "add" ELSE "updateForFinding"
           /\ Agrees(PlanForSeverity(R, phase, severity))
<1> DEFINE rule == SelectTieBreaker(SeverityTypeBased(R, severity))
           add  == PlanAdd(rule, RuleOf[rule].decisionType, "PROCESSED")
<1>1. SeverityTypeBased(R, severity) \in SUBSET RuleIds
  BY DEF SeverityTypeBased
<1>2. rule \in RuleIds
  BY <1>1, TieBreakerSelects
<1>3. add \in Plans /\ add.write = "add" /\ Agrees(add) /\ add.rule # NoRule
  <2>1. rule # NoRule
    BY <1>2, RulesAssumption DEF NoRule
  <2> HIDE DEF rule
  <2> QED
    BY <1>2, <2>1, AddIsPlan, RulesAssumption DEF RuleType, Agrees
<1>4. [add EXCEPT !.write = "updateForFinding"] \in Plans
  <2> HIDE DEF add
  <2> QED
    BY <1>3 DEF Plans
<1>5. /\ [add EXCEPT !.write = "updateForFinding"].write = "updateForFinding"
      /\ Agrees([add EXCEPT !.write = "updateForFinding"])
  <2> HIDE DEF add
  <2> QED
    BY <1>3 DEF Plans, Agrees
<1> QED
  BY <1>3, <1>4, <1>5 DEF PlanForSeverity

(* processAlert with the cause of an anomaly plans a write the store       *)
(* accepts.                                                                *)
LEMMA CauseIsPlan ==
    ASSUME NEW R \in SUBSET RuleIds, NEW d \in Nat \ {0}
    PROVE  /\ PlanForCause(R, d) \in Plans
           /\ PlanForCause(R, d).write \in {"throw", "setTypeAndRule"}
           /\ PlanForCause(R, d).write = "setTypeAndRule" =>
                 /\ PlanForCause(R, d).decision = d
                 /\ Agrees(PlanForCause(R, d))
<1> DEFINE rule == SelectCauseRule(R, decisions[d].cause, decisions[d].state)
<1>1. rule \in R \cup {NoRule}
  BY CauseRuleSelects
<1>2. Throws \in Plans /\ Throws.write = "throw"
  BY IdleRun DEF Throws, NoPlan
<1>3. CASE rule = NoRule
  BY <1>2, <1>3 DEF PlanForCause
<1>4. CASE rule # NoRule
  <2>1. rule \in RuleIds /\ RuleOf[rule].decisionType \in DecisionType
    BY <1>1, <1>4, RulesAssumption
  <2>2. PlanForCause(R, d) = [write |-> "setTypeAndRule", decision |-> d, rule |-> rule,
                              type |-> RuleOf[rule].decisionType, final |-> "PROCESSED"]
    BY <1>4 DEF PlanForCause
  <2> QED
    <3> HIDE DEF rule
    <3> QED
      BY <1>4, <2>1, <2>2 DEF Plans, RuleType, Agrees
<1> QED
  BY <1>3, <1>4

(* processAlert: a PENDING alert only is updated, a decision is changed    *)
(* only for its own alert.                                                 *)
LEMMA PlanIsSound ==
    ASSUME StoreTypeOK, NEW R \in SUBSET RuleIds, NEW a \in AlertIds,
           NEW phase \in {"OPEN", "PENDING"}, NEW severity
    PROVE  LET plan == PlanOf(R, a, phase, severity)
           IN  /\ plan \in Plans
               /\ plan.write = "updateForFinding" => phase = "PENDING"
               /\ plan.write = "setTypeAndRule" =>
                     /\ plan.decision \in DecisionsOfAlert(a)
                     /\ decisions[plan.decision].cause # NoValue
               /\ plan.write \notin {"throw", "none"} => Agrees(plan)
               /\ plan.write = "add" => phase = "OPEN"
<1> DEFINE d == AnomalyDecision(a)
           byFinding == \/ HasDetectionRuleBased(R, a)
                        \/ HasDetectionTypeBased(R, a)
           byRule == SelectDetectionRuleBased(R, AlertOf[a].refRuleId)
           byType == SelectTieBreaker(DetectionTypeBased(R, AlertOf[a].detectorType))
           plan == PlanOf(R, a, phase, severity)
<1>1. d \in DecisionsOfAlert(a) \cup {0} /\ DecisionsOfAlert(a) \subseteq Nat \ {0}
  BY DecisionByAlert DEF AnomalyDecision
<1>2. byFinding => ~HasCause(d) /\ ~HasState(d)
  BY DEF AnomalyDecision, HasDetectionRuleBased, HasDetectionTypeBased, HasCause, HasState
<1>3. CASE phase = "OPEN" /\ HasDetectionRuleBased(R, a)
  <2>1. byRule \in RuleIds
    BY <1>3, DetectionRuleBasedSelects DEF HasDetectionRuleBased
  <2>2. plan = PlanAdd(byRule, RuleOf[byRule].decisionType, "PROCESSED")
    BY <1>3, <1>2 DEF PlanOf
  <2> QED
    <3> HIDE DEF byRule, plan
    <3>1. plan \in Plans /\ plan.write = "add" /\ Agrees(plan)
      BY <2>1, <2>2, AddIsPlan, RulesAssumption DEF RuleType, NoRule, Agrees
    <3> QED
      BY <1>3, <3>1 DEF plan
<1>4. CASE phase = "OPEN" /\ ~HasDetectionRuleBased(R, a) /\ HasDetectionTypeBased(R, a)
  <2>1. DetectionTypeBased(R, AlertOf[a].detectorType) \in SUBSET RuleIds
    BY DEF DetectionTypeBased
  <2>2. byType \in RuleIds
    BY <1>4, <2>1, TieBreakerSelects DEF HasDetectionTypeBased
  <2>3. plan = PlanAdd(byType, RuleOf[byType].decisionType, "PROCESSED")
    BY <1>4, <1>2 DEF PlanOf
  <2> QED
    <3> HIDE DEF byType, plan
    <3>1. plan \in Plans /\ plan.write = "add" /\ Agrees(plan)
      BY <2>2, <2>3, AddIsPlan, RulesAssumption DEF RuleType, NoRule, Agrees
    <3> QED
      BY <1>4, <3>1 DEF plan
<1>5. CASE ~(phase = "OPEN" /\ byFinding) /\ HasCause(d)
  <2>1. d \in DecisionsOfAlert(a) /\ d \in Nat \ {0} /\ decisions[d].cause # NoValue
    BY <1>1, <1>5 DEF HasCause
  <2>2. plan = PlanForCause(R, d)
    BY <1>5 DEF PlanOf
  <2> QED
    <3> HIDE DEF d, plan
    <3>1. plan \in Plans /\ plan.write \in {"throw", "setTypeAndRule"}
          /\ (plan.write = "setTypeAndRule" =>
                 plan.decision = d /\ Agrees(plan))
      BY <2>1, <2>2, CauseIsPlan
    <3> QED
      BY <2>1, <3>1 DEF plan
<1>6. CASE ~(phase = "OPEN" /\ byFinding) /\ ~HasCause(d) /\ HasState(d)
  <2>1. plan = Throws
    BY <1>6 DEF PlanOf, PlanForState
  <2>2. Throws \in Plans /\ Throws.write = "throw"
    BY IdleRun DEF Throws, NoPlan
  <2> QED
    BY <2>1, <2>2
<1>7. CASE ~(phase = "OPEN" /\ byFinding) /\ ~HasCause(d) /\ ~HasState(d)
  <2>1. plan = IF SeverityTypeBased(R, severity) # {}
               THEN PlanForSeverity(R, phase, severity)
               ELSE IF phase = "OPEN" THEN PlanAdd(NoRule, "MANUAL_ACTION", "PENDING")
               ELSE NoPlan
    BY <1>7 DEF PlanOf
  <2>2. NoPlan \in Plans /\ NoPlan.write = "none"
    BY IdleRun DEF NoPlan
  <2> DEFINE default == PlanAdd(NoRule, "MANUAL_ACTION", "PENDING")
  <2>3. default \in Plans /\ default.write = "add" /\ Agrees(default)
    BY AddIsPlan DEF DecisionType, RuleType, Agrees
  <2>4. SeverityTypeBased(R, severity) # {} =>
           /\ PlanForSeverity(R, phase, severity) \in Plans
           /\ PlanForSeverity(R, phase, severity).write =
                 IF phase = "OPEN" THEN "add" ELSE "updateForFinding"
           /\ Agrees(PlanForSeverity(R, phase, severity))
    BY SeverityIsPlan
  <2> QED
    <3> HIDE DEF plan
    <3>1. plan \in Plans /\ (plan.write = "updateForFinding" => phase = "PENDING")
          /\ plan.write # "setTypeAndRule"
          /\ (plan.write # "none" => Agrees(plan))
          /\ (plan.write = "add" => phase = "OPEN")
      BY <2>1, <2>2, <2>3, <2>4
    <3> QED
      BY <3>1 DEF plan
<1> QED
  BY <1>3, <1>4, <1>5, <1>6, <1>7
(* Steps that read the store and change the locals of one run.             *)
LEMMA EngineReads ==
    ASSUME IInv, NEW e \in DecisionRuns, NEW x \in Runs, Becomes(e, x), UNCHANGED store,
           UNCHANGED <<worker, task, requests, crashes>>,
           (run'[e] = x) => EngineInv(e)'
    PROVE  IInv'
BY StoreUntouched, EngineMoves

(* A run that ends forgets its locals and keeps the invariant.             *)
LEMMA RunStops ==
    ASSUME IInv, NEW e \in DecisionRuns, Becomes(e, Idle), UNCHANGED store,
           UNCHANGED <<worker, task, requests, crashes>>
    PROVE  IInv'
<1>1. (run'[e] = Idle) => EngineInv(e)'
  BY DEF EngineInv, Idle
<1> QED
  BY <1>1, EngineReads, IdleRun

(* loadDecisionRules reads the rules and keeps the invariant.              *)
LEMMA RunsLoadRules ==
    ASSUME IInv, NEW e \in DecisionRuns, LoadDecisionRules(e),
           UNCHANGED <<worker, task, requests, crashes>>
    PROVE  IInv'
<1> DEFINE x == [Idle EXCEPT !.pc = "query", !.loaded = decisionRules]
<1>1. x \in Runs
  BY IdleRun DEF Runs, IInv, TypeOK, StoreTypeOK
<1>2. (run'[e] = x) => EngineInv(e)'
  BY DEF EngineInv, Idle
<1> QED
  BY <1>1, <1>2, EngineReads DEF LoadDecisionRules

(* The query for alerts of a status keeps the invariant: PENDING alerts    *)
(* have a decision.                                                        *)
LEMMA RunsQuery ==
    ASSUME IInv, NEW e \in DecisionRuns, QueryAlerts(e),
           UNCHANGED <<worker, task, requests, crashes>>
    PROVE  IInv'
<1> DEFINE list == ActiveAlertsByStatus(run[e].phase)
           y == [run[e] EXCEPT !.severity = alertSeverity]
           x == Rest(y, list)
<1>1. run[e] \in Runs /\ alertSeverity \in [AlertIds -> Severities]
  BY DEF IInv, TypeOK, StoreTypeOK, DETypeOK
<1>2. y \in Runs /\ y.phase = run[e].phase
  BY <1>1 DEF Runs
<1>3. list \in SUBSET AlertIds
  BY DEF ActiveAlertsByStatus
<1>4. x \in Runs /\ x.pc = "loop" /\ x.todo = list /\ x.phase = run[e].phase
  <2> HIDE DEF y, list
  <2> QED
    BY <1>2, <1>3, RestRun
<1>5. run[e].phase = "PENDING" => \A a \in list : DecisionsOfAlert(a) # {}
  BY DEF ActiveAlertsByStatus, IInv, DecidedHasDecision
<1>6. decisions' = decisions /\ Becomes(e, x) /\ UNCHANGED store
  BY DEF QueryAlerts, store
<1>7. (run'[e] = x) => EngineInv(e)'
  <2> HIDE DEF x, list
  <2> QED
    BY <1>4, <1>5, <1>6 DEF EngineInv, DecisionsOfAlert
<1> QED
  <2> HIDE DEF x
  <2> QED
    BY <1>4, <1>6, <1>7, EngineReads

(* The end of a list of alerts, and of the run, keeps the invariant.       *)
LEMMA RunsEndList ==
    ASSUME IInv, NEW e \in DecisionRuns, EndOfList(e),
           UNCHANGED <<worker, task, requests, crashes>>
    PROVE  IInv'
<1> DEFINE x == [run[e] EXCEPT !.pc = "query", !.phase = "PENDING"]
<1>1. run[e] \in Runs /\ run[e].todo = {}
  BY DEF IInv, TypeOK, DETypeOK, EndOfList
<1>2. CASE run[e].phase = "OPEN"
  <2>1. x \in Runs /\ x.pc = "query" /\ x.todo = {}
    BY <1>1 DEF Runs
  <2>2. Becomes(e, x) /\ UNCHANGED store
    BY <1>2 DEF EndOfList
  <2>3. (run'[e] = x) => EngineInv(e)'
    BY <2>1 DEF EngineInv
  <2> QED
    <3> HIDE DEF x
    <3> QED
      BY <2>1, <2>2, <2>3, EngineReads
<1>3. CASE run[e].phase # "OPEN"
  BY <1>3, RunStops DEF EndOfList
<1> QED
  BY <1>2, <1>3

(* What processAlert reads and plans for an alert keeps the invariant.     *)
LEMMA RunsProcessAlert ==
    ASSUME IInv, NEW e \in DecisionRuns, ProcessAlert(e),
           UNCHANGED <<worker, task, requests, crashes>>
    PROVE  IInv'
<1> DEFINE x == run[e]
<1>0. PICK a \in x.todo :
         LET plan == PlanOf(x.loaded, a, x.phase, x.severity[a])
         IN  CASE plan.write = "throw" -> Becomes(e, Idle)
               [] plan.write = "none"  -> Becomes(e, Rest(x, x.todo \ {a}))
               [] OTHER -> Becomes(e, [Rest(x, x.todo \ {a}) EXCEPT
                                         !.pc = "write", !.alert = a, !.plan = plan])
  BY DEF ProcessAlert
<1> DEFINE plan == PlanOf(x.loaded, a, x.phase, x.severity[a])
           rest == Rest(x, x.todo \ {a})
           y == [rest EXCEPT !.pc = "write", !.alert = a, !.plan = plan]
<1>1. /\ StoreTypeOK /\ EngineInv(e) /\ x \in Runs
      /\ x.todo \in SUBSET AlertIds /\ x.todo # {}
      /\ x.loaded \in SUBSET RuleIds /\ x.phase \in {"OPEN", "PENDING"}
  BY DEF IInv, TypeOK, DETypeOK, ProcessAlert, Runs
<1>2. a \in x.todo /\ a \in AlertIds
  BY <1>0, <1>1
<1>3. /\ rest \in Runs /\ rest.pc = "loop" /\ rest.todo = x.todo \ {a} /\ rest.phase = x.phase
  <2>1. x.todo \ {a} \in SUBSET AlertIds
    BY <1>1
  <2> QED
    <3> HIDE DEF x
    <3> QED
      BY <1>1, <2>1, RestRun
<1>4. /\ plan \in Plans
      /\ plan.write = "updateForFinding" => x.phase = "PENDING"
      /\ plan.write = "setTypeAndRule" => plan.decision \in DecisionsOfAlert(a)
  BY <1>1, <1>2, PlanIsSound
<1>5. x.phase = "PENDING" => \A b \in x.todo : DecisionsOfAlert(b) # {}
  BY <1>1 DEF EngineInv
<1>6. decisions' = decisions /\ UNCHANGED store
  BY DEF ProcessAlert, store
<1>7. CASE plan.write = "throw"
  BY <1>0, <1>6, <1>7, RunStops
<1>8. CASE plan.write = "none"
  <2>1. Becomes(e, rest)
    BY <1>0, <1>8
  <2>2. (run'[e] = rest) => EngineInv(e)'
    <3> HIDE DEF rest, x
    <3> QED
      BY <1>3, <1>5, <1>6 DEF EngineInv, DecisionsOfAlert
  <2> QED
    <3> HIDE DEF rest
    <3> QED
      BY <1>3, <1>6, <2>1, <2>2, EngineReads
<1>9. CASE plan.write \notin {"throw", "none"}
  <2>1. Becomes(e, y)
    BY <1>0, <1>9
  <2>2. /\ y \in Runs /\ y.pc = "write" /\ y.todo = x.todo \ {a} /\ y.phase = x.phase
        /\ y.alert = a /\ y.plan = plan
    <3> HIDE DEF rest, plan
    <3> QED
      BY <1>2, <1>3, <1>4 DEF Runs
  <2>3. plan.write \in {"add", "updateForFinding", "setTypeAndRule"}
    <3> HIDE DEF plan
    <3> QED
      BY <1>4, <1>9 DEF Plans
  <2>4. (run'[e] = y) => EngineInv(e)'
    <3> HIDE DEF y, plan, x
    <3> QED
      BY <1>2, <1>4, <1>5, <1>6, <2>2, <2>3 DEF EngineInv, DecisionsOfAlert
  <2> QED
    <3> HIDE DEF y
    <3> QED
      BY <1>6, <2>1, <2>2, <2>4, EngineReads
<1> QED
  BY <1>7, <1>8, <1>9

(* The transaction that adds or updates the decision of an alert keeps     *)
(* the invariant: one of the three writes, or a refused foreign key.       *)
LEMMA RunsWriteDecision ==
    ASSUME IInv, NEW e \in DecisionRuns, WriteDecision(e),
           UNCHANGED <<worker, task, requests, crashes>>
    PROVE  IInv'
<1>0. PICK x : x = run[e]
  OBVIOUS
<1> DEFINE y == [x EXCEPT !.pc = "status"]
           row == NewDecision(x.alert, x.plan.type, x.plan.rule,
                              AlertOf[x.alert].src, AlertOf[x.alert].dst)
<1>1. /\ StoreTypeOK /\ EngineInv(e) /\ x \in Runs /\ x.pc = "write"
      /\ x.alert \in AlertIds /\ x.plan \in Plans
      /\ x.phase = "PENDING" => \A b \in x.todo : DecisionsOfAlert(b) # {}
      /\ x.plan.write \in {"add", "updateForFinding", "setTypeAndRule"}
      /\ x.plan.write = "updateForFinding" => DecisionsOfAlert(x.alert) # {}
      /\ x.plan.write = "setTypeAndRule" => x.plan.decision \in DecisionsOfAlert(x.alert)
  BY <1>0 DEF IInv, TypeOK, DETypeOK, WriteDecision, EngineInv, Runs
<1>2. /\ x.plan.type \in DecisionType /\ x.plan.rule \in RuleIds \cup {NoRule}
      /\ y \in Runs /\ y.pc = "status" /\ y.todo = x.todo /\ y.phase = x.phase
      /\ y.alert = x.alert
  BY <1>1 DEF Runs, Plans
<1>3. UNCHANGED <<alertStatus, alertSeverity, decisionRules, actions, flows>>
  BY DEF WriteDecision
<1>4. CASE ~ReferencesHold(x.plan.rule)
  BY <1>0, <1>4, RunStops DEF WriteDecision, store
<1>5. ASSUME StoreTypeOK', Kept, DecidedHasDecision', PerformedHasAction',
             DecisionsOfAlert(x.alert)' # {}, Becomes(e, y)
      PROVE  IInv'
  <2>1. \A b : DecisionsOfAlert(b) \subseteq DecisionsOfAlert(b)'
    BY <1>5, DecisionsKept
  <2>2. (run'[e] = y) => EngineInv(e)'
    <3> HIDE DEF y
    <3>1. x.phase = "PENDING" => \A b \in x.todo : DecisionsOfAlert(b)' # {}
      BY <1>1, <2>1
    <3> QED
      BY <1>1, <1>2, <1>5, <3>1 DEF EngineInv
  <2> QED
    <3> HIDE DEF y
    <3> QED
      BY <1>2, <1>5, <2>2, EngineMoves
<1>6. CASE ReferencesHold(x.plan.rule) /\ x.plan.write = "add"
  <2>1. AddDecision(row) /\ Becomes(e, y)
    BY <1>0, <1>6 DEF WriteDecision
  <2>2. row \in Decisions /\ row.status = "OPEN" /\ row.issue = x.alert
    BY <1>1, <1>2, StoreAssumption DEF NewDecision, Decisions
  <2>3. /\ StoreTypeOK' /\ Kept /\ DecidedHasDecision' /\ PerformedHasAction'
        /\ DecisionsOfAlert(row.issue)' # {}
    <3> HIDE DEF row
    <3> QED
      BY <1>3, <2>1, <2>2, DecisionAdded
  <2> QED
    BY <1>5, <2>1, <2>2, <2>3
<1>7. CASE ReferencesHold(x.plan.rule) /\ x.plan.write = "updateForFinding"
  <2>1. UpdateDecisionForFinding(x.alert, x.plan.rule, x.plan.type) /\ Becomes(e, y)
    BY <1>0, <1>7 DEF WriteDecision
  <2> DEFINE t == [d \in DOMAIN decisions |->
                    IF decisions[d].issue = x.alert
                    THEN [decisions[d] EXCEPT !.rule = x.plan.rule,
                                              !.decisionType = x.plan.type]
                    ELSE decisions[d]]
  <2>2. decisions' = t
    BY <2>1 DEF UpdateDecisionForFinding
  <2>3. \A d \in DOMAIN decisions :
           /\ decisions[d] \in Decisions
           /\ t[d] \in Decisions
           /\ t[d].issue = decisions[d].issue /\ t[d].status = decisions[d].status
    <3>1. SUFFICES ASSUME NEW d \in DOMAIN decisions
                   PROVE  /\ decisions[d] \in Decisions
                          /\ t[d] \in Decisions
                          /\ t[d].issue = decisions[d].issue
                          /\ t[d].status = decisions[d].status
      OBVIOUS
    <3>2. decisions[d] \in Decisions
      BY <1>1, DecisionRows
    <3> QED
      BY <1>2, <3>2 DEF Decisions
  <2>4. decisions \in Seq(Decisions)
    BY <1>1 DEF StoreTypeOK
  <2>5. t \in Seq(Decisions) /\ DOMAIN t = DOMAIN decisions
    <3>1. t = [d \in DOMAIN decisions |-> t[d]]
      OBVIOUS
    <3> HIDE DEF t
    <3> QED
      BY <2>3, <2>4, <3>1, RowsUpdated
  <2>6. StoreTypeOK' /\ Kept /\ DecidedHasDecision' /\ PerformedHasAction'
    <3> HIDE DEF t
    <3> QED
      BY <1>3, <2>2, <2>3, <2>5, DecisionsUpdated
  <2>7. DecisionsOfAlert(x.alert)' # {}
    BY <1>1, <1>7, <2>6, DecisionsKept
  <2> QED
    BY <1>5, <2>1, <2>6, <2>7
<1>8. CASE ReferencesHold(x.plan.rule) /\ x.plan.write = "setTypeAndRule"
  <2> DEFINE d == x.plan.decision
             new == [decisions[d] EXCEPT !.decisionType = x.plan.type, !.rule = x.plan.rule]
  <2>1. SetDecisionTypeAndRule(d, x.plan.type, x.plan.rule) /\ Becomes(e, y)
    BY <1>0, <1>8 DEF WriteDecision
  <2>2. d \in DOMAIN decisions /\ decisions[d] \in Decisions
    BY <1>1, <1>8, DecisionRows DEF DecisionsOfAlert
  <2>3. new \in Decisions /\ new.issue = decisions[d].issue /\ new.status = decisions[d].status
    <3> HIDE DEF d
    <3> QED
      BY <1>2, <2>2 DEF Decisions
  <2>4. decisions' = [decisions EXCEPT ![d] = new]
    <3> HIDE DEF d
    <3> QED
      BY <2>1, <2>2 DEF SetDecisionTypeAndRule
  <2>5. StoreTypeOK' /\ Kept /\ DecidedHasDecision' /\ PerformedHasAction'
    <3> HIDE DEF new, d
    <3> QED
      BY <1>3, <2>2, <2>3, <2>4, OneDecisionUpdated
  <2>6. DecisionsOfAlert(x.alert)' # {}
    BY <1>1, <1>8, <2>5, DecisionsKept
  <2> QED
    BY <1>5, <2>1, <2>5, <2>6
<1> QED
  BY <1>1, <1>4, <1>6, <1>7, <1>8

(* The transaction that takes an alert out of OPEN keeps the invariant,    *)
(* for its decision is stored.                                             *)
LEMMA RunsWriteAlertStatus ==
    ASSUME IInv, NEW e \in DecisionRuns, WriteAlertStatus(e),
           UNCHANGED <<worker, task, requests, crashes>>
    PROVE  IInv'
<1> DEFINE x == run[e]
           y == Rest(x, x.todo)
<1>1. /\ EngineInv(e) /\ x \in Runs /\ x.pc = "status" /\ x.todo \in SUBSET AlertIds
      /\ x.alert \in AlertIds /\ DecisionsOfAlert(x.alert) # {}
      /\ x.plan.final \in {"PENDING", "PROCESSED"}
      /\ x.phase = "PENDING" => \A b \in x.todo : DecisionsOfAlert(b) # {}
  BY DEF IInv, TypeOK, DETypeOK, WriteAlertStatus, EngineInv, Runs, Plans
<1>2. y \in Runs /\ y.pc = "loop" /\ y.todo = x.todo /\ y.phase = x.phase
  <2> HIDE DEF x
  <2> QED
    BY <1>1, RestRun
<1>3. /\ UpdateAlertStatus(x.alert, x.plan.final) /\ Becomes(e, y)
      /\ UNCHANGED <<alertSeverity, decisionRules, decisions, actions, flows>>
  BY DEF WriteAlertStatus
<1>4. StoreTypeOK' /\ Kept /\ DecidedHasDecision' /\ PerformedHasAction'
  <2> HIDE DEF x
  <2> QED
    BY <1>1, <1>3, AlertLeaves
<1>5. (run'[e] = y) => EngineInv(e)'
  <2> HIDE DEF y
  <2> QED
    BY <1>1, <1>2, <1>3 DEF EngineInv, DecisionsOfAlert
<1> QED
  <2> HIDE DEF y
  <2> QED
    BY <1>2, <1>3, <1>4, <1>5, EngineMoves

(* Every step of a run of the decision engine keeps the invariant.         *)
LEMMA EngineStepKeepsIInv ==
    ASSUME IInv, NEW e \in DecisionRuns, DecisionEngineRuns(e)
    PROVE  IInv'
BY RunsLoadRules, RunsQuery, RunsEndList, RunsProcessAlert, RunsWriteDecision,
   RunsWriteAlertStatus DEF DecisionEngineRuns, DEStep
-----------------------------------------------------------------------------
(* The action engine *)

(* The locals of a pass that sleeps are of their type.                     *)
LEMMA AsleepWorker == Asleep \in Workers /\ Dead \in Workers
BY DEF Asleep, Dead, Workers

(* A step of a pass that writes no table keeps the invariant when the      *)
(* pass knows what it must.                                                *)
LEMMA WorkerReads ==
    ASSUME IInv, NEW w \in ActionWorkers, NEW x \in Workers, Continue(w, x), UNCHANGED store,
           UNCHANGED <<run, task, requests, crashes>>,
           (worker'[w] = x) => WorkerInv(w)'
    PROVE  IInv'
BY StoreUntouched, WorkerMoves

(* A pass that ends forgets its locals and keeps the invariant.            *)
LEMMA PassStops ==
    ASSUME IInv, NEW w \in ActionWorkers, Continue(w, Asleep), UNCHANGED store,
           UNCHANGED <<run, task, requests, crashes>>
    PROVE  IInv'
<1>1. (worker'[w] = Asleep) => WorkerInv(w)'
  BY DEF WorkerInv, Asleep
<1> QED
  BY <1>1, WorkerReads, AsleepWorker

(* What the pass reads of a decision it can act upon.                      *)
LEMMA OrdersOfDecisions ==
    ASSUME StoreTypeOK
    PROVE  OpenOrders \in SUBSET Orders /\ \A p \in OpenOrders : p.decision \in DOMAIN decisions
<1>1. ASSUME NEW d \in DecisionsByStatus("OPEN"), KindOf(decisions[d]) # NoValue
      PROVE  [decision |-> d, kind |-> KindOf(decisions[d]),
              src |-> decisions[d].src, dst |-> decisions[d].dst] \in Orders
  <2>1. d \in DOMAIN decisions /\ decisions[d] \in Decisions /\ d \in Nat \ {0}
    BY DecisionRows DEF DecisionsByStatus
  <2>2. KindOf(decisions[d]) \in Automated
    BY <1>1, <2>1 DEF KindOf, Decisions, Automated
  <2> QED
    BY <2>1, <2>2 DEF Orders, Decisions
<1> QED
  BY <1>1 DEF OpenOrders, DecisionsByStatus

(* The query for OPEN decisions keeps the invariant: the decisions it      *)
(* holds exist.                                                            *)
LEMMA PassFetches ==
    ASSUME IInv, NEW w \in ActionWorkers, FetchOpenDecisions(w),
           UNCHANGED <<run, task, requests, crashes>>
    PROVE  IInv'
<1> DEFINE x == [Asleep EXCEPT !.pc = "loop", !.todo = OpenOrders]
<1>1. OpenOrders \in SUBSET Orders /\ \A p \in OpenOrders : p.decision \in DOMAIN decisions
  BY OrdersOfDecisions DEF IInv, TypeOK
<1>2. x \in Workers /\ x.pc = "loop" /\ x.todo = OpenOrders
  BY <1>1, AsleepWorker DEF Asleep, Workers
<1>3. Continue(w, x) /\ UNCHANGED store /\ decisions' = decisions
  BY DEF FetchOpenDecisions, store
<1>4. (worker'[w] = x) => WorkerInv(w)'
  <2> HIDE DEF x
  <2> QED
    BY <1>1, <1>2, <1>3 DEF WorkerInv
<1> QED
  <2> HIDE DEF x
  <2> QED
    BY <1>2, <1>3, <1>4, WorkerReads

(* The controller changes flow entries, the pass goes on.                  *)
LEMMA FlowsChange ==
    ASSUME IInv, ControllerOnly, flows' \in [Switches -> Flows]
    PROVE  StoreTypeOK' /\ Kept /\ DecidedHasDecision' /\ PerformedHasAction'
<1>1. StoreTypeOK'
  BY DEF IInv, TypeOK, StoreTypeOK, ControllerOnly
<1> QED
  BY <1>1, NothingDecided DEF ControllerOnly

(* A request to the controller leaves a flow entry, or none, at each       *)
(* switch.                                                                 *)
LEMMA PutKeepsFlows ==
    ASSUME IInv, NEW s, NEW flow \in Flows, PutRestCall(s, flow)
    PROVE  flows' \in [Switches -> Flows]
BY DEF IInv, TypeOK, StoreTypeOK, PutRestCall

(* The flow entry of an order is of the type of the switches.              *)
LEMMA FlowsOfOrders ==
    ASSUME NEW o \in Orders,
           o.kind \in {"BLOCK_SOURCE", "BLOCK_DESTINATION", "BLOCK_BETWEEN_PAIR"}
    PROVE  FlowOf(o.kind, o.src, o.dst) \in Flows
<1>1. o.src \in Hosts \cup {NoValue} /\ o.dst \in Hosts \cup {NoValue}
  BY DEF Orders
<1>2. FlowOf(o.kind, o.src, o.dst) \in
         {[src |-> o.src, dst |-> AnyHost], [src |-> AnyHost, dst |-> o.dst],
          [src |-> o.src, dst |-> o.dst]}
  BY DEF FlowOf
<1> QED
  BY <1>1, <1>2 DEF Flows

(* The first half of processDecision.                                      *)
LEMMA PassTakesOrder ==
    ASSUME IInv, NEW w \in ActionWorkers, NEW o, NEW kinds, Processing(w, o, kinds),
           NEW pc \in {"pair", "record"}, pc = "pair" => kinds = {"BLOCK_BETWEEN_PAIR"},
           TakeOrder(w, o, pc), ControllerOnly,
           flows' \in [Switches -> Flows],
           UNCHANGED <<run, task, requests, crashes>>
    PROVE  IInv'
<1> DEFINE x == [pc |-> pc, todo |-> worker[w].todo \ {o}, order |-> o]
<1>1. worker[w] \in Workers /\ WorkerInv(w)
  BY DEF IInv, TypeOK, AETypeOK
<1>2. worker[w].todo \in SUBSET Orders /\ worker[w].todo # {}
  BY <1>1 DEF Workers, Processing
<1>3. o \in worker[w].todo /\ o \in Orders
  BY <1>2 DEF Processing
<1>4. x \in Workers /\ Continue(w, x)
  <2>1. Continue(w, x)
    BY DEF TakeOrder
  <2> QED
    BY <1>2, <1>3, <2>1 DEF Workers
<1>5. \A p \in worker[w].todo : p.decision \in DOMAIN decisions
  BY <1>1 DEF WorkerInv
<1>6. decisions' = decisions
  BY DEF ControllerOnly
<1>7. /\ x.pc = pc /\ x.pc # "status" /\ x.todo \subseteq worker[w].todo
      /\ x.order = o /\ (pc = "pair" => o.kind = "BLOCK_BETWEEN_PAIR")
  BY DEF Processing
<1>8. (worker'[w] = x) => WorkerInv(w)'
  <2> HIDE DEF x
  <2> QED
    BY <1>3, <1>5, <1>6, <1>7 DEF WorkerInv
<1> QED
  <2> HIDE DEF x
  <2> QED
    BY <1>4, <1>8, FlowsChange, WorkerMoves

(* Carrying an order out, by e-mail or by the first or only flow entry,    *)
(* keeps the invariant.                                                    *)
LEMMA PassCarriesOut ==
    ASSUME IInv, NEW w \in ActionWorkers,
           NotifyOrIgnore(w) \/ BlockSource(w) \/ BlockDestination(w) \/ BlockPairAtSource(w),
           UNCHANGED <<run, task, requests, crashes>>
    PROVE  IInv'
<1> DEFINE flow(o) == FlowOf(o.kind, o.src, o.dst)
           blocks == {"BLOCK_SOURCE", "BLOCK_DESTINATION", "BLOCK_BETWEEN_PAIR"}
<1>1. ASSUME NEW o, Processing(w, o, blocks) PROVE flow(o) \in Flows
  <2>1. o \in Orders /\ o.kind \in blocks
    BY <1>1 DEF IInv, TypeOK, AETypeOK, Workers, Processing
  <2> QED
    BY <2>1, FlowsOfOrders
<1>2. CASE NotifyOrIgnore(w)
  <2>1. PICK o \in worker[w].todo :
           /\ Processing(w, o, {"ALERT_ONLY", "IGNORE"}) /\ TakeOrder(w, o, "record")
           /\ ControllerOnly /\ flows' = flows
    BY <1>2 DEF NotifyOrIgnore, store, ControllerOnly
  <2>2. flows' \in [Switches -> Flows]
    BY <2>1 DEF IInv, TypeOK, StoreTypeOK
  <2> QED
    BY <2>1, <2>2, PassTakesOrder
<1>3. ASSUME NEW o, NEW s, NEW kinds \in SUBSET blocks, NEW pc \in {"pair", "record"},
             Processing(w, o, kinds), pc = "pair" => kinds = {"BLOCK_BETWEEN_PAIR"},
             PutRestCall(s, flow(o)), TakeOrder(w, o, pc), ControllerOnly
      PROVE  IInv'
  <2>1. Processing(w, o, blocks)
    BY <1>3 DEF Processing
  <2>2. flow(o) \in Flows
    BY <1>1, <2>1
  <2>3. flows' \in [Switches -> Flows]
    <3> HIDE DEF flow
    <3> QED
      BY <1>3, <2>2, PutKeepsFlows
  <2> QED
    BY <1>3, <2>3, PassTakesOrder
<1>4. CASE BlockSource(w)
  <2>1. PICK o \in worker[w].todo :
           /\ Processing(w, o, {"BLOCK_SOURCE"}) /\ PutRestCall(SwitchOfHost(o.src), flow(o))
           /\ TakeOrder(w, o, "record") /\ ControllerOnly
    BY <1>4 DEF BlockSource
  <2> HIDE DEF flow
  <2> QED
    BY <1>3, <2>1
<1>5. CASE BlockDestination(w)
  <2>1. PICK o \in worker[w].todo :
           /\ Processing(w, o, {"BLOCK_DESTINATION"}) /\ PutRestCall(SwitchOfHost(o.dst), flow(o))
           /\ TakeOrder(w, o, "record") /\ ControllerOnly
    BY <1>5 DEF BlockDestination
  <2> HIDE DEF flow
  <2> QED
    BY <1>3, <2>1
<1>6. CASE BlockPairAtSource(w)
  <2>1. PICK o \in worker[w].todo :
           /\ Processing(w, o, {"BLOCK_BETWEEN_PAIR"}) /\ PutRestCall(SwitchOfHost(o.src), flow(o))
           /\ TakeOrder(w, o, "pair") /\ ControllerOnly
    BY <1>6 DEF BlockPairAtSource
  <2> HIDE DEF flow
  <2> QED
    BY <1>3, <2>1
<1> QED
  BY <1>2, <1>4, <1>5, <1>6

(* The second half of a block between a pair keeps the invariant.          *)
LEMMA PassBlocksDestination ==
    ASSUME IInv, NEW w \in ActionWorkers, BlockPairAtDestination(w),
           UNCHANGED <<run, task, requests, crashes>>
    PROVE  IInv'
<1> DEFINE o == worker[w].order
           x == [worker[w] EXCEPT !.pc = "record"]
<1>1. worker[w] \in Workers /\ WorkerInv(w) /\ worker[w].pc = "pair"
  BY DEF IInv, TypeOK, AETypeOK, BlockPairAtDestination
<1>2. /\ o \in Orders /\ o.kind = "BLOCK_BETWEEN_PAIR" /\ o.decision \in DOMAIN decisions
      /\ \A p \in worker[w].todo : p.decision \in DOMAIN decisions
  BY <1>1 DEF WorkerInv
<1>3. /\ PutRestCall(SwitchOfHost(o.dst), FlowOf(o.kind, o.src, o.dst))
      /\ Continue(w, x) /\ ControllerOnly /\ decisions' = decisions
  BY DEF BlockPairAtDestination, ControllerOnly
<1>4. flows' \in [Switches -> Flows]
  <2> HIDE DEF o
  <2>1. FlowOf(o.kind, o.src, o.dst) \in Flows
    BY <1>2, FlowsOfOrders
  <2> QED
    BY <1>3, <2>1, PutKeepsFlows
<1>5. x \in Workers /\ x.pc = "record" /\ x.todo = worker[w].todo /\ x.order = o
  BY <1>1 DEF Workers
<1>6. (worker'[w] = x) => WorkerInv(w)'
  <2> HIDE DEF x, o
  <2> QED
    BY <1>2, <1>3, <1>5 DEF WorkerInv
<1> QED
  <2> HIDE DEF x
  <2> QED
    BY <1>3, <1>4, <1>5, <1>6, FlowsChange, WorkerMoves

(* setCarriedOut, first transaction: the action on record keeps the        *)
(* invariant.                                                              *)
LEMMA PassRecords ==
    ASSUME IInv, NEW w \in ActionWorkers, RecordAction(w),
           UNCHANGED <<run, task, requests, crashes>>
    PROVE  IInv'
<1>0. PICK y : y = worker[w]
  OBVIOUS
<1> DEFINE x == [y EXCEPT !.pc = "status"]
<1>1. /\ y \in Workers /\ y.pc = "record" /\ y.order \in Orders
      /\ y.order.decision \in DOMAIN decisions
      /\ \A p \in y.todo : p.decision \in DOMAIN decisions
  BY <1>0 DEF IInv, TypeOK, AETypeOK, WorkerInv, RecordAction
<1>2. /\ AddAction(y.order.decision, y.order.kind) /\ Continue(w, x)
      /\ UNCHANGED <<alertStatus, alertSeverity, decisionRules, decisions, flows>>
  BY <1>0 DEF RecordAction
<1>3. /\ StoreTypeOK' /\ Kept /\ DecidedHasDecision' /\ PerformedHasAction'
      /\ ActionsOf(y.order.decision)' # {}
  BY <1>1, <1>2, ActionAdded DEF Orders
<1>4. x \in Workers /\ x.pc = "status" /\ x.todo = y.todo /\ x.order = y.order
  BY <1>1 DEF Workers
<1>5. (worker'[w] = x) => WorkerInv(w)'
  <2> HIDE DEF x
  <2> QED
    BY <1>1, <1>2, <1>3, <1>4 DEF WorkerInv
<1> QED
  <2> HIDE DEF x
  <2> QED
    BY <1>2, <1>3, <1>4, <1>5, WorkerMoves

(* setCarriedOut, second transaction: PERFORMED keeps the invariant, for   *)
(* the action is on record.                                                *)
LEMMA PassMarks ==
    ASSUME IInv, NEW w \in ActionWorkers, MarkPerformed(w),
           UNCHANGED <<run, task, requests, crashes>>
    PROVE  IInv'
<1> DEFINE d == worker[w].order.decision
           x == [worker[w] EXCEPT !.pc = "loop", !.order = NoOrder]
           row == [decisions[d] EXCEPT !.status = "PERFORMED"]
<1>1. /\ worker[w] \in Workers /\ worker[w].pc = "status"
      /\ d \in DOMAIN decisions /\ ActionsOf(d) # {}
      /\ \A p \in worker[w].todo : p.decision \in DOMAIN decisions
  BY DEF IInv, TypeOK, AETypeOK, WorkerInv, MarkPerformed
<1>2. /\ UpdateDecisionStatus(d, "PERFORMED") /\ Continue(w, x)
      /\ UNCHANGED <<alertStatus, alertSeverity, decisionRules, actions, flows>>
  BY DEF MarkPerformed
<1>3. decisions[d] \in Decisions
  BY <1>1, DecisionRows DEF IInv, TypeOK
<1>4. row \in Decisions /\ row.issue = decisions[d].issue /\ decisions' = [decisions EXCEPT ![d] = row]
  <2> HIDE DEF d
  <2> QED
    BY <1>1, <1>2, <1>3 DEF Decisions, UpdateDecisionStatus
<1>5. StoreTypeOK' /\ Kept /\ DecidedHasDecision' /\ PerformedHasAction'
  <2> HIDE DEF d, row
  <2> QED
    BY <1>1, <1>2, <1>4, OneDecisionUpdated
<1>6. x \in Workers /\ x.pc = "loop" /\ x.todo = worker[w].todo
  BY <1>1 DEF Workers
<1>7. (worker'[w] = x) => WorkerInv(w)'
  <2> HIDE DEF x
  <2> QED
    BY <1>1, <1>5, <1>6 DEF WorkerInv, Kept
<1> QED
  <2> HIDE DEF x
  <2> QED
    BY <1>2, <1>5, <1>6, <1>7, WorkerMoves

(* An engine that is started again has forgotten its list.                 *)
LEMMA StartKeepsIInv ==
    ASSUME IInv, NEW w \in ActionWorkers, ActionEngineStarts(w)
    PROVE  IInv'
BY PassStops DEF ActionEngineStarts, WorkerStarts

(* Every step of a pass of the action engine keeps the invariant.          *)
LEMMA WorkerStepKeepsIInv ==
    ASSUME IInv, NEW w \in ActionWorkers, ActionEngineRuns(w)
    PROVE  IInv'
<1>1. CASE EndOfDecisions(w)
  BY <1>1, PassStops DEF EndOfDecisions, ActionEngineRuns
<1> QED
  BY <1>1, PassFetches, PassCarriesOut, PassBlocksDestination, PassRecords, PassMarks
     DEF ActionEngineRuns, AEStep
-----------------------------------------------------------------------------
(* Operators *)

(* The locals of a server thread without a request are of their type.      *)
LEMMA EmptyTask ==
    /\ NoRow \in Decisions /\ NoTask \in Tasks
    /\ NoTask.pc = "idle" /\ NoTask.writes = <<>> /\ NoTask.decision = 0
<1>1. (CHOOSE a \in AlertIds : TRUE) \in AlertIds
  BY StoreAssumption
<1>2. NoRow \in Decisions
  BY <1>1 DEF NoRow, NewDecision, Decisions, DecisionType
<1>3. <<>> \in Seq(Writes)
  OBVIOUS
<1>4. NoTask \in Tasks
  BY <1>1, <1>2, <1>3 DEF NoTask, Tasks
<1> QED
  BY <1>2, <1>4 DEF NoTask

(* The bounds on requests and crashes, for a step that counts neither.     *)
LEMMA OperatorReads ==
    ASSUME IInv, NEW o \in Operators, NEW t \in Tasks, Proceed(o, t), UNCHANGED store,
           UNCHANGED <<run, worker>>,
           requests' \in 0 .. MaxRequests, crashes' \in 0 .. MaxCrashes,
           (task'[o] = t) => OperatorInv(o)'
    PROVE  IInv'
BY StoreUntouched, OperatorMoves

(* A request that ends keeps the invariant.                                *)
LEMMA RequestEnds ==
    ASSUME IInv, NEW o \in Operators, Proceed(o, NoTask), UNCHANGED store,
           UNCHANGED <<run, worker>>,
           requests' \in 0 .. MaxRequests, crashes' \in 0 .. MaxCrashes
    PROVE  IInv'
<1>1. (task'[o] = NoTask) => OperatorInv(o)'
  BY EmptyTask DEF OperatorInv
<1> QED
  BY <1>1, OperatorReads, EmptyTask

(* A request for an alert of the console or of REST keeps the invariant.   *)
LEMMA RequestStarts ==
    ASSUME IInv, NEW o \in Operators, NEW op, NEW a \in AlertIds,
           NEW writes \in Seq(Writes), writes # <<>>,
           NEW final \in {NoValue, "PENDING", "PROCESSED"},
           Request(o, op, a, writes, final),
           UNCHANGED <<run, worker>>,
           requests' \in 0 .. MaxRequests, crashes' \in 0 .. MaxCrashes
    PROVE  IInv'
<1> DEFINE t == [NoTask EXCEPT !.pc = "read", !.alert = a, !.writes = writes,
                               !.final = final]
<1>1. t \in Tasks /\ t.pc = "read" /\ t.writes = writes
  BY EmptyTask DEF Tasks
<1>2. Proceed(o, t) /\ UNCHANGED store
  BY DEF Request
<1>3. (task'[o] = t) => OperatorInv(o)'
  <2> HIDE DEF t
  <2> QED
    BY <1>1 DEF OperatorInv
<1> QED
  <2> HIDE DEF t
  <2> QED
    BY <1>1, <1>2, <1>3, OperatorReads

(* The columns a request sets, one after the other.                        *)
LEMMA WritesOfRequests ==
    /\ \A c \in Causes : /\ <<[field |-> "cause", value |-> c]>> \in Seq(Writes)
                         /\ <<[field |-> "cause", value |-> c]>> # <<>>
    /\ \A s \in States : /\ <<[field |-> "state", value |-> s]>> \in Seq(Writes)
                         /\ <<[field |-> "state", value |-> s]>> # <<>>
    /\ \A c \in Causes, s \in States : Predicted(c, s) \in Seq(Writes) /\ Predicted(c, s) # <<>>
    /\ <<[field |-> "classification", value |-> NoValue]>> \in Seq(Writes)
    /\ <<[field |-> "classification", value |-> NoValue]>> # <<>>
<1>1. /\ \A c \in Causes : [field |-> "cause", value |-> c] \in Writes
      /\ \A s \in States : [field |-> "state", value |-> s] \in Writes
      /\ [field |-> "classification", value |-> NoValue] \in Writes
  BY DEF Writes
<1>2. \A v, w \in Writes : /\ <<v>> \in Seq(Writes) /\ <<v>> # <<>>
                           /\ <<v, w>> \in Seq(Writes) /\ <<v, w>> # <<>>
  OBVIOUS
<1> QED
  BY <1>1, <1>2 DEF Predicted

(* An operator who is offered an action type for a decision keeps the      *)
(* invariant.                                                              *)
LEMMA ActionIsChosen ==
    ASSUME IInv, NEW o \in Operators, NEW d \in DOMAIN decisions, NEW type \in Automated,
           ChooseAction(o, d, type),
           UNCHANGED <<run, worker>>,
           requests' \in 0 .. MaxRequests, crashes' \in 0 .. MaxCrashes
    PROVE  IInv'
<1> DEFINE a == decisions[d].issue
           final == IF alertStatus[a] = "PENDING" THEN "PROCESSED" ELSE NoValue
           t == [NoTask EXCEPT !.pc = "memo", !.alert = a, !.decision = d, !.memo = type,
                               !.final = final]
<1>1. decisions[d] \in Decisions /\ d \in Nat \ {0}
  BY DecisionRows DEF IInv, TypeOK
<1>2. a \in AlertIds /\ final \in {NoValue, "PENDING", "PROCESSED"}
  BY <1>1 DEF Decisions
<1>3. /\ t \in Tasks /\ t.pc = "memo" /\ t.alert = a /\ t.decision = d
      /\ t.writes = <<>>
  <2> HIDE DEF a, final
  <2> QED
    BY <1>1, <1>2, EmptyTask DEF Tasks
<1>4. Proceed(o, t) /\ UNCHANGED store /\ decisions' = decisions
  BY DEF ChooseAction, store
<1>5. (task'[o] = t) => OperatorInv(o)'
  <2>1. d \in DecisionsOfAlert(a)
    BY DEF DecisionsOfAlert
  <2> HIDE DEF t, a
  <2> QED
    BY <1>3, <1>4, <2>1 DEF OperatorInv, DecisionsOfAlert
<1> QED
  <2> HIDE DEF t
  <2> QED
    BY <1>3, <1>4, <1>5, OperatorReads

(* Steps that touch neither decisions nor actions nor locals.              *)
LEMMA OthersMove ==
    ASSUME IInv, StoreTypeOK', UNCHANGED <<decisions, actions, run, worker, task>>,
           requests' \in 0 .. MaxRequests, crashes' \in 0 .. MaxCrashes,
           \A a \in AlertIds : alertStatus'[a] \in {alertStatus[a], "OPEN"}
    PROVE  IInv'
<1>1. Kept /\ DecidedHasDecision' /\ PerformedHasAction'
  BY NothingDecided
<1>2. TypeOK'
  BY DEF IInv, TypeOK, DETypeOK, AETypeOK, OCTypeOK
<1>3. /\ \A e \in DecisionRuns : EngineInv(e)'
      /\ \A w \in ActionWorkers : WorkerInv(w)'
      /\ \A o \in Operators : OperatorInv(o)'
  BY <1>1, EngineUndisturbed, WorkerUndisturbed, OperatorUndisturbed DEF IInv
<1> QED
  BY <1>1, <1>2, <1>3 DEF IInv

(* Every request an operator submits keeps the invariant.                  *)
LEMMA SubmitKeepsIInv ==
    ASSUME IInv, OperatorSubmits
    PROVE  IInv'
<1>1. /\ requests' \in 0 .. MaxRequests /\ crashes' \in 0 .. MaxCrashes
      /\ UNCHANGED <<run, worker>>
  BY BoundsAssumption DEF OperatorSubmits, IInv, TypeOK
<1>2. ASSUME NEW o \in Operators, Submit(o) PROVE IInv'
  <2>1. CASE \E a \in AlertIds, c \in Causes : SetCauseOnAlert(o, a, c) \/ RestSetCause(o, a, c)
    BY <1>1, <2>1, RequestStarts, WritesOfRequests DEF SetCauseOnAlert, RestSetCause
  <2>2. CASE \E a \in AlertIds, s \in States :
                SetAnomalyStateOnAlert(o, a, s) \/ RestSetState(o, a, s)
    BY <1>1, <2>2, RequestStarts, WritesOfRequests DEF SetAnomalyStateOnAlert, RestSetState
  <2>3. CASE \E a \in AlertIds, c \in Causes, s \in States :
                RestConfirm(o, a, c, s) \/ RestConfirmAll(o, a, c, s)
    BY <1>1, <2>3, RequestStarts, WritesOfRequests DEF RestConfirm, RestConfirmAll
  <2>4. CASE \E a \in AlertIds : RestSetClassification(o, a)
    BY <1>1, <2>4, RequestStarts, WritesOfRequests DEF RestSetClassification
  <2>5. CASE \E d \in DOMAIN decisions, type \in Automated : ChooseAction(o, d, type)
    BY <1>1, <2>5, ActionIsChosen
  <2>6. CASE \E a \in AlertIds, severity \in SeverityType : SetSeverity(o, a, severity)
    <3>1. PICK a \in AlertIds, severity \in SeverityType : SetSeverity(o, a, severity)
      BY <2>6
    <3>2. StoreTypeOK'
      BY <3>1 DEF SetSeverity, SetSeverityOnAlert, Severities, IInv, TypeOK, StoreTypeOK
    <3> QED
      BY <1>1, <3>1, <3>2, OthersMove DEF SetSeverity
  <2> QED
    BY <1>2, <2>1, <2>2, <2>3, <2>4, <2>5, <2>6 DEF Submit
<1>3. ASSUME NEW k \in RuleIds, AddDecisionRule(k) \/ RemoveDecisionRule(k) PROVE IInv'
  <2>1. StoreTypeOK'
    BY <1>3 DEF AddDecisionRule, RemoveDecisionRule, IInv, TypeOK, StoreTypeOK
  <2> QED
    BY <1>1, <1>3, <2>1, OthersMove DEF AddDecisionRule, RemoveDecisionRule
<1> QED
  BY <1>2, <1>3 DEF OperatorSubmits

(* A new alert, which is OPEN, keeps the invariant.                        *)
LEMMA AlertKeepsIInv ==
    ASSUME IInv, DetectorAlerts
    PROVE  IInv'
<1>1. PICK a \in AlertIds : NewAlert(a)
  BY DEF DetectorAlerts
<1>2. /\ alertStatus' = [alertStatus EXCEPT ![a] = "OPEN"]
      /\ UNCHANGED <<alertSeverity, decisionRules, decisions, actions, flows, task>>
  BY <1>1 DEF NewAlert, AddAlert
<1>3. UNCHANGED <<run, worker, requests, crashes>>
  BY DEF DetectorAlerts
<1>4. StoreTypeOK'
  BY <1>2 DEF IInv, TypeOK, StoreTypeOK, AlertStatus
<1>5. requests' \in 0 .. MaxRequests /\ crashes' \in 0 .. MaxCrashes
  BY <1>3 DEF IInv, TypeOK
<1>6. \A b \in AlertIds : alertStatus'[b] \in {alertStatus[b], "OPEN"}
  BY <1>2 DEF IInv, TypeOK, StoreTypeOK
<1> QED
  BY <1>2, <1>3, <1>4, <1>5, <1>6, OthersMove
(* After a DAO call a task reads for the next one, sets the status of its  *)
(* alert or is over.                                                       *)
LEMMA AfterWriteIsTask ==
    ASSUME NEW t \in Tasks
    PROVE  /\ AfterWrite(t) \in Tasks
           /\ AfterWrite(t).pc \in {"idle", "read", "status"}
           /\ AfterWrite(t).pc = "read" =>
                 /\ AfterWrite(t).writes # <<>> /\ t.writes # <<>>
                 /\ AfterWrite(t).alert = t.alert
           /\ AfterWrite(t).pc = "status" =>
                 AfterWrite(t).alert = t.alert /\ AfterWrite(t).final # NoValue
<1>1. t.writes \in Seq(Writes) /\ t.alert \in AlertIds /\ t.final \in {NoValue, "PENDING", "PROCESSED"}
  BY DEF Tasks
<1>2. CASE Len(t.writes) > 1
  <2> DEFINE u == [t EXCEPT !.pc = "read", !.writes = Tail(t.writes), !.decision = 0,
                            !.row = NoRow]
  <2>1. AfterWrite(t) = u
    BY <1>2 DEF AfterWrite
  <2>2. Tail(t.writes) \in Seq(Writes) /\ Tail(t.writes) # <<>>
    <3>1. \A s \in Seq(Writes) : Len(s) > 1 => Tail(s) \in Seq(Writes) /\ Len(Tail(s)) > 0
      OBVIOUS
    <3>2. \A s \in Seq(Writes) : Len(s) > 0 => s # <<>>
      OBVIOUS
    <3> QED
      BY <1>1, <1>2, <3>1, <3>2
  <2>3. u \in Tasks /\ u.pc = "read" /\ u.writes = Tail(t.writes) /\ u.alert = t.alert
    BY <2>2, EmptyTask DEF Tasks
  <2>4. t.writes # <<>>
    BY <1>2
  <2> QED
    <3> HIDE DEF u
    <3> QED
      BY <2>1, <2>2, <2>3, <2>4
<1>3. CASE ~(Len(t.writes) > 1) /\ t.final # NoValue
  <2> DEFINE u == [NoTask EXCEPT !.pc = "status", !.alert = t.alert, !.final = t.final]
  <2>1. AfterWrite(t) = u
    BY <1>3 DEF AfterWrite
  <2>2. u \in Tasks /\ u.pc = "status" /\ u.alert = t.alert /\ u.final = t.final
    BY <1>1, EmptyTask DEF Tasks
  <2> QED
    <3> HIDE DEF u
    <3> QED
      BY <1>3, <2>1, <2>2
<1>4. CASE ~(Len(t.writes) > 1) /\ t.final = NoValue
  <2>1. AfterWrite(t) = NoTask
    BY <1>4 DEF AfterWrite
  <2> QED
    BY <2>1, EmptyTask
<1> QED
  BY <1>2, <1>3, <1>4

(* A DAO call that leaves the alert with a decision.                       *)
LEMMA CallEnds ==
    ASSUME IInv, NEW o \in Operators, NEW t \in Tasks, Proceed(o, AfterWrite(t)),
           UNCHANGED <<run, worker, requests, crashes>>,
           StoreTypeOK', Kept, DecidedHasDecision', PerformedHasAction',
           DecisionsOfAlert(t.alert)' # {}
    PROVE  IInv'
<1>1. requests' \in 0 .. MaxRequests /\ crashes' \in 0 .. MaxCrashes
  BY DEF IInv, TypeOK
<1>2. PICK u : u = AfterWrite(t)
  OBVIOUS
<1>3. /\ u \in Tasks /\ u.pc \in {"idle", "read", "status"}
      /\ u.pc = "read" => u.writes # <<>>
      /\ u.pc = "status" => u.alert = t.alert /\ u.final # NoValue
  BY <1>2, AfterWriteIsTask
<1>4. (task'[o] = u) => OperatorInv(o)'
  BY <1>3 DEF OperatorInv
<1> QED
  BY <1>1, <1>2, <1>3, <1>4, OperatorMoves

(* The read of a decision before its transaction keeps the invariant: the  *)
(* row is of the alert, and PERFORMED only with an action.                 *)
LEMMA RequestReads ==
    ASSUME IInv, NEW o \in Operators, ReadDecision(o),
           UNCHANGED <<run, worker, requests, crashes>>
    PROVE  IInv'
<1> DEFINE d == DecisionByAlertId(task[o].alert)
           row == IF d = 0 THEN NoRow ELSE decisions[d]
           t == [task[o] EXCEPT !.pc = "commit", !.decision = d, !.row = row]
<1>1. /\ StoreTypeOK /\ task[o] \in Tasks /\ task[o].pc = "read" /\ task[o].writes # <<>>
      /\ PerformedHasAction
      /\ requests' \in 0 .. MaxRequests /\ crashes' \in 0 .. MaxCrashes
  BY DEF IInv, TypeOK, OCTypeOK, ReadDecision, OperatorInv
<1>2. /\ d \in DecisionsOfAlert(task[o].alert) \cup {0}
      /\ DecisionsOfAlert(task[o].alert) \subseteq Nat \ {0}
  BY <1>1, DecisionByAlert
<1>3. d # 0 => /\ d \in DOMAIN decisions /\ decisions[d] \in Decisions
               /\ decisions[d].issue = task[o].alert
  BY <1>1, <1>2, DecisionRows DEF DecisionsOfAlert
<1>4. row \in Decisions /\ d \in Nat
  <2> HIDE DEF d
  <2> QED
    BY <1>2, <1>3, EmptyTask
<1>5. /\ t \in Tasks /\ t.pc = "commit" /\ t.writes = task[o].writes
      /\ t.decision = d /\ t.row = row /\ t.alert = task[o].alert
  <2> HIDE DEF d, row
  <2> QED
    BY <1>1, <1>4 DEF Tasks
<1>6. d # 0 => /\ row.issue = task[o].alert
               /\ row.status = "PERFORMED" => ActionsOf(d) # {}
  <2> HIDE DEF d
  <2> QED
    BY <1>1, <1>3 DEF PerformedHasAction
<1>7. Proceed(o, t) /\ UNCHANGED store /\ decisions' = decisions /\ actions' = actions
  BY DEF ReadDecision, store
<1>8. (task'[o] = t) => OperatorInv(o)'
  <2> HIDE DEF t, d, row
  <2> QED
    BY <1>1, <1>2, <1>5, <1>6, <1>7 DEF OperatorInv, DecisionsOfAlert, ActionsOf
<1> QED
  <2> HIDE DEF t
  <2> QED
    BY <1>1, <1>5, <1>7, <1>8, OperatorReads

(* The row that is written is the one that was read, but for one column.   *)
LEMMA FieldIsSet ==
    ASSUME NEW row \in Decisions, NEW w \in Writes
    PROVE  /\ SetField(row, w) \in Decisions
           /\ SetField(row, w).issue = row.issue
           /\ SetField(row, w).status = row.status
<1>1. CASE w \in [field : {"cause"}, value : Causes]
  <2>1. SetField(row, w) = [row EXCEPT !.cause = w.value] /\ w.value \in Causes
    BY <1>1 DEF SetField
  <2> QED
    BY <2>1 DEF Decisions
<1>2. CASE w \in [field : {"state"}, value : States]
  <2>1. SetField(row, w) = [row EXCEPT !.state = w.value] /\ w.value \in States
    BY <1>2 DEF SetField
  <2> QED
    BY <2>1 DEF Decisions
<1>3. CASE w \in [field : {"classification"}, value : {NoValue}]
  BY <1>3 DEF SetField
<1> QED
  BY <1>1, <1>2, <1>3 DEF Writes

(* The transaction that writes the row back, or adds a decision, keeps     *)
(* the invariant.                                                          *)
LEMMA RequestCommits ==
    ASSUME IInv, NEW o \in Operators, CommitDecision(o),
           UNCHANGED <<run, worker, requests, crashes>>
    PROVE  IInv'
<1>0. PICK t : t = task[o]
  OBVIOUS
<1> DEFINE w == Head(t.writes)
           row == SetField(t.row, w)
           new == DecisionFor(t.alert, w)
<1>1. /\ StoreTypeOK /\ t \in Tasks /\ t.pc = "commit" /\ t.writes # <<>>
      /\ t.decision # 0 => /\ t.decision \in DecisionsOfAlert(t.alert)
                           /\ t.row.issue = t.alert
                           /\ t.row.status = "PERFORMED" => ActionsOf(t.decision) # {}
      /\ requests' \in 0 .. MaxRequests /\ crashes' \in 0 .. MaxCrashes
  BY <1>0 DEF IInv, TypeOK, OCTypeOK, CommitDecision, OperatorInv
<1>2. w \in Writes /\ t.row \in Decisions /\ t.alert \in AlertIds
  BY <1>1 DEF Tasks
<1>3. UNCHANGED <<alertStatus, alertSeverity, decisionRules, actions, flows>>
  BY DEF CommitDecision
<1>4. CASE t.decision = 0 /\ AddDecision(new) /\ Proceed(o, AfterWrite(t))
  <2>1. new \in Decisions /\ new.status = "OPEN" /\ new.issue = t.alert
    <3> DEFINE plain == NewDecision(t.alert, "MANUAL_ACTION", NoRule,
                                    IF w.field = "classification" THEN NoValue
                                    ELSE AlertOf[t.alert].src, NoValue)
    <3>1. plain \in Decisions /\ plain.status = "OPEN" /\ plain.issue = t.alert
      <4> HIDE DEF w
      <4> QED
        BY <1>2, StoreAssumption DEF NewDecision, Decisions, DecisionType
    <3>2. new = SetField(plain, w)
      BY DEF DecisionFor
    <3> HIDE DEF plain, w, new
    <3> QED
      BY <1>2, <3>1, <3>2, FieldIsSet
  <2>2. /\ StoreTypeOK' /\ Kept /\ DecidedHasDecision' /\ PerformedHasAction'
        /\ DecisionsOfAlert(t.alert)' # {}
    <3> HIDE DEF new
    <3> QED
      BY <1>3, <1>4, <2>1, DecisionAdded
  <2> QED
    BY <1>1, <1>4, <2>2, CallEnds
<1>5. CASE /\ t.decision # 0 /\ decisions' = [decisions EXCEPT ![t.decision] = row]
           /\ Proceed(o, AfterWrite(t))
  <2>1. row \in Decisions /\ row.issue = t.alert /\ row.status = t.row.status
    <3> HIDE DEF w
    <3> QED
      BY <1>1, <1>2, <1>5, FieldIsSet
  <2>2. t.decision \in DOMAIN decisions /\ decisions[t.decision].issue = t.alert
    BY <1>1, <1>5 DEF DecisionsOfAlert
  <2>3. StoreTypeOK' /\ Kept /\ DecidedHasDecision' /\ PerformedHasAction'
    <3> HIDE DEF row
    <3> QED
      BY <1>1, <1>3, <1>5, <2>1, <2>2, OneDecisionUpdated
  <2>4. DecisionsOfAlert(t.alert)' # {}
    BY <1>1, <1>5, <2>3, DecisionsKept
  <2> QED
    BY <1>1, <1>5, <2>3, <2>4, CallEnds
<1>6. CASE UNCHANGED decisions /\ Proceed(o, NoTask)
  BY <1>1, <1>3, <1>6, RequestEnds DEF store
<1>7. CASE UNCHANGED decisions /\ t.decision # 0 /\ Proceed(o, AfterWrite(t))
  <2>1. StoreTypeOK' /\ Kept /\ DecidedHasDecision' /\ PerformedHasAction'
    BY <1>3, <1>7, StoreUntouched DEF store
  <2>2. DecisionsOfAlert(t.alert)' # {}
    BY <1>1, <1>7, <2>1, DecisionsKept
  <2> QED
    BY <1>1, <1>7, <2>1, <2>2, CallEnds
<1> QED
  BY <1>0, <1>4, <1>5, <1>6, <1>7 DEF CommitDecision

(* The status a request gives its alert keeps the invariant, for the       *)
(* alert has a decision.                                                   *)
LEMMA RequestWritesStatus ==
    ASSUME IInv, NEW o \in Operators, WriteStatus(o),
           UNCHANGED <<run, worker, requests, crashes>>
    PROVE  IInv'
<1>1. /\ task[o] \in Tasks /\ DecisionsOfAlert(task[o].alert) # {}
      /\ task[o].alert \in AlertIds /\ task[o].final \in {"PENDING", "PROCESSED"}
      /\ requests' \in 0 .. MaxRequests /\ crashes' \in 0 .. MaxCrashes
  BY DEF IInv, TypeOK, OCTypeOK, WriteStatus, OperatorInv, Tasks
<1>2. /\ UpdateAlertStatus(task[o].alert, task[o].final) /\ Proceed(o, NoTask)
      /\ UNCHANGED <<alertSeverity, decisionRules, decisions, actions, flows>>
  BY DEF WriteStatus
<1>3. StoreTypeOK' /\ Kept /\ DecidedHasDecision' /\ PerformedHasAction'
  BY <1>1, <1>2, AlertLeaves
<1>4. (task'[o] = NoTask) => OperatorInv(o)'
  BY EmptyTask DEF OperatorInv
<1> QED
  BY <1>1, <1>2, <1>3, <1>4, EmptyTask, OperatorMoves

(* setActionTypeOnManualDecision keeps the invariant.                      *)
LEMMA RequestSetsAction ==
    ASSUME IInv, NEW o \in Operators, SetActionTypeOnManualDecision(o),
           UNCHANGED <<run, worker, requests, crashes>>
    PROVE  IInv'
<1>0. PICK t : t = task[o]
  OBVIOUS
<1> DEFINE row == [decisions[t.decision] EXCEPT !.memo = t.memo]
<1>1. /\ StoreTypeOK /\ t \in Tasks /\ t.decision \in DecisionsOfAlert(t.alert)
      /\ t.memo \in Automated \cup {NoValue}
  BY <1>0 DEF IInv, TypeOK, OCTypeOK, SetActionTypeOnManualDecision, OperatorInv, Tasks
<1>2. /\ SetActionType(t.decision, t.memo) /\ Proceed(o, AfterWrite(t))
      /\ UNCHANGED <<alertStatus, alertSeverity, decisionRules, actions, flows>>
  BY <1>0 DEF SetActionTypeOnManualDecision
<1>3. t.decision \in DOMAIN decisions /\ decisions[t.decision] \in Decisions
  BY <1>1, DecisionRows DEF DecisionsOfAlert
<1>4. /\ row \in Decisions /\ row.issue = decisions[t.decision].issue
      /\ row.status = decisions[t.decision].status
      /\ decisions' = [decisions EXCEPT ![t.decision] = row]
  BY <1>1, <1>2, <1>3 DEF Decisions, SetActionType
<1>5. StoreTypeOK' /\ Kept /\ DecidedHasDecision' /\ PerformedHasAction'
  <2> HIDE DEF row
  <2> QED
    BY <1>2, <1>3, <1>4, OneDecisionUpdated
<1>6. DecisionsOfAlert(t.alert)' # {}
  BY <1>1, <1>5, DecisionsKept
<1> QED
  BY <1>1, <1>2, <1>5, <1>6, CallEnds

(* Every step of a request keeps the invariant.                            *)
LEMMA RequestStepKeepsIInv ==
    ASSUME IInv, NEW o \in Operators, OperatorRequestRuns(o)
    PROVE  IInv'
BY RequestReads, RequestCommits, RequestWritesStatus, RequestSetsAction
   DEF OperatorRequestRuns, OCStep
(* Threads that die lose their locals; what they committed stays.          *)
LEMMA ThreadsStop ==
    ASSUME IInv, UNCHANGED store,
           run' \in [DecisionRuns -> Runs],
           worker' \in [ActionWorkers -> Workers],
           task' \in [Operators -> Tasks],
           \A e \in DecisionRuns : run'[e] \in {run[e], Idle},
           \A w \in ActionWorkers : worker'[w] \in {worker[w], Asleep, Dead},
           \A o \in Operators : task'[o] \in {task[o], NoTask},
           requests' \in 0 .. MaxRequests, crashes' \in 0 .. MaxCrashes
    PROVE  IInv'
<1>1. StoreTypeOK' /\ Kept /\ DecidedHasDecision' /\ PerformedHasAction'
  BY StoreUntouched
<1>2. TypeOK'
  BY <1>1 DEF TypeOK, DETypeOK, AETypeOK, OCTypeOK
<1>3. ASSUME NEW e \in DecisionRuns PROVE EngineInv(e)'
  <2>1. CASE run'[e] = run[e]
    BY <1>1, <2>1, EngineUndisturbed DEF IInv
  <2>2. CASE run'[e] = Idle
    BY <2>2 DEF EngineInv, Idle
  <2> QED
    BY <2>1, <2>2
<1>4. ASSUME NEW w \in ActionWorkers PROVE WorkerInv(w)'
  <2>1. CASE worker'[w] = worker[w]
    BY <1>1, <2>1, WorkerUndisturbed DEF IInv
  <2>2. CASE worker'[w] \in {Asleep, Dead}
    BY <2>2 DEF WorkerInv, Asleep, Dead
  <2> QED
    BY <2>1, <2>2
<1>5. ASSUME NEW o \in Operators PROVE OperatorInv(o)'
  <2>1. CASE task'[o] = task[o]
    BY <1>1, <2>1, OperatorUndisturbed DEF IInv
  <2>2. CASE task'[o] = NoTask
    BY <2>2, EmptyTask DEF OperatorInv
  <2> QED
    BY <2>1, <2>2
<1> QED
  BY <1>1, <1>2, <1>3, <1>4, <1>5 DEF IInv

(* A crash of any thread, or of all of them, keeps the invariant.          *)
LEMMA CrashKeepsIInv ==
    ASSUME IInv, Crash
    PROVE  IInv'
<1>1. /\ requests' \in 0 .. MaxRequests /\ crashes' \in 0 .. MaxCrashes
      /\ UNCHANGED store
  BY BoundsAssumption DEF Crash, IInv, TypeOK, RunDies, WorkerDies, RequestDies
<1>2. /\ run \in [DecisionRuns -> Runs] /\ worker \in [ActionWorkers -> Workers]
      /\ task \in [Operators -> Tasks]
  BY DEF IInv, TypeOK, DETypeOK, AETypeOK, OCTypeOK
<1>3. /\ run' \in [DecisionRuns -> Runs]
      /\ \A e \in DecisionRuns : run'[e] \in {run[e], Idle}
  BY <1>2, IdleRun DEF Crash, RunDies, Becomes
<1>4. /\ worker' \in [ActionWorkers -> Workers]
      /\ \A w \in ActionWorkers : worker'[w] \in {worker[w], Asleep, Dead}
  BY <1>2, AsleepWorker DEF Crash, WorkerDies, Continue
<1>5. /\ task' \in [Operators -> Tasks]
      /\ \A o \in Operators : task'[o] \in {task[o], NoTask}
  BY <1>2, EmptyTask DEF Crash, RequestDies, Proceed
<1> QED
  BY <1>1, <1>3, <1>4, <1>5, ThreadsStop

-----------------------------------------------------------------------------
(* The theorems *)

(* An empty store with threads at rest satisfies the invariant.            *)
LEMMA IInvHoldsInitially == Init => IInv
<1> SUFFICES ASSUME Init PROVE IInv
  OBVIOUS
<1>1. /\ alertStatus = [a \in AlertIds |-> "ABSENT"]
      /\ alertSeverity = [a \in AlertIds |-> NoValue]
      /\ decisionRules \in SUBSET RuleIds
      /\ decisions = <<>> /\ actions = <<>>
      /\ flows = [s \in Switches |-> NoFlow]
  BY DEF Init, StoreInit
<1>2. /\ run = [e \in DecisionRuns |-> Idle]
      /\ worker = [w \in ActionWorkers |-> Asleep]
      /\ task = [o \in Operators |-> NoTask]
      /\ requests = 0 /\ crashes = 0
  BY DEF Init, DEInit, AEInit, OCInit
<1>3. StoreTypeOK
  BY <1>1 DEF StoreTypeOK, AlertStatus, Severities, NoFlow, Flows
<1>4. TypeOK
  BY <1>2, <1>3, IdleRun, AsleepWorker, EmptyTask, BoundsAssumption
     DEF TypeOK, DETypeOK, AETypeOK, OCTypeOK
<1>5. DecidedHasDecision /\ PerformedHasAction
  BY <1>1 DEF DecidedHasDecision, PerformedHasAction
<1>6. \A e \in DecisionRuns : EngineInv(e)
  BY <1>2 DEF EngineInv, Idle
<1>7. \A w \in ActionWorkers : WorkerInv(w)
  BY <1>2 DEF WorkerInv, Asleep
<1>8. \A o \in Operators : OperatorInv(o)
  BY <1>2, EmptyTask DEF OperatorInv
<1> QED
  BY <1>4, <1>5, <1>6, <1>7, <1>8 DEF IInv

(* Every step of the pipeline keeps the invariant.                         *)
LEMMA StepKeepsIInv ==
    ASSUME IInv, [Next]_vars
    PROVE  IInv'
<1>1. CASE UNCHANGED vars
  <2>1. /\ UNCHANGED store /\ UNCHANGED <<run, worker, task, requests, crashes>>
    BY <1>1 DEF vars, store
  <2> QED
    BY <2>1, ThreadsStop DEF IInv, TypeOK, DETypeOK, AETypeOK, OCTypeOK
<1>2. CASE Next
  BY <1>2, AlertKeepsIInv, SubmitKeepsIInv, RequestStepKeepsIInv, EngineStepKeepsIInv,
     WorkerStepKeepsIInv, StartKeepsIInv, CrashKeepsIInv DEF Next
<1> QED
  BY <1>1, <1>2

(* The inductive invariant: every thread's locals agree with the store,    *)
(* whatever is interleaved and wherever threads die.                       *)
THEOREM InductiveInvariant == Spec => []IInv
<1>1. Init => IInv
  BY IInvHoldsInitially
<1>2. IInv /\ [Next]_vars => IInv'
  BY StepKeepsIInv
<1> QED
  BY <1>1, <1>2, PTL DEF Spec

(* Every table keeps the columns the DAOs and the threads' locals expect.  *)
THEOREM TypeCorrect == Spec => []TypeOK
<1>1. IInv => TypeOK
  BY DEF IInv
<1> QED
  BY <1>1, InductiveInvariant, PTL

(* No alert leaves OPEN without a decision about it: processAlert's two    *)
(* transactions, the operator's and the confirmation's, at every crash.    *)
THEOREM DecidedAlways == Spec => []DecidedHasDecision
<1>1. IInv => DecidedHasDecision
  BY DEF IInv
<1> QED
  BY <1>1, InductiveInvariant, PTL

(* No decision is PERFORMED without its action on record, setCarriedOut's  *)
(* order, even when an operator writes back a row read before.             *)
THEOREM RecordedAlways == Spec => []PerformedHasAction
<1>1. IInv => PerformedHasAction
  BY DEF IInv
<1> QED
  BY <1>1, InductiveInvariant, PTL
=============================================================================
