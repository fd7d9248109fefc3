-------------------------- MODULE ResponsePipeline --------------------------
(***************************************************************************)
(* From finding to flow entry: detectors and operators, decision engine    *)
(* and action engine interleaved over the shared store.  Threads and       *)
(* processes stop at any step; what they committed stays.                  *)
(***************************************************************************)
EXTENDS DecisionEngine, ActionEngine, OperatorConsole

CONSTANTS
    MaxRequests,    \* bound on the requests of operators
    MaxCrashes      \* bound on the threads and transactions that die

ASSUME BoundsAssumption == MaxRequests \in Nat /\ MaxCrashes \in Nat

VARIABLES requests, crashes

vars == <<alertStatus, alertSeverity, decisionRules, decisions, actions, flows,
          run, worker, task, requests, crashes>>

TypeOK ==
    /\ StoreTypeOK
    /\ DETypeOK
    /\ AETypeOK
    /\ OCTypeOK
    /\ requests \in 0 .. MaxRequests
    /\ crashes \in 0 .. MaxCrashes

Init ==
    /\ StoreInit
    /\ DEInit
    /\ AEInit
    /\ OCInit
    /\ requests = 0
    /\ crashes = 0

DetectorAlerts ==
    /\ \E a \in AlertIds : NewAlert(a)
    /\ UNCHANGED <<run, worker, requests, crashes>>

OperatorSubmits ==
    /\ requests < MaxRequests
    /\ requests' = requests + 1
    /\ \/ \E o \in Operators : Submit(o)
       \/ \E k \in RuleIds : AddDecisionRule(k) \/ RemoveDecisionRule(k)
    /\ UNCHANGED <<run, worker, crashes>>

OperatorRequestRuns(o) == OCStep(o) /\ UNCHANGED <<run, worker, requests, crashes>>

DecisionEngineRuns(e) == DEStep(e) /\ UNCHANGED <<worker, task, requests, crashes>>

ActionEngineRuns(w) == AEStep(w) /\ UNCHANGED <<run, task, requests, crashes>>

ActionEngineStarts(w) == WorkerStarts(w) /\ UNCHANGED <<run, task, requests, crashes>>

Crash ==
    /\ crashes < MaxCrashes
    /\ crashes' = crashes + 1
    /\ \/ \E e \in DecisionRuns : RunDies(e) /\ UNCHANGED <<worker, task>>
       \/ \E w \in ActionWorkers : WorkerDies(w) /\ UNCHANGED <<run, task>>
       \/ \E o \in Operators : RequestDies(o) /\ UNCHANGED <<run, worker>>
    /\ UNCHANGED requests

Next ==
    \/ DetectorAlerts
    \/ OperatorSubmits
    \/ \E o \in Operators : OperatorRequestRuns(o)
    \/ \E e \in DecisionRuns : DecisionEngineRuns(e)
    \/ \E w \in ActionWorkers : ActionEngineRuns(w) \/ ActionEngineStarts(w)
    \/ Crash

Spec == Init /\ [][Next]_vars

(* main of ActionEngine repeats runEnginesOnce as long as nothing is       *)
(* thrown, and nobody has to start it again after that; a run of the       *)
(* decision engine is started by an operator, so only a started one goes   *)
(* on.                                                                     *)
EngineGoesOn(e) == run[e].pc # "idle" /\ DecisionEngineRuns(e)

Fairness ==
    /\ \A w \in ActionWorkers : WF_vars(ActionEngineRuns(w))
    /\ \A e \in DecisionRuns : WF_vars(EngineGoesOn(e))
    /\ \A o \in Operators : WF_vars(OperatorRequestRuns(o))

FairSpec == Spec /\ Fairness

(* Operators who press the button of the decision engine again and again.  *)
RepeatedRuns == \A e \in DecisionRuns : WF_vars(DecisionEngineRuns(e))

EagerSpec == FairSpec /\ RepeatedRuns

-----------------------------------------------------------------------------
(* An alert leaves OPEN only after a decision about it has been stored:    *)
(* processAlert, setCauseOnAlert and the confirmation write the decision   *)
(* first, in a transaction of its own, so no crash between the two can     *)
(* take an alert out of the engine's list without a decision.              *)
DecidedHasDecision ==
    \A a \in AlertIds :
        alertStatus[a] \in {"PENDING", "PROCESSED"} => DecisionsOfAlert(a) # {}

(* A decision is PERFORMED only when the action taken is on record: the    *)
(* order of setCarriedOut's two transactions, and no stale row an operator *)
(* writes back can be PERFORMED before the action was.                     *)
PerformedHasAction ==
    \A d \in DOMAIN decisions : decisions[d].status = "PERFORMED" => ActionsOf(d) # {}

(* The type of a decision is that of the rule it refers to, and manual     *)
(* when it refers to none: the two columns are written together by the     *)
(* engine's three writes and by the rows operators write back.             *)
DecisionFollowsItsRule ==
    \A d \in DOMAIN decisions :
        decisions[d].decisionType =
            IF decisions[d].rule = NoRule THEN "MANUAL_ACTION"
            ELSE RuleOf[decisions[d].rule].decisionType

(* The ends of a flow entry at whose switch it belongs.                    *)
EndsOf(flow) == {flow.src, flow.dst} \ {AnyHost}

(* A switch drops only traffic between the addresses of one decision, in   *)
(* the direction and of the breadth one of the three block types asks for, *)
(* and only at the switch of a host it names: a null address, an unlisted  *)
(* host, a failed request or the second half of a pair never leave a flow  *)
(* entry nobody ordered.                                                   *)
FlowsOrdered ==
    \A s \in Switches : flows[s] # NoFlow =>
        /\ \E d \in DOMAIN decisions,
              kind \in {"BLOCK_SOURCE", "BLOCK_DESTINATION", "BLOCK_BETWEEN_PAIR"} :
              flows[s] = FlowOf(kind, decisions[d].src, decisions[d].dst)
        /\ \E h \in EndsOf(flows[s]) : SwitchOfHost(h) = s

(* A PROCESSED alert, which no engine looks at again, has at least one     *)
(* decision that is settled: by a rule, or by the action an operator chose *)
(* for it.  After a crash between the two writes of a run there may be a   *)
(* second decision, and one of the two may still wait for an operator.     *)
ProcessedIsDecided ==
    \A a \in AlertIds : alertStatus[a] = "PROCESSED" =>
        \E d \in DecisionsOfAlert(a) :
            decisions[d].rule # NoRule \/ decisions[d].memo # NoValue

(* What was done for a PERFORMED decision is what the decision says, if no *)
(* operator has chosen an action for it and nothing crashed: the engine    *)
(* does not change a decision any more that the action engine can see.     *)
PerformedMatchesAction ==
    crashes = 0 =>
        \A d \in DOMAIN decisions :
            decisions[d].status = "PERFORMED" /\ decisions[d].memo = NoValue =>
                \E n \in ActionsOf(d) : actions[n].kind = KindOf(decisions[d])

(* Decision.java maps its alert with @OneToOne: until something crashes,   *)
(* an alert that is looked at again and again gets one decision.           *)
OneDecisionPerAlert ==
    crashes = 0 => \A a \in AlertIds : Cardinality(DecisionsOfAlert(a)) <= 1

(* Action.java maps its decision with @OneToOne: without a crash, each is  *)
(* carried out once, however often its alert is updated.                   *)
OneActionPerDecision ==
    crashes = 0 => \A d \in DOMAIN decisions : Cardinality(ActionsOf(d)) <= 1

(* A decision that was carried out is not opened again, to be carried out  *)
(* a second time, by the engine's updates for a PENDING alert, a severity, *)
(* a rule or a chosen action type.  The rows that cause and state requests *)
(* write back can: see OneActionPerDecision.                               *)
PerformedStays ==
    [][\A d \in DOMAIN decisions :
          decisions[d].status = "PERFORMED" => decisions'[d].status = "PERFORMED"]_vars

-----------------------------------------------------------------------------
(* What the locals of each thread know of the store, which makes the two   *)
(* invariants above inductive.                                             *)

(* A run that is about to set the status of an alert has seen, or stored,  *)
(* a decision about it; what it read before another thread wrote is still  *)
(* there.                                                                  *)
EngineInv(e) ==
    LET x == run[e]
    IN  /\ x.phase = "PENDING" => \A a \in x.todo : DecisionsOfAlert(a) # {}
        /\ x.pc \in {"write", "status"} => x.alert \in AlertIds
        /\ x.pc = "write" =>
              /\ x.plan.write \in {"add", "updateForFinding", "setTypeAndRule"}
              /\ x.plan.write = "updateForFinding" => DecisionsOfAlert(x.alert) # {}
              /\ x.plan.write = "setTypeAndRule" =>
                    x.plan.decision \in DecisionsOfAlert(x.alert)
        /\ x.pc = "status" => DecisionsOfAlert(x.alert) # {}

(* A pass holds decisions that exist, and has recorded the action of the   *)
(* one it is about to mark PERFORMED.                                      *)
WorkerInv(w) ==
    LET x == worker[w]
    IN  /\ \A p \in x.todo : p.decision \in DOMAIN decisions
        /\ x.pc \in {"pair", "record", "status"} =>
              /\ x.order \in Orders
              /\ x.order.decision \in DOMAIN decisions
        /\ x.pc = "pair" => x.order.kind = "BLOCK_BETWEEN_PAIR"
        /\ x.pc = "status" => ActionsOf(x.order.decision) # {}

(* The row a request is about to write back is of the alert it is for, and *)
(* PERFORMED only if the action was on record when it was read.            *)
OperatorInv(o) ==
    LET t == task[o]
    IN  /\ t.pc \in {"read", "commit"} => t.writes # <<>>
        /\ t.pc = "commit" /\ t.decision # 0 =>
              /\ t.decision \in DecisionsOfAlert(t.alert)
              /\ t.row.issue = t.alert
              /\ t.row.status = "PERFORMED" => ActionsOf(t.decision) # {}
        /\ t.pc = "memo" => /\ t.decision \in DecisionsOfAlert(t.alert)
                            /\ t.writes = <<>>
        /\ t.pc = "status" => /\ DecisionsOfAlert(t.alert) # {}
                              /\ t.final # NoValue

IInv ==
    /\ TypeOK
    /\ DecidedHasDecision
    /\ PerformedHasAction
    /\ \A e \in DecisionRuns : EngineInv(e)
    /\ \A w \in ActionWorkers : WorkerInv(w)
    /\ \A o \in Operators : OperatorInv(o)

-----------------------------------------------------------------------------
(* The pipeline implements the lifecycle promised for a finding.           *)
Lifecycle ==
    INSTANCE AlertLifecycle WITH
        Alerts    <- AlertIds,
        status    <- alertStatus,
        decided   <- {a \in AlertIds : DecisionsOfAlert(a) # {}},
        stored    <- DOMAIN decisions,
        recorded  <- {d \in DOMAIN decisions : ActionsOf(d) # {}},
        performed <- DecisionsByStatus("PERFORMED")

(* Every step of the engines, of operators and of crashes is a step of the *)
(* lifecycle or changes nothing it shows.                                  *)
ImplementsLifecycle == Lifecycle!Spec

-----------------------------------------------------------------------------
(* An OPEN decision of an automated type, or with an action type chosen,   *)
(* is eventually carried out, whatever the switches refuse and however     *)
(* many passes it was left over by, unless every action engine has died    *)
(* of an exception, from which main does not recover.                      *)
ActionableIsPerformed ==
    \A d \in 1 .. Cardinality(AlertIds) :
        (d \in DOMAIN decisions /\ KindOf(decisions[d]) # NoValue)
            ~> \/ d \in DOMAIN decisions /\ decisions[d].status = "PERFORMED"
               \/ \A w \in ActionWorkers : worker[w].pc = "dead"

(* With the engine run again and again, no alert stays OPEN: the comment   *)
(* of processAlert has a decision made and stored for every one of them.   *)
OpenIsDecided ==
    \A a \in AlertIds : (alertStatus[a] = "OPEN") ~> (alertStatus[a] # "OPEN")
=============================================================================
