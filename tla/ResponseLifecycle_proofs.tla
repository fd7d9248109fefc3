---------------------- MODULE ResponseLifecycle_proofs ----------------------
(***************************************************************************)
(* The pipeline implements AlertLifecycle, decisions follow their rules    *)
(* and switches drop only what a decision asks for, for every number of    *)
(* alerts, rules, threads, requests and crashes.  Each step of a thread is *)
(* shown to be one of seven transactions (StepIsTransaction); what holds   *)
(* of the store follows from these, and the locals of a thread are looked  *)
(* at only in its own steps.                                               *)
(***************************************************************************)
EXTENDS ResponsePipeline_proofs

(* A row or an order is between the addresses of another.                  *)
SameEnds(r, s) == r.src = s.src /\ r.dst = s.dst

Follows(row) == row.decisionType = RuleType(row.rule)

(* What the locals know beyond IInv.  A run works on alerts that arrived   *)
(* and plans a type its rule asks for; an order is between the hosts of    *)
(* its decision; so is a row read to be written back, and it follows its   *)
(* rule.                                                                   *)
EngineKnows(e) ==
    LET x == run[e]
    IN  /\ \A a \in x.todo : Known(a)
        /\ x.pc \in {"write", "status"} => Known(x.alert) /\ Agrees(x.plan)
        /\ x.pc = "write" /\ x.plan.write = "add" => x.phase = "OPEN"

WorkerKnows(w) ==
    LET x == worker[w]
    IN  /\ \A p \in x.todo : SameEnds(p, decisions[p.decision])
        /\ x.pc = "pair" => SameEnds(x.order, decisions[x.order.decision])

OperatorKnows(o) ==
    LET t == task[o]
    IN  /\ t.pc \in {"read", "commit"} => Known(t.alert)
        /\ t.pc = "commit" /\ t.decision # 0 =>
              /\ SameEnds(t.row, decisions[t.decision])
              /\ Follows(t.row)

(* Foreign keys: an action is of a decision of the table, a decision of an *)
(* alert that arrived.                                                     *)
KeysRefer ==
    /\ \A n \in DOMAIN actions : actions[n].decision \in DOMAIN decisions
    /\ \A d \in DOMAIN decisions : Known(decisions[d].issue)

KInv ==
    /\ IInv
    /\ KeysRefer
    /\ DecisionFollowsItsRule
    /\ FlowsOrdered
    /\ \A e \in DecisionRuns : EngineKnows(e)
    /\ \A w \in ActionWorkers : WorkerKnows(w)
    /\ \A o \in Operators : OperatorKnows(o)

-----------------------------------------------------------------------------
(* The seven transactions *)

Reads == UNCHANGED <<alertStatus, decisions, actions, flows>>

Arrives ==
    /\ \E a \in AlertIds : AddAlert(a)
    /\ UNCHANGED <<decisions, actions, flows>>

Decides ==
    /\ \E row \in Decisions :
          /\ Known(row.issue)
          /\ row.status = "OPEN"
          /\ Follows(row)
          /\ AddDecision(row)
    /\ UNCHANGED <<alertStatus, actions, flows>>

(* Rows change, the status of one at most; addresses and alerts never do.  *)
Revises ==
    /\ decisions' \in Seq(Decisions)
    /\ DOMAIN decisions' = DOMAIN decisions
    /\ \A c \in DOMAIN decisions :
          /\ decisions'[c].issue = decisions[c].issue
          /\ SameEnds(decisions'[c], decisions[c])
          /\ Follows(decisions'[c])
    /\ \E d \in DOMAIN decisions :
          /\ \A c \in DOMAIN decisions \ {d} : decisions'[c].status = decisions[c].status
          /\ decisions'[d].status = "PERFORMED" => ActionsOf(d) # {}
    /\ UNCHANGED <<alertStatus, actions, flows>>

Leaves ==
    /\ \E a \in AlertIds, s \in {"PENDING", "PROCESSED"} :
          DecisionsOfAlert(a) # {} /\ UpdateAlertStatus(a, s)
    /\ UNCHANGED <<decisions, actions, flows>>

Records ==
    /\ \E d \in DOMAIN decisions, kind \in Automated : AddAction(d, kind)
    /\ UNCHANGED <<alertStatus, decisions, flows>>

(* The host at whose switch a decision is carried out.                     *)
BlockedAt(kind, h, row) ==
    \/ kind \in {"BLOCK_SOURCE", "BLOCK_BETWEEN_PAIR"} /\ h = row.src
    \/ kind \in {"BLOCK_DESTINATION", "BLOCK_BETWEEN_PAIR"} /\ h = row.dst

Blocks ==
    /\ \E d \in DOMAIN decisions,
          kind \in {"BLOCK_SOURCE", "BLOCK_DESTINATION", "BLOCK_BETWEEN_PAIR"},
          h \in Hosts \cup {NoValue} :
          /\ BlockedAt(kind, h, decisions[d])
          /\ PutRestCall(SwitchOfHost(h), FlowOf(kind, decisions[d].src, decisions[d].dst))
    /\ UNCHANGED <<alertStatus, decisions, actions>>

Transaction ==
    Reads \/ Arrives \/ Decides \/ Revises \/ Leaves \/ Records \/ Blocks

-----------------------------------------------------------------------------
(* What a transaction does to the store *)

(* Alerts that arrived stay, and decisions stay between the same hosts.    *)
Grows ==
    /\ \A a \in AlertIds : Known(a) => Known(a)'
    /\ \A d \in DOMAIN decisions :
          d \in DOMAIN decisions' /\ SameEnds(decisions'[d], decisions[d])

(* No transaction takes an alert or the ends of a decision away.           *)
LEMMA TransactionGrows ==
    ASSUME StoreTypeOK, Transaction
    PROVE  Grows
<1>1. CASE decisions' = decisions
  <2>1. \A a \in AlertIds : alertStatus'[a] # alertStatus[a] => alertStatus'[a] # "ABSENT"
    BY <1>1 DEF Transaction, Reads, Arrives, Decides, Revises, Leaves, Records, Blocks,
                AddAlert, UpdateAlertStatus, StoreTypeOK
  <2> QED
    BY <1>1, <2>1 DEF Grows, Known, SameEnds
<1>2. CASE Decides
  <2>1. PICK row \in Decisions : AddDecision(row)
    BY <1>2 DEF Decides
  <2> QED
    BY <1>2, <2>1, RowAdded DEF Decides, Grows, Known, SameEnds
<1>3. CASE Revises
  BY <1>3 DEF Revises, Grows, Known
<1> QED
  BY <1>1, <1>2, <1>3 DEF Transaction, Reads, Arrives, Leaves, Records, Blocks

(* A decision of the table follows its rule after every transaction.       *)
LEMMA TransactionFollows ==
    ASSUME StoreTypeOK, DecisionFollowsItsRule, Transaction
    PROVE  DecisionFollowsItsRule'
<1>1. DecisionFollowsItsRule' <=> \A d \in DOMAIN decisions' : Follows(decisions'[d])
  BY DEF DecisionFollowsItsRule, Follows, RuleType
<1>2. CASE decisions' = decisions
  BY <1>2 DEF DecisionFollowsItsRule
<1>3. CASE Decides
  <2>1. PICK row \in Decisions : AddDecision(row) /\ Follows(row)
    BY <1>3 DEF Decides
  <2>2. \A d \in DOMAIN decisions : Follows(decisions[d])
    BY DEF DecisionFollowsItsRule, Follows, RuleType
  <2> QED
    BY <1>1, <2>1, <2>2, RowAdded
<1>4. CASE Revises
  BY <1>1, <1>4 DEF Revises
<1> QED
  BY <1>2, <1>3, <1>4 DEF Transaction, Reads, Arrives, Leaves, Records, Blocks

(* A flow entry a decision asks for, at the switch of a host it names.     *)
Ordered(s, flow) ==
    /\ \E d \in DOMAIN decisions,
          kind \in {"BLOCK_SOURCE", "BLOCK_DESTINATION", "BLOCK_BETWEEN_PAIR"} :
          flow = FlowOf(kind, decisions[d].src, decisions[d].dst)
    /\ \E h \in EndsOf(flow) : SwitchOfHost(h) = s

(* What was ordered is still ordered when the store has grown.             *)
LEMMA OrderedStays ==
    ASSUME Grows, NEW s, NEW flow, Ordered(s, flow)
    PROVE  Ordered(s, flow)'
<1>1. PICK d \in DOMAIN decisions,
          kind \in {"BLOCK_SOURCE", "BLOCK_DESTINATION", "BLOCK_BETWEEN_PAIR"} :
          flow = FlowOf(kind, decisions[d].src, decisions[d].dst)
  BY DEF Ordered
<1>2. d \in DOMAIN decisions' /\ flow = FlowOf(kind, decisions'[d].src, decisions'[d].dst)
  BY <1>1 DEF Grows, SameEnds
<1>3. (\E h \in EndsOf(flow) : SwitchOfHost(h) = s)'
  BY DEF Ordered, EndsOf, SwitchOfHost
<1> QED
  BY <1>2, <1>3 DEF Ordered

(* A request for a switch that exists is for the switch of an end of the   *)
(* flow: the host it names is not null and is not the range of all.        *)
LEMMA BlockIsOrdered ==
    ASSUME StoreTypeOK, NEW d \in DOMAIN decisions,
           NEW kind \in {"BLOCK_SOURCE", "BLOCK_DESTINATION", "BLOCK_BETWEEN_PAIR"},
           NEW h \in Hosts \cup {NoValue}, BlockedAt(kind, h, decisions[d]),
           SwitchOfHost(h) \in Switches
    PROVE  Ordered(SwitchOfHost(h), FlowOf(kind, decisions[d].src, decisions[d].dst))
<1> DEFINE flow == FlowOf(kind, decisions[d].src, decisions[d].dst)
<1>1. h # NoValue /\ h # AnyHost
  BY StoreAssumption DEF SwitchOfHost
<1>2. h \in {flow.src, flow.dst}
  BY DEF BlockedAt, FlowOf
<1> QED
  BY <1>1, <1>2 DEF Ordered, EndsOf

(* After every transaction, flow entries are those decisions ask for.      *)
LEMMA TransactionOrders ==
    ASSUME StoreTypeOK, FlowsOrdered, Transaction
    PROVE  FlowsOrdered'
<1>1. Grows
  BY TransactionGrows
<1>2. \A s \in Switches : flows[s] # NoFlow => Ordered(s, flows[s])
  BY DEF FlowsOrdered, Ordered
<1>3. ASSUME NEW s \in Switches, flows'[s] # NoFlow
      PROVE  Ordered(s, flows'[s])
  <2>1. CASE flows'[s] = flows[s]
    BY <1>2, <1>3, <2>1
  <2>2. CASE flows'[s] # flows[s]
    <3>1. Blocks
      BY <2>2 DEF Transaction, Reads, Arrives, Decides, Revises, Leaves, Records
    <3>2. PICK d \in DOMAIN decisions,
              kind \in {"BLOCK_SOURCE", "BLOCK_DESTINATION", "BLOCK_BETWEEN_PAIR"},
              h \in Hosts \cup {NoValue} :
              /\ BlockedAt(kind, h, decisions[d])
              /\ PutRestCall(SwitchOfHost(h), FlowOf(kind, decisions[d].src, decisions[d].dst))
      BY <3>1 DEF Blocks
    <3> DEFINE flow == FlowOf(kind, decisions[d].src, decisions[d].dst)
    <3>3. SwitchOfHost(h) = s /\ flows'[s] = flow
      <4> HIDE DEF flow
      <4> QED
        BY <2>2, <3>2 DEF PutRestCall, StoreTypeOK, flow
    <3> QED
      BY <3>2, <3>3, BlockIsOrdered
  <2> QED
    BY <2>1, <2>2
<1>4. ASSUME NEW s \in Switches, NEW flow, flow = flows'[s], flow # NoFlow
      PROVE  /\ \E d \in DOMAIN decisions',
                   kind \in {"BLOCK_SOURCE", "BLOCK_DESTINATION", "BLOCK_BETWEEN_PAIR"} :
                   flow = FlowOf(kind, decisions'[d].src, decisions'[d].dst)
             /\ \E h \in EndsOf(flow) : SwitchOfHost(h) = s
  <2>1. Ordered(s, flow)
    BY <1>3, <1>4
  <2>2. Ordered(s, flow)'
    BY <1>1, <2>1, OrderedStays
  <2> QED
    BY <2>2 DEF Ordered
<1> QED
  BY <1>4 DEF FlowsOrdered
(* The foreign keys hold after every transaction.                          *)
LEMMA TransactionRefers ==
    ASSUME StoreTypeOK, KeysRefer, Transaction
    PROVE  KeysRefer'
<1>1. Grows
  BY TransactionGrows
<1>2. \A d \in DOMAIN decisions' : alertStatus'[decisions'[d].issue] # "ABSENT"
  <2>1. \A d \in DOMAIN decisions : decisions[d].issue \in AlertIds /\ Known(decisions[d].issue)
    BY DecisionRows DEF KeysRefer, Decisions
  <2>2. \A d \in DOMAIN decisions : alertStatus'[decisions[d].issue] # "ABSENT"
    BY <1>1, <2>1 DEF Grows, Known
  <2>3. CASE Decides
    <3>1. PICK row \in Decisions : Known(row.issue) /\ AddDecision(row)
      BY <2>3 DEF Decides
    <3>2. alertStatus'[row.issue] # "ABSENT"
      BY <2>3, <3>1 DEF Decides, Known
    <3> QED
      BY <2>2, <3>1, <3>2, RowAdded
  <2>4. CASE Revises
    BY <2>2, <2>4 DEF Revises
  <2>5. CASE decisions' = decisions
    BY <2>2, <2>5
  <2> QED
    BY <2>3, <2>4, <2>5 DEF Transaction, Reads, Arrives, Leaves, Records, Blocks
<1>3. CASE actions' = actions
  BY <1>1, <1>2, <1>3 DEF KeysRefer, Grows, Known
<1>4. CASE Records
  <2>1. PICK d \in DOMAIN decisions, kind \in Automated : AddAction(d, kind)
    BY <1>4 DEF Records
  <2> DEFINE row == [decision |-> d, kind |-> kind]
  <2>2. /\ actions' = Append(actions, row) /\ actions \in Seq(Actions) /\ row \in Actions
        /\ decisions' = decisions /\ row.decision = d
    BY <1>4, <2>1, DecisionRows DEF Records, AddAction, StoreTypeOK, Actions
  <2>3. \A n \in DOMAIN actions' : actions'[n] = row \/ (n \in DOMAIN actions /\ actions'[n] = actions[n])
    <3> HIDE DEF row
    <3> QED
      BY <2>2
  <2> QED
    <3> HIDE DEF row
    <3> QED
      BY <1>2, <2>2, <2>3 DEF KeysRefer, Known
<1> QED
  BY <1>3, <1>4 DEF Transaction, Reads, Arrives, Decides, Revises, Leaves, Blocks

-----------------------------------------------------------------------------
(* The refinement of AlertLifecycle *)

(* A decision more is a step of the lifecycle: it is OPEN, has no action   *)
(* yet, and its alert has arrived.                                         *)
LEMMA DecidesRefines ==
    ASSUME StoreTypeOK, KeysRefer, Decides
    PROVE  \E a \in AlertIds : Lifecycle!Decide(a)
<1>1. PICK row \in Decisions :
         Known(row.issue) /\ row.status = "OPEN" /\ AddDecision(row)
  BY DEF Decides
<1> DEFINE new == Len(decisions) + 1
<1>2. /\ DOMAIN decisions' = DOMAIN decisions \cup {new}
      /\ new \notin DOMAIN decisions /\ decisions'[new] = row
      /\ \A d \in DOMAIN decisions : decisions'[d] = decisions[d]
  BY <1>1, RowAdded
<1> HIDE DEF new
<1>3. \A d : ActionsOf(d)' = ActionsOf(d)
  BY DEF Decides, ActionsOf
<1>4. ActionsOf(new) = {}
  BY <1>2 DEF KeysRefer, ActionsOf
<1>5. row.issue \in AlertIds /\ alertStatus' = alertStatus
  BY DEF Decisions, Decides
<1>6. {a \in AlertIds : DecisionsOfAlert(a) # {}}' =
         {a \in AlertIds : DecisionsOfAlert(a) # {}} \cup {row.issue}
  BY <1>2, <1>5 DEF DecisionsOfAlert
<1>7. {d \in DOMAIN decisions : ActionsOf(d) # {}}' = {d \in DOMAIN decisions : ActionsOf(d) # {}}
  BY <1>2, <1>3, <1>4
<1>8. DecisionsByStatus("PERFORMED")' = DecisionsByStatus("PERFORMED")
  BY <1>1, <1>2 DEF DecisionsByStatus
<1>9. \E d \in DOMAIN decisions' \ DOMAIN decisions : DOMAIN decisions' = DOMAIN decisions \cup {d}
  BY <1>2
<1> QED
  BY <1>1, <1>5, <1>6, <1>7, <1>8, <1>9 DEF Lifecycle!Decide, Known

(* Rows that change show as one decision marked PERFORMED, with its action *)
(* on record, as one opened again, or not at all.                          *)
LEMMA RevisesRefines ==
    ASSUME StoreTypeOK, Revises
    PROVE  \/ \E d \in DOMAIN decisions : Lifecycle!Perform(d) \/ Lifecycle!Reopen(d)
           \/ UNCHANGED Lifecycle!vars
<1>1. PICK d \in DOMAIN decisions :
         /\ \A c \in DOMAIN decisions \ {d} : decisions'[c].status = decisions[c].status
         /\ decisions'[d].status = "PERFORMED" => ActionsOf(d) # {}
  BY DEF Revises
<1>2. /\ DOMAIN decisions' = DOMAIN decisions /\ alertStatus' = alertStatus
      /\ \A c \in DOMAIN decisions : decisions'[c].issue = decisions[c].issue
      /\ \A c : ActionsOf(c)' = ActionsOf(c)
  BY DEF Revises, ActionsOf
<1>3. {a \in AlertIds : DecisionsOfAlert(a) # {}}' = {a \in AlertIds : DecisionsOfAlert(a) # {}}
  BY <1>2 DEF DecisionsOfAlert
<1>4. {c \in DOMAIN decisions : ActionsOf(c) # {}}' = {c \in DOMAIN decisions : ActionsOf(c) # {}}
  BY <1>2
<1>5. CASE decisions'[d].status = "PERFORMED"
  <2>1. DecisionsByStatus("PERFORMED")' = DecisionsByStatus("PERFORMED") \cup {d}
    BY <1>1, <1>2, <1>5 DEF DecisionsByStatus
  <2> QED
    BY <1>1, <1>2, <1>3, <1>4, <1>5, <2>1 DEF Lifecycle!Perform
<1>6. CASE decisions'[d].status # "PERFORMED"
  <2>1. DecisionsByStatus("PERFORMED")' = DecisionsByStatus("PERFORMED") \ {d}
    BY <1>1, <1>2, <1>6 DEF DecisionsByStatus
  <2> QED
    BY <1>2, <1>3, <1>4, <2>1 DEF Lifecycle!Reopen
<1> QED
  BY <1>5, <1>6

(* Each of the seven transactions is a step of the lifecycle or shows      *)
(* nothing of itself.                                                      *)
LEMMA TransactionRefines ==
    ASSUME StoreTypeOK, KeysRefer, Transaction
    PROVE  [Lifecycle!Next]_(Lifecycle!vars)
<1>1. UNCHANGED <<decisions, actions>> =>
         /\ {a \in AlertIds : DecisionsOfAlert(a) # {}}' = {a \in AlertIds : DecisionsOfAlert(a) # {}}
         /\ (DOMAIN decisions)' = DOMAIN decisions
         /\ {d \in DOMAIN decisions : ActionsOf(d) # {}}' = {d \in DOMAIN decisions : ActionsOf(d) # {}}
         /\ DecisionsByStatus("PERFORMED")' = DecisionsByStatus("PERFORMED")
  BY DEF DecisionsOfAlert, ActionsOf, DecisionsByStatus
<1>2. CASE Reads \/ Blocks
  BY <1>1, <1>2 DEF Reads, Blocks, Lifecycle!vars
<1>3. CASE Arrives
  <2>1. PICK a \in AlertIds : AddAlert(a)
    BY <1>3 DEF Arrives
  <2>2. Lifecycle!Arrive(a)
    BY <1>1, <1>3, <2>1 DEF Arrives, AddAlert, Lifecycle!Arrive
  <2> QED
    BY <2>2 DEF Lifecycle!Next
<1>4. CASE Decides
  BY <1>4, DecidesRefines DEF Lifecycle!Next
<1>5. CASE Revises
  BY <1>5, RevisesRefines DEF Lifecycle!Next
<1>6. CASE Leaves
  <2>1. PICK a \in AlertIds, s \in {"PENDING", "PROCESSED"} :
           DecisionsOfAlert(a) # {} /\ UpdateAlertStatus(a, s)
    BY <1>6 DEF Leaves
  <2>2. Lifecycle!Leave(a)
    BY <1>1, <1>6, <2>1 DEF Leaves, UpdateAlertStatus, Lifecycle!Leave
  <2> QED
    BY <2>2 DEF Lifecycle!Next
<1>7. CASE Records
  <2>1. PICK d \in DOMAIN decisions, kind \in Automated : AddAction(d, kind)
    BY <1>7 DEF Records
  <2> DEFINE row == [decision |-> d, kind |-> kind]
  <2>2. /\ actions' = Append(actions, row) /\ actions \in Seq(Actions) /\ row \in Actions
        /\ decisions' = decisions /\ alertStatus' = alertStatus /\ row.decision = d
    BY <1>7, <2>1, DecisionRows DEF Records, AddAction, StoreTypeOK, Actions
  <2>3. /\ DOMAIN actions' = DOMAIN actions \cup {Len(actions) + 1}
        /\ actions'[Len(actions) + 1] = row
        /\ Len(actions) + 1 \notin DOMAIN actions
        /\ \A n \in DOMAIN actions : actions'[n] = actions[n]
    <3> HIDE DEF row
    <3> QED
      BY <2>2
  <2>4. \A c : c # d => ActionsOf(c)' = ActionsOf(c)
    <3> HIDE DEF row
    <3> QED
      BY <2>2, <2>3 DEF ActionsOf
  <2>5. ActionsOf(d)' # {}
    <3> HIDE DEF row
    <3> QED
      BY <2>2, <2>3 DEF ActionsOf
  <2>6. {c \in DOMAIN decisions : ActionsOf(c) # {}}' =
           {c \in DOMAIN decisions : ActionsOf(c) # {}} \cup {d}
    BY <2>2, <2>4, <2>5
  <2>7. /\ {a \in AlertIds : DecisionsOfAlert(a) # {}}' = {a \in AlertIds : DecisionsOfAlert(a) # {}}
        /\ DecisionsByStatus("PERFORMED")' = DecisionsByStatus("PERFORMED")
    BY <2>2 DEF DecisionsOfAlert, DecisionsByStatus
  <2>8. Lifecycle!Record(d)
    BY <2>2, <2>6, <2>7 DEF Lifecycle!Record
  <2> QED
    BY <2>8 DEF Lifecycle!Next
<1> QED
  BY <1>2, <1>3, <1>4, <1>5, <1>6, <1>7 DEF Transaction
-----------------------------------------------------------------------------
(* Every step of a thread is a transaction *)

(* In a table whose rows follow their rules, every row does.               *)
LEMMA RowsFollow ==
    ASSUME DecisionFollowsItsRule
    PROVE  \A d \in DOMAIN decisions : Follows(decisions[d])
BY DEF DecisionFollowsItsRule, Follows, RuleType

(* A native update of one row, but for its alert and its addresses.        *)
LEMMA OneRowRevised ==
    ASSUME KInv, NEW d \in DOMAIN decisions, NEW row \in Decisions,
           decisions' = [decisions EXCEPT ![d] = row],
           row.issue = decisions[d].issue, SameEnds(row, decisions[d]), Follows(row),
           row.status = "PERFORMED" => ActionsOf(d) # {},
           UNCHANGED <<alertStatus, actions, flows>>
    PROVE  Revises
<1>1. decisions \in Seq(Decisions)
  BY DEF KInv, IInv, TypeOK, StoreTypeOK
<1>2. /\ decisions' \in Seq(Decisions) /\ DOMAIN decisions' = DOMAIN decisions
      /\ \A c \in DOMAIN decisions : decisions'[c] = IF c = d THEN row ELSE decisions[c]
  BY <1>1
<1>3. \A c \in DOMAIN decisions : Follows(decisions[c])
  BY RowsFollow DEF KInv
<1>4. \A c \in DOMAIN decisions :
         /\ decisions'[c].issue = decisions[c].issue
         /\ SameEnds(decisions'[c], decisions[c])
         /\ Follows(decisions'[c])
  BY <1>2, <1>3 DEF SameEnds
<1>5. /\ \A c \in DOMAIN decisions \ {d} : decisions'[c].status = decisions[c].status
      /\ decisions'[d].status = "PERFORMED" => ActionsOf(d) # {}
  BY <1>2
<1> QED
  BY <1>2, <1>4, <1>5 DEF Revises

(* The write of a run: a decision that follows its rule about an alert     *)
(* that arrived, or new rules for the decisions of its alert.              *)
LEMMA EngineWritesDecision ==
    ASSUME KInv, NEW e \in DecisionRuns, WriteDecision(e)
    PROVE  Transaction
<1>0. PICK x : x = run[e]
  OBVIOUS
<1>1. /\ StoreTypeOK /\ x \in Runs /\ x.alert \in AlertIds /\ x.plan \in Plans
      /\ PerformedHasAction
      /\ x.plan.write \in {"add", "updateForFinding", "setTypeAndRule"}
      /\ x.plan.write = "updateForFinding" => DecisionsOfAlert(x.alert) # {}
      /\ x.plan.write = "setTypeAndRule" => x.plan.decision \in DecisionsOfAlert(x.alert)
  BY <1>0 DEF KInv, IInv, TypeOK, DETypeOK, WriteDecision, EngineInv, Runs
<1>2. /\ x.plan.type \in DecisionType /\ x.plan.rule \in RuleIds \cup {NoRule}
      /\ x.plan.type = RuleType(x.plan.rule) /\ Known(x.alert)
  BY <1>0, <1>1 DEF KInv, EngineKnows, WriteDecision, Plans, Agrees
<1>3. UNCHANGED <<alertStatus, alertSeverity, decisionRules, actions, flows>>
  BY DEF WriteDecision
<1>4. CASE UNCHANGED decisions
  BY <1>3, <1>4 DEF Transaction, Reads
<1>5. CASE x.plan.write = "add" /\ ~UNCHANGED decisions
  <2> DEFINE row == NewDecision(x.alert, x.plan.type, x.plan.rule,
                                AlertOf[x.alert].src, AlertOf[x.alert].dst)
  <2>1. AddDecision(row)
    BY <1>0, <1>5 DEF WriteDecision
  <2>2. /\ row \in Decisions /\ row.status = "OPEN" /\ row.issue = x.alert
        /\ row.decisionType = x.plan.type /\ row.rule = x.plan.rule
    BY <1>1, <1>2, StoreAssumption DEF NewDecision, Decisions
  <2> QED
    <3> HIDE DEF row
    <3> QED
      BY <1>2, <1>3, <2>1, <2>2 DEF Transaction, Decides, Follows
<1>6. CASE x.plan.write = "updateForFinding" /\ ~UNCHANGED decisions
  <2> DEFINE t == [d \in DOMAIN decisions |->
                    IF decisions[d].issue = x.alert
                    THEN [decisions[d] EXCEPT !.rule = x.plan.rule,
                                              !.decisionType = x.plan.type]
                    ELSE decisions[d]]
  <2>1. decisions' = t
    BY <1>0, <1>6 DEF WriteDecision, UpdateDecisionForFinding
  <2>2. ASSUME NEW d \in DOMAIN decisions
        PROVE  /\ t[d] \in Decisions
               /\ t[d].issue = decisions[d].issue /\ t[d].status = decisions[d].status
               /\ SameEnds(t[d], decisions[d]) /\ Follows(t[d])
    <3>1. decisions[d] \in Decisions /\ Follows(decisions[d])
      BY <1>1, DecisionRows, RowsFollow DEF KInv
    <3> QED
      BY <1>2, <3>1 DEF Decisions, SameEnds, Follows
  <2>3. t \in Seq(Decisions) /\ DOMAIN t = DOMAIN decisions
    <3>1. t = [d \in DOMAIN decisions |-> t[d]] /\ decisions \in Seq(Decisions)
      BY <1>1 DEF StoreTypeOK
    <3> HIDE DEF t
    <3> QED
      BY <2>2, <3>1, RowsUpdated
  <2>4. PICK d \in DOMAIN decisions : d \in DecisionsOfAlert(x.alert)
    BY <1>1, <1>6 DEF DecisionsOfAlert
  <2>5. /\ \A c \in DOMAIN decisions \ {d} : decisions'[c].status = decisions[c].status
        /\ decisions'[d].status = "PERFORMED" => ActionsOf(d) # {}
    <3> HIDE DEF t
    <3> QED
      BY <1>1, <2>1, <2>2 DEF PerformedHasAction
  <2> QED
    <3> HIDE DEF t
    <3> QED
      BY <1>3, <2>1, <2>2, <2>3, <2>5 DEF Transaction, Revises
<1>7. CASE x.plan.write = "setTypeAndRule" /\ ~UNCHANGED decisions
  <2> DEFINE d == x.plan.decision
             new == [decisions[d] EXCEPT !.decisionType = x.plan.type, !.rule = x.plan.rule]
  <2>1. SetDecisionTypeAndRule(d, x.plan.type, x.plan.rule)
    BY <1>0, <1>7 DEF WriteDecision
  <2>2. d \in DOMAIN decisions /\ decisions[d] \in Decisions
    BY <1>1, <1>7, DecisionRows DEF DecisionsOfAlert
  <2>3. /\ new \in Decisions /\ new.issue = decisions[d].issue
        /\ new.status = decisions[d].status /\ SameEnds(new, decisions[d]) /\ Follows(new)
    <3> HIDE DEF d
    <3> QED
      BY <1>2, <2>2 DEF Decisions, SameEnds, Follows
  <2>4. decisions' = [decisions EXCEPT ![d] = new]
    <3> HIDE DEF d
    <3> QED
      BY <2>1, <2>2 DEF SetDecisionTypeAndRule
  <2> QED
    <3> HIDE DEF d, new
    <3> QED
      BY <1>1, <1>3, <2>2, <2>3, <2>4, OneRowRevised DEF Transaction, PerformedHasAction
<1> QED
  BY <1>1, <1>4, <1>5, <1>6, <1>7

(* Every step of a run of the decision engine.                             *)
LEMMA EngineTransacts ==
    ASSUME KInv, NEW e \in DecisionRuns, DEStep(e)
    PROVE  Transaction
<1>1. UNCHANGED store => Transaction
  BY DEF store, Transaction, Reads
<1>2. CASE WriteAlertStatus(e)
  <2>1. /\ run[e].alert \in AlertIds /\ run[e].plan.final \in {"PENDING", "PROCESSED"}
        /\ DecisionsOfAlert(run[e].alert) # {}
    BY <1>2 DEF WriteAlertStatus, KInv, IInv, TypeOK, DETypeOK, EngineInv, Runs, Plans
  <2> QED
    BY <1>2, <2>1 DEF WriteAlertStatus, Transaction, Leaves
<1> QED
  BY <1>1, <1>2, EngineWritesDecision
     DEF DEStep, LoadDecisionRules, QueryAlerts, EndOfList, ProcessAlert

(* Every step of a pass of the action engine: the request it makes of the  *)
(* controller is for a host of the decision its order was made from.       *)
LEMMA WorkerTransacts ==
    ASSUME KInv, NEW w \in ActionWorkers, AEStep(w) \/ WorkerStarts(w)
    PROVE  Transaction
<1>1. /\ StoreTypeOK /\ worker[w] \in Workers /\ WorkerInv(w) /\ WorkerKnows(w)
  BY DEF KInv, IInv, TypeOK, AETypeOK
<1>2. UNCHANGED store => Transaction
  BY DEF store, Transaction, Reads
<1>3. ASSUME NEW o \in Orders, o.decision \in DOMAIN decisions,
             SameEnds(o, decisions[o.decision]),
             NEW h \in {o.src, o.dst}, BlockedAt(o.kind, h, o),
             PutRestCall(SwitchOfHost(h), FlowOf(o.kind, o.src, o.dst)), ControllerOnly
      PROVE  Transaction
  <2>1. /\ o.kind \in {"BLOCK_SOURCE", "BLOCK_DESTINATION", "BLOCK_BETWEEN_PAIR"}
        /\ h \in Hosts \cup {NoValue}
    BY <1>3 DEF BlockedAt, Orders
  <2>2. /\ BlockedAt(o.kind, h, decisions[o.decision])
        /\ o.src = decisions[o.decision].src /\ o.dst = decisions[o.decision].dst
    BY <1>3 DEF BlockedAt, SameEnds
  <2> QED
    BY <1>3, <2>1, <2>2 DEF Transaction, Blocks, ControllerOnly
<1>4. ASSUME NEW o, NEW kinds, Processing(w, o, kinds)
      PROVE  /\ o \in Orders /\ o.decision \in DOMAIN decisions
             /\ SameEnds(o, decisions[o.decision]) /\ o.kind \in kinds
  <2>1. worker[w].todo \in SUBSET Orders /\ o \in worker[w].todo
    BY <1>1, <1>4 DEF Workers, Processing
  <2> QED
    BY <1>1, <1>4, <2>1 DEF WorkerInv, WorkerKnows, Processing
<1>5. CASE BlockSource(w) \/ BlockPairAtSource(w)
  <2>1. PICK o \in worker[w].todo :
           /\ Processing(w, o, {"BLOCK_SOURCE", "BLOCK_BETWEEN_PAIR"})
           /\ PutRestCall(SwitchOfHost(o.src), FlowOf(o.kind, o.src, o.dst)) /\ ControllerOnly
    BY <1>5 DEF BlockSource, BlockPairAtSource, Processing
  <2>2. /\ o \in Orders /\ o.decision \in DOMAIN decisions
        /\ SameEnds(o, decisions[o.decision]) /\ o.kind \in {"BLOCK_SOURCE", "BLOCK_BETWEEN_PAIR"}
    BY <1>4, <2>1
  <2> QED
    BY <1>3, <2>1, <2>2 DEF BlockedAt
<1>6. CASE BlockDestination(w)
  <2>1. PICK o \in worker[w].todo :
           /\ Processing(w, o, {"BLOCK_DESTINATION"})
           /\ PutRestCall(SwitchOfHost(o.dst), FlowOf(o.kind, o.src, o.dst)) /\ ControllerOnly
    BY <1>6 DEF BlockDestination
  <2>2. /\ o \in Orders /\ o.decision \in DOMAIN decisions
        /\ SameEnds(o, decisions[o.decision]) /\ o.kind \in {"BLOCK_DESTINATION"}
    BY <1>4, <2>1
  <2> QED
    BY <1>3, <2>1, <2>2 DEF BlockedAt
<1>7. CASE BlockPairAtDestination(w)
  <2> DEFINE o == worker[w].order
  <2>1. /\ o \in Orders /\ o.decision \in DOMAIN decisions
        /\ SameEnds(o, decisions[o.decision]) /\ o.kind = "BLOCK_BETWEEN_PAIR"
        /\ PutRestCall(SwitchOfHost(o.dst), FlowOf(o.kind, o.src, o.dst)) /\ ControllerOnly
    BY <1>1, <1>7 DEF BlockPairAtDestination, WorkerInv, WorkerKnows
  <2> HIDE DEF o
  <2> QED
    BY <1>3, <2>1 DEF BlockedAt
<1>8. CASE RecordAction(w)
  <2>1. /\ worker[w].order \in Orders /\ worker[w].order.decision \in DOMAIN decisions
        /\ worker[w].order.kind \in Automated
    BY <1>1, <1>8 DEF RecordAction, WorkerInv, Orders
  <2> QED
    BY <1>8, <2>1 DEF RecordAction, Transaction, Records
<1>9. CASE MarkPerformed(w)
  <2> DEFINE d == worker[w].order.decision
             row == [decisions[d] EXCEPT !.status = "PERFORMED"]
  <2>1. d \in DOMAIN decisions /\ ActionsOf(d) # {}
    BY <1>1, <1>9 DEF MarkPerformed, WorkerInv
  <2>2. decisions[d] \in Decisions /\ Follows(decisions[d])
    BY <1>1, <2>1, DecisionRows, RowsFollow DEF KInv
  <2>3. /\ row \in Decisions /\ row.issue = decisions[d].issue
        /\ SameEnds(row, decisions[d]) /\ Follows(row)
        /\ decisions' = [decisions EXCEPT ![d] = row]
        /\ UNCHANGED <<alertStatus, actions, flows>>
    <3> UpdateDecisionStatus(d, "PERFORMED") /\ UNCHANGED <<alertStatus, actions, flows>>
      BY <1>9 DEF MarkPerformed
    <3> HIDE DEF d
    <3> QED
      BY <2>1, <2>2 DEF Decisions, UpdateDecisionStatus, SameEnds, Follows
  <2> QED
    <3> HIDE DEF d, row
    <3> QED
      BY <2>1, <2>3, OneRowRevised DEF Transaction
<1> QED
  BY <1>2, <1>5, <1>6, <1>7, <1>8, <1>9
     DEF AEStep, FetchOpenDecisions, NotifyOrIgnore, EndOfDecisions, WorkerStarts
(* Setting a cause, a state or a classification changes no other column.   *)
LEMMA FieldKeeps ==
    ASSUME NEW row \in Decisions, NEW w \in Writes
    PROVE  /\ SameEnds(SetField(row, w), row)
           /\ SetField(row, w).decisionType = row.decisionType
           /\ SetField(row, w).rule = row.rule
<1>1. CASE w \in [field : {"cause"}, value : Causes]
  <2>1. SetField(row, w) = [row EXCEPT !.cause = w.value]
    BY <1>1 DEF SetField
  <2> QED
    BY <2>1 DEF Decisions, SameEnds
<1>2. CASE w \in [field : {"state"}, value : States]
  <2>1. SetField(row, w) = [row EXCEPT !.state = w.value]
    BY <1>2 DEF SetField
  <2> QED
    BY <2>1 DEF Decisions, SameEnds
<1>3. CASE w \in [field : {"classification"}, value : {NoValue}]
  BY <1>3 DEF SetField, SameEnds
<1> QED
  BY <1>1, <1>2, <1>3 DEF Writes

(* A request writes back a row between the hosts it was read between, or   *)
(* adds a manual decision about an alert that arrived.                     *)
LEMMA RequestCommitsTransaction ==
    ASSUME KInv, NEW o \in Operators, CommitDecision(o)
    PROVE  Transaction
<1>0. PICK t : t = task[o]
  OBVIOUS
<1> DEFINE w == Head(t.writes)
           row == SetField(t.row, w)
           new == DecisionFor(t.alert, w)
<1>1. /\ StoreTypeOK /\ t \in Tasks /\ t.pc = "commit" /\ t.writes # <<>>
      /\ t.decision # 0 => /\ t.decision \in DecisionsOfAlert(t.alert)
                           /\ t.row.issue = t.alert
                           /\ t.row.status = "PERFORMED" => ActionsOf(t.decision) # {}
  BY <1>0 DEF KInv, IInv, TypeOK, OCTypeOK, CommitDecision, OperatorInv
<1>2. /\ Known(t.alert)
      /\ t.decision # 0 => SameEnds(t.row, decisions[t.decision]) /\ Follows(t.row)
  BY <1>0, <1>1 DEF KInv, OperatorKnows
<1>3. w \in Writes /\ t.row \in Decisions /\ t.alert \in AlertIds
  BY <1>1 DEF Tasks
<1>4. UNCHANGED <<alertStatus, actions, flows>>
  BY DEF CommitDecision
<1>5. CASE UNCHANGED decisions
  BY <1>4, <1>5 DEF Transaction, Reads
<1>6. CASE t.decision = 0 /\ AddDecision(new)
  <2> DEFINE plain == NewDecision(t.alert, "MANUAL_ACTION", NoRule,
                                  IF w.field = "classification" THEN NoValue
                                  ELSE AlertOf[t.alert].src, NoValue)
  <2>1. plain \in Decisions /\ plain.status = "OPEN" /\ plain.issue = t.alert /\ Follows(plain)
    <3> HIDE DEF w
    <3> QED
      BY <1>3, StoreAssumption DEF NewDecision, Decisions, DecisionType, Follows, RuleType
  <2>2. new = SetField(plain, w)
    BY DEF DecisionFor
  <2>3. new \in Decisions /\ new.status = "OPEN" /\ new.issue = t.alert /\ Follows(new)
    <3> HIDE DEF plain, w, new
    <3> QED
      BY <1>3, <2>1, <2>2, FieldIsSet, FieldKeeps DEF Follows
  <2> QED
    <3> HIDE DEF new
    <3> QED
      BY <1>2, <1>4, <1>6, <2>3 DEF Transaction, Decides
<1>7. CASE t.decision # 0 /\ decisions' = [decisions EXCEPT ![t.decision] = row]
  <2>1. /\ row \in Decisions /\ row.issue = t.alert /\ row.status = t.row.status
        /\ SameEnds(row, t.row) /\ Follows(row)
    <3> HIDE DEF w
    <3> QED
      BY <1>1, <1>2, <1>3, <1>7, FieldIsSet, FieldKeeps DEF Follows
  <2>2. t.decision \in DOMAIN decisions /\ decisions[t.decision].issue = t.alert
    BY <1>1, <1>7 DEF DecisionsOfAlert
  <2>3. SameEnds(row, decisions[t.decision])
    BY <1>2, <1>7, <2>1 DEF SameEnds
  <2> QED
    <3> HIDE DEF row
    <3> QED
      BY <1>1, <1>4, <1>7, <2>1, <2>2, <2>3, OneRowRevised DEF Transaction
<1> QED
  BY <1>0, <1>5, <1>6, <1>7 DEF CommitDecision

(* Every step of a request.                                                *)
LEMMA OperatorTransacts ==
    ASSUME KInv, NEW o \in Operators, OCStep(o)
    PROVE  Transaction
<1>1. CASE ReadDecision(o)
  BY <1>1 DEF ReadDecision, store, Transaction, Reads
<1>2. CASE WriteStatus(o)
  <2>1. /\ DecisionsOfAlert(task[o].alert) # {} /\ task[o].alert \in AlertIds
        /\ task[o].final \in {"PENDING", "PROCESSED"}
    BY <1>2 DEF KInv, IInv, TypeOK, OCTypeOK, WriteStatus, OperatorInv, Tasks
  <2> QED
    BY <1>2, <2>1 DEF WriteStatus, Transaction, Leaves
<1>3. CASE SetActionTypeOnManualDecision(o)
  <2>0. PICK t : t = task[o]
    OBVIOUS
  <2> DEFINE row == [decisions[t.decision] EXCEPT !.memo = t.memo]
  <2>1. /\ StoreTypeOK /\ t \in Tasks /\ t.decision \in DecisionsOfAlert(t.alert)
        /\ t.memo \in Automated \cup {NoValue} /\ PerformedHasAction
    BY <1>3, <2>0
       DEF KInv, IInv, TypeOK, OCTypeOK, SetActionTypeOnManualDecision, OperatorInv, Tasks
  <2>2. SetActionType(t.decision, t.memo) /\ UNCHANGED <<alertStatus, actions, flows>>
    BY <1>3, <2>0 DEF SetActionTypeOnManualDecision
  <2>3. /\ t.decision \in DOMAIN decisions /\ decisions[t.decision] \in Decisions
        /\ Follows(decisions[t.decision])
    BY <2>1, DecisionRows, RowsFollow DEF DecisionsOfAlert, KInv
  <2>4. /\ row \in Decisions /\ row.issue = decisions[t.decision].issue
        /\ row.status = decisions[t.decision].status
        /\ SameEnds(row, decisions[t.decision]) /\ Follows(row)
        /\ decisions' = [decisions EXCEPT ![t.decision] = row]
    BY <2>1, <2>2, <2>3 DEF Decisions, SetActionType, SameEnds, Follows
  <2>5. row.status = "PERFORMED" => ActionsOf(t.decision) # {}
    BY <2>1, <2>3, <2>4 DEF PerformedHasAction
  <2> QED
    <3> HIDE DEF row
    <3> QED
      BY <2>2, <2>3, <2>4, <2>5, OneRowRevised DEF Transaction
<1> QED
  BY <1>1, <1>2, <1>3, RequestCommitsTransaction DEF OCStep

(* The transactions of the pipeline are these seven and no others.         *)
LEMMA StepIsTransaction ==
    ASSUME KInv, [Next]_vars
    PROVE  Transaction
<1>1. UNCHANGED <<alertStatus, decisions, actions, flows>> => Transaction
  BY DEF Transaction, Reads
<1>2. CASE UNCHANGED vars
  BY <1>1, <1>2 DEF vars
<1>3. CASE DetectorAlerts
  BY <1>3 DEF DetectorAlerts, NewAlert, Transaction, Arrives
<1>4. CASE OperatorSubmits
  BY <1>1, <1>4, ZenonT(30)
     DEF OperatorSubmits, Submit, SetCauseOnAlert, RestSetCause, SetAnomalyStateOnAlert,
         RestSetState, RestConfirm, RestConfirmAll, RestSetClassification, ChooseAction,
         SetSeverity, Request, AddDecisionRule, RemoveDecisionRule, store
<1>5. CASE Crash
  BY <1>1, <1>5 DEF Crash, RunDies, WorkerDies, RequestDies, store
<1> QED
  BY <1>2, <1>3, <1>4, <1>5, EngineTransacts, WorkerTransacts, OperatorTransacts
     DEF Next, OperatorRequestRuns, DecisionEngineRuns, ActionEngineRuns, ActionEngineStarts

-----------------------------------------------------------------------------
(* What the locals know *)

(* What a run knows outlasts the steps of others ...                       *)
LEMMA EngineStillKnows ==
    ASSUME KInv, Grows, NEW e \in DecisionRuns, run'[e] = run[e]
    PROVE  EngineKnows(e)'
<1>1. run[e] \in Runs /\ EngineKnows(e) /\ EngineInv(e)
  BY DEF KInv, IInv, TypeOK, DETypeOK
<1>2. run[e].todo \in SUBSET AlertIds
  BY <1>1 DEF Runs
<1> QED
  BY <1>1, <1>2 DEF EngineKnows, EngineInv, Grows

(* ... and a run at rest knows nothing.                                    *)
LEMMA IdleKnows ==
    ASSUME NEW e, run'[e] = Idle
    PROVE  EngineKnows(e)'
BY DEF EngineKnows, Idle

(* A run lists alerts that arrived, and plans for one of them the type of  *)
(* the rule it chose.                                                      *)
LEMMA EngineLearns ==
    ASSUME KInv, Grows, NEW e \in DecisionRuns, DEStep(e)
    PROVE  EngineKnows(e)'
<1>0. PICK x : x = run[e]
  OBVIOUS
<1>1. /\ StoreTypeOK /\ x \in Runs /\ EngineInv(e) /\ EngineKnows(e)
      /\ run \in [DecisionRuns -> Runs]
      /\ x.todo \in SUBSET AlertIds /\ x.loaded \in SUBSET RuleIds
      /\ x.phase \in {"OPEN", "PENDING"}
  BY <1>0 DEF KInv, IInv, TypeOK, DETypeOK, Runs
<1>2. \A y : Becomes(e, y) => run'[e] = y
  BY <1>1 DEF Becomes
<1>3. \A a \in x.todo : Known(a)'
  BY <1>0, <1>1 DEF EngineKnows, Grows
<1>4. CASE LoadDecisionRules(e)
  <2>1. run'[e] = [Idle EXCEPT !.pc = "query", !.loaded = decisionRules]
    BY <1>2, <1>4 DEF LoadDecisionRules
  <2> QED
    BY <2>1 DEF EngineKnows, Idle
<1>5. CASE QueryAlerts(e)
  <2> DEFINE list == ActiveAlertsByStatus(x.phase)
             y == [x EXCEPT !.severity = alertSeverity]
  <2>1. run'[e] = Rest(y, list)
    BY <1>0, <1>2, <1>5 DEF QueryAlerts
  <2>2. y \in Runs
    BY <1>1 DEF Runs, StoreTypeOK
  <2>3. list \in SUBSET AlertIds /\ \A a \in list : Known(a)'
    BY <1>1 DEF ActiveAlertsByStatus, Grows, Known
  <2>4. Rest(y, list).pc = "loop" /\ Rest(y, list).todo = list
    <3> HIDE DEF y, list
    <3> QED
      BY <2>2, <2>3, RestRun
  <2> QED
    <3> HIDE DEF y, list
    <3> QED
      BY <2>1, <2>3, <2>4 DEF EngineKnows
<1>6. CASE EndOfList(e)
  <2>1. x.todo = {}
    BY <1>0, <1>6 DEF EndOfList
  <2>2. CASE x.phase = "OPEN"
    <3>1. run'[e] = [x EXCEPT !.pc = "query", !.phase = "PENDING"]
      BY <1>0, <1>2, <1>6, <2>2 DEF EndOfList
    <3>2. run'[e].pc = "query" /\ run'[e].todo = {}
      BY <1>1, <2>1, <3>1 DEF Runs
    <3> QED
      BY <3>2 DEF EngineKnows
  <2>3. CASE x.phase # "OPEN"
    BY <1>0, <1>2, <1>6, <2>3, IdleKnows DEF EndOfList
  <2> QED
    BY <2>2, <2>3
<1>7. CASE ProcessAlert(e)
  <2>0. PICK a \in x.todo :
           LET plan == PlanOf(x.loaded, a, x.phase, x.severity[a])
           IN  CASE plan.write = "throw" -> Becomes(e, Idle)
                 [] plan.write = "none"  -> Becomes(e, Rest(x, x.todo \ {a}))
                 [] OTHER -> Becomes(e, [Rest(x, x.todo \ {a}) EXCEPT
                                           !.pc = "write", !.alert = a, !.plan = plan])
    BY <1>0, <1>7 DEF ProcessAlert
  <2> DEFINE plan == PlanOf(x.loaded, a, x.phase, x.severity[a])
             rest == Rest(x, x.todo \ {a})
             y == [rest EXCEPT !.pc = "write", !.alert = a, !.plan = plan]
  <2>1. /\ plan.write = "throw" => Becomes(e, Idle)
        /\ plan.write = "none" => Becomes(e, rest)
        /\ plan.write \notin {"throw", "none"} => Becomes(e, y)
        /\ x.todo # {}
    BY <2>0
  <2>2. a \in x.todo /\ a \in AlertIds
    BY <1>1, <2>0
  <2>3. rest \in Runs /\ rest.pc = "loop" /\ rest.todo = x.todo \ {a} /\ rest.phase = x.phase
    BY <1>1, RestRun
  <2>4. /\ plan.write \notin {"throw", "none"} => Agrees(plan)
        /\ plan.write = "add" => x.phase = "OPEN"
    BY <1>1, <2>2, PlanIsSound
  <2>5. CASE plan.write = "throw"
    BY <1>2, <2>1, <2>5, IdleKnows
  <2>6. CASE plan.write = "none"
    <3>1. run'[e] = rest
      BY <1>2, <2>1, <2>6
    <3> QED
      <4> HIDE DEF rest
      <4> QED
        BY <1>3, <2>3, <3>1 DEF EngineKnows
  <2>7. CASE plan.write \notin {"throw", "none"}
    <3>1. run'[e] = y
      BY <1>2, <2>1, <2>7
    <3>2. /\ y.pc = "write" /\ y.todo = rest.todo /\ y.alert = a /\ y.plan = plan
          /\ y.phase = x.phase
      <4> HIDE DEF rest, plan
      <4> QED
        BY <2>3 DEF Runs
    <3> QED
      <4> HIDE DEF rest, plan, y
      <4> QED
        BY <1>3, <2>2, <2>3, <2>4, <2>7, <3>1, <3>2 DEF EngineKnows
  <2> QED
    BY <2>5, <2>6, <2>7
<1>8. CASE WriteDecision(e)
  <2>1. CASE Becomes(e, Idle)
    BY <1>2, <2>1, IdleKnows
  <2>2. CASE Becomes(e, [x EXCEPT !.pc = "status"])
    <3>1. /\ run'[e].todo = x.todo /\ run'[e].pc = "status" /\ run'[e].alert = x.alert
          /\ run'[e].plan = x.plan
      BY <1>1, <1>2, <2>2 DEF Runs
    <3>2. Known(x.alert)' /\ Agrees(x.plan)
      BY <1>0, <1>1, <1>8 DEF WriteDecision, EngineKnows, EngineInv, Grows
    <3> QED
      BY <1>3, <3>1, <3>2 DEF EngineKnows
  <2> QED
    BY <1>0, <1>8, <2>1, <2>2 DEF WriteDecision
<1>9. CASE WriteAlertStatus(e)
  <2>1. run'[e] = Rest(x, x.todo)
    BY <1>0, <1>2, <1>9 DEF WriteAlertStatus
  <2>2. Rest(x, x.todo).pc = "loop" /\ Rest(x, x.todo).todo = x.todo
    BY <1>1, RestRun
  <2> QED
    BY <1>3, <2>1, <2>2 DEF EngineKnows
<1> QED
  BY <1>4, <1>5, <1>6, <1>7, <1>8, <1>9 DEF DEStep

(* What a pass knows outlasts the steps of others ...                      *)
LEMMA WorkerStillKnows ==
    ASSUME KInv, Grows, NEW w \in ActionWorkers, worker'[w] = worker[w]
    PROVE  WorkerKnows(w)'
<1>1. WorkerInv(w) /\ WorkerKnows(w)
  BY DEF KInv, IInv
<1>2. ASSUME NEW d \in DOMAIN decisions, NEW r, SameEnds(r, decisions[d])
      PROVE  SameEnds(r, decisions'[d])
  BY <1>2 DEF Grows, SameEnds
<1>3. \A p \in worker[w].todo : SameEnds(p, decisions'[p.decision])
  BY <1>1, <1>2 DEF WorkerInv, WorkerKnows
<1>4. worker[w].pc = "pair" => SameEnds(worker[w].order, decisions'[worker[w].order.decision])
  BY <1>1, <1>2 DEF WorkerInv, WorkerKnows
<1> QED
  BY <1>3, <1>4 DEF WorkerKnows

(* ... and an engine that sleeps, or is no more, knows nothing.            *)
LEMMA AsleepKnows ==
    ASSUME NEW w, worker'[w] \in {Asleep, Dead}
    PROVE  WorkerKnows(w)'
BY DEF WorkerKnows, Asleep, Dead

(* The orders of a pass are between the addresses of their decisions, when *)
(* it reads them and while it carries one out.                             *)
LEMMA WorkerLearns ==
    ASSUME KInv, Grows, NEW w \in ActionWorkers, AEStep(w) \/ WorkerStarts(w)
    PROVE  WorkerKnows(w)'
<1>0. PICK x : x = worker[w]
  OBVIOUS
<1>1. /\ StoreTypeOK /\ x \in Workers /\ WorkerInv(w) /\ WorkerKnows(w)
      /\ worker \in [ActionWorkers -> Workers]
      /\ x.todo \in SUBSET Orders /\ x.order \in Orders \cup {NoOrder}
  BY <1>0 DEF KInv, IInv, TypeOK, AETypeOK, Workers
<1>2. \A y : Continue(w, y) => worker'[w] = y
  BY <1>1 DEF Continue
<1>3. ASSUME NEW d \in DOMAIN decisions, NEW r, SameEnds(r, decisions[d])
      PROVE  SameEnds(r, decisions'[d])
  BY <1>3 DEF Grows, SameEnds
<1>4. \A p \in x.todo : SameEnds(p, decisions'[p.decision])
  BY <1>0, <1>1, <1>3 DEF WorkerInv, WorkerKnows
<1>5. CASE FetchOpenDecisions(w)
  <2> DEFINE y == [Asleep EXCEPT !.pc = "loop", !.todo = OpenOrders]
  <2>1. worker'[w] = y
    BY <1>2, <1>5 DEF FetchOpenDecisions
  <2>2. y.pc = "loop" /\ y.todo = OpenOrders
    BY DEF Asleep
  <2>3. \A p \in OpenOrders : SameEnds(p, decisions[p.decision])
    BY DEF OpenOrders, SameEnds
  <2>4. \A p \in OpenOrders : SameEnds(p, decisions'[p.decision])
    BY <1>1, <1>3, <2>3, OrdersOfDecisions
  <2> QED
    <3> HIDE DEF y
    <3> QED
      BY <2>1, <2>2, <2>4 DEF WorkerKnows
<1>6. ASSUME NEW o, NEW kinds, NEW pc, Processing(w, o, kinds), TakeOrder(w, o, pc)
      PROVE  WorkerKnows(w)'
  <2> DEFINE y == [pc |-> pc, todo |-> x.todo \ {o}, order |-> o]
  <2>1. o \in x.todo
    BY <1>0, <1>1, <1>6 DEF Processing
  <2>2. worker'[w] = y
    BY <1>0, <1>2, <1>6 DEF TakeOrder
  <2>3. y.todo \subseteq x.todo /\ y.order = o
    OBVIOUS
  <2> HIDE DEF y
  <2> QED
    BY <1>4, <2>1, <2>2, <2>3 DEF WorkerKnows
<1>7. CASE NotifyOrIgnore(w) \/ BlockSource(w) \/ BlockDestination(w) \/ BlockPairAtSource(w)
  BY <1>6, <1>7 DEF NotifyOrIgnore, BlockSource, BlockDestination, BlockPairAtSource
<1>8. ASSUME NEW pc \in {"record", "status", "loop"}, NEW o \in Orders \cup {NoOrder},
             worker'[w] = [x EXCEPT !.pc = pc, !.order = o]
      PROVE  WorkerKnows(w)'
  <2>1. worker'[w].todo = x.todo /\ worker'[w].pc # "pair"
    BY <1>1, <1>8 DEF Workers
  <2> QED
    BY <1>4, <2>1 DEF WorkerKnows
<1>9. CASE BlockPairAtDestination(w) \/ RecordAction(w) \/ MarkPerformed(w)
  <2>1. x = [x EXCEPT !.order = x.order]
    BY <1>1 DEF Workers
  <2>2. \A pc : [x EXCEPT !.pc = pc] = [x EXCEPT !.pc = pc, !.order = x.order]
    BY <1>1 DEF Workers
  <2>3. CASE BlockPairAtDestination(w)
    <3>1. worker'[w] = [x EXCEPT !.pc = "record"]
      BY <1>0, <1>2, <2>3 DEF BlockPairAtDestination
    <3> QED
      BY <1>1, <1>8, <2>2, <3>1
  <2>4. CASE RecordAction(w)
    <3>1. worker'[w] = [x EXCEPT !.pc = "status"]
      BY <1>0, <1>2, <2>4 DEF RecordAction
    <3> QED
      BY <1>1, <1>8, <2>2, <3>1
  <2>5. CASE MarkPerformed(w)
    <3>1. worker'[w] = [x EXCEPT !.pc = "loop", !.order = NoOrder]
      BY <1>0, <1>2, <2>5 DEF MarkPerformed
    <3> QED
      BY <1>8, <3>1
  <2> QED
    BY <1>9, <2>3, <2>4, <2>5
<1>10. CASE EndOfDecisions(w) \/ WorkerStarts(w)
  BY <1>2, <1>10, AsleepKnows DEF EndOfDecisions, WorkerStarts
<1> QED
  BY <1>5, <1>7, <1>9, <1>10 DEF AEStep

(* What a request knows outlasts the steps of others ...                   *)
LEMMA OperatorStillKnows ==
    ASSUME KInv, Grows, NEW o \in Operators, task'[o] = task[o]
    PROVE  OperatorKnows(o)'
<1>0. PICK t : t = task[o]
  OBVIOUS
<1>1. t \in Tasks /\ OperatorInv(o) /\ OperatorKnows(o) /\ t.alert \in AlertIds
  BY <1>0 DEF KInv, IInv, TypeOK, OCTypeOK, Tasks
<1>2. t.pc \in {"read", "commit"} => Known(t.alert)'
  BY <1>0, <1>1 DEF OperatorKnows, Grows
<1>3. t.pc = "commit" /\ t.decision # 0 => SameEnds(t.row, decisions'[t.decision]) /\ Follows(t.row)
  BY <1>0, <1>1 DEF OperatorInv, OperatorKnows, DecisionsOfAlert, Grows, SameEnds
<1> QED
  BY <1>0, <1>2, <1>3 DEF OperatorKnows, Follows

(* ... and a thread without a request knows nothing.                       *)
LEMMA NoTaskKnows ==
    ASSUME NEW o, task'[o] = NoTask
    PROVE  OperatorKnows(o)'
BY EmptyTask DEF OperatorKnows

(* After a DAO call, what is left of the request is about an alert that    *)
(* arrived.                                                                *)
LEMMA AfterWriteKnows ==
    ASSUME Grows, NEW o \in Operators, NEW t \in Tasks, task'[o] = AfterWrite(t),
           t.writes # <<>> => Known(t.alert)
    PROVE  OperatorKnows(o)'
<1>1. PICK u : u = AfterWrite(t)
  OBVIOUS
<1>2. /\ u.pc \in {"idle", "read", "status"}
      /\ u.pc = "read" => t.writes # <<>> /\ u.alert = t.alert
  BY <1>1, AfterWriteIsTask
<1>3. t.alert \in AlertIds
  BY DEF Tasks
<1>4. u.pc = "read" => Known(u.alert)'
  BY <1>2, <1>3 DEF Grows
<1> QED
  BY <1>1, <1>2, <1>4 DEF OperatorKnows

(* A row that is read follows its rule and has the decision's addresses.   *)
LEMMA OperatorLearns ==
    ASSUME KInv, Grows, NEW o \in Operators, OCStep(o)
    PROVE  OperatorKnows(o)'
<1>0. PICK t : t = task[o]
  OBVIOUS
<1>1. /\ StoreTypeOK /\ t \in Tasks /\ OperatorInv(o) /\ OperatorKnows(o)
      /\ task \in [Operators -> Tasks] /\ t.alert \in AlertIds
  BY <1>0 DEF KInv, IInv, TypeOK, OCTypeOK, Tasks
<1>2. \A u : Proceed(o, u) => task'[o] = u
  BY <1>1 DEF Proceed
<1>3. CASE ReadDecision(o)
  <2> DEFINE d == DecisionByAlertId(t.alert)
             row == IF d = 0 THEN NoRow ELSE decisions[d]
             u == [t EXCEPT !.pc = "commit", !.decision = d, !.row = row]
  <2>1. task'[o] = u /\ t.pc = "read" /\ decisions' = decisions
    BY <1>0, <1>2, <1>3 DEF ReadDecision, store
  <2>2. u.pc = "commit" /\ u.decision = d /\ u.row = row /\ u.alert = t.alert
    <3> HIDE DEF d, row
    <3> QED
      BY <1>1 DEF Tasks
  <2>3. d # 0 => d \in DOMAIN decisions /\ Follows(row) /\ SameEnds(row, decisions[d])
    <3>1. d \in DecisionsOfAlert(t.alert) \cup {0}
      BY <1>1, DecisionByAlert
    <3>2. \A c \in DOMAIN decisions : Follows(decisions[c])
      BY RowsFollow DEF KInv
    <3> HIDE DEF d
    <3> QED
      BY <3>1, <3>2 DEF DecisionsOfAlert, SameEnds
  <2>4. Known(t.alert)'
    BY <1>0, <1>1, <2>1 DEF OperatorKnows, Grows
  <2> QED
    <3> HIDE DEF u, d, row
    <3> QED
      BY <2>1, <2>2, <2>3, <2>4 DEF OperatorKnows
<1>4. CASE CommitDecision(o)
  <2>1. t.pc = "commit" /\ Known(t.alert)
    BY <1>0, <1>1, <1>4 DEF CommitDecision, OperatorKnows
  <2>2. task'[o] = AfterWrite(t) \/ task'[o] = NoTask
    BY <1>0, <1>2, <1>4 DEF CommitDecision
  <2> QED
    BY <1>1, <2>1, <2>2, AfterWriteKnows, NoTaskKnows
<1>5. CASE SetActionTypeOnManualDecision(o)
  <2>1. t.writes = <<>> /\ task'[o] = AfterWrite(t)
    BY <1>0, <1>1, <1>2, <1>5 DEF SetActionTypeOnManualDecision, OperatorInv
  <2> QED
    BY <1>1, <2>1, AfterWriteKnows
<1>6. CASE WriteStatus(o)
  BY <1>2, <1>6, NoTaskKnows DEF WriteStatus
<1> QED
  BY <1>3, <1>4, <1>5, <1>6 DEF OCStep

(* A request is about an alert the console shows: one that arrived.        *)
LEMMA RequestKnows ==
    ASSUME KInv, Grows, NEW o \in Operators, Submit(o)
    PROVE  \A p \in Operators : OperatorKnows(p)'
<1>1. task \in [Operators -> Tasks] /\ \A p \in Operators : OperatorKnows(p)
  BY DEF KInv, IInv, TypeOK, OCTypeOK
<1>2. ASSUME NEW u, Proceed(o, u), (task'[o] = u) => OperatorKnows(o)'
      PROVE  \A p \in Operators : OperatorKnows(p)'
  <2>1. \A p \in Operators : task'[p] = IF p = o THEN u ELSE task[p]
    BY <1>1, <1>2 DEF Proceed
  <2> QED
    BY <1>2, <2>1, OperatorStillKnows
<1>3. ASSUME NEW op, NEW a \in AlertIds, NEW writes, NEW final, Request(o, op, a, writes, final)
      PROVE  \A p \in Operators : OperatorKnows(p)'
  <2> DEFINE u == [NoTask EXCEPT !.pc = "read", !.alert = a, !.writes = writes,
                                 !.final = final]
  <2>1. Proceed(o, u) /\ Known(a)'
    BY <1>3 DEF Request, Grows
  <2>2. u.pc = "read" /\ u.alert = a
    BY EmptyTask DEF Tasks
  <2>3. (task'[o] = u) => OperatorKnows(o)'
    <3> HIDE DEF u
    <3> QED
      BY <2>1, <2>2 DEF OperatorKnows
  <2> QED
    <3> HIDE DEF u
    <3> QED
      BY <1>2, <2>1, <2>3
<1>4. ASSUME NEW d \in DOMAIN decisions, NEW type \in Automated, ChooseAction(o, d, type)
      PROVE  \A p \in Operators : OperatorKnows(p)'
  <2> DEFINE a == decisions[d].issue
             u == [NoTask EXCEPT !.pc = "memo", !.alert = a, !.decision = d, !.memo = type,
                                 !.final = IF alertStatus[a] = "PENDING" THEN "PROCESSED"
                                           ELSE NoValue]
  <2>1. Proceed(o, u)
    BY <1>4 DEF ChooseAction
  <2>2. u.pc = "memo"
    BY EmptyTask DEF Tasks
  <2> HIDE DEF u
  <2>3. (task'[o] = u) => OperatorKnows(o)'
    BY <2>2 DEF OperatorKnows
  <2> QED
    BY <1>2, <2>1, <2>3
<1>5. ASSUME NEW a \in AlertIds, NEW severity, SetSeverity(o, a, severity)
      PROVE  \A p \in Operators : OperatorKnows(p)'
  BY <1>5, OperatorStillKnows DEF SetSeverity
<1> QED
  BY <1>3, <1>4, <1>5
     DEF Submit, SetCauseOnAlert, RestSetCause, SetAnomalyStateOnAlert, RestSetState,
         RestConfirm, RestConfirmAll, RestSetClassification

(* After a step, every thread knows what it must: the one that took it has *)
(* learned, the others still know, and those that died know nothing.       *)
LEMMA StepKeepsKnowing ==
    ASSUME KInv, Grows, [Next]_vars
    PROVE  /\ \A e \in DecisionRuns : EngineKnows(e)'
           /\ \A w \in ActionWorkers : WorkerKnows(w)'
           /\ \A o \in Operators : OperatorKnows(o)'
<1>1. /\ run \in [DecisionRuns -> Runs] /\ worker \in [ActionWorkers -> Workers]
      /\ task \in [Operators -> Tasks]
  BY DEF KInv, IInv, TypeOK, DETypeOK, AETypeOK, OCTypeOK
<1>2. run' = run => \A e \in DecisionRuns : EngineKnows(e)'
  BY EngineStillKnows
<1>3. worker' = worker => \A w \in ActionWorkers : WorkerKnows(w)'
  BY WorkerStillKnows
<1>4. task' = task => \A o \in Operators : OperatorKnows(o)'
  BY OperatorStillKnows
<1>5. CASE UNCHANGED vars
  BY <1>2, <1>3, <1>4, <1>5 DEF vars
<1>6. CASE DetectorAlerts
  BY <1>2, <1>3, <1>4, <1>6 DEF DetectorAlerts, NewAlert
<1>7. CASE OperatorSubmits
  <2>1. run' = run /\ worker' = worker
    BY <1>7 DEF OperatorSubmits
  <2>2. \A o \in Operators : OperatorKnows(o)'
    BY <1>4, <1>7, RequestKnows DEF OperatorSubmits, AddDecisionRule, RemoveDecisionRule
  <2> QED
    BY <1>2, <1>3, <2>1, <2>2
<1>8. ASSUME NEW e \in DecisionRuns, DecisionEngineRuns(e)
      PROVE  \A f \in DecisionRuns : EngineKnows(f)'
  <2>1. \A f \in DecisionRuns \ {e} : run'[f] = run[f]
    BY <1>1, <1>8
       DEF DecisionEngineRuns, DEStep, LoadDecisionRules, QueryAlerts, EndOfList, ProcessAlert,
           WriteDecision, WriteAlertStatus, Becomes
  <2> QED
    BY <1>8, <2>1, EngineLearns, EngineStillKnows DEF DecisionEngineRuns
<1>9. ASSUME NEW w \in ActionWorkers, ActionEngineRuns(w) \/ ActionEngineStarts(w)
      PROVE  \A v \in ActionWorkers : WorkerKnows(v)'
  <2>1. \A v \in ActionWorkers \ {w} : worker'[v] = worker[v]
    BY <1>1, <1>9
       DEF ActionEngineRuns, ActionEngineStarts, WorkerStarts, AEStep, FetchOpenDecisions, NotifyOrIgnore, BlockSource,
           BlockDestination, BlockPairAtSource, BlockPairAtDestination, RecordAction,
           MarkPerformed, EndOfDecisions, TakeOrder, Continue
  <2> QED
    BY <1>9, <2>1, WorkerLearns, WorkerStillKnows DEF ActionEngineRuns, ActionEngineStarts
<1>10. ASSUME NEW o \in Operators, OperatorRequestRuns(o)
       PROVE  \A p \in Operators : OperatorKnows(p)'
  <2>1. \A p \in Operators \ {o} : task'[p] = task[p]
    BY <1>1, <1>10
       DEF OperatorRequestRuns, OCStep, ReadDecision, CommitDecision, WriteStatus,
           SetActionTypeOnManualDecision, Proceed
  <2> QED
    BY <1>10, <2>1, OperatorLearns, OperatorStillKnows DEF OperatorRequestRuns
<1>11. CASE Crash
  <2>1. \A e \in DecisionRuns : run'[e] \in {run[e], Idle}
    BY <1>1, <1>11 DEF Crash, RunDies, Becomes
  <2>2. \A w \in ActionWorkers : worker'[w] \in {worker[w], Asleep, Dead}
    BY <1>1, <1>11 DEF Crash, WorkerDies, Continue
  <2>3. \A o \in Operators : task'[o] \in {task[o], NoTask}
    BY <1>1, <1>11 DEF Crash, RequestDies, Proceed
  <2> QED
    BY <2>1, <2>2, <2>3, EngineStillKnows, IdleKnows, WorkerStillKnows, AsleepKnows,
       OperatorStillKnows, NoTaskKnows
<1>12. CASE \E e \in DecisionRuns : DecisionEngineRuns(e)
  BY <1>3, <1>4, <1>8, <1>12 DEF DecisionEngineRuns
<1>13. CASE \E w \in ActionWorkers : ActionEngineRuns(w) \/ ActionEngineStarts(w)
  BY <1>2, <1>4, <1>9, <1>13 DEF ActionEngineRuns, ActionEngineStarts
<1>14. CASE \E o \in Operators : OperatorRequestRuns(o)
  BY <1>2, <1>3, <1>10, <1>14 DEF OperatorRequestRuns
<1> QED
  BY <1>5, <1>6, <1>7, <1>11, <1>12, <1>13, <1>14 DEF Next

-----------------------------------------------------------------------------
(* The theorems *)

(* In an empty store every decision, action and flow entry is in order.    *)
LEMMA KInvHoldsInitially == Init => KInv
<1> SUFFICES ASSUME Init PROVE KInv
  OBVIOUS
<1>1. /\ decisions = <<>> /\ actions = <<>> /\ flows = [s \in Switches |-> NoFlow]
      /\ run = [e \in DecisionRuns |-> Idle]
      /\ worker = [w \in ActionWorkers |-> Asleep]
      /\ task = [o \in Operators |-> NoTask]
  BY DEF Init, StoreInit, DEInit, AEInit, OCInit
<1>2. IInv
  BY IInvHoldsInitially
<1>3. KeysRefer /\ DecisionFollowsItsRule /\ FlowsOrdered
  BY <1>1 DEF KeysRefer, DecisionFollowsItsRule, FlowsOrdered
<1>4. \A e \in DecisionRuns : EngineKnows(e)
  BY <1>1 DEF EngineKnows, Idle
<1>5. \A w \in ActionWorkers : WorkerKnows(w)
  BY <1>1 DEF WorkerKnows, Asleep
<1>6. \A o \in Operators : OperatorKnows(o)
  BY <1>1, EmptyTask DEF OperatorKnows
<1> QED
  BY <1>2, <1>3, <1>4, <1>5, <1>6 DEF KInv

(* Every step of the pipeline keeps what is known.                         *)
LEMMA StepKeepsKInv ==
    ASSUME KInv, [Next]_vars
    PROVE  KInv'
<1>1. StoreTypeOK /\ IInv /\ KeysRefer /\ DecisionFollowsItsRule /\ FlowsOrdered
  BY DEF KInv, IInv, TypeOK
<1>2. Transaction
  BY StepIsTransaction
<1>3. IInv'
  BY <1>1, StepKeepsIInv
<1>4. KeysRefer' /\ DecisionFollowsItsRule' /\ FlowsOrdered'
  BY <1>1, <1>2, TransactionRefers, TransactionFollows, TransactionOrders
<1>5. Grows
  BY <1>1, <1>2, TransactionGrows
<1> QED
  BY <1>3, <1>4, <1>5, StepKeepsKnowing DEF KInv

(* The inductive invariant: IInv, and what the locals of each thread know  *)
(* of types, rules and addresses.                                          *)
THEOREM Knowledge == Spec => []KInv
<1>1. Init => KInv
  BY KInvHoldsInitially
<1>2. KInv /\ [Next]_vars => KInv'
  BY StepKeepsKInv
<1> QED
  BY <1>1, <1>2, PTL DEF Spec

(* The type of a decision is always that of its rule, although the engine, *)
(* operators and rows written back all change the two columns.             *)
THEOREM DecisionsFollow == Spec => []DecisionFollowsItsRule
<1>1. KInv => DecisionFollowsItsRule
  BY DEF KInv
<1> QED
  BY <1>1, Knowledge, PTL

(* A switch never drops traffic no decision asks it to drop, whatever is   *)
(* interleaved, refused by the controller or left half done by a crash.    *)
THEOREM FlowsAreOrdered == Spec => []FlowsOrdered
<1>1. KInv => FlowsOrdered
  BY DEF KInv
<1> QED
  BY <1>1, Knowledge, PTL

(* The pipeline implements the lifecycle of a finding: initial states map  *)
(* to initial states, each step to a step or to none.                      *)
THEOREM LifecycleImplemented == Spec => ImplementsLifecycle
<1>1. Init => Lifecycle!Init
  <2> SUFFICES ASSUME Init PROVE Lifecycle!Init
    OBVIOUS
  <2>1. /\ alertStatus = [a \in AlertIds |-> "ABSENT"] /\ decisions = <<>>
    BY DEF Init, StoreInit
  <2> QED
    BY <2>1 DEF Lifecycle!Init, DecisionsOfAlert, DecisionsByStatus
<1>2. KInv /\ [Next]_vars => [Lifecycle!Next]_(Lifecycle!vars)
  BY StepIsTransaction, TransactionRefines DEF KInv, IInv, TypeOK
<1> QED
  BY <1>1, <1>2, Knowledge, PTL DEF Spec, ImplementsLifecycle, Lifecycle!Spec

-----------------------------------------------------------------------------
(***************************************************************************)
(* What the pipeline does once.  These theorems have hypotheses, which     *)
(* each names: no operation in use writes a whole row of table decision    *)
(* back, one run of the decision engine or one pass of the action engine   *)
(* at a time.  Without them the runs of the model checker find executions  *)
(* that do things twice.                                                   *)
(***************************************************************************)

(* The operations that read a decision and later write its row back.       *)
RowWriters ==
    {"setCauseOnAlert", "setAnomalyStateOnAlert", "REST state", "REST cause",
     "REST confirm", "REST confirm all", "REST classification"}

NoRowWriters == OperatorOps \cap RowWriters = {}

OneDecisionRun == \A e, f \in DecisionRuns : e = f

OneActionWorker == \A v, w \in ActionWorkers : v = w

-----------------------------------------------------------------------------
(* Whose step it is *)

EngineStep(e) ==
    /\ DEStep(e)
    /\ \A f \in DecisionRuns \ {e} : run'[f] = run[f]
    /\ UNCHANGED <<worker, task, crashes>>

WorkerStep(w) ==
    /\ AEStep(w) \/ WorkerStarts(w)
    /\ \A v \in ActionWorkers \ {w} : worker'[v] = worker[v]
    /\ UNCHANGED <<run, task, crashes>>

OperatorStep(o) ==
    /\ OCStep(o)
    /\ \A p \in Operators \ {o} : task'[p] = task[p]
    /\ UNCHANGED <<run, worker, crashes>>

(* An operator has been shown a decision and chosen an action type.        *)
ChoiceStep(o) ==
    /\ task[o].pc = "idle"
    /\ \E d \in DOMAIN decisions, type \in Automated : ChooseAction(o, d, type)
    /\ \A p \in Operators \ {o} : task'[p] = task[p]
    /\ UNCHANGED <<run, worker, crashes>>

(* An alert arrives, or nothing here happens.                              *)
OtherStep ==
    /\ \A a \in AlertIds : \/ alertStatus'[a] = alertStatus[a]
                           \/ alertStatus[a] = "ABSENT" /\ alertStatus'[a] = "OPEN"
    /\ UNCHANGED <<decisions, actions, run, worker, task, crashes>>

DeathStep ==
    /\ crashes' = crashes + 1
    /\ \A e \in DecisionRuns : run'[e] \in {run[e], Idle}
    /\ \A w \in ActionWorkers : worker'[w] \in {worker[w], Asleep, Dead}
    /\ \A o \in Operators : task'[o] \in {task[o], NoTask}
    /\ UNCHANGED <<alertStatus, decisions, actions>>

(* Every step is one of these, when no operation writes rows back.         *)
LEMMA WhoseStep ==
    ASSUME NoRowWriters, KInv, [Next]_vars
    PROVE  \/ \E e \in DecisionRuns : EngineStep(e)
           \/ \E w \in ActionWorkers : WorkerStep(w)
           \/ \E o \in Operators : OperatorStep(o)
           \/ \E o \in Operators : ChoiceStep(o)
           \/ OtherStep
           \/ DeathStep
<1>1. /\ run \in [DecisionRuns -> Runs] /\ worker \in [ActionWorkers -> Workers]
      /\ task \in [Operators -> Tasks] /\ alertStatus \in [AlertIds -> AlertStatus]
  BY DEF KInv, IInv, TypeOK, StoreTypeOK, DETypeOK, AETypeOK, OCTypeOK
<1>2. CASE UNCHANGED vars
  BY <1>2 DEF vars, OtherStep
<1>3. CASE DetectorAlerts
  BY <1>1, <1>3 DEF DetectorAlerts, NewAlert, AddAlert, OtherStep
<1>4. CASE OperatorSubmits
  <2>1. CASE \E k \in RuleIds : AddDecisionRule(k) \/ RemoveDecisionRule(k)
    BY <1>4, <2>1 DEF OperatorSubmits, AddDecisionRule, RemoveDecisionRule, OtherStep
  <2>2. ASSUME NEW o \in Operators, Submit(o)
        PROVE  ChoiceStep(o) \/ OtherStep
    <3>1. \A op \in RowWriters : op \notin OperatorOps
      BY DEF NoRowWriters
    <3>2. ASSUME NEW op \in RowWriters, NEW a, NEW writes, NEW final
          PROVE  ~Request(o, op, a, writes, final)
      BY <3>1 DEF Request
    <3>3. \/ \E d \in DOMAIN decisions, type \in Automated : ChooseAction(o, d, type)
          \/ \E a \in AlertIds, severity \in SeverityType : SetSeverity(o, a, severity)
      BY <2>2, <3>2
         DEF Submit, SetCauseOnAlert, RestSetCause, SetAnomalyStateOnAlert, RestSetState,
             RestConfirm, RestConfirmAll, RestSetClassification, RowWriters
    <3>4. UNCHANGED <<run, worker, crashes>>
      BY <1>4 DEF OperatorSubmits
    <3>5. CASE \E a \in AlertIds, severity \in SeverityType : SetSeverity(o, a, severity)
      BY <3>4, <3>5 DEF SetSeverity, OtherStep
    <3>6. CASE \E d \in DOMAIN decisions, type \in Automated : ChooseAction(o, d, type)
      <4>1. /\ \A p \in Operators \ {o} : task'[p] = task[p]
            /\ task[o].pc = "idle"
        BY <1>1, <3>6 DEF ChooseAction, Proceed, Free
      <4> QED
        BY <3>4, <3>6, <4>1 DEF ChoiceStep
    <3> QED
      BY <3>3, <3>5, <3>6
  <2> QED
    BY <1>4, <2>1, <2>2 DEF OperatorSubmits
<1>5. ASSUME NEW e \in DecisionRuns, DecisionEngineRuns(e) PROVE EngineStep(e)
  BY <1>1, <1>5
     DEF DecisionEngineRuns, DEStep, LoadDecisionRules, QueryAlerts, EndOfList, ProcessAlert,
         WriteDecision, WriteAlertStatus, Becomes, EngineStep
<1>6. ASSUME NEW w \in ActionWorkers, ActionEngineRuns(w) \/ ActionEngineStarts(w)
      PROVE  WorkerStep(w)
  BY <1>1, <1>6
     DEF ActionEngineRuns, ActionEngineStarts, WorkerStarts, AEStep, FetchOpenDecisions, NotifyOrIgnore, BlockSource,
         BlockDestination, BlockPairAtSource, BlockPairAtDestination, RecordAction,
         MarkPerformed, EndOfDecisions, TakeOrder, Continue, WorkerStep
<1>7. ASSUME NEW o \in Operators, OperatorRequestRuns(o) PROVE OperatorStep(o)
  BY <1>1, <1>7
     DEF OperatorRequestRuns, OCStep, ReadDecision, CommitDecision, WriteStatus,
         SetActionTypeOnManualDecision, Proceed, OperatorStep
<1>8. CASE Crash
  <2>1. \A e \in DecisionRuns : run'[e] \in {run[e], Idle}
    BY <1>1, <1>8 DEF Crash, RunDies, Becomes
  <2>2. \A w \in ActionWorkers : worker'[w] \in {worker[w], Asleep, Dead}
    BY <1>1, <1>8 DEF Crash, WorkerDies, Continue
  <2>3. \A o \in Operators : task'[o] \in {task[o], NoTask}
    BY <1>1, <1>8 DEF Crash, RequestDies, Proceed
  <2>4. crashes' = crashes + 1 /\ UNCHANGED <<alertStatus, decisions, actions>>
    BY <1>8 DEF Crash, RunDies, WorkerDies, RequestDies, store
  <2> QED
    BY <2>1, <2>2, <2>3, <2>4 DEF DeathStep
<1> QED
  BY <1>2, <1>3, <1>4, <1>5, <1>6, <1>7, <1>8 DEF Next

-----------------------------------------------------------------------------
(* Without rows written back, a decision only goes forward                 *)

(* A decision the action engine can carry out, or whose rule asks for a    *)
(* manual action.                                                          *)
Settled(d) == decisions[d].rule # NoRule \/ decisions[d].memo # NoValue

HasSettled(a) == \E d \in DecisionsOfAlert(a) : Settled(d)

(* What a run and a request know of it: no cause was ever set, so none     *)
(* plans setDecisionTypeAndRule; who makes an alert PROCESSED has settled  *)
(* it before.                                                              *)
EngineSettles(e) ==
    LET x == run[e]
    IN  /\ x.pc = "write" => x.plan.write # "setTypeAndRule"
        /\ x.pc = "status" /\ x.plan.final = "PROCESSED" => HasSettled(x.alert)

OperatorSettles(o) ==
    LET t == task[o]
    IN  /\ t.pc \notin {"read", "commit"}
        /\ t.pc \in {"memo", "status"} => t.final # "PENDING"
        /\ t.pc = "memo" => t.memo # NoValue
        /\ t.pc = "status" => HasSettled(t.alert)

QuietInv ==
    /\ KInv
    /\ ProcessedIsDecided
    /\ \A d \in DOMAIN decisions : decisions[d].cause = NoValue
    /\ \A e \in DecisionRuns : EngineSettles(e)
    /\ \A o \in Operators : OperatorSettles(o)

(* What every step does to the decisions that are there.                   *)
Onward ==
    \A d \in DOMAIN decisions :
        /\ d \in DOMAIN decisions'
        /\ decisions'[d].issue = decisions[d].issue
        /\ decisions'[d].cause = decisions[d].cause
        /\ decisions[d].memo # NoValue => decisions'[d].memo # NoValue
        /\ decisions[d].rule # NoRule => decisions'[d].rule # NoRule
        /\ decisions[d].status = "PERFORMED" => decisions'[d].status = "PERFORMED"

(* The new decision of a run, or the decisions of its alert with the rule  *)
(* and the type it planned.                                                *)
Adds(x) ==
    \E row \in Decisions :
        /\ AddDecision(row)
        /\ row.issue = x.alert /\ row.rule = x.plan.rule /\ row.decisionType = x.plan.type
        /\ row.memo = NoValue /\ row.cause = NoValue /\ row.status = "OPEN"

Updates(x) ==
    /\ DOMAIN decisions' = DOMAIN decisions
    /\ \A d \in DOMAIN decisions :
          /\ decisions[d].issue # x.alert => decisions'[d] = decisions[d]
          /\ decisions[d].issue = x.alert =>
                /\ decisions'[d].rule = x.plan.rule
                /\ decisions'[d].decisionType = x.plan.type
          /\ decisions'[d].issue = decisions[d].issue
          /\ decisions'[d].cause = decisions[d].cause
          /\ decisions'[d].memo = decisions[d].memo
          /\ decisions'[d].status = decisions[d].status

(* The three outcomes of a run's write.                                    *)
LEMMA WriteHasOutcomes ==
    ASSUME QuietInv, NEW e \in DecisionRuns, WriteDecision(e)
    PROVE  /\ run[e].pc = "write" /\ UNCHANGED <<alertStatus, actions>>
           /\ \/ UNCHANGED decisions /\ run'[e] = Idle
              \/ /\ run[e].plan.write = "add"
                 /\ Adds(run[e])
                 /\ run'[e] = [run[e] EXCEPT !.pc = "status"]
              \/ /\ run[e].plan.write = "updateForFinding"
                 /\ Updates(run[e])
                 /\ run'[e] = [run[e] EXCEPT !.pc = "status"]
<1>0. PICK x : x = run[e]
  OBVIOUS
<1>1. /\ StoreTypeOK /\ x \in Runs /\ x.alert \in AlertIds /\ x.plan \in Plans
      /\ x.plan.write \in {"add", "updateForFinding"} /\ x.pc = "write"
      /\ run \in [DecisionRuns -> Runs]
  BY <1>0
     DEF QuietInv, EngineSettles, KInv, IInv, TypeOK, DETypeOK, WriteDecision, EngineInv, Runs
<1>2. x.plan.type \in DecisionType /\ x.plan.rule \in RuleIds \cup {NoRule}
  BY <1>1 DEF Plans
<1>3. UNCHANGED <<alertStatus, actions>>
  BY DEF WriteDecision
<1>4. \A y : Becomes(e, y) => run'[e] = y
  BY <1>1 DEF Becomes
<1>5. CASE ~ReferencesHold(x.plan.rule)
  BY <1>0, <1>1, <1>3, <1>4, <1>5 DEF WriteDecision
<1>6. CASE ReferencesHold(x.plan.rule) /\ x.plan.write = "add"
  <2> DEFINE row == NewDecision(x.alert, x.plan.type, x.plan.rule,
                                AlertOf[x.alert].src, AlertOf[x.alert].dst)
  <2>1. AddDecision(row) /\ run'[e] = [x EXCEPT !.pc = "status"]
    BY <1>0, <1>4, <1>6 DEF WriteDecision
  <2>2. /\ row \in Decisions /\ row.issue = x.alert /\ row.rule = x.plan.rule
        /\ row.decisionType = x.plan.type /\ row.memo = NoValue /\ row.cause = NoValue
        /\ row.status = "OPEN"
    BY <1>1, <1>2, StoreAssumption DEF NewDecision, Decisions
  <2>3. Adds(x)
    <3> HIDE DEF row
    <3> QED
      BY <2>1, <2>2 DEF Adds
  <2> QED
    BY <1>0, <1>1, <1>3, <1>6, <2>1, <2>3
<1>7. CASE ReferencesHold(x.plan.rule) /\ x.plan.write = "updateForFinding"
  <2>1. /\ UpdateDecisionForFinding(x.alert, x.plan.rule, x.plan.type)
        /\ run'[e] = [x EXCEPT !.pc = "status"]
    BY <1>0, <1>4, <1>7 DEF WriteDecision
  <2>2. DOMAIN decisions' = DOMAIN decisions
    BY <2>1 DEF UpdateDecisionForFinding
  <2>3. ASSUME NEW d \in DOMAIN decisions
        PROVE  decisions'[d] = IF decisions[d].issue = x.alert
                               THEN [decisions[d] EXCEPT !.rule = x.plan.rule,
                                                         !.decisionType = x.plan.type]
                               ELSE decisions[d]
    BY <2>1, <2>3 DEF UpdateDecisionForFinding
  <2>4. \A d \in DOMAIN decisions : decisions[d] \in Decisions
    BY <1>1, DecisionRows
  <2>5. Updates(x)
    BY <1>2, <2>2, <2>3, <2>4 DEF Updates, Decisions
  <2> QED
    BY <1>0, <1>1, <1>3, <1>7, <2>1, <2>5
<1> QED
  BY <1>1, <1>5, <1>6, <1>7

(* Of the other transactions, setCarriedOut changes one column of one row  *)
(* ...                                                                     *)
LEMMA MarkChanges ==
    ASSUME KInv, NEW w \in ActionWorkers, MarkPerformed(w)
    PROVE  LET d == worker[w].order.decision
           IN  /\ d \in DOMAIN decisions
               /\ decisions[d] \in Decisions
               /\ decisions' = [decisions EXCEPT ![d] = [decisions[d] EXCEPT !.status = "PERFORMED"]]
               /\ UNCHANGED <<alertStatus, actions>>
<1>1. worker[w].order.decision \in DOMAIN decisions
  BY DEF KInv, IInv, WorkerInv, MarkPerformed
<1>2. \A d \in DOMAIN decisions : decisions[d] \in Decisions
  BY DecisionRows DEF KInv, IInv, TypeOK
<1> QED
  BY <1>1, <1>2 DEF MarkPerformed, UpdateDecisionStatus

(* ... and so does setActionTypeOnManualDecision.                          *)
LEMMA MemoChanges ==
    ASSUME KInv, NEW o \in Operators, SetActionTypeOnManualDecision(o)
    PROVE  LET d == task[o].decision
           IN  /\ d \in DecisionsOfAlert(task[o].alert)
               /\ decisions[d] \in Decisions
               /\ decisions' = [decisions EXCEPT ![d] = [decisions[d] EXCEPT !.memo = task[o].memo]]
               /\ UNCHANGED <<alertStatus, actions>>
<1>1. task[o].decision \in DecisionsOfAlert(task[o].alert)
  BY DEF KInv, IInv, OperatorInv, SetActionTypeOnManualDecision
<1>2. \A d \in DOMAIN decisions : decisions[d] \in Decisions
  BY DecisionRows DEF KInv, IInv, TypeOK
<1> QED
  BY <1>1, <1>2 DEF SetActionTypeOnManualDecision, SetActionType, DecisionsOfAlert

(* A step of an action pass that does not mark leaves decisions alone ...  *)
LEMMA PassLeavesDecisions ==
    ASSUME NEW w, AEStep(w) \/ WorkerStarts(w), ~MarkPerformed(w)
    PROVE  UNCHANGED <<alertStatus, decisions>>
BY DEF AEStep, WorkerStarts, FetchOpenDecisions, NotifyOrIgnore, BlockSource, BlockDestination,
       BlockPairAtSource, BlockPairAtDestination, RecordAction, EndOfDecisions,
       ControllerOnly, store

(* ... as does a step of a run that does not write ...                     *)
LEMMA RunLeavesDecisions ==
    ASSUME NEW e, DEStep(e), ~WriteDecision(e)
    PROVE  /\ UNCHANGED <<decisions, actions>>
           /\ ~WriteAlertStatus(e) => UNCHANGED alertStatus
BY DEF DEStep, LoadDecisionRules, QueryAlerts, EndOfList, ProcessAlert, WriteAlertStatus, store

(* ... and a request, which sets an action type or the status of an alert. *)
LEMMA RequestsLeft ==
    ASSUME QuietInv, NEW o \in Operators, OCStep(o)
    PROVE  SetActionTypeOnManualDecision(o) \/ WriteStatus(o)
BY DEF QuietInv, OperatorSettles, OCStep, ReadDecision, CommitDecision

(* Nothing is taken back by any step.                                      *)
LEMMA StepIsOnward ==
    ASSUME NoRowWriters, QuietInv, [Next]_vars
    PROVE  Onward
<1>1. KInv /\ StoreTypeOK
  BY DEF QuietInv, KInv, IInv, TypeOK
<1>2. decisions' = decisions => Onward
  BY DEF Onward
<1>3. ASSUME NEW e \in DecisionRuns, EngineStep(e) PROVE Onward
  <2>1. CASE WriteDecision(e)
    <3>1. CASE Adds(run[e])
      <4>1. PICK row \in Decisions : AddDecision(row)
        BY <3>1 DEF Adds
      <4> QED
        BY <1>1, <4>1, RowAdded DEF Onward
    <3>2. CASE Updates(run[e]) /\ run[e].plan.write = "updateForFinding"
      <4>1. run[e].plan.rule # NoRule
        BY <1>1, <2>1, <3>2 DEF KInv, EngineKnows, Agrees, WriteDecision
      <4> QED
        BY <3>2, <4>1 DEF Updates, Onward
    <3> QED
      BY <1>2, <2>1, <3>1, <3>2, WriteHasOutcomes
  <2>2. CASE ~WriteDecision(e)
    BY <1>2, <1>3, <2>2, RunLeavesDecisions DEF EngineStep
  <2> QED
    BY <2>1, <2>2
<1>4. ASSUME NEW w \in ActionWorkers, WorkerStep(w) PROVE Onward
  <2>1. CASE MarkPerformed(w)
    <3>1. PICK d \in DOMAIN decisions :
             /\ decisions[d] \in Decisions
             /\ decisions' = [decisions EXCEPT ![d] = [decisions[d] EXCEPT !.status = "PERFORMED"]]
      BY <1>1, <2>1, MarkChanges
    <3> QED
      BY <3>1 DEF Onward, Decisions
  <2>2. CASE ~MarkPerformed(w)
    BY <1>2, <1>4, <2>2, PassLeavesDecisions DEF WorkerStep
  <2> QED
    BY <2>1, <2>2
<1>5. ASSUME NEW o \in Operators, OperatorStep(o) PROVE Onward
  <2>1. CASE SetActionTypeOnManualDecision(o)
    <3>1. task[o].memo # NoValue
      BY <2>1 DEF QuietInv, OperatorSettles, SetActionTypeOnManualDecision
    <3>2. PICK d \in DOMAIN decisions :
             /\ decisions[d] \in Decisions
             /\ decisions' = [decisions EXCEPT ![d] = [decisions[d] EXCEPT !.memo = task[o].memo]]
      BY <1>1, <2>1, MemoChanges DEF DecisionsOfAlert
    <3> QED
      BY <3>1, <3>2 DEF Onward, Decisions
  <2>2. CASE WriteStatus(o)
    BY <1>2, <2>2 DEF WriteStatus
  <2> QED
    BY <1>5, <2>1, <2>2, RequestsLeft DEF OperatorStep
<1>6. ASSUME NEW o \in Operators, ChoiceStep(o) PROVE Onward
  BY <1>2, <1>6 DEF ChoiceStep, ChooseAction, store
<1>7. CASE OtherStep \/ DeathStep
  BY <1>2, <1>7 DEF OtherStep, DeathStep
<1> QED
  BY <1>1, <1>3, <1>4, <1>5, <1>6, <1>7, WhoseStep

(* What is settled stays settled.                                          *)
LEMMA SettledStays ==
    ASSUME Onward, NEW a, HasSettled(a)
    PROVE  HasSettled(a)'
BY DEF Onward, HasSettled, Settled, DecisionsOfAlert

(* What a run that does not move knows stays true.                         *)
LEMMA EngineStillSettles ==
    ASSUME Onward, NEW e, EngineSettles(e), run'[e] = run[e]
    PROVE  EngineSettles(e)'
<1>1. run[e].pc = "status" /\ run[e].plan.final = "PROCESSED" => HasSettled(run[e].alert)'
  BY SettledStays DEF EngineSettles
<1> QED
  BY <1>1 DEF EngineSettles, HasSettled, Settled, DecisionsOfAlert

(* What a request that does not move knows stays true.                     *)
LEMMA OperatorStillSettles ==
    ASSUME Onward, NEW o, OperatorSettles(o), task'[o] = task[o]
    PROVE  OperatorSettles(o)'
<1>1. task[o].pc = "status" => HasSettled(task[o].alert)'
  BY SettledStays DEF OperatorSettles
<1> QED
  BY <1>1 DEF OperatorSettles, HasSettled, Settled, DecisionsOfAlert

(* How a step of a run, other than the write, changes its locals.          *)
ReadsRules(e) == run'[e].pc \in {"idle", "query"} /\ run'[e].todo = {}

ReadsList(e) ==
    /\ run[e].pc = "query"
    /\ run'[e].pc = "loop"
    /\ run'[e].phase = run[e].phase
    /\ run'[e].todo = ActiveAlertsByStatus(run[e].phase)

SkipsAlert(e) ==
    /\ run'[e].pc = "loop"
    /\ run'[e].phase = run[e].phase
    /\ run'[e].todo \subseteq run[e].todo

PlansAlert(e) ==
    /\ run[e].pc = "loop"
    /\ run'[e].pc = "write"
    /\ run'[e].phase = run[e].phase
    /\ run'[e].alert \in run[e].todo
    /\ run'[e].todo = run[e].todo \ {run'[e].alert}
    /\ LET plan == run'[e].plan
       IN  /\ plan.write \in {"add", "updateForFinding", "setTypeAndRule"}
           /\ plan.write = "add" => run[e].phase = "OPEN"
           /\ plan.write = "updateForFinding" => run[e].phase = "PENDING"
           /\ plan.write = "setTypeAndRule" =>
                 /\ plan.decision \in DecisionsOfAlert(run'[e].alert)
                 /\ decisions[plan.decision].cause # NoValue

(* A run that does not write does one of these.                            *)
LEMMA RunMoves ==
    ASSUME KInv, NEW e \in DecisionRuns, DEStep(e), ~WriteDecision(e)
    PROVE  \/ ReadsRules(e) \/ ReadsList(e) \/ PlansAlert(e)
           \/ SkipsAlert(e) /\ run[e].pc \in {"loop", "status"}
<1>0. PICK x : x = run[e]
  OBVIOUS
<1>1. /\ StoreTypeOK /\ x \in Runs /\ run \in [DecisionRuns -> Runs]
      /\ x.todo \in SUBSET AlertIds /\ x.loaded \in SUBSET RuleIds
      /\ x.phase \in {"OPEN", "PENDING"}
  BY <1>0 DEF KInv, IInv, TypeOK, DETypeOK, Runs
<1>2. \A y : Becomes(e, y) => run'[e] = y
  BY <1>1 DEF Becomes
<1>3. run'[e] = Idle => ReadsRules(e)
  BY DEF ReadsRules, Idle
<1>4. CASE LoadDecisionRules(e)
  <2>1. run'[e] = [Idle EXCEPT !.pc = "query", !.loaded = decisionRules]
    BY <1>2, <1>4 DEF LoadDecisionRules
  <2> QED
    BY <2>1 DEF ReadsRules, Idle
<1>5. CASE QueryAlerts(e)
  <2> DEFINE list == ActiveAlertsByStatus(x.phase)
             y == [x EXCEPT !.severity = alertSeverity]
  <2>1. run'[e] = Rest(y, list) /\ x.pc = "query"
    BY <1>0, <1>2, <1>5 DEF QueryAlerts
  <2>2. y \in Runs /\ y.phase = x.phase
    BY <1>1 DEF Runs, StoreTypeOK
  <2>3. list \in SUBSET AlertIds
    BY DEF ActiveAlertsByStatus
  <2>4. Rest(y, list).pc = "loop" /\ Rest(y, list).todo = list /\ Rest(y, list).phase = x.phase
    <3> HIDE DEF y, list
    <3> QED
      BY <2>2, <2>3, RestRun
  <2> QED
    <3> HIDE DEF y
    <3> QED
      BY <1>0, <2>1, <2>4 DEF ReadsList
<1>6. CASE EndOfList(e)
  <2>1. CASE x.phase = "OPEN"
    <3>1. run'[e] = [x EXCEPT !.pc = "query", !.phase = "PENDING"] /\ x.todo = {}
      BY <1>0, <1>2, <1>6, <2>1 DEF EndOfList
    <3> QED
      BY <1>1, <3>1 DEF Runs, ReadsRules
  <2>2. CASE x.phase # "OPEN"
    BY <1>0, <1>2, <1>3, <1>6, <2>2 DEF EndOfList
  <2> QED
    BY <2>1, <2>2
<1>7. CASE ProcessAlert(e)
  <2>0. PICK a \in x.todo :
           LET plan == PlanOf(x.loaded, a, x.phase, x.severity[a])
           IN  CASE plan.write = "throw" -> Becomes(e, Idle)
                 [] plan.write = "none"  -> Becomes(e, Rest(x, x.todo \ {a}))
                 [] OTHER -> Becomes(e, [Rest(x, x.todo \ {a}) EXCEPT
                                           !.pc = "write", !.alert = a, !.plan = plan])
    BY <1>0, <1>7 DEF ProcessAlert
  <2> DEFINE plan == PlanOf(x.loaded, a, x.phase, x.severity[a])
             rest == Rest(x, x.todo \ {a})
             y == [rest EXCEPT !.pc = "write", !.alert = a, !.plan = plan]
  <2>1. /\ plan.write = "throw" => run'[e] = Idle
        /\ plan.write = "none" => run'[e] = rest
        /\ plan.write \notin {"throw", "none"} => run'[e] = y
        /\ x.todo # {} /\ x.pc = "loop"
    BY <1>0, <1>2, <1>7, <2>0 DEF ProcessAlert
  <2>2. a \in x.todo /\ a \in AlertIds
    BY <1>1, <2>0
  <2>3. rest \in Runs /\ rest.pc = "loop" /\ rest.todo = x.todo \ {a} /\ rest.phase = x.phase
    BY <1>1, RestRun
  <2>4. /\ plan \in Plans
        /\ plan.write = "add" => x.phase = "OPEN"
        /\ plan.write = "updateForFinding" => x.phase = "PENDING"
        /\ plan.write = "setTypeAndRule" =>
              /\ plan.decision \in DecisionsOfAlert(a)
              /\ decisions[plan.decision].cause # NoValue
    BY <1>1, <2>2, PlanIsSound
  <2>5. CASE plan.write = "none"
    <3> HIDE DEF rest
    <3> QED
      BY <1>0, <2>1, <2>3, <2>5 DEF SkipsAlert
  <2>6. CASE plan.write \notin {"throw", "none"}
    <3>1. /\ y.pc = "write" /\ y.todo = rest.todo /\ y.alert = a /\ y.plan = plan
          /\ y.phase = x.phase
      <4> HIDE DEF rest, plan
      <4> QED
        BY <2>3 DEF Runs
    <3>2. plan.write \in {"add", "updateForFinding", "setTypeAndRule"}
      <4> HIDE DEF plan
      <4> QED
        BY <2>4, <2>6 DEF Plans
    <3> QED
      <4> HIDE DEF rest, plan, y
      <4> QED
        BY <1>0, <2>1, <2>2, <2>3, <2>4, <2>6, <3>1, <3>2 DEF PlansAlert
  <2> QED
    BY <1>3, <2>1, <2>5, <2>6
<1>8. CASE WriteAlertStatus(e)
  <2>1. run'[e] = Rest(x, x.todo) /\ x.pc = "status"
    BY <1>0, <1>2, <1>8 DEF WriteAlertStatus
  <2>2. /\ Rest(x, x.todo).pc = "loop" /\ Rest(x, x.todo).todo = x.todo
        /\ Rest(x, x.todo).phase = x.phase
    BY <1>1, RestRun
  <2> QED
    BY <1>0, <2>1, <2>2 DEF SkipsAlert
<1> QED
  BY <1>4, <1>5, <1>6, <1>7, <1>8 DEF DEStep

(* A run settles the decision of an alert before it makes it PROCESSED.    *)
LEMMA EngineLearnsToSettle ==
    ASSUME QuietInv, NEW e \in DecisionRuns, DEStep(e)
    PROVE  EngineSettles(e)'
<1>1. /\ KInv /\ \A d \in DOMAIN decisions : decisions[d].cause = NoValue
      /\ StoreTypeOK /\ EngineInv(e) /\ EngineKnows(e) /\ run[e] \in Runs
  BY DEF QuietInv, KInv, IInv, TypeOK, DETypeOK
<1>2. CASE WriteDecision(e)
  <2>1. CASE run'[e] = Idle
    BY <2>1 DEF EngineSettles, Idle
  <2>2. CASE run'[e] = [run[e] EXCEPT !.pc = "status"]
    <3>1. /\ run'[e].pc = "status" /\ run'[e].plan = run[e].plan /\ run'[e].alert = run[e].alert
          /\ run[e].pc = "write"
      BY <1>1, <1>2, <2>2 DEF Runs, WriteDecision
    <3>2. run[e].plan.final = "PROCESSED" => run[e].plan.rule # NoRule
      BY <1>1, <3>1 DEF EngineKnows, Agrees
    <3>3. CASE Adds(run[e])
      <4>1. PICK row \in Decisions :
               AddDecision(row) /\ row.issue = run[e].alert /\ row.rule = run[e].plan.rule
        BY <3>3 DEF Adds
      <4> QED
        BY <1>1, <3>1, <3>2, <4>1, RowAdded
           DEF EngineSettles, HasSettled, Settled, DecisionsOfAlert
    <3>4. CASE Updates(run[e]) /\ run[e].plan.write = "updateForFinding"
      <4>1. PICK d \in DOMAIN decisions : decisions[d].issue = run[e].alert
        BY <1>1, <3>1, <3>4 DEF EngineInv, DecisionsOfAlert
      <4>2. /\ d \in DOMAIN decisions' /\ decisions'[d].issue = run[e].alert
            /\ decisions'[d].rule = run[e].plan.rule
        BY <3>4, <4>1 DEF Updates
      <4> QED
        BY <3>1, <3>2, <4>2 DEF EngineSettles, HasSettled, Settled, DecisionsOfAlert
    <3>5. run'[e] # Idle
      BY <3>1 DEF Idle
    <3> QED
      BY <1>2, <3>3, <3>4, <3>5, WriteHasOutcomes
  <2> QED
    BY <1>2, <2>1, <2>2, WriteHasOutcomes
<1>3. CASE ~WriteDecision(e)
  <2>1. CASE PlansAlert(e)
    BY <1>1, <2>1 DEF PlansAlert, EngineSettles, DecisionsOfAlert
  <2>2. CASE ReadsRules(e) \/ ReadsList(e) \/ SkipsAlert(e)
    BY <2>2 DEF ReadsRules, ReadsList, SkipsAlert, EngineSettles
  <2> QED
    BY <1>1, <1>3, <2>1, <2>2, RunMoves
<1> QED
  BY <1>2, <1>3

(* A request sets the action type, then the status of the alert.           *)
LEMMA OperatorLearnsToSettle ==
    ASSUME QuietInv, NEW o \in Operators, OCStep(o)
    PROVE  OperatorSettles(o)'
<1>0. PICK t : t = task[o]
  OBVIOUS
<1>1. /\ KInv /\ t \in Tasks /\ task \in [Operators -> Tasks]
      /\ OperatorInv(o) /\ OperatorSettles(o)
  BY <1>0 DEF QuietInv, KInv, IInv, TypeOK, OCTypeOK
<1>2. CASE SetActionTypeOnManualDecision(o)
  <2>1. /\ task'[o] = AfterWrite(t) /\ t.pc = "memo" /\ t.writes = <<>>
        /\ t.memo # NoValue /\ t.final # "PENDING"
    BY <1>0, <1>1, <1>2
       DEF SetActionTypeOnManualDecision, Proceed, OperatorInv, OperatorSettles
  <2>2. ~(Len(t.writes) > 1)
    BY <2>1
  <2>3. CASE t.final = NoValue
    <3>1. task'[o].pc = "idle"
      BY <2>1, <2>2, <2>3, EmptyTask DEF AfterWrite
    <3> QED
      BY <3>1 DEF OperatorSettles
  <2>4. CASE t.final # NoValue
    <3>1. task'[o] = [NoTask EXCEPT !.pc = "status", !.alert = t.alert, !.final = t.final]
      BY <2>1, <2>2, <2>4 DEF AfterWrite
    <3>2. task'[o].pc = "status" /\ task'[o].alert = t.alert /\ task'[o].final = t.final
      BY <3>1, EmptyTask DEF Tasks
    <3>3. PICK d \in DecisionsOfAlert(t.alert) :
             /\ decisions[d] \in Decisions
             /\ decisions' = [decisions EXCEPT ![d] = [decisions[d] EXCEPT !.memo = t.memo]]
      BY <1>0, <1>1, <1>2, MemoChanges
    <3>4. /\ d \in DOMAIN decisions' /\ decisions'[d].issue = t.alert
          /\ decisions'[d].memo = t.memo
      BY <3>3 DEF DecisionsOfAlert, Decisions
    <3> QED
      BY <2>1, <3>2, <3>4 DEF OperatorSettles, HasSettled, Settled, DecisionsOfAlert
  <2> QED
    BY <2>3, <2>4
<1>3. CASE WriteStatus(o)
  <2>1. task'[o].pc = "idle"
    BY <1>1, <1>3, EmptyTask DEF WriteStatus, Proceed
  <2> QED
    BY <2>1 DEF OperatorSettles
<1> QED
  BY <1>2, <1>3, RequestsLeft

(* An operator chooses one of the automated types.                         *)
LEMMA ChoiceSettles ==
    ASSUME QuietInv, NEW o \in Operators, ChoiceStep(o)
    PROVE  OperatorSettles(o)'
<1>1. task \in [Operators -> Tasks]
  BY DEF QuietInv, KInv, IInv, TypeOK, OCTypeOK
<1>2. PICK d \in DOMAIN decisions, type \in Automated : ChooseAction(o, d, type)
  BY DEF ChoiceStep
<1>3. type # NoValue
  BY DEF Automated, DecisionType, NoValue
<1> DEFINE a == decisions[d].issue
           final == IF alertStatus[a] = "PENDING" THEN "PROCESSED" ELSE NoValue
           t == [NoTask EXCEPT !.pc = "memo", !.alert = a, !.decision = d, !.memo = type,
                               !.final = final]
<1>4. task'[o] = t
  BY <1>1, <1>2 DEF ChooseAction, Proceed
<1>5. t.pc = "memo" /\ t.memo = type /\ t.final = final
  <2> HIDE DEF final, a
  <2> QED
    BY EmptyTask DEF Tasks
<1>6. final # "PENDING"
  BY DEF NoValue
<1> QED
  <2> HIDE DEF t, final
  <2> QED
    BY <1>3, <1>4, <1>5, <1>6 DEF OperatorSettles

(* Who makes an alert PROCESSED: a run or a request about to write that    *)
(* status.                                                                 *)
LEMMA WhoProcesses ==
    ASSUME NoRowWriters, QuietInv, [Next]_vars, NEW a \in AlertIds,
           alertStatus'[a] # alertStatus[a]
    PROVE  \/ \E e \in DecisionRuns : /\ EngineStep(e) /\ run[e].pc = "status"
                                      /\ WriteAlertStatus(e)
                                      /\ run[e].alert = a
                                      /\ alertStatus'[a] = run[e].plan.final
           \/ \E o \in Operators : /\ OperatorStep(o) /\ task[o].pc = "status"
                                   /\ task[o].alert = a
                                   /\ alertStatus'[a] = task[o].final
           \/ alertStatus[a] = "ABSENT" /\ alertStatus'[a] = "OPEN"
<1>1. KInv /\ alertStatus \in [AlertIds -> AlertStatus]
  BY DEF QuietInv, KInv, IInv, TypeOK, StoreTypeOK
<1>2. ASSUME NEW e \in DecisionRuns, EngineStep(e)
      PROVE  /\ run[e].pc = "status" /\ run[e].alert = a /\ WriteAlertStatus(e)
             /\ alertStatus'[a] = run[e].plan.final
  <2>1. WriteAlertStatus(e)
    BY <1>2, RunLeavesDecisions DEF EngineStep, WriteDecision
  <2> QED
    BY <1>1, <2>1 DEF WriteAlertStatus, UpdateAlertStatus
<1>3. ASSUME NEW w \in ActionWorkers, WorkerStep(w) PROVE FALSE
  BY <1>3, PassLeavesDecisions DEF WorkerStep, MarkPerformed
<1>4. ASSUME NEW o \in Operators, OperatorStep(o)
      PROVE  /\ task[o].pc = "status" /\ task[o].alert = a
             /\ alertStatus'[a] = task[o].final
  <2>1. WriteStatus(o)
    BY <1>4, RequestsLeft DEF OperatorStep, SetActionTypeOnManualDecision
  <2> QED
    BY <1>1, <2>1 DEF WriteStatus, UpdateAlertStatus
<1>5. ASSUME NEW o \in Operators, ChoiceStep(o) PROVE FALSE
  BY <1>5 DEF ChoiceStep, ChooseAction, store
<1>6. ~DeathStep
  BY DEF DeathStep
<1> QED
  BY <1>1, <1>2, <1>3, <1>4, <1>5, <1>6, WhoseStep DEF OtherStep

(* Every step keeps the invariant.                                         *)
LEMMA StepKeepsQuietInv ==
    ASSUME NoRowWriters, QuietInv, [Next]_vars
    PROVE  QuietInv'
<1>1. KInv /\ StoreTypeOK /\ Onward
  BY StepIsOnward DEF QuietInv, KInv, IInv, TypeOK
<1>2. KInv'
  BY <1>1, StepKeepsKInv
<1>3. ProcessedIsDecided'
  <2>1. ASSUME NEW a \in AlertIds, alertStatus'[a] = "PROCESSED"
        PROVE  HasSettled(a)'
    <3>1. CASE alertStatus'[a] = alertStatus[a]
      <4>1. HasSettled(a)
        BY <2>1, <3>1 DEF QuietInv, ProcessedIsDecided, HasSettled, Settled
      <4> QED
        BY <1>1, <4>1, SettledStays
    <3>2. CASE alertStatus'[a] # alertStatus[a]
      <4>1. HasSettled(a)
        BY <2>1, <3>2, WhoProcesses DEF QuietInv, EngineSettles, OperatorSettles
      <4> QED
        BY <1>1, <4>1, SettledStays
    <3> QED
      BY <3>1, <3>2
  <2> QED
    BY <2>1 DEF ProcessedIsDecided, HasSettled, Settled
<1>4. \A d \in DOMAIN decisions' : decisions'[d].cause = NoValue
  <2>1. \A d \in DOMAIN decisions : decisions'[d].cause = NoValue
    BY <1>1 DEF QuietInv, Onward
  <2>2. CASE \E e \in DecisionRuns : WriteDecision(e) /\ Adds(run[e])
    <3>1. PICK row \in Decisions : AddDecision(row) /\ row.cause = NoValue
      BY <2>2 DEF Adds
    <3> QED
      BY <1>1, <2>1, <3>1, RowAdded
  <2>3. CASE DOMAIN decisions' = DOMAIN decisions
    BY <2>1, <2>3
  <2>4. ASSUME NEW e \in DecisionRuns, EngineStep(e), ~Adds(run[e])
        PROVE  DOMAIN decisions' = DOMAIN decisions
    BY <2>4, WriteHasOutcomes, RunLeavesDecisions DEF EngineStep, Updates
  <2>5. ASSUME NEW e \in DecisionRuns, EngineStep(e), ~WriteDecision(e)
        PROVE  DOMAIN decisions' = DOMAIN decisions
    BY <2>5, RunLeavesDecisions DEF EngineStep
  <2>6. ASSUME NEW w \in ActionWorkers, WorkerStep(w)
        PROVE  DOMAIN decisions' = DOMAIN decisions
    BY <1>1, <2>6, PassLeavesDecisions, MarkChanges DEF WorkerStep
  <2>7. ASSUME NEW o \in Operators, OperatorStep(o)
        PROVE  DOMAIN decisions' = DOMAIN decisions
    BY <1>1, <2>7, RequestsLeft, MemoChanges DEF OperatorStep, WriteStatus
  <2>8. ASSUME NEW o \in Operators, ChoiceStep(o)
        PROVE  decisions' = decisions
    BY <2>8 DEF ChoiceStep, ChooseAction, store
  <2> QED
    BY <1>1, <2>2, <2>3, <2>4, <2>5, <2>6, <2>7, <2>8, WhoseStep DEF OtherStep, DeathStep
<1>5. ASSUME NEW e \in DecisionRuns PROVE EngineSettles(e)'
  <2>1. CASE run'[e] = run[e]
    BY <1>1, <2>1, EngineStillSettles DEF QuietInv
  <2>2. CASE run'[e] = Idle
    BY <2>2 DEF EngineSettles, Idle
  <2>3. CASE DEStep(e)
    BY <2>3, EngineLearnsToSettle
  <2> QED
    BY <1>1, <2>1, <2>2, <2>3, WhoseStep
       DEF EngineStep, WorkerStep, OperatorStep, ChoiceStep, OtherStep, DeathStep
<1>6. ASSUME NEW o \in Operators PROVE OperatorSettles(o)'
  <2>1. CASE task'[o] = task[o]
    BY <1>1, <2>1, OperatorStillSettles DEF QuietInv
  <2>2. CASE task'[o] = NoTask
    BY <2>2, EmptyTask DEF OperatorSettles
  <2>3. CASE OCStep(o)
    BY <2>3, OperatorLearnsToSettle
  <2>4. CASE ChoiceStep(o)
    BY <2>4, ChoiceSettles
  <2> QED
    BY <1>1, <2>1, <2>2, <2>3, <2>4, WhoseStep
       DEF EngineStep, WorkerStep, OperatorStep, ChoiceStep, OtherStep, DeathStep
<1> QED
  BY <1>2, <1>3, <1>4, <1>5, <1>6 DEF QuietInv

(* Nothing is decided yet.                                                 *)
LEMMA QuietInvHoldsInitially == Init => QuietInv
<1> SUFFICES ASSUME Init PROVE QuietInv
  OBVIOUS
<1>1. /\ alertStatus = [a \in AlertIds |-> "ABSENT"] /\ decisions = <<>>
      /\ run = [e \in DecisionRuns |-> Idle]
      /\ task = [o \in Operators |-> NoTask]
  BY DEF Init, StoreInit, DEInit, OCInit
<1>2. ProcessedIsDecided
  BY <1>1 DEF ProcessedIsDecided
<1>3. \A e \in DecisionRuns : EngineSettles(e)
  BY <1>1 DEF EngineSettles, Idle
<1>4. \A o \in Operators : OperatorSettles(o)
  BY <1>1, EmptyTask DEF OperatorSettles
<1> QED
  BY <1>1, <1>2, <1>3, <1>4, KInvHoldsInitially DEF QuietInv

(* The inductive invariant when no operation writes rows back.             *)
THEOREM QuietAlways ==
    ASSUME NoRowWriters
    PROVE  Spec => []QuietInv
<1>1. Init => QuietInv
  BY QuietInvHoldsInitially
<1>2. QuietInv /\ [Next]_vars => QuietInv'
  BY StepKeepsQuietInv
<1> QED
  BY <1>1, <1>2, PTL DEF Spec

(* A PROCESSED alert has a decision that is settled, by a rule or by an    *)
(* operator, unless rows read before are written back; after a crash a     *)
(* second decision about it may still wait for an operator.                *)
THEOREM ProcessedAreDecided ==
    ASSUME NoRowWriters
    PROVE  Spec => []ProcessedIsDecided
<1>1. QuietInv => ProcessedIsDecided
  BY DEF QuietInv
<1> QED
  BY <1>1, QuietAlways, PTL

(* A PERFORMED decision stays PERFORMED, unless rows read before are       *)
(* written back.                                                           *)
THEOREM PerformedStay ==
    ASSUME NoRowWriters
    PROVE  Spec => PerformedStays
<1>1. QuietInv /\ [Next]_vars =>
         [\A d \in DOMAIN decisions :
             decisions[d].status = "PERFORMED" => decisions'[d].status = "PERFORMED"]_vars
  BY StepIsOnward DEF Onward
<1> QED
  BY <1>1, QuietAlways, PTL DEF Spec, PerformedStays

-----------------------------------------------------------------------------
(* One run at a time: each alert is decided once                           *)

OnlyOne(a) == \A c, d \in DecisionsOfAlert(a) : c = d

(* A decision that is for an operator, or on which one has chosen: only    *)
(* these may still get another type.                                       *)
Waits(d) == decisions[d].memo # NoValue \/ decisions[d].decisionType = "MANUAL_ACTION"

AllWait(a) == \A d \in DecisionsOfAlert(a) : Waits(d)

(* A run has stored the decision of an alert and not yet its status.       *)
Busy(a) == \E e \in DecisionRuns : run[e].pc = "status" /\ run[e].alert = a

(* An alert of the list is not the one a run works on, has no decision     *)
(* yet, or, when it is PENDING, one that waits.                            *)
EngineOnce(e) ==
    LET x == run[e]
    IN  /\ x.pc \in {"write", "status"} => x.alert \notin x.todo
        /\ x.phase = "OPEN" => \A a \in x.todo : DecisionsOfAlert(a) = {}
        /\ x.phase = "PENDING" => \A a \in x.todo : AllWait(a)
        /\ x.pc = "write" /\ x.plan.write = "add" => DecisionsOfAlert(x.alert) = {}
        /\ x.pc = "write" /\ x.plan.write = "updateForFinding" => AllWait(x.alert)
        /\ x.pc = "status" /\ x.plan.final = "PENDING" => AllWait(x.alert)

AlertOnce(a) ==
    /\ OnlyOne(a)
    /\ alertStatus[a] = "OPEN" /\ DecisionsOfAlert(a) # {} => Busy(a)
    /\ alertStatus[a] = "PENDING" /\ ~Busy(a) => AllWait(a)

(* The action taken, or about to be taken, is what the decision says.      *)
Fits(d, kind) ==
    decisions[d].memo = NoValue =>
        kind = decisions[d].decisionType /\ kind # "MANUAL_ACTION"

WorkerFits(w) ==
    LET x == worker[w]
    IN  /\ \A p \in x.todo : Fits(p.decision, p.kind)
        /\ x.pc \in {"pair", "record"} => Fits(x.order.decision, x.order.kind)

ActionsFit == \A n \in DOMAIN actions : Fits(actions[n].decision, actions[n].kind)

OnceInv ==
    /\ QuietInv
    /\ crashes = 0 =>
          /\ \A a \in AlertIds : AlertOnce(a)
          /\ \A e \in DecisionRuns : EngineOnce(e)
          /\ \A w \in ActionWorkers : WorkerFits(w)
          /\ ActionsFit

(* What every thread but the run does to the decisions.                    *)
SameRows ==
    /\ DOMAIN decisions' = DOMAIN decisions
    /\ \A d \in DOMAIN decisions :
          /\ decisions'[d].issue = decisions[d].issue
          /\ decisions'[d].decisionType = decisions[d].decisionType
          /\ decisions[d].memo # NoValue => decisions'[d].memo # NoValue

(* A row, and what its action fits, after a step that changes types only   *)
(* where an operator has the last word.                                    *)
TypesStay ==
    \A d \in DOMAIN decisions :
        /\ d \in DOMAIN decisions'
        /\ decisions[d].memo # NoValue => decisions'[d].memo # NoValue
        /\ ~Waits(d) => decisions'[d].decisionType = decisions[d].decisionType

(* Every alert has the decisions it had, and what waits still waits.       *)
LEMMA SameDecisions ==
    ASSUME SameRows, NEW a
    PROVE  /\ DecisionsOfAlert(a)' = DecisionsOfAlert(a)
           /\ AllWait(a) => AllWait(a)'
           /\ OnlyOne(a) => OnlyOne(a)'
           /\ TypesStay
BY DEF SameRows, DecisionsOfAlert, AllWait, Waits, OnlyOne, TypesStay

(* Who takes a step that is not of a run leaves types and alerts alone.    *)
LEMMA OthersKeepRows ==
    ASSUME NoRowWriters, QuietInv, [Next]_vars, \A e \in DecisionRuns : ~EngineStep(e)
    PROVE  SameRows
<1>1. KInv
  BY DEF QuietInv
<1>2. decisions' = decisions => SameRows
  BY DEF SameRows
<1>3. ASSUME NEW w \in ActionWorkers, WorkerStep(w) PROVE SameRows
  <2>1. CASE MarkPerformed(w)
    <3>1. PICK d \in DOMAIN decisions :
             /\ decisions[d] \in Decisions
             /\ decisions' = [decisions EXCEPT ![d] = [decisions[d] EXCEPT !.status = "PERFORMED"]]
      BY <1>1, <2>1, MarkChanges
    <3> QED
      BY <3>1 DEF SameRows, Decisions
  <2>2. CASE ~MarkPerformed(w)
    BY <1>2, <1>3, <2>2, PassLeavesDecisions DEF WorkerStep
  <2> QED
    BY <2>1, <2>2
<1>4. ASSUME NEW o \in Operators, OperatorStep(o) PROVE SameRows
  <2>1. CASE SetActionTypeOnManualDecision(o)
    <3>1. task[o].memo # NoValue
      BY <2>1 DEF QuietInv, OperatorSettles, SetActionTypeOnManualDecision
    <3>2. PICK d \in DOMAIN decisions :
             /\ decisions[d] \in Decisions
             /\ decisions' = [decisions EXCEPT ![d] = [decisions[d] EXCEPT !.memo = task[o].memo]]
      BY <1>1, <2>1, MemoChanges DEF DecisionsOfAlert
    <3> QED
      BY <3>1, <3>2 DEF SameRows, Decisions
  <2>2. CASE WriteStatus(o)
    BY <1>2, <2>2 DEF WriteStatus
  <2> QED
    BY <1>4, <2>1, <2>2, RequestsLeft DEF OperatorStep
<1>5. ASSUME NEW o \in Operators, ChoiceStep(o) PROVE SameRows
  BY <1>2, <1>5 DEF ChoiceStep, ChooseAction, store
<1>6. CASE OtherStep \/ DeathStep
  BY <1>2, <1>6 DEF OtherStep, DeathStep
<1> QED
  BY <1>1, <1>3, <1>4, <1>5, <1>6, WhoseStep

(* A step of a run leaves, or makes, every alert decided once ...          *)
LEMMA RunDecidesOnce ==
    ASSUME OneDecisionRun, OnceInv, crashes = 0, NEW e \in DecisionRuns, EngineStep(e)
    PROVE  EngineOnce(e)' /\ TypesStay /\ \A a \in AlertIds : AlertOnce(a)'
<1>1. /\ QuietInv /\ KInv /\ StoreTypeOK /\ run[e] \in Runs /\ EngineKnows(e)
      /\ alertStatus \in [AlertIds -> AlertStatus]
      /\ EngineOnce(e) /\ \A a \in AlertIds : AlertOnce(a)
  BY DEF OnceInv, QuietInv, KInv, IInv, TypeOK, StoreTypeOK, DETypeOK
<1>2. \A a : /\ Busy(a) <=> (run[e].pc = "status" /\ run[e].alert = a)
             /\ Busy(a)' <=> (run'[e].pc = "status" /\ run'[e].alert = a)
  BY DEF OneDecisionRun, Busy
<1>3. /\ run[e].phase \in {"OPEN", "PENDING"} /\ run[e].todo \in SUBSET AlertIds
      /\ run[e].plan \in Plans
  BY <1>1 DEF Runs
<1>4. ASSUME WriteDecision(e), Adds(run[e]), run[e].plan.write = "add",
             run'[e] = [run[e] EXCEPT !.pc = "status"], alertStatus' = alertStatus
      PROVE  EngineOnce(e)' /\ TypesStay /\ \A a \in AlertIds : AlertOnce(a)'
  <2>1. PICK x : x = run[e]
    OBVIOUS
  <2>2. /\ run'[e].pc = "status" /\ run'[e].phase = x.phase /\ run'[e].todo = x.todo
        /\ run'[e].alert = x.alert /\ run'[e].plan = x.plan
        /\ x.pc = "write" /\ x.phase = "OPEN"
    BY <1>1, <1>4, <2>1 DEF Runs, WriteDecision, EngineKnows
  <2>3. PICK row \in Decisions :
           /\ AddDecision(row)
           /\ row.issue = x.alert /\ row.rule = x.plan.rule
           /\ row.decisionType = x.plan.type
    BY <1>4, <2>1 DEF Adds
  <2> DEFINE new == Len(decisions) + 1
  <2>4. /\ DOMAIN decisions' = DOMAIN decisions \cup {new} /\ new \notin DOMAIN decisions
        /\ decisions'[new] = row
        /\ \A d \in DOMAIN decisions : decisions'[d] = decisions[d]
    BY <1>1, <2>3, RowAdded
  <2> HIDE DEF new
  <2>5. DecisionsOfAlert(x.alert) = {} /\ x.alert \notin x.todo
    BY <1>1, <1>4, <2>1, <2>2 DEF EngineOnce
  <2>6. /\ DecisionsOfAlert(x.alert)' = {new}
        /\ \A a : a # x.alert => DecisionsOfAlert(a)' = DecisionsOfAlert(a)
    BY <2>3, <2>4, <2>5 DEF DecisionsOfAlert
  <2>7. x.plan.final = "PENDING" => decisions'[new].decisionType = "MANUAL_ACTION"
    BY <1>1, <2>1, <2>2, <2>3, <2>4 DEF EngineKnows, Agrees, RuleType
  <2>8. EngineOnce(e)'
    <3>1. \A a \in x.todo : DecisionsOfAlert(a)' = {}
      BY <1>1, <2>1, <2>2, <2>5, <2>6 DEF EngineOnce
    <3>2. x.plan.final = "PENDING" => AllWait(x.alert)'
      BY <2>6, <2>7 DEF AllWait, Waits
    <3> QED
      BY <2>2, <2>5, <3>1, <3>2 DEF EngineOnce
  <2>9. ASSUME NEW a \in AlertIds PROVE AlertOnce(a)'
    <3>1. CASE a = x.alert
      BY <1>2, <2>2, <2>6, <3>1 DEF AlertOnce, OnlyOne
    <3>2. CASE a # x.alert
      <4>1. ~Busy(a) /\ ~Busy(a)' /\ DecisionsOfAlert(a)' = DecisionsOfAlert(a) /\ AlertOnce(a)
        BY <1>1, <1>2, <2>1, <2>2, <2>6, <3>2
      <4>2. AllWait(a) => AllWait(a)'
        BY <2>4, <4>1 DEF AllWait, Waits, DecisionsOfAlert
      <4> QED
        BY <1>4, <4>1, <4>2 DEF AlertOnce, OnlyOne
    <3> QED
      BY <3>1, <3>2
  <2> QED
    BY <2>4, <2>8, <2>9 DEF TypesStay
<1>5. ASSUME WriteDecision(e), Updates(run[e]), run[e].plan.write = "updateForFinding",
             run'[e] = [run[e] EXCEPT !.pc = "status"], alertStatus' = alertStatus
      PROVE  EngineOnce(e)' /\ TypesStay /\ \A a \in AlertIds : AlertOnce(a)'
  <2>1. PICK x : x = run[e]
    OBVIOUS
  <2>2. /\ run'[e].pc = "status" /\ run'[e].phase = x.phase /\ run'[e].todo = x.todo
        /\ run'[e].alert = x.alert /\ run'[e].plan = x.plan
        /\ x.pc = "write"
    BY <1>1, <1>5, <2>1 DEF Runs, WriteDecision
  <2>3. x.plan.final = "PROCESSED"
    BY <1>1, <1>5, <2>1, <2>2 DEF EngineKnows, Agrees
  <2>4. AllWait(x.alert) /\ x.alert \notin x.todo
    BY <1>1, <1>5, <2>1, <2>2 DEF EngineOnce
  <2>5. \A a : DecisionsOfAlert(a)' = DecisionsOfAlert(a)
    BY <1>5 DEF Updates, DecisionsOfAlert
  <2>6. \A a : a # x.alert /\ AllWait(a) => AllWait(a)'
    BY <1>5, <2>1 DEF Updates, AllWait, Waits, DecisionsOfAlert
  <2>7. EngineOnce(e)'
    BY <1>1, <2>1, <2>2, <2>3, <2>4, <2>5, <2>6 DEF EngineOnce
  <2>8. ASSUME NEW a \in AlertIds PROVE AlertOnce(a)'
    BY <1>1, <1>2, <1>5, <2>1, <2>2, <2>5, <2>6 DEF AlertOnce, OnlyOne
  <2>9. TypesStay
    BY <1>5, <2>1, <2>4 DEF Updates, TypesStay, AllWait, DecisionsOfAlert
  <2> QED
    BY <2>7, <2>8, <2>9
<1>6. ASSUME decisions' = decisions
      PROVE  /\ \A a : /\ DecisionsOfAlert(a)' = DecisionsOfAlert(a)
                       /\ AllWait(a)' <=> AllWait(a)
                       /\ OnlyOne(a)' <=> OnlyOne(a)
             /\ TypesStay
  BY <1>6 DEF DecisionsOfAlert, AllWait, Waits, OnlyOne, TypesStay
<1>7. CASE UNCHANGED <<alertStatus, decisions>> /\ run'[e] = Idle /\ WriteDecision(e)
  <2>1. EngineOnce(e)'
    BY <1>7 DEF EngineOnce, Idle
  <2>2. \A a : ~Busy(a)
    BY <1>2, <1>7 DEF WriteDecision
  <2> QED
    BY <1>1, <1>6, <1>7, <2>1, <2>2 DEF AlertOnce
<1>8. CASE ~WriteDecision(e) /\ ~WriteAlertStatus(e)
  <2>1. UNCHANGED <<alertStatus, decisions>>
    BY <1>8, RunLeavesDecisions DEF EngineStep
  <2>2. \/ ReadsRules(e) \/ ReadsList(e) \/ PlansAlert(e)
        \/ SkipsAlert(e) /\ run[e].pc \in {"loop", "status"}
    BY <1>1, <1>8, RunMoves DEF EngineStep
  <2>3. run[e].pc # "status" /\ run'[e].pc # "status"
    <3>1. run[e].pc # "status"
      BY <1>8 DEF EngineStep, DEStep, LoadDecisionRules, QueryAlerts, EndOfList, ProcessAlert
    <3> QED
      BY <2>2, <3>1 DEF ReadsRules, ReadsList, PlansAlert, SkipsAlert
  <2>4. \A a \in AlertIds : AlertOnce(a)'
    BY <1>1, <1>2, <1>6, <2>1, <2>3 DEF AlertOnce
  <2>5. EngineOnce(e)'
    <3>1. CASE ReadsRules(e)
      BY <3>1 DEF ReadsRules, EngineOnce
    <3>2. CASE ReadsList(e)
      <4>1. \A a \in ActiveAlertsByStatus(run[e].phase) :
               a \in AlertIds /\ AlertOnce(a) /\ alertStatus[a] = run[e].phase /\ ~Busy(a)
        BY <1>1, <1>2, <2>3 DEF ActiveAlertsByStatus
      <4>2. /\ run[e].phase = "OPEN" => \A a \in run'[e].todo : DecisionsOfAlert(a)' = {}
            /\ run[e].phase = "PENDING" => \A a \in run'[e].todo : AllWait(a)'
        BY <1>6, <2>1, <3>2, <4>1 DEF ReadsList, AlertOnce
      <4> QED
        BY <3>2, <4>2 DEF ReadsList, EngineOnce
    <3>3. CASE PlansAlert(e)
      BY <1>1, <1>6, <2>1, <3>3 DEF PlansAlert, EngineOnce
    <3>4. CASE SkipsAlert(e)
      BY <1>1, <1>6, <2>1, <3>4 DEF SkipsAlert, EngineOnce
    <3> QED
      BY <2>2, <3>1, <3>2, <3>3, <3>4
  <2> QED
    BY <1>6, <2>1, <2>4, <2>5
<1>9. CASE WriteAlertStatus(e)
  <2>1. /\ run[e].pc = "status" /\ decisions' = decisions
        /\ alertStatus' = [alertStatus EXCEPT ![run[e].alert] = run[e].plan.final]
        /\ ~WriteDecision(e)
    BY <1>9 DEF WriteAlertStatus, UpdateAlertStatus, WriteDecision
  <2>2. SkipsAlert(e)
    <3>1. run \in [DecisionRuns -> Runs]
      BY <1>1 DEF KInv, IInv, TypeOK, DETypeOK
    <3>2. run'[e] = Rest(run[e], run[e].todo)
      BY <1>9, <3>1 DEF WriteAlertStatus, Becomes
    <3> QED
      BY <1>1, <1>3, <3>2, RestRun DEF SkipsAlert
  <2>3. EngineOnce(e)'
    BY <1>1, <1>6, <2>1, <2>2 DEF SkipsAlert, EngineOnce
  <2>4. \A a : ~Busy(a)'
    BY <1>2, <2>2 DEF SkipsAlert
  <2>5. run[e].plan.final \in {"PROCESSED", "PENDING"}
    BY <1>3 DEF Plans
  <2>6. ASSUME NEW a \in AlertIds PROVE AlertOnce(a)'
    <3>1. CASE a = run[e].alert
      <4>1. alertStatus'[a] = run[e].plan.final
        BY <1>1, <2>1, <3>1
      <4>2. run[e].plan.final = "PENDING" => AllWait(a)
        BY <1>1, <2>1, <3>1 DEF EngineOnce
      <4> QED
        BY <1>1, <1>6, <2>1, <2>5, <4>1, <4>2 DEF AlertOnce
    <3>2. CASE a # run[e].alert
      <4>1. alertStatus'[a] = alertStatus[a] /\ ~Busy(a)
        BY <1>1, <1>2, <2>1, <3>2
      <4> QED
        BY <1>1, <1>6, <2>1, <2>4, <4>1 DEF AlertOnce
    <3> QED
      BY <3>1, <3>2
  <2> QED
    BY <1>6, <2>1, <2>3, <2>6
<1> QED
  BY <1>1, <1>4, <1>5, <1>7, <1>8, <1>9, WriteHasOutcomes

(* ... and so does every other step: alerts become OPEN when they arrive,  *)
(* without a decision, and PENDING only by a run.                          *)
LEMMA OthersDecideOnce ==
    ASSUME NoRowWriters, OnceInv, crashes = 0, [Next]_vars, ~DeathStep,
           \A e \in DecisionRuns : ~EngineStep(e)
    PROVE  /\ \A e \in DecisionRuns : EngineOnce(e)'
           /\ \A a \in AlertIds : AlertOnce(a)'
           /\ TypesStay
<1>1. QuietInv /\ KInv /\ SameRows
  BY OthersKeepRows DEF OnceInv, QuietInv
<1>2. run' = run
  BY <1>1, WhoseStep DEF WorkerStep, OperatorStep, ChoiceStep, OtherStep
<1>3. \A a : Busy(a)' <=> Busy(a)
  BY <1>2 DEF Busy
<1>4. \A a : /\ DecisionsOfAlert(a)' = DecisionsOfAlert(a)
             /\ AllWait(a) => AllWait(a)'
             /\ OnlyOne(a) => OnlyOne(a)'
  BY <1>1, SameDecisions
<1>5. ASSUME NEW e \in DecisionRuns PROVE EngineOnce(e)'
  BY <1>2, <1>4 DEF OnceInv, EngineOnce
<1>6. ASSUME NEW a \in AlertIds PROVE AlertOnce(a)'
  <2>1. AlertOnce(a)
    BY DEF OnceInv
  <2>2. CASE alertStatus'[a] = alertStatus[a]
    BY <1>3, <1>4, <2>1, <2>2 DEF AlertOnce
  <2>3. CASE alertStatus'[a] # alertStatus[a]
    <3>1. CASE \E o \in Operators : /\ task[o].pc = "status" /\ alertStatus'[a] = task[o].final
      <4>1. alertStatus'[a] = "PROCESSED"
        BY <1>1, <3>1 DEF QuietInv, KInv, IInv, TypeOK, OCTypeOK, Tasks, OperatorSettles, OperatorInv
      <4> QED
        BY <1>4, <2>1, <4>1 DEF AlertOnce
    <3>2. CASE alertStatus[a] = "ABSENT" /\ alertStatus'[a] = "OPEN"
      <4>1. DecisionsOfAlert(a) = {}
        BY <1>1, <3>2 DEF KInv, KeysRefer, Known, DecisionsOfAlert
      <4> QED
        BY <1>4, <2>1, <3>2, <4>1 DEF AlertOnce
    <3> QED
      BY <1>1, <2>3, <3>1, <3>2, WhoProcesses
  <2> QED
    BY <2>2, <2>3
<1> QED
  BY <1>1, <1>5, <1>6, SameDecisions

(* What was done stays what the decision says.                             *)
LEMMA FitsStays ==
    ASSUME TypesStay, NEW d \in DOMAIN decisions, NEW kind, Fits(d, kind)
    PROVE  Fits(d, kind)'
BY DEF TypesStay, Fits, Waits

(* An order asks for what its decision says when it is read.               *)
LEMMA OrdersFit ==
    ASSUME NEW p \in OpenOrders
    PROVE  Fits(p.decision, p.kind)
BY DEF OpenOrders, Fits, KindOf

(* The steps of a pass: it reads the OPEN decisions, takes one order after *)
(* the other, carries it out, records it, marks it and is done.            *)
Fetches(w) ==
    /\ worker[w].pc = "idle"
    /\ worker'[w].pc = "loop" /\ worker'[w].todo = OpenOrders
    /\ UNCHANGED <<decisions, actions>>

Takes(w) ==
    /\ worker[w].pc = "loop" /\ worker'[w].pc \in {"pair", "record"}
    /\ \E p \in worker[w].todo :
          worker'[w].order = p /\ worker'[w].todo = worker[w].todo \ {p}
    /\ UNCHANGED <<decisions, actions>>

CarriesOut(w) ==
    /\ worker[w].pc = "pair" /\ worker'[w].pc = "record"
    /\ worker'[w].order = worker[w].order /\ worker'[w].todo = worker[w].todo
    /\ UNCHANGED <<decisions, actions>>

PutsOnRecord(w) ==
    /\ worker[w].pc = "record" /\ worker'[w].pc = "status"
    /\ worker'[w].order = worker[w].order /\ worker'[w].todo = worker[w].todo
    /\ actions' = Append(actions, [decision |-> worker[w].order.decision,
                                   kind |-> worker[w].order.kind])
    /\ UNCHANGED decisions

Marks(w) ==
    /\ worker[w].pc = "status" /\ worker'[w].pc = "loop"
    /\ worker'[w].todo = worker[w].todo
    /\ LET d == worker[w].order.decision
       IN  /\ d \in DOMAIN decisions
           /\ decisions[d] \in Decisions
           /\ decisions' = [decisions EXCEPT ![d] = [decisions[d] EXCEPT !.status = "PERFORMED"]]
    /\ UNCHANGED actions

Finishes(w) ==
    /\ worker[w].pc \in {"loop", "dead"}
    /\ worker'[w] = Asleep
    /\ UNCHANGED <<decisions, actions>>

(* Every step of a pass is one of these.                                   *)
LEMMA PassMoves ==
    ASSUME KInv, NEW w \in ActionWorkers, AEStep(w) \/ WorkerStarts(w)
    PROVE  \/ Fetches(w) \/ Takes(w) \/ CarriesOut(w)
           \/ PutsOnRecord(w) \/ Marks(w) \/ Finishes(w)
<1>0. PICK x : x = worker[w]
  OBVIOUS
<1>1. /\ x \in Workers /\ worker \in [ActionWorkers -> Workers]
      /\ x.todo \in SUBSET Orders /\ x.order \in Orders \cup {NoOrder}
  BY <1>0 DEF KInv, IInv, TypeOK, AETypeOK, Workers
<1>2. \A y : Continue(w, y) => worker'[w] = y
  BY <1>1 DEF Continue
<1>3. ASSUME NEW o, NEW kinds, NEW pc \in {"pair", "record"}, Processing(w, o, kinds),
             TakeOrder(w, o, pc), UNCHANGED <<decisions, actions>>
      PROVE  Takes(w)
  <2>1. o \in x.todo
    BY <1>0, <1>1, <1>3 DEF Processing
  <2>2. worker'[w] = [pc |-> pc, todo |-> x.todo \ {o}, order |-> o]
    BY <1>0, <1>2, <1>3 DEF TakeOrder
  <2>3. x.pc = "loop"
    BY <1>0, <1>3 DEF Processing
  <2> QED
    BY <1>0, <1>3, <2>1, <2>2, <2>3 DEF Takes
<1>4. CASE FetchOpenDecisions(w)
  <2>1. /\ worker'[w] = [Asleep EXCEPT !.pc = "loop", !.todo = OpenOrders]
        /\ UNCHANGED <<decisions, actions>> /\ worker[w].pc = "idle"
    BY <1>2, <1>4 DEF FetchOpenDecisions, store
  <2> QED
    BY <2>1 DEF Fetches, Asleep
<1>5. CASE NotifyOrIgnore(w)
  BY <1>3, <1>5 DEF NotifyOrIgnore, store
<1>6. CASE BlockSource(w)
  BY <1>3, <1>6 DEF BlockSource, ControllerOnly
<1>7. CASE BlockDestination(w)
  BY <1>3, <1>7 DEF BlockDestination, ControllerOnly
<1>8. CASE BlockPairAtSource(w)
  BY <1>3, <1>8 DEF BlockPairAtSource, ControllerOnly
<1>9. CASE BlockPairAtDestination(w)
  <2>1. worker'[w] = [x EXCEPT !.pc = "record"] /\ x.pc = "pair"
    BY <1>0, <1>2, <1>9 DEF BlockPairAtDestination
  <2>2. UNCHANGED <<decisions, actions>>
    BY <1>9 DEF BlockPairAtDestination, ControllerOnly
  <2> QED
    BY <1>0, <1>1, <2>1, <2>2 DEF CarriesOut, Workers
<1>10. CASE RecordAction(w)
  <2>1. worker'[w] = [x EXCEPT !.pc = "status"] /\ x.pc = "record"
    BY <1>0, <1>2, <1>10 DEF RecordAction
  <2>2. /\ UNCHANGED decisions
        /\ actions' = Append(actions, [decision |-> x.order.decision, kind |-> x.order.kind])
    BY <1>0, <1>10 DEF RecordAction, AddAction
  <2> QED
    BY <1>0, <1>1, <2>1, <2>2 DEF PutsOnRecord, Workers
<1>11. CASE MarkPerformed(w)
  <2>1. worker'[w] = [x EXCEPT !.pc = "loop", !.order = NoOrder] /\ x.pc = "status"
    BY <1>0, <1>2, <1>11 DEF MarkPerformed
  <2>2. worker'[w].pc = "loop" /\ worker'[w].todo = x.todo
    BY <1>1, <2>1 DEF Workers
  <2> QED
    BY <1>0, <1>11, <2>1, <2>2, MarkChanges DEF Marks
<1>12. CASE EndOfDecisions(w) \/ WorkerStarts(w)
  BY <1>2, <1>12 DEF EndOfDecisions, WorkerStarts, Finishes, store
<1> QED
  BY <1>4, <1>5, <1>6, <1>7, <1>8, <1>9, <1>10, <1>11, <1>12 DEF AEStep

(* A row of table action more.                                             *)
LEMMA ActionRows ==
    ASSUME StoreTypeOK, NEW row, actions' = Append(actions, row)
    PROVE  /\ Len(actions) \in Nat
           /\ DOMAIN actions' = DOMAIN actions \cup {Len(actions) + 1}
           /\ Len(actions) + 1 \notin DOMAIN actions
           /\ actions'[Len(actions) + 1] = row
           /\ \A n \in DOMAIN actions : actions'[n] = actions[n]
<1>1. actions \in Seq(Actions)
  BY DEF StoreTypeOK
<1>2. /\ Len(actions) \in Nat /\ DOMAIN actions = 1 .. Len(actions)
      /\ DOMAIN actions' = 1 .. (Len(actions) + 1)
      /\ actions'[Len(actions) + 1] = row
      /\ \A n \in 1 .. Len(actions) : actions'[n] = actions[n]
  BY <1>1
<1> QED
  BY <1>2

(* A pass knows what its decisions say while it carries them out.          *)
LEMMA PassesFit ==
    ASSUME NoRowWriters, OnceInv, crashes = 0, [Next]_vars, ~DeathStep, TypesStay
    PROVE  /\ \A w \in ActionWorkers : WorkerFits(w)'
           /\ ActionsFit'
<1>1. /\ QuietInv /\ KInv /\ StoreTypeOK /\ ActionsFit /\ KeysRefer
      /\ worker \in [ActionWorkers -> Workers]
      /\ \A w \in ActionWorkers : WorkerInv(w) /\ WorkerFits(w)
  BY DEF OnceInv, QuietInv, KInv, IInv, TypeOK, AETypeOK
<1>2. \A d \in DOMAIN decisions : \A kind :
         Fits(d, kind) /\ decisions'[d].memo = NoValue =>
            kind = decisions'[d].decisionType /\ kind # "MANUAL_ACTION"
  BY DEF TypesStay, Fits, Waits
<1> DEFINE FitsNow(d, kind) == decisions'[d].memo = NoValue =>
                                  kind = decisions'[d].decisionType /\ kind # "MANUAL_ACTION"
<1>3. ASSUME NEW w \in ActionWorkers
      PROVE  /\ \A p \in worker[w].todo : FitsNow(p.decision, p.kind)
             /\ worker[w].pc \in {"pair", "record"} =>
                   FitsNow(worker[w].order.decision, worker[w].order.kind)
  BY <1>1, <1>2 DEF WorkerInv, WorkerFits
<1>4. \A n \in DOMAIN actions : FitsNow(actions[n].decision, actions[n].kind)
  BY <1>1, <1>2 DEF ActionsFit, KeysRefer
<1>5. ASSUME NEW w \in ActionWorkers,
             \A p \in worker'[w].todo : FitsNow(p.decision, p.kind),
             worker'[w].pc \in {"pair", "record"} =>
                FitsNow(worker'[w].order.decision, worker'[w].order.kind)
      PROVE  WorkerFits(w)'
  BY <1>5 DEF WorkerFits, Fits
<1>6. actions' = actions => ActionsFit'
  BY <1>4 DEF ActionsFit, Fits
<1>7. \A w \in ActionWorkers : worker'[w] = worker[w] => WorkerFits(w)'
  BY <1>3, <1>5
<1>8. ASSUME NEW w \in ActionWorkers, WorkerStep(w)
      PROVE  WorkerFits(w)' /\ ActionsFit'
  <2>1. CASE Fetches(w)
    <3>1. \A p \in OpenOrders : p.decision \in DOMAIN decisions /\ Fits(p.decision, p.kind)
      BY <1>1, OrdersFit, OrdersOfDecisions
    <3>2. \A p \in OpenOrders : FitsNow(p.decision, p.kind)
      BY <1>2, <3>1
    <3> QED
      BY <1>5, <1>6, <2>1, <3>2 DEF Fetches
  <2>2. CASE Takes(w)
    <3>1. PICK p \in worker[w].todo :
             worker'[w].order = p /\ worker'[w].todo = worker[w].todo \ {p}
      BY <2>2 DEF Takes
    <3> QED
      BY <1>3, <1>5, <1>6, <2>2, <3>1 DEF Takes
  <2>3. CASE CarriesOut(w)
    BY <1>3, <1>5, <1>6, <2>3 DEF CarriesOut
  <2>4. CASE PutsOnRecord(w)
    <3>1. WorkerFits(w)'
      BY <1>3, <1>5, <2>4 DEF PutsOnRecord
    <3>2. \A n \in DOMAIN actions' : FitsNow(actions'[n].decision, actions'[n].kind)
      <4> DEFINE row == [decision |-> worker[w].order.decision, kind |-> worker[w].order.kind]
      <4>1. FitsNow(row.decision, row.kind) /\ actions' = Append(actions, row)
        BY <1>3, <2>4 DEF PutsOnRecord
      <4> HIDE DEF row, FitsNow
      <4> QED
        BY <1>1, <1>4, <4>1, ActionRows
    <3> QED
      BY <3>1, <3>2 DEF ActionsFit, Fits
  <2>5. CASE Marks(w)
    BY <1>3, <1>5, <1>6, <2>5 DEF Marks
  <2>6. CASE Finishes(w)
    BY <1>5, <1>6, <2>6 DEF Finishes, Asleep
  <2> QED
    BY <1>1, <1>8, <2>1, <2>2, <2>3, <2>4, <2>5, <2>6, PassMoves DEF WorkerStep
<1>9. CASE \E w \in ActionWorkers : WorkerStep(w)
  BY <1>7, <1>8, <1>9 DEF WorkerStep
<1>10. CASE UNCHANGED worker /\ actions' = actions
  BY <1>6, <1>7, <1>10
<1>11. ASSUME NEW e \in DecisionRuns, EngineStep(e) PROVE UNCHANGED worker /\ actions' = actions
  BY <1>1, <1>11, RunLeavesDecisions, WriteHasOutcomes DEF EngineStep
<1>12. ASSUME NEW o \in Operators, OperatorStep(o) PROVE UNCHANGED worker /\ actions' = actions
  BY <1>1, <1>12, RequestsLeft
     DEF OperatorStep, SetActionTypeOnManualDecision, WriteStatus
<1>13. ASSUME NEW o \in Operators, ChoiceStep(o) PROVE UNCHANGED worker /\ actions' = actions
  BY <1>13 DEF ChoiceStep, ChooseAction, store
<1> QED
  BY <1>1, <1>9, <1>10, <1>11, <1>12, <1>13, WhoseStep DEF OtherStep

(* An alert is decided once by every step but a death, after which nothing *)
(* is promised.                                                            *)
LEMMA StepKeepsOnceInv ==
    ASSUME NoRowWriters, OneDecisionRun, OnceInv, [Next]_vars
    PROVE  OnceInv'
<1>1. QuietInv' /\ QuietInv
  BY StepKeepsQuietInv DEF OnceInv
<1>2. crashes \in Nat
  BY DEF OnceInv, QuietInv, KInv, IInv, TypeOK
<1>3. ASSUME crashes' = 0
      PROVE  /\ \A a \in AlertIds : AlertOnce(a)'
             /\ \A e \in DecisionRuns : EngineOnce(e)'
             /\ \A w \in ActionWorkers : WorkerFits(w)'
             /\ ActionsFit'
  <2>1. crashes = 0 /\ ~DeathStep
    <3>1. ~DeathStep
      BY <1>2, <1>3 DEF DeathStep
    <3>2. crashes' = crashes
      BY <1>1, <3>1, WhoseStep
         DEF QuietInv, EngineStep, WorkerStep, OperatorStep, ChoiceStep, OtherStep
    <3> QED
      BY <1>3, <3>1, <3>2
  <2>2. /\ \A a \in AlertIds : AlertOnce(a)'
        /\ \A e \in DecisionRuns : EngineOnce(e)'
        /\ TypesStay
    <3>1. CASE \E e \in DecisionRuns : EngineStep(e)
      BY <2>1, <3>1, RunDecidesOnce DEF OneDecisionRun
    <3>2. CASE \A e \in DecisionRuns : ~EngineStep(e)
      BY <2>1, <3>2, OthersDecideOnce
    <3> QED
      BY <3>1, <3>2
  <2>3. /\ \A w \in ActionWorkers : WorkerFits(w)'
        /\ ActionsFit'
    BY <2>1, <2>2, PassesFit
  <2> QED
    BY <2>2, <2>3
<1> QED
  BY <1>1, <1>3 DEF OnceInv

(* Before anything happened nothing happened twice.                        *)
LEMMA OnceInvHoldsInitially == Init => OnceInv
<1> SUFFICES ASSUME Init PROVE OnceInv
  OBVIOUS
<1>1. QuietInv
  BY QuietInvHoldsInitially
<1>2. DOMAIN decisions = {} /\ DOMAIN actions = {}
  BY DEF Init, StoreInit
<1>3. ASSUME NEW a \in AlertIds PROVE AlertOnce(a)
  BY <1>2 DEF AlertOnce, OnlyOne, DecisionsOfAlert, AllWait
<1>4. ASSUME NEW e \in DecisionRuns PROVE EngineOnce(e)
  BY DEF Init, DEInit, EngineOnce, Idle
<1>5. ASSUME NEW w \in ActionWorkers PROVE WorkerFits(w)
  BY DEF Init, AEInit, WorkerFits, Asleep
<1>6. ActionsFit
  BY <1>2 DEF ActionsFit
<1> QED
  BY <1>1, <1>3, <1>4, <1>5, <1>6 DEF OnceInv

(* One run of the decision engine at a time and no rows written back: the  *)
(* invariant holds for every number of alerts, rules, operators, passes    *)
(* and crashes.                                                            *)
THEOREM OnceAlways ==
    ASSUME NoRowWriters, OneDecisionRun
    PROVE  Spec => []OnceInv
<1>1. OnceInv /\ [Next]_vars => OnceInv'
  BY StepKeepsOnceInv
<1> QED
  BY <1>1, OnceInvHoldsInitially, PTL DEF Spec

(* Then, as long as nothing crashed, processAlert stores one decision for  *)
(* an alert, however often it is listed: the @OneToOne of Decision.java.   *)
THEOREM DecidedOnce ==
    ASSUME NoRowWriters, OneDecisionRun
    PROVE  Spec => []OneDecisionPerAlert
<1>1. ASSUME OnceInv PROVE OneDecisionPerAlert
  <2>1. ASSUME crashes = 0, NEW a \in AlertIds PROVE Cardinality(DecisionsOfAlert(a)) <= 1
    <3>1. OnlyOne(a)
      BY <1>1, <2>1 DEF OnceInv, AlertOnce
    <3>2. CASE DecisionsOfAlert(a) = {}
      BY <3>2, FS_EmptySet
    <3>3. ASSUME NEW d \in DecisionsOfAlert(a) PROVE Cardinality(DecisionsOfAlert(a)) = 1
      <4>1. DecisionsOfAlert(a) = {d}
        BY <3>1, <3>3 DEF OnlyOne
      <4> QED
        BY <4>1, FS_Singleton
    <3> QED
      BY <3>2, <3>3
  <2> QED
    BY <2>1 DEF OneDecisionPerAlert
<1> QED
  BY <1>1, OnceAlways, PTL

(* And until the first crash, what processDecision did for a PERFORMED     *)
(* decision in which no operator has chosen is what the decision says.     *)
THEOREM PerformedAsDecided ==
    ASSUME NoRowWriters, OneDecisionRun
    PROVE  Spec => []PerformedMatchesAction
<1>1. ASSUME OnceInv PROVE PerformedMatchesAction
  <2>1. ASSUME crashes = 0, NEW d \in DOMAIN decisions,
               decisions[d].status = "PERFORMED", decisions[d].memo = NoValue
        PROVE  \E n \in ActionsOf(d) : actions[n].kind = KindOf(decisions[d])
    <3>1. ActionsFit /\ ActionsOf(d) # {}
      BY <1>1, <2>1 DEF OnceInv, QuietInv, KInv, IInv, PerformedHasAction
    <3>2. PICK n \in ActionsOf(d) : TRUE
      BY <3>1
    <3>3. Fits(d, actions[n].kind)
      BY <3>1, <3>2 DEF ActionsFit, ActionsOf
    <3> QED
      BY <2>1, <3>2, <3>3 DEF Fits, KindOf
  <2> QED
    BY <2>1 DEF PerformedMatchesAction
<1> QED
  BY <1>1, OnceAlways, PTL

-----------------------------------------------------------------------------
(* One pass at a time: each decision is carried out once                   *)

(* What a pass still has to do was not done: its orders are of decisions   *)
(* without an action, one order for each.                                  *)
CarriesOnce(w) ==
    LET x == worker[w]
    IN  /\ \A p, q \in x.todo : p.decision = q.decision => p = q
        /\ \A p \in x.todo : ActionsOf(p.decision) = {}
        /\ x.pc \in {"pair", "record", "status"} =>
              \A p \in x.todo : p.decision # x.order.decision
        /\ x.pc \in {"pair", "record"} => ActionsOf(x.order.decision) = {}

(* A decision with an action is no longer OPEN, or a pass is about to mark *)
(* it.                                                                     *)
RecordedOnce(d) ==
    /\ \A n, m \in ActionsOf(d) : n = m
    /\ decisions[d].status = "OPEN" /\ ActionsOf(d) # {} =>
          \E w \in ActionWorkers : worker[w].pc = "status" /\ worker[w].order.decision = d

CarriedInv ==
    /\ QuietInv
    /\ crashes = 0 =>
          /\ \A w \in ActionWorkers : CarriesOnce(w)
          /\ \A d \in DOMAIN decisions : RecordedOnce(d)

(* The list a pass reads has one order for a decision, which is OPEN.      *)
LEMMA OrdersAreOfOpen ==
    /\ \A p \in OpenOrders : p.decision \in DecisionsByStatus("OPEN")
    /\ \A p, q \in OpenOrders : p.decision = q.decision => p = q
BY DEF OpenOrders

(* A pass carries out once what it carries out ...                         *)
LEMMA PassCarriesOnce ==
    ASSUME OneActionWorker, CarriedInv, crashes = 0, NEW w \in ActionWorkers, WorkerStep(w)
    PROVE  CarriesOnce(w)' /\ \A d \in DOMAIN decisions' : RecordedOnce(d)'
<1>0. PICK x, y : x = worker[w] /\ y = worker'[w]
  OBVIOUS
<1>1. /\ KInv /\ StoreTypeOK /\ CarriesOnce(w) /\ WorkerInv(w)
      /\ \A d \in DOMAIN decisions : RecordedOnce(d)
  BY DEF CarriedInv, QuietInv, KInv, IInv, TypeOK
<1>2. \A v \in ActionWorkers : v = w
  BY DEF OneActionWorker
<1>3. ASSUME actions' = actions
      PROVE  \A d : ActionsOf(d)' = ActionsOf(d)
  BY <1>3 DEF ActionsOf
<1>4. ASSUME UNCHANGED <<decisions, actions>>, x.pc # "status"
      PROVE  \A d \in DOMAIN decisions' : RecordedOnce(d)'
  BY <1>0, <1>1, <1>2, <1>3, <1>4 DEF RecordedOnce
<1>5. CASE Fetches(w)
  <2>1. ASSUME NEW p \in OpenOrders PROVE ActionsOf(p.decision) = {}
    <3>1. p.decision \in DOMAIN decisions /\ decisions[p.decision].status = "OPEN"
      BY OrdersAreOfOpen DEF DecisionsByStatus
    <3> QED
      BY <1>0, <1>1, <1>2, <1>5, <3>1 DEF Fetches, RecordedOnce
  <2>2. CarriesOnce(w)'
    BY <1>3, <1>5, <2>1, OrdersAreOfOpen DEF Fetches, CarriesOnce
  <2> QED
    BY <1>0, <1>4, <1>5, <2>2 DEF Fetches
<1>6. CASE Takes(w)
  <2>1. PICK p \in x.todo : y.order = p /\ y.todo = x.todo \ {p}
    BY <1>0, <1>6 DEF Takes
  <2>2. /\ \A q \in y.todo : q \in x.todo /\ q # p
        /\ ActionsOf(p.decision) = {}
        /\ \A q, r \in x.todo : q.decision = r.decision => q = r
        /\ \A q \in x.todo : ActionsOf(q.decision) = {}
    BY <1>0, <1>1, <2>1 DEF CarriesOnce
  <2>3. actions' = actions
    BY <1>6 DEF Takes
  <2>4. CarriesOnce(w)'
    BY <1>0, <1>3, <2>1, <2>2, <2>3 DEF CarriesOnce
  <2> QED
    BY <1>0, <1>4, <1>6, <2>4 DEF Takes
<1>7. CASE CarriesOut(w)
  <2>1. CarriesOnce(w)'
    BY <1>1, <1>3, <1>7 DEF CarriesOut, CarriesOnce
  <2> QED
    BY <1>0, <1>4, <1>7, <2>1 DEF CarriesOut
<1>8. CASE PutsOnRecord(w)
  <2> DEFINE row == [decision |-> x.order.decision, kind |-> x.order.kind]
             new == Len(actions) + 1
  <2>1. row.decision = x.order.decision /\ actions' = Append(actions, row)
    BY <1>0, <1>8 DEF PutsOnRecord
  <2> HIDE DEF row
  <2>2. /\ DOMAIN actions' = DOMAIN actions \cup {new} /\ new \notin DOMAIN actions
        /\ actions'[new] = row
        /\ \A n \in DOMAIN actions : actions'[n] = actions[n]
    BY <1>1, <2>1, ActionRows
  <2> HIDE DEF new
  <2>3. /\ \A d : d # x.order.decision => ActionsOf(d)' = ActionsOf(d)
        /\ ActionsOf(x.order.decision)' = ActionsOf(x.order.decision) \cup {new}
    BY <2>1, <2>2 DEF ActionsOf
  <2>4. ActionsOf(x.order.decision) = {}
    BY <1>0, <1>1, <1>8 DEF CarriesOnce, PutsOnRecord
  <2>5. CarriesOnce(w)'
    BY <1>0, <1>1, <1>8, <2>3 DEF CarriesOnce, PutsOnRecord
  <2>6. ASSUME NEW d \in DOMAIN decisions' PROVE RecordedOnce(d)'
    <3>1. d \in DOMAIN decisions /\ decisions' = decisions
      BY <1>8 DEF PutsOnRecord
    <3>2. CASE d = x.order.decision
      BY <1>0, <1>8, <2>3, <2>4, <3>2 DEF PutsOnRecord, RecordedOnce
    <3>3. CASE d # x.order.decision
      BY <1>0, <1>1, <1>2, <1>8, <2>3, <3>1, <3>3 DEF PutsOnRecord, RecordedOnce
    <3> QED
      BY <3>2, <3>3
  <2> QED
    BY <2>5, <2>6
<1>9. CASE Marks(w)
  <2>1. CarriesOnce(w)'
    BY <1>1, <1>3, <1>9 DEF Marks, CarriesOnce
  <2>2. PICK d : /\ d = x.order.decision /\ d \in DOMAIN decisions /\ decisions[d] \in Decisions
                 /\ decisions' = [decisions EXCEPT ![d] = [decisions[d] EXCEPT !.status = "PERFORMED"]]
    BY <1>0, <1>9 DEF Marks
  <2>3. ASSUME NEW c \in DOMAIN decisions' PROVE RecordedOnce(c)'
    <3>1. c \in DOMAIN decisions /\ ActionsOf(c)' = ActionsOf(c)
      BY <1>3, <1>9, <2>2 DEF Marks
    <3>2. CASE c = d
      <4>1. decisions'[c].status = "PERFORMED"
        BY <2>2, <3>2 DEF Decisions
      <4> QED
        BY <1>1, <3>1, <4>1 DEF RecordedOnce
    <3>3. CASE c # d
      <4>1. decisions'[c] = decisions[c]
        BY <2>2, <3>1, <3>3
      <4> QED
        BY <1>0, <1>1, <1>2, <2>2, <3>1, <3>3, <4>1 DEF RecordedOnce
    <3> QED
      BY <3>2, <3>3
  <2> QED
    BY <2>1, <2>3
<1>10. CASE Finishes(w)
  <2>1. CarriesOnce(w)'
    BY <1>10 DEF Finishes, CarriesOnce, Asleep
  <2> QED
    BY <1>0, <1>4, <1>10, <2>1 DEF Finishes
<1> QED
  BY <1>1, <1>5, <1>6, <1>7, <1>8, <1>9, <1>10, PassMoves DEF WorkerStep

(* ... and nobody else takes a decision back or records an action.         *)
LEMMA OthersCarryNothing ==
    ASSUME NoRowWriters, CarriedInv, crashes = 0, [Next]_vars, ~DeathStep,
           \A w \in ActionWorkers : ~WorkerStep(w)
    PROVE  /\ \A w \in ActionWorkers : CarriesOnce(w)'
           /\ \A d \in DOMAIN decisions' : RecordedOnce(d)'
<1>1. /\ QuietInv /\ KInv /\ KeysRefer /\ StoreTypeOK
      /\ \A w \in ActionWorkers : CarriesOnce(w)
      /\ \A d \in DOMAIN decisions : RecordedOnce(d)
  BY DEF CarriedInv, QuietInv, KInv, IInv, TypeOK
<1>2. UNCHANGED <<worker, actions>>
  <2>1. ASSUME NEW e \in DecisionRuns, EngineStep(e) PROVE UNCHANGED <<worker, actions>>
    BY <1>1, <2>1, RunLeavesDecisions, WriteHasOutcomes DEF EngineStep
  <2>2. ASSUME NEW o \in Operators, OperatorStep(o) PROVE UNCHANGED <<worker, actions>>
    BY <1>1, <2>2, RequestsLeft
       DEF OperatorStep, SetActionTypeOnManualDecision, WriteStatus
  <2>3. ASSUME NEW o \in Operators, ChoiceStep(o) PROVE UNCHANGED <<worker, actions>>
    BY <2>3 DEF ChoiceStep, ChooseAction, store
  <2> QED
    BY <1>1, <2>1, <2>2, <2>3, WhoseStep DEF OtherStep
<1>3. \A d : ActionsOf(d)' = ActionsOf(d)
  BY <1>2 DEF ActionsOf
<1>4. ASSUME NEW d \in DOMAIN decisions' PROVE RecordedOnce(d)'
  <2>1. CASE d \in DOMAIN decisions
    <3>1. decisions'[d].status = "OPEN" => decisions[d].status = "OPEN"
      BY <1>1, <2>1, StepIsOnward, DecisionRows DEF Onward, Decisions
    <3> QED
      BY <1>1, <1>2, <1>3, <2>1, <3>1 DEF RecordedOnce
  <2>2. CASE d \notin DOMAIN decisions
    <3>1. ActionsOf(d) = {}
      BY <1>1, <2>2 DEF KeysRefer, ActionsOf
    <3> QED
      BY <1>3, <3>1 DEF RecordedOnce
  <2> QED
    BY <2>1, <2>2
<1> QED
  BY <1>1, <1>2, <1>3, <1>4 DEF CarriesOnce

(* A decision is carried out once by every step but a death.               *)
LEMMA StepKeepsCarriedInv ==
    ASSUME NoRowWriters, OneActionWorker, CarriedInv, [Next]_vars
    PROVE  CarriedInv'
<1>1. QuietInv' /\ QuietInv
  BY StepKeepsQuietInv DEF CarriedInv
<1>2. crashes \in Nat
  BY DEF CarriedInv, QuietInv, KInv, IInv, TypeOK
<1>3. ASSUME crashes' = 0
      PROVE  /\ \A w \in ActionWorkers : CarriesOnce(w)'
             /\ \A d \in DOMAIN decisions' : RecordedOnce(d)'
  <2>1. ~DeathStep
    BY <1>2, <1>3 DEF DeathStep
  <2>2. crashes = 0
    BY <1>1, <1>3, <2>1, WhoseStep
       DEF QuietInv, EngineStep, WorkerStep, OperatorStep, ChoiceStep, OtherStep
  <2>3. CASE \E w \in ActionWorkers : WorkerStep(w)
    BY <2>2, <2>3, PassCarriesOnce DEF OneActionWorker
  <2>4. CASE \A w \in ActionWorkers : ~WorkerStep(w)
    BY <2>1, <2>2, <2>4, OthersCarryNothing
  <2> QED
    BY <2>3, <2>4
<1> QED
  BY <1>1, <1>3 DEF CarriedInv

(* One pass of the action engine at a time and no rows written back: the   *)
(* invariant holds for every number of runs of the decision engine.        *)
THEOREM CarriedAlways ==
    ASSUME NoRowWriters, OneActionWorker
    PROVE  Spec => []CarriedInv
<1>1. Init => CarriedInv
  <2> SUFFICES ASSUME Init PROVE CarriedInv
    OBVIOUS
  <2>1. QuietInv /\ DOMAIN decisions = {}
    BY QuietInvHoldsInitially DEF Init, StoreInit
  <2>2. \A w \in ActionWorkers : CarriesOnce(w)
    BY DEF Init, AEInit, CarriesOnce, Asleep
  <2> QED
    BY <2>1, <2>2 DEF CarriedInv
<1>2. CarriedInv /\ [Next]_vars => CarriedInv'
  BY StepKeepsCarriedInv
<1> QED
  BY <1>1, <1>2, PTL DEF Spec

(* Then, as long as nothing crashed, setCarriedOut adds one action for a   *)
(* decision, however often its alert is updated in the meantime: the       *)
(* @OneToOne of Action.java.                                               *)
THEOREM CarriedOutOnce ==
    ASSUME NoRowWriters, OneActionWorker
    PROVE  Spec => []OneActionPerDecision
<1>1. ASSUME CarriedInv PROVE OneActionPerDecision
  <2>1. ASSUME crashes = 0, NEW d \in DOMAIN decisions PROVE Cardinality(ActionsOf(d)) <= 1
    <3>1. \A n, m \in ActionsOf(d) : n = m
      BY <1>1, <2>1 DEF CarriedInv, RecordedOnce
    <3>2. CASE ActionsOf(d) = {}
      BY <3>2, FS_EmptySet
    <3>3. ASSUME NEW n \in ActionsOf(d) PROVE Cardinality(ActionsOf(d)) = 1
      <4>1. ActionsOf(d) = {n}
        BY <3>1, <3>3
      <4> QED
        BY <4>1, FS_Singleton
    <3> QED
      BY <3>2, <3>3
  <2> QED
    BY <2>1 DEF OneActionPerDecision
<1> QED
  BY <1>1, CarriedAlways, PTL
=============================================================================
