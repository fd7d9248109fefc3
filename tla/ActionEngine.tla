---------------------------- MODULE ActionEngine ----------------------------
(***************************************************************************)
(* ActionEngine.runEnginesOnce, which the engine's own process repeats     *)
(* every 30 seconds and the console starts once per request.  It works     *)
(* through a snapshot of the OPEN decisions: an automated decision is      *)
(* carried out through the OpenDaylight controller (ODLNBI) and recorded   *)
(* by two transactions, the row of table action and the status PERFORMED.  *)
(***************************************************************************)
EXTENDS ResponseStore

CONSTANTS
    ActionWorkers,  \* threads that can execute runEnginesOnce
    SwitchOf        \* the switch the controller's inventory lists a host on

ASSUME SwitchAssumption == SwitchOf \in [Hosts -> Switches \cup {NoValue}]

VARIABLE worker     \* worker[w]: the locals of thread w

(* The action processDecision takes: its type, or for a MANUAL_ACTION the  *)
(* memo, in which the operator's choice is kept; NoValue is the no-op.     *)
KindOf(row) == IF row.decisionType = "MANUAL_ACTION" THEN row.memo ELSE row.decisionType

(* What the engine still needs of an OPEN decision it has read.            *)
Orders == [decision : Nat \ {0}, kind : Automated,
           src : Hosts \cup {NoValue}, dst : Hosts \cup {NoValue}]

NoOrder == [decision |-> 0, kind |-> "IGNORE", src |-> NoValue, dst |-> NoValue]

OpenOrders ==
    {[decision |-> d, kind |-> KindOf(decisions[d]),
      src |-> decisions[d].src, dst |-> decisions[d].dst] :
        d \in {e \in DecisionsByStatus("OPEN") : KindOf(decisions[e]) # NoValue}}

Workers == [pc : {"idle", "loop", "pair", "record", "status", "dead"},
            todo : SUBSET Orders, order : Orders \cup {NoOrder}]

Asleep == [pc |-> "idle", todo |-> {}, order |-> NoOrder]

Dead == [Asleep EXCEPT !.pc = "dead"]

AETypeOK == worker \in [ActionWorkers -> Workers]

AEInit == worker = [w \in ActionWorkers |-> Asleep]

Continue(w, rec) == worker' = [worker EXCEPT ![w] = rec]

-----------------------------------------------------------------------------
(* ODLNBI *)

(* getSwitchHostIPMapping: a host the inventory does not list has no       *)
(* switch, and the request then names a node that is not a switch.         *)
SwitchOfHost(h) == IF h = NoValue THEN NoValue ELSE SwitchOf[h]

FlowOf(kind, src, dst) ==
    CASE kind = "BLOCK_SOURCE"       -> [src |-> src, dst |-> AnyHost]
      [] kind = "BLOCK_DESTINATION"  -> [src |-> AnyHost, dst |-> dst]
      [] kind = "BLOCK_BETWEEN_PAIR" -> [src |-> src, dst |-> dst]

(* putRestCall: the flow always has id 1, so it replaces the one before.   *)
(* A request that fails leaves the switch alone and is only reported in    *)
(* the text that is returned, which is never null.                         *)
PutRestCall(s, flow) ==
    \/ /\ s \in Switches
       /\ flows' = [flows EXCEPT ![s] = flow]
    \/ UNCHANGED flows

-----------------------------------------------------------------------------
(* runEnginesOnce: the query.                                              *)
FetchOpenDecisions(w) ==
    /\ worker[w].pc = "idle"
    /\ OpenOrders # {}
    /\ Continue(w, [Asleep EXCEPT !.pc = "loop", !.todo = OpenOrders])
    /\ UNCHANGED store

(* processDecision is called for the next decision of the list, any of     *)
(* them since the query asks for no order, and its action is one of kinds. *)
Processing(w, o, kinds) ==
    /\ worker[w].pc = "loop"
    /\ o \in worker[w].todo
    /\ o.kind \in kinds

(* ... and leaves the worker at pc.                                        *)
TakeOrder(w, o, pc) ==
    Continue(w, [pc |-> pc, todo |-> worker[w].todo \ {o}, order |-> o])

ControllerOnly == UNCHANGED <<alertStatus, alertSeverity, decisionRules, decisions, actions>>

(* Mutants: an ignored decision leaves no action; a block of a source is   *)
(* sent to the other switch; a refused block is not carried out.           *)
NotifyUnrecorded(w) ==
    /\ \E o \in worker[w].todo :
          /\ Processing(w, o, {"ALERT_ONLY", "IGNORE"})
          /\ TakeOrder(w, o, "status")
    /\ UNCHANGED store

BlockSourceAtDestination(w) ==
    /\ \E o \in worker[w].todo :
          /\ Processing(w, o, {"BLOCK_SOURCE"})
          /\ PutRestCall(SwitchOfHost(o.dst), FlowOf(o.kind, o.src, o.dst))
          /\ TakeOrder(w, o, "record")
    /\ ControllerOnly

BlockDestinationOrGiveUp(w) ==
    /\ \E o \in worker[w].todo :
          /\ Processing(w, o, {"BLOCK_DESTINATION"})
          /\ PutRestCall(SwitchOfHost(o.dst), FlowOf(o.kind, o.src, o.dst))
          /\ IF flows' = flows
             THEN Continue(w, [worker[w] EXCEPT !.todo = @ \ {o}])
             ELSE TakeOrder(w, o, "record")
    /\ ControllerOnly

(* An e-mail, whose failure sendMessage swallows, or nothing at all.       *)
NotifyOrIgnore(w) ==
    /\ \E o \in worker[w].todo :
          /\ Processing(w, o, {"ALERT_ONLY", "IGNORE"})
          /\ TakeOrder(w, o, "record")
    /\ UNCHANGED store

(* applySourceBlockRule, applyDestinationBlockRule: one request.           *)
BlockSource(w) ==
    /\ \E o \in worker[w].todo :
          /\ Processing(w, o, {"BLOCK_SOURCE"})
          /\ PutRestCall(SwitchOfHost(o.src), FlowOf(o.kind, o.src, o.dst))
          /\ TakeOrder(w, o, "record")
    /\ ControllerOnly

BlockDestination(w) ==
    /\ \E o \in worker[w].todo :
          /\ Processing(w, o, {"BLOCK_DESTINATION"})
          /\ PutRestCall(SwitchOfHost(o.dst), FlowOf(o.kind, o.src, o.dst))
          /\ TakeOrder(w, o, "record")
    /\ ControllerOnly

(* applyPairBlockRule: the switch of the source, then, whatever came of    *)
(* it, the switch of the destination.                                      *)
BlockPairAtSource(w) ==
    /\ \E o \in worker[w].todo :
          /\ Processing(w, o, {"BLOCK_BETWEEN_PAIR"})
          /\ PutRestCall(SwitchOfHost(o.src), FlowOf(o.kind, o.src, o.dst))
          /\ TakeOrder(w, o, "pair")
    /\ ControllerOnly

BlockPairAtDestination(w) ==
    /\ worker[w].pc = "pair"
    /\ LET o == worker[w].order
       IN  PutRestCall(SwitchOfHost(o.dst), FlowOf(o.kind, o.src, o.dst))
    /\ Continue(w, [worker[w] EXCEPT !.pc = "record"])
    /\ ControllerOnly

(* setCarriedOut: the row of table action, whatever the outcome was ...    *)
RecordAction(w) ==
    /\ worker[w].pc = "record"
    /\ AddAction(worker[w].order.decision, worker[w].order.kind)
    /\ Continue(w, [worker[w] EXCEPT !.pc = "status"])
    /\ UNCHANGED <<alertStatus, alertSeverity, decisionRules, decisions, flows>>

(* ... then the status of the decision.                                    *)
MarkPerformed(w) ==
    /\ worker[w].pc = "status"
    /\ UpdateDecisionStatus(worker[w].order.decision, "PERFORMED")
    /\ Continue(w, [worker[w] EXCEPT !.pc = "loop", !.order = NoOrder])
    /\ UNCHANGED <<alertStatus, alertSeverity, decisionRules, actions, flows>>

EndOfDecisions(w) ==
    /\ worker[w].pc = "loop"
    /\ worker[w].todo = {}
    /\ Continue(w, Asleep)
    /\ UNCHANGED store

(* The process stops, or the database fails: main catches no exception,    *)
(* and the loop of passes is over.                                         *)
WorkerDies(w) ==
    /\ worker[w].pc # "dead"
    /\ Continue(w, Dead)
    /\ UNCHANGED store

(* Somebody starts the engine again; nothing in the code does.             *)
WorkerStarts(w) ==
    /\ worker[w].pc = "dead"
    /\ Continue(w, Asleep)
    /\ UNCHANGED store

AEStep(w) ==
    \/ FetchOpenDecisions(w)
    \/ NotifyOrIgnore(w)
    \/ BlockSource(w)
    \/ BlockDestination(w)
    \/ BlockPairAtSource(w)
    \/ BlockPairAtDestination(w)
    \/ RecordAction(w)
    \/ MarkPerformed(w)
    \/ EndOfDecisions(w)
=============================================================================
