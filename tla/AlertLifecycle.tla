--------------------------- MODULE AlertLifecycle ---------------------------
(***************************************************************************)
(* What the response pipeline promises of a finding, whatever is           *)
(* interleaved and wherever it stops: a decision about an alert is stored  *)
(* before the alert leaves the list of OPEN ones, to which it never comes  *)
(* back; nothing stored is lost; and a decision is PERFORMED only after    *)
(* the action taken is on record.                                          *)
(***************************************************************************)
CONSTANT Alerts

VARIABLES
    status,     \* column status of each alert
    decided,    \* alerts with a decision
    stored,     \* decisions stored
    recorded,   \* decisions with an action on record
    performed   \* decisions marked PERFORMED

vars == <<status, decided, stored, recorded, performed>>

Init ==
    /\ status = [a \in Alerts |-> "ABSENT"]
    /\ decided = {}
    /\ stored = {}
    /\ recorded = {}
    /\ performed = {}

Arrive(a) ==
    /\ status[a] = "ABSENT"
    /\ status' = [status EXCEPT ![a] = "OPEN"]
    /\ UNCHANGED <<decided, stored, recorded, performed>>

(* A decision, the first or another one, about a known alert.              *)
Decide(a) ==
    /\ status[a] # "ABSENT"
    /\ decided' = decided \cup {a}
    /\ \E d \in stored' \ stored : stored' = stored \cup {d}
    /\ UNCHANGED <<status, recorded, performed>>

(* The alert waits for an operator, or needs nothing more.                 *)
Leave(a) ==
    /\ a \in decided
    /\ \E s \in {"PENDING", "PROCESSED"} : status' = [status EXCEPT ![a] = s]
    /\ UNCHANGED <<decided, stored, recorded, performed>>

Record(d) ==
    /\ d \in stored
    /\ recorded' = recorded \cup {d}
    /\ UNCHANGED <<status, decided, stored, performed>>

Perform(d) ==
    /\ d \in recorded
    /\ performed' = performed \cup {d}
    /\ UNCHANGED <<status, decided, stored, recorded>>

(* A row written back as it was read opens a decision again.               *)
Reopen(d) ==
    /\ performed' = performed \ {d}
    /\ UNCHANGED <<status, decided, stored, recorded>>

Next ==
    \/ \E a \in Alerts : Arrive(a) \/ Decide(a) \/ Leave(a)
    \/ \E d \in stored : Record(d) \/ Perform(d) \/ Reopen(d)

Spec == Init /\ [][Next]_vars
=============================================================================
