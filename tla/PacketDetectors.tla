-------------------------- MODULE PacketDetectors --------------------------
(***************************************************************************)
(* The three detectors of the packet analyser as objects: DoSDetector,     *)
(* MSPConnectivityDetector and ValueOutOfBoundDetector.  What a message    *)
(* violates is abstracted to Hits, with one rule per message; what a       *)
(* denial of service is, to the counts and the window of its rule.         *)
(***************************************************************************)
EXTENDS Integers, FiniteSets, SequencesExt

CONSTANTS
    ActiveModules,  \* the detectors of the engine, in the order init adds them
    Packets,
    TimeOf,         \* time stamp of a packet, in milliseconds
    SrcOf, DstOf,   \* its addresses
    Hits,           \* Hits[d]: the packets whose message violates a rule of d
    DosNumber,      \* packets that make a denial of service
    DosWindow       \* its time window, in milliseconds

(* What init of PacketAnalyserEngine adds.  An instance may leave out one  *)
(* of the message detectors, which are alike.                              *)
AllModules == <<"DoS", "MSPConnectivity", "ValueOutOfBound">>
Detectors == Range(ActiveModules)
MessageDetectors == Detectors \ {"DoS"}

ASSUME PacketAssumption ==
    /\ ActiveModules \in Seq(Range(AllModules))
    /\ ActiveModules # <<>> /\ IsInjective(ActiveModules)
    /\ TimeOf \in [Packets -> Nat]
    /\ DOMAIN SrcOf = Packets /\ DOMAIN DstOf = Packets
    /\ Hits \in [MessageDetectors -> SUBSET Packets]
    /\ DosNumber \in Nat \ {0} /\ DosWindow \in Nat

Addresses == {SrcOf[p] : p \in Packets} \cup {DstOf[p] : p \in Packets}
AnyAddress == "*"

Times == {-1} \cup {TimeOf[p] : p \in Packets}

MessageAlerts == [detector : MessageDetectors, packet : Packets]
FloodAlerts == [detector : {"DoS"}, src : Addresses, dst : Addresses \cup {AnyAddress},
                number : Nat, at : Nat]
Alerts == MessageAlerts \cup FloodAlerts

-----------------------------------------------------------------------------
(* ruled: the detector has a rule.  now: when it was activated.  last: the *)
(* cutoff it was given.  current: the latest time stamp it has seen since  *)
(* it was created.  found: the packets counted, or to be reported.         *)
States == [ruled : BOOLEAN, now : Nat \cup {-1}, last : Times, current : Times,
           found : Seq(Packets)]

NewDetector == [ruled |-> FALSE, now |-> -1, last |-> -1, current |-> -1, found |-> <<>>]

(* Mutant: the container of the run before is kept.                        *)
ActivateKeepingFindings(d, s, rules, time) ==
    [s EXCEPT !.ruled = d \in rules, !.now = time]

(* activate: fresh containers and the rules of this moment, but dosRule is *)
(* only ever replaced.                                                     *)
Activate(d, s, rules, time) ==
    [s EXCEPT !.ruled = d \in rules \/ (d = "DoS" /\ s.ruled),
              !.now = time, !.found = <<>>]

(* Mutant: packets of any age count.                                       *)
IsFindingOfAnyAge(d, s, p) ==
    IF d = "DoS" THEN TimeOf[p] >= s.last
    ELSE TimeOf[p] > s.last /\ p \in Hits[d]

(* Whether analyse counts or reports a packet: not before the cutoff, and  *)
(* in the window or a violation.                                           *)
IsFinding(d, s, p) ==
    IF d = "DoS" THEN TimeOf[p] >= s.last /\ s.now - TimeOf[p] <= DosWindow
    ELSE TimeOf[p] > s.last /\ p \in Hits[d]

(* analyse of one packet.                                                  *)
Analyse(d, s, p) ==
    IF ~s.ruled THEN s
    ELSE [s EXCEPT !.current = IF TimeOf[p] > @ THEN TimeOf[p] ELSE @,
                   !.found = IF IsFinding(d, s, p) THEN Append(@, p) ELSE @]

(* The packets of a source, to one destination or to any.                  *)
Between(p, src, dst) == SrcOf[p] = src /\ dst \in {DstOf[p], AnyAddress}

Count(s, src, dst) ==
    Cardinality({i \in DOMAIN s.found : Between(s.found[i], src, dst)})

(* done of DoSDetector: an alert for each source, and for each pair, that  *)
(* reaches the number of its rule.                                         *)
Floods(s) ==
    {[detector |-> "DoS", src |-> src, dst |-> dst, number |-> Count(s, src, dst),
      at |-> s.now] : src \in Addresses, dst \in Addresses \cup {AnyAddress}}

(* What done stores, alert by alert.                                       *)
Findings(d, s) ==
    IF d = "DoS" THEN SetToSeq({f \in Floods(s) : f.number >= DosNumber})
    ELSE [i \in DOMAIN s.found |-> [detector |-> d, packet |-> s.found[i]]]
=============================================================================
