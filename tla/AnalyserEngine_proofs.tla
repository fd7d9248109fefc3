----------------------- MODULE AnalyserEngine_proofs -----------------------
(***************************************************************************)
(* What the analyser reports, for every number of packets, detectors and   *)
(* interruptions: no violation up to the cutoff is skipped, each is        *)
(* reported once per interruption, and a flood counts packets there were.  *)
(* The detectors are shared by the runs of the engine, so each theorem     *)
(* assumes that requests run it one at a time; the first also assumes that *)
(* no two packets have one time stamp, since the cutoff is all the next    *)
(* run knows.                                                              *)
(***************************************************************************)
EXTENDS AnalyserEngine, FiniteSetTheorems, TLAPS

OneRun == \A r, s \in Runs : r = s

DistinctTimes == \A p, q \in Packets : TimeOf[p] = TimeOf[q] => p = q

-----------------------------------------------------------------------------
(* What holds however many runs there are *)

SeenTimes == {-1} \cup {TimeOf[p] : p \in captured}

BaseInv ==
    /\ TypeOK
    /\ IsFiniteSet(captured)
    /\ \A p \in captured : TimeOf[p] <= now
    /\ \A d \in Detectors : detector[d].current \in SeenTimes
    /\ \A r \in Runs : run[r].packets \subseteq captured /\ run[r].latest \in SeenTimes
    /\ \A r \in Runs, d \in Detectors :
          /\ thread[r][d].todo \subseteq captured
          /\ thread[r][d].pc = "analyse" => detector[d].now \in 0 .. now
          /\ thread[r][d].pc = "done" => thread[r][d].left # <<>>

-----------------------------------------------------------------------------
(* One run at a time *)

(* The detectors the loops over activeModules have passed.                 *)
Passed(r, d) == \E i \in DOMAIN ActiveModules : i < run[r].next /\ ActiveModules[i] = d

HasStarted(r, d) ==
    \/ run[r].pc \in {"join", "write"}
    \/ run[r].pc = "start" /\ Passed(r, d)

HasJoined(r, d) ==
    \/ run[r].pc = "write"
    \/ run[r].pc = "join" /\ Passed(r, d)

(* A run works on packets after the cutoff, which is the one it read, and  *)
(* knows the latest time of the detectors it joined.                       *)
RunInv(r) ==
    LET x == run[r]
    IN  /\ x.pc = "query" => x.next = 1 /\ x.latest = -1
        /\ x.pc \in {"query", "start", "join", "write"} => x.last = cutoff
        /\ x.pc \in {"start", "join", "write"} =>
              \A p \in x.packets : p \in captured /\ TimeOf[p] > cutoff
        /\ \A d \in Detectors : HasJoined(r, d) => detector[d].current <= x.latest

(* The packets counted, or to be reported, are some the thread is done     *)
(* with, each of them once and, for a flood, within the window.            *)
FoundInv(r, d) ==
    LET s == detector[d]
    IN  /\ \A i, j \in DOMAIN s.found : s.found[i] = s.found[j] => i = j
        /\ \A i \in DOMAIN s.found :
              /\ s.found[i] \in run[r].packets \ thread[r][d].todo
              /\ d = "DoS" => s.now - TimeOf[s.found[i]] <= DosWindow
        /\ \A p \in run[r].packets : TimeOf[p] <= s.now

(* The alerts still to store are of the detector, each of them once; those *)
(* for a flood count packets there were.                                   *)
LeftInv(r, d) ==
    LET left == thread[r][d].left
    IN  /\ \A i \in DOMAIN left : left[i].detector = d
        /\ d # "DoS" => \A i, j \in DOMAIN left : left[i] = left[j] => i = j
        /\ d = "DoS" => \A a \in Range(left) : a.number <= Cardinality(PacketsOf(a))

ThreadInv(r, d) ==
    LET t == thread[r][d]
    IN  /\ t.pc # "over" => HasStarted(r, d) /\ ~HasJoined(r, d)
        /\ t.pc \in {"over", "done"} => t.todo = {}
        /\ t.pc \in {"activate", "analyse"} =>
              t.todo \subseteq run[r].packets /\ detector[d].last = cutoff
        /\ t.pc = "analyse" => FoundInv(r, d)
        /\ t.pc = "done" => LeftInv(r, d)

(* A violation that is reported as soon as the thread goes on.             *)
PendingIn(r, d, p) ==
    \/ /\ thread[r][d].pc = "analyse"
       /\ \E i \in DOMAIN detector[d].found : detector[d].found[i] = p
    \/ /\ thread[r][d].pc = "done"
       /\ \E i \in DOMAIN thread[r][d].left :
             thread[r][d].left[i] = [detector |-> d, packet |-> p]

Pending(d, p) == \E r \in Runs : PendingIn(r, d, p)

Reports(d, p) == Copies(d, p) + IF Pending(d, p) THEN 1 ELSE 0

(* The run has the packet behind it.                                       *)
AnalysedIn(r, d, p) ==
    HasStarted(r, d) /\ thread[r][d].pc # "activate" /\ p \notin thread[r][d].todo

Analysed(d, p) == \E r \in Runs : AnalysedIn(r, d, p)

(* Who has used up the reports of a packet has seen it, and does not see   *)
(* it again before the next interruption.                                  *)
ReportedOnce(d, p) ==
    /\ Reports(d, p) <= 1 + interruptions
    /\ Reports(d, p) > interruptions =>
          /\ TimeOf[p] <= detector[d].current
          /\ TimeOf[p] <= cutoff \/ Analysed(d, p)

OneRunInv ==
    /\ BaseInv
    /\ FloodsCountPackets
    /\ \A r \in Runs : RunInv(r)
    /\ \A r \in Runs, d \in Detectors : ThreadInv(r, d)
    /\ \A d \in MessageDetectors, p \in Packets : ReportedOnce(d, p)

-----------------------------------------------------------------------------
(* Nothing is skipped *)

(* What a detector has seen beyond the cutoff, in runs that could not log  *)
(* theirs, is no more than one query returns ...                           *)
Seen(d) == {q \in captured : cutoff < TimeOf[q] /\ TimeOf[q] <= detector[d].current}

(* ... so that the next query returns it again: what a run did not fetch   *)
(* is later than all any detector has seen.                                *)
FetchInv(r) ==
    run[r].pc \in {"start", "join", "write"} =>
        /\ IsFiniteSet(run[r].packets) /\ Cardinality(run[r].packets) <= Limit
        /\ \A q \in captured \ run[r].packets : TimeOf[q] > cutoff =>
              /\ \A p \in run[r].packets : TimeOf[p] < TimeOf[q]
              /\ \A d \in Detectors : detector[d].current < TimeOf[q]
              /\ run[r].latest < TimeOf[q]

(* A violation of the run is still to be analysed, found or stored.        *)
HitInv(r, d) ==
    LET t == thread[r][d]
    IN  HasStarted(r, d) =>
            /\ t.pc = "activate" => run[r].packets \subseteq t.todo
            /\ t.pc = "analyse" => detector[d].ruled
            /\ \A p \in run[r].packets \cap Hits[d] :
                  Copies(d, p) > 0 \/ p \in t.todo \/ Pending(d, p)

HitsInv ==
    /\ HitsAlerted
    /\ Detectors \ rules \subseteq lapsed
    /\ \A d \in Detectors : Cardinality(Seen(d)) <= Limit
    /\ \A r \in Runs : FetchInv(r)
    /\ \A r \in Runs : \A d \in MessageDetectors \ lapsed : HitInv(r, d)

AllInv == OneRunInv /\ HitsInv

-----------------------------------------------------------------------------
(* Bags, times, locals                                                     *)

(* A row of table alert more.                                              *)
LEMMA BagGrows ==
    ASSUME NEW B, IsABag(B), NEW x
    PROVE  /\ IsABag(B (+) SetToBag({x}))
           /\ BagToSet(B (+) SetToBag({x})) = BagToSet(B) \cup {x}
           /\ \A y : (B (+) SetToBag({x}))[y] = IF y = x THEN (IF BagIn(y, B) THEN B[y] ELSE 0) + 1
                                                ELSE (B (+) SetToBag({x}))[y]
           /\ \A y \in DOMAIN B : y # x => (B (+) SetToBag({x}))[y] = B[y]
BY DEF IsABag, BagToSet, SetToBag, BagIn, (+)

(* Time stamps are numbers, of packets not negative.                       *)
LEMMA TimesAreNumbers ==
    /\ \A t \in Times : t \in Int /\ t >= -1
    /\ \A p \in Packets : TimeOf[p] \in Nat /\ TimeOf[p] \in Times
BY PacketAssumption DEF Times

(* The times of packets that were stored.                                  *)
LEMMA SeenAreTimes ==
    ASSUME captured \subseteq Packets
    PROVE  /\ SeenTimes \subseteq Times
           /\ \A t \in SeenTimes : t \in Int /\ t >= -1
           /\ -1 \in SeenTimes /\ \A p \in captured : TimeOf[p] \in SeenTimes
BY TimesAreNumbers DEF SeenTimes, Times

(* The loops over activeModules are over its places.                       *)
LEMMA Places ==
    /\ Len(ActiveModules) \in Nat \ {0}
    /\ DOMAIN ActiveModules = 1 .. Len(ActiveModules)
    /\ \A i \in DOMAIN ActiveModules : ActiveModules[i] \in Detectors
    /\ \A d \in Detectors : \E i \in DOMAIN ActiveModules : ActiveModules[i] = d
    /\ \A i, j \in DOMAIN ActiveModules : ActiveModules[i] = ActiveModules[j] => i = j
<1>1. /\ ActiveModules \in Seq(Range(AllModules)) /\ ActiveModules # <<>>
      /\ IsInjective(ActiveModules)
  BY PacketAssumption
<1>2. Len(ActiveModules) \in Nat /\ DOMAIN ActiveModules = 1 .. Len(ActiveModules)
  BY <1>1
<1>3. Len(ActiveModules) # 0
  BY <1>1
<1> QED
  BY <1>1, <1>2, <1>3 DEF Detectors, Range, IsInjective

-----------------------------------------------------------------------------
(* Types, and what is known of packets that were stored                    *)

(* One run goes on, the others do not.                                     *)
LEMMA RunChanges ==
    ASSUME run \in [Runs -> RunStates], NEW r \in Runs, NEW x, RunGoesOn(r, x)
    PROVE  /\ run'[r] = x /\ \A s \in Runs \ {r} : run'[s] = run[s]
           /\ x \in RunStates => run' \in [Runs -> RunStates]
BY DEF RunGoesOn

(* One thread goes on, the others do not.                                  *)
LEMMA ThreadChanges ==
    ASSUME thread \in [Runs -> [Detectors -> ThreadStates]],
           NEW r \in Runs, NEW d \in Detectors, NEW t, ThreadGoesOn(r, d, t)
    PROVE  /\ thread'[r][d] = t
           /\ \A s \in Runs, c \in Detectors : s # r \/ c # d => thread'[s][c] = thread[s][c]
           /\ t \in ThreadStates => thread' \in [Runs -> [Detectors -> ThreadStates]]
BY DEF ThreadGoesOn

(* A run's step that keeps to its locals and the cutoff keeps the types.   *)
LEMMA RunKeepsBase ==
    ASSUME BaseInv, NEW r \in Runs, NEW x \in RunStates, RunGoesOn(r, x),
           x.packets \subseteq captured, x.latest \in SeenTimes, cutoff' \in SeenTimes,
           continuous' \in BOOLEAN, interruptions' \in 0 .. MaxInterruptions,
           UNCHANGED <<now, captured, rules, alerts, detector, thread, lapsed, lapses>>
    PROVE  BaseInv'
<1>1. TypeOK
  BY DEF BaseInv
<1>2. /\ run'[r] = x /\ \A s \in Runs \ {r} : run'[s] = run[s]
      /\ run' \in [Runs -> RunStates]
  BY <1>1, RunChanges DEF TypeOK
<1>3. SeenTimes' = SeenTimes
  BY DEF SeenTimes
<1>4. TypeOK'
  BY <1>1, <1>2 DEF TypeOK, SeenTimes
<1>5. \A s \in Runs : run'[s].packets \subseteq captured' /\ run'[s].latest \in SeenTimes'
  BY <1>2, <1>3 DEF BaseInv
<1> QED
  BY <1>3, <1>4, <1>5 DEF BaseInv

(* So does the step of a thread that keeps to its detector and the alerts. *)
LEMMA ThreadKeepsBase ==
    ASSUME BaseInv, NEW r \in Runs, NEW d \in Detectors, NEW t \in ThreadStates,
           NEW s \in States, ThreadGoesOn(r, d, t), detector' = [detector EXCEPT ![d] = s],
           t.todo \subseteq captured, t.pc = "done" => t.left # <<>>,
           s.current \in SeenTimes, t.pc = "analyse" => s.now \in 0 .. now,
           s.now \in {detector[d].now, now},
           IsABag(alerts'), BagToSet(alerts') \subseteq Alerts,
           lapsed' \subseteq Detectors, lapses' \in 0 .. MaxLapses,
           UNCHANGED <<now, captured, rules, cutoff, continuous, run, interruptions>>
    PROVE  BaseInv'
<1>1. TypeOK
  BY DEF BaseInv
<1>2. /\ thread'[r][d] = t
      /\ \A q \in Runs, c \in Detectors : q # r \/ c # d => thread'[q][c] = thread[q][c]
      /\ thread' \in [Runs -> [Detectors -> ThreadStates]]
  BY <1>1, ThreadChanges DEF TypeOK
<1>3. /\ detector' \in [Detectors -> States] /\ detector'[d] = s
      /\ \A c \in Detectors \ {d} : detector'[c] = detector[c]
  BY <1>1 DEF TypeOK
<1>4. SeenTimes' = SeenTimes
  BY DEF SeenTimes
<1>5. TypeOK'
  BY <1>1, <1>2, <1>3 DEF TypeOK
<1>6. \A c \in Detectors : detector'[c].current \in SeenTimes'
  BY <1>3, <1>4 DEF BaseInv
<1>7. ASSUME NEW q \in Runs, NEW c \in Detectors
      PROVE  /\ thread'[q][c].todo \subseteq captured'
             /\ thread'[q][c].pc = "analyse" => detector'[c].now \in 0 .. now'
             /\ thread'[q][c].pc = "done" => thread'[q][c].left # <<>>
  <2>1. CASE q = r /\ c = d
    BY <1>2, <1>3, <2>1
  <2>2. CASE q # r \/ c # d
    <3>1. now \in Nat
      BY <1>1, EngineAssumption DEF TypeOK
    <3>2. thread'[q][c] = thread[q][c]
      BY <1>2, <2>2
    <3>3. detector'[c].now \in {detector[c].now, now}
      BY <1>3
    <3> QED
      BY <3>1, <3>2, <3>3 DEF BaseInv
  <2> QED
    BY <2>1, <2>2
<1> QED
  BY <1>4, <1>5, <1>6, <1>7 DEF BaseInv

(* A set that is finite is the range of the sequence made of it.           *)
LEMMA SeqOfFinite ==
    ASSUME NEW S, IsFiniteSet(S)
    PROVE  SetToSeq(S) \in Seq(S) /\ \A i \in DOMAIN SetToSeq(S) : SetToSeq(S)[i] \in S
<1>1. Cardinality(S) \in Nat /\ ExistsBijection(1 .. Cardinality(S), S)
  BY FS_CardinalityType
<1>2. \E f \in [1 .. Cardinality(S) -> S] : IsInjective(f)
  BY <1>1 DEF ExistsBijection, Bijection, Injection
<1>3. SetToSeq(S) \in [1 .. Cardinality(S) -> S]
  BY <1>2 DEF SetToSeq
<1> QED
  BY <1>1, <1>3

(* The packets of a detector that are from an address to another: finite.  *)
LEMMA CountIsNumber ==
    ASSUME NEW s \in States, NEW src, NEW dst
    PROVE  /\ IsFiniteSet(DOMAIN s.found)
           /\ IsFiniteSet({i \in DOMAIN s.found : Between(s.found[i], src, dst)})
           /\ Count(s, src, dst) \in Nat
<1>1. Len(s.found) \in Nat /\ DOMAIN s.found = 1 .. Len(s.found)
  BY DEF States
<1>2. IsFiniteSet(DOMAIN s.found)
  <2>1. \A n \in Nat : IsFiniteSet(1 .. n)
    BY FS_Interval
  <2> QED
    BY <1>1, <2>1
<1>3. IsFiniteSet({i \in DOMAIN s.found : Between(s.found[i], src, dst)})
  BY <1>2, FS_Subset
<1> QED
  BY <1>2, <1>3, FS_CardinalityType DEF Count

(* The range of a function with a finite domain is finite.                 *)
LEMMA ImageIsFinite ==
    ASSUME NEW g, g = [y \in DOMAIN g |-> g[y]], IsFiniteSet(DOMAIN g)
    PROVE  IsFiniteSet({g[y] : y \in DOMAIN g})
<1> DEFINE T == {g[y] : y \in DOMAIN g}
<1>1. g \in Surjection(DOMAIN g, T)
  BY DEF Surjection
<1> QED
  <2> HIDE DEF T
  <2>1. IsFiniteSet(T)
    BY <1>1, FS_Surjection
  <2> QED
    BY <2>1 DEF T

(* A detector that counted finitely many packets finds finitely many       *)
(* floods: each is of a packet, to its destination or to any.              *)
LEMMA FloodsAreFinite ==
    ASSUME NEW s \in States
    PROVE  IsFiniteSet({f \in Floods(s) : f.number >= DosNumber})
<1> DEFINE Flood(src, dst) ==
              [detector |-> "DoS", src |-> src, dst |-> dst, number |-> Count(s, src, dst),
               at |-> s.now]
           g == [i \in DOMAIN s.found |-> Flood(SrcOf[s.found[i]], DstOf[s.found[i]])]
           h == [i \in DOMAIN s.found |-> Flood(SrcOf[s.found[i]], AnyAddress)]
           T == {g[i] : i \in DOMAIN g}
           U == {h[i] : i \in DOMAIN h}
           S == {f \in Floods(s) : f.number >= DosNumber}
<1>1. IsFiniteSet(DOMAIN s.found)
  BY CountIsNumber
<1>2. IsFiniteSet(T)
  <2>1. DOMAIN g = DOMAIN s.found /\ g = [i \in DOMAIN g |-> g[i]]
    OBVIOUS
  <2> HIDE DEF g
  <2> QED
    BY <1>1, <2>1, ImageIsFinite
<1>3. IsFiniteSet(U)
  <2>1. DOMAIN h = DOMAIN s.found /\ h = [i \in DOMAIN h |-> h[i]]
    OBVIOUS
  <2> HIDE DEF h
  <2> QED
    BY <1>1, <2>1, ImageIsFinite
<1>4. ASSUME NEW i \in DOMAIN s.found
      PROVE  /\ Flood(SrcOf[s.found[i]], DstOf[s.found[i]]) \in T
             /\ Flood(SrcOf[s.found[i]], AnyAddress) \in U
  <2> HIDE DEF Flood
  <2> QED
    OBVIOUS
<1>5. ASSUME NEW f \in S PROVE f \in T \cup U
  <2>1. PICK src \in Addresses, dst \in Addresses \cup {AnyAddress} : f = Flood(src, dst)
    BY <1>5 DEF Floods
  <2>2. Count(s, src, dst) >= 1
    <3>1. f.number = Count(s, src, dst) /\ f.number >= DosNumber
      BY <1>5, <2>1
    <3>2. Count(s, src, dst) \in Nat /\ DosNumber \in Nat \ {0}
      BY CountIsNumber, PacketAssumption
    <3> QED
      BY <3>1, <3>2
  <2>3. {i \in DOMAIN s.found : Between(s.found[i], src, dst)} # {}
    BY <2>2, FS_EmptySet DEF Count
  <2>4. PICK i \in DOMAIN s.found : Between(s.found[i], src, dst)
    BY <2>3
  <2>5. src = SrcOf[s.found[i]] /\ dst \in {DstOf[s.found[i]], AnyAddress}
    BY <2>4 DEF Between
  <2> HIDE DEF T, U, Flood
  <2> QED
    BY <1>4, <2>1, <2>5
<1> QED
  <2> HIDE DEF T, U, S
  <2>1. S \in SUBSET (T \cup U) /\ IsFiniteSet(T \cup U)
    BY <1>2, <1>3, <1>5, FS_Union
  <2>2. IsFiniteSet(S)
    BY <2>1, FS_Subset
  <2> QED
    BY <2>2 DEF S

(* What done finds are alerts.                                             *)
LEMMA FindingsAreAlerts ==
    ASSUME NEW d \in Detectors, NEW s \in States, s.now \in Nat
    PROVE  /\ Findings(d, s) \in Seq(Alerts)
           /\ d = "DoS" => \A i \in DOMAIN Findings(d, s) :
                              Findings(d, s)[i] \in {f \in Floods(s) : f.number >= DosNumber}
<1>1. CASE d = "DoS"
  <2> DEFINE S == {f \in Floods(s) : f.number >= DosNumber}
  <2>1. S \subseteq FloodAlerts
    <3>1. \A src, dst : Count(s, src, dst) \in Nat
      BY CountIsNumber
    <3> QED
      BY <3>1 DEF Floods, FloodAlerts
  <2>2. IsFiniteSet(S)
    BY FloodsAreFinite
  <2>3. Findings(d, s) = SetToSeq(S)
    BY <1>1 DEF Findings
  <2> HIDE DEF S
  <2>4. SetToSeq(S) \in Seq(S) /\ \A i \in DOMAIN SetToSeq(S) : SetToSeq(S)[i] \in S
    BY <2>2, SeqOfFinite
  <2>5. SetToSeq(S) \in Seq(Alerts)
    <3>1. Len(SetToSeq(S)) \in Nat /\ DOMAIN SetToSeq(S) = 1 .. Len(SetToSeq(S))
      BY <2>4
    <3>2. \A i \in 1 .. Len(SetToSeq(S)) : SetToSeq(S)[i] \in Alerts
      BY <2>1, <2>4, <3>1 DEF Alerts
    <3> QED
      BY <2>4, <3>1, <3>2
  <2> QED
    BY <2>3, <2>4, <2>5 DEF S
<1>2. CASE d # "DoS"
  <2>1. Len(s.found) \in Nat /\ DOMAIN s.found = 1 .. Len(s.found)
        /\ \A i \in DOMAIN s.found : s.found[i] \in Packets
    BY DEF States
  <2>2. \A p \in Packets : [detector |-> d, packet |-> p] \in Alerts
    BY <1>2 DEF Alerts, MessageAlerts, MessageDetectors
  <2>3. Findings(d, s) = [i \in 1 .. Len(s.found) |-> [detector |-> d, packet |-> s.found[i]]]
    BY <1>2, <2>1 DEF Findings
  <2>4. Findings(d, s) \in [1 .. Len(s.found) -> Alerts]
    BY <2>1, <2>2, <2>3
  <2> QED
    BY <1>2, <2>1, <2>4
<1> QED
  BY <1>1, <1>2

(* The next step of a loop over activeModules keeps the locals.            *)
LEMMA AdvanceKeeps ==
    ASSUME NEW x \in RunStates, NEW pc \in {"start", "join"}, NEW nextPc \in {"join", "write"}
    PROVE  LET y == Advance(x, pc, nextPc)
           IN  /\ y \in RunStates
               /\ y.packets = x.packets /\ y.latest = x.latest /\ y.last = x.last
               /\ \/ x.next < Len(ActiveModules) /\ y.pc = pc /\ y.next = x.next + 1
                  \/ x.next = Len(ActiveModules) /\ y.pc = nextPc /\ y.next = 1
<1>1. Len(ActiveModules) \in Nat \ {0} /\ DOMAIN ActiveModules = 1 .. Len(ActiveModules)
  BY Places
<1>2. x.next \in 1 .. Len(ActiveModules)
  BY <1>1 DEF RunStates
<1>3. CASE x.next < Len(ActiveModules)
  <2>1. Advance(x, pc, nextPc) = [x EXCEPT !.pc = pc, !.next = x.next + 1]
    BY <1>3 DEF Advance
  <2>2. x.next + 1 \in DOMAIN ActiveModules
    BY <1>1, <1>2, <1>3
  <2> QED
    BY <1>3, <2>1, <2>2 DEF RunStates
<1>4. CASE ~(x.next < Len(ActiveModules))
  <2>1. Advance(x, pc, nextPc) = [x EXCEPT !.pc = nextPc, !.next = 1]
    BY <1>4 DEF Advance
  <2>2. x.next = Len(ActiveModules) /\ 1 \in DOMAIN ActiveModules
    BY <1>1, <1>2, <1>4
  <2> QED
    BY <2>1, <2>2 DEF RunStates
<1> QED
  BY <1>3, <1>4

(* A detector that is activated.                                           *)
LEMMA ActivateKeeps ==
    ASSUME NEW d \in Detectors, NEW s \in States, NEW t \in Nat
    PROVE  LET a == Activate(d, s, rules, t)
           IN  /\ a \in States
               /\ a.current = s.current /\ a.last = s.last /\ a.now = t /\ a.found = <<>>
               /\ a.ruled = (d \in rules \/ (d = "DoS" /\ s.ruled))
<1> DEFINE b == d \in rules \/ (d = "DoS" /\ s.ruled)
<1>1. b \in BOOLEAN
  OBVIOUS
<1>2. Activate(d, s, rules, t) = [s EXCEPT !.ruled = b, !.now = t, !.found = <<>>]
  BY DEF Activate
<1> HIDE DEF b
<1>3. [s EXCEPT !.ruled = b, !.now = t, !.found = <<>>] \in States
  <2>1. [s EXCEPT !.ruled = b] \in States
    BY <1>1, Zenon DEF States
  <2> DEFINE x == [s EXCEPT !.ruled = b]
             y == [x EXCEPT !.now = t]
  <2> HIDE DEF x
  <2>2. t \in Nat \cup {-1} /\ <<>> \in Seq(Packets)
    OBVIOUS
  <2>3. x \in States
    BY <2>1 DEF x
  <2>4. y \in States
    BY <2>2, <2>3, Zenon DEF States
  <2> HIDE DEF y
  <2>5. [y EXCEPT !.found = <<>>] \in States
    BY <2>2, <2>4, Zenon DEF States
  <2> QED
    BY <2>5 DEF x, y
<1>4. /\ Activate(d, s, rules, t).ruled = b /\ Activate(d, s, rules, t).now = t
      /\ Activate(d, s, rules, t).found = <<>>
      /\ Activate(d, s, rules, t).current = s.current /\ Activate(d, s, rules, t).last = s.last
  BY <1>2 DEF States
<1> QED
  BY <1>2, <1>3, <1>4 DEF b

(* Analysis of a packet that was stored.                                   *)
LEMMA AnalyseKeeps ==
    ASSUME NEW d \in Detectors, NEW s \in States, NEW p \in Packets
    PROVE  LET a == Analyse(d, s, p)
           IN  /\ a \in States
               /\ a.now = s.now /\ a.last = s.last /\ a.ruled = s.ruled
               /\ a.current \in {s.current, TimeOf[p]} /\ a.current >= s.current
               /\ s.ruled => a.current >= TimeOf[p]
               /\ a.found = IF s.ruled /\ IsFinding(d, s, p) THEN Append(s.found, p) ELSE s.found
<1>1. TimeOf[p] \in Times /\ TimeOf[p] \in Int /\ s.current \in Int /\ s.current \in Times
  BY TimesAreNumbers DEF States
<1>2. CASE ~s.ruled
  BY <1>1, <1>2 DEF Analyse
<1>3. CASE s.ruled
  <2> DEFINE c == IF TimeOf[p] > s.current THEN TimeOf[p] ELSE s.current
             f == IF IsFinding(d, s, p) THEN Append(s.found, p) ELSE s.found
  <2>1. Analyse(d, s, p) = [s EXCEPT !.current = c, !.found = f]
    BY <1>3 DEF Analyse
  <2>2. c \in Times /\ c \in {s.current, TimeOf[p]} /\ c >= s.current /\ c >= TimeOf[p]
    BY <1>1
  <2>3. f \in Seq(Packets)
    BY DEF States
  <2> HIDE DEF c
  <2>4. f = IF s.ruled /\ IsFinding(d, s, p) THEN Append(s.found, p) ELSE s.found
    BY <1>3
  <2> HIDE DEF f
  <2> QED
    BY <1>3, <2>1, <2>2, <2>3, <2>4 DEF States
<1> QED
  BY <1>2, <1>3

(* A thread that has alerts to store, or is over.                          *)
LEMMA WithAlertsKeeps ==
    ASSUME NEW left \in Seq(Alerts)
    PROVE  /\ WithAlerts(left) \in ThreadStates
           /\ WithAlerts(left).todo = {} /\ WithAlerts(left).left = left
           /\ WithAlerts(left).pc \in {"over", "done"}
           /\ WithAlerts(left).pc = "done" <=> left # <<>>
BY DEF WithAlerts, Over, ThreadStates

(* A thread that was started.                                              *)
LEMMA ThreadStarts ==
    ASSUME NEW ps \in SUBSET Packets
    PROVE  LET t == [Over EXCEPT !.pc = "activate", !.todo = ps]
           IN  t \in ThreadStates /\ t.pc = "activate" /\ t.todo = ps /\ t.left = <<>>
<1>1. Over \in ThreadStates /\ Over.left = <<>>
  BY DEF Over, ThreadStates
<1> QED
  BY <1>1 DEF ThreadStates

(* The first states.                                                       *)
LEMMA BaseInit == Init => BaseInv
<1> SUFFICES ASSUME Init PROVE BaseInv
  OBVIOUS
<1>1. NewDetector \in States
  BY DEF NewDetector, States, Times
<1>2. Idle \in RunStates
  BY Places DEF Idle, RunStates, Times
<1>3. Over \in ThreadStates
  BY DEF Over, ThreadStates
<1>4. IsABag(EmptyBag) /\ BagToSet(EmptyBag) = {}
  BY DEF EmptyBag, IsABag, BagToSet, SetToBag
<1>5. TypeOK
  <2>1. now \in Nat /\ captured \subseteq Packets /\ rules \subseteq Detectors
    BY DEF Init
  <2>2. /\ cutoff \in {-1} \cup {TimeOf[p] : p \in captured} /\ continuous \in BOOLEAN
        /\ lapsed \subseteq Detectors
    BY DEF Init
  <2>3. IsABag(alerts) /\ BagToSet(alerts) \subseteq Alerts
    BY <1>4 DEF Init
  <2>4. /\ detector \in [Detectors -> States] /\ run \in [Runs -> RunStates]
        /\ thread \in [Runs -> [Detectors -> ThreadStates]]
    BY <1>1, <1>2, <1>3 DEF Init
  <2>5. lapses \in 0 .. MaxLapses /\ interruptions \in 0 .. MaxInterruptions
    BY EngineAssumption DEF Init
  <2> QED
    BY <2>1, <2>2, <2>3, <2>4, <2>5 DEF TypeOK
<1>6. IsFiniteSet(captured)
  BY FS_EmptySet DEF Init
<1> QED
  BY <1>5, <1>6 DEF Init, BaseInv, SeenTimes, NewDetector, Idle, Over

(* A packet is stored.                                                     *)
LEMMA BaseCapture ==
    ASSUME BaseInv, NEW p \in Packets, Capture(p)
    PROVE  BaseInv'
<1>1. TypeOK
  BY DEF BaseInv
<1>2. /\ captured' = captured \cup {p} /\ now' = TimeOf[p] /\ now <= now'
      /\ TimeOf[p] \in Nat /\ \A q \in captured : TimeOf[q] \in Nat
      /\ UNCHANGED <<rules, cutoff, alerts, detector, continuous, run, thread,
                     lapsed, lapses, interruptions>>
  BY <1>1, TimesAreNumbers DEF Capture, TypeOK, history
<1>3. SeenTimes \subseteq SeenTimes'
  BY <1>2 DEF SeenTimes
<1>4. TypeOK'
  BY <1>1, <1>2 DEF TypeOK
<1>5. IsFiniteSet(captured')
  BY <1>2, FS_AddElement DEF BaseInv
<1>6. \A q \in captured' : TimeOf[q] <= now'
  BY <1>1, <1>2 DEF BaseInv, TypeOK
<1>7. \A n \in Int : n \in 0 .. now => n \in 0 .. now'
  BY <1>1, <1>2 DEF TypeOK
<1>8. /\ \A d \in Detectors : detector'[d].current \in SeenTimes'
      /\ \A r \in Runs : run'[r].packets \subseteq captured' /\ run'[r].latest \in SeenTimes'
  BY <1>2, <1>3 DEF BaseInv
<1>9. ASSUME NEW r \in Runs, NEW d \in Detectors
      PROVE  /\ thread'[r][d].todo \subseteq captured'
             /\ thread'[r][d].pc = "analyse" => detector'[d].now \in 0 .. now'
             /\ thread'[r][d].pc = "done" => thread'[r][d].left # <<>>
  BY <1>2, <1>7 DEF BaseInv
<1> QED
  BY <1>4, <1>5, <1>6, <1>8, <1>9 DEF BaseInv

(* A detector is started.                                                  *)
LEMMA BaseStart ==
    ASSUME BaseInv, NEW r \in Runs, StartDetector(r)
    PROVE  BaseInv'
<1> DEFINE d == ActiveModules[run[r].next]
           t == [Over EXCEPT !.pc = "activate", !.todo = run[r].packets]
           s == [detector[d] EXCEPT !.last = run[r].last]
           x == Advance(run[r], "start", "join")
<1>1. TypeOK
  BY DEF BaseInv
<1>2. d \in Detectors /\ run[r] \in RunStates /\ detector[d] \in States
  BY <1>1, Places DEF TypeOK, RunStates
<1>3. /\ detector' = [detector EXCEPT ![d] = s] /\ ThreadGoesOn(r, d, t) /\ RunGoesOn(r, x)
      /\ UNCHANGED <<now, captured, rules, cutoff, alerts, continuous, lapsed, lapses, interruptions>>
  BY <1>1, <1>2 DEF StartDetector, ThreadGoesOn, database, history, TypeOK
<1>4. /\ x \in RunStates /\ x.packets = run[r].packets /\ x.latest = run[r].latest
  BY <1>2, AdvanceKeeps
<1>5. s \in States /\ s.current = detector[d].current
  BY <1>2 DEF States, RunStates
<1>6. t \in ThreadStates /\ t.todo \subseteq captured /\ t.pc = "activate"
  <2>1. run[r].packets \subseteq captured /\ captured \subseteq Packets
    BY <1>1 DEF BaseInv, TypeOK
  <2> QED
    BY <2>1, ThreadStarts
<1> HIDE DEF t, s, x, d
<1>7. /\ run'[r] = x /\ \A q \in Runs \ {r} : run'[q] = run[q]
      /\ run' \in [Runs -> RunStates]
  BY <1>1, <1>3, <1>4, RunChanges DEF TypeOK
<1>8. /\ thread'[r][d] = t
      /\ \A q \in Runs, c \in Detectors : q # r \/ c # d => thread'[q][c] = thread[q][c]
      /\ thread' \in [Runs -> [Detectors -> ThreadStates]]
  BY <1>1, <1>2, <1>3, <1>6, ThreadChanges DEF TypeOK
<1>9. /\ detector' \in [Detectors -> States] /\ detector'[d] = s
      /\ \A c \in Detectors \ {d} : detector'[c] = detector[c]
  BY <1>1, <1>2, <1>3, <1>5 DEF TypeOK
<1>10. SeenTimes' = SeenTimes
  BY <1>3 DEF SeenTimes
<1>11. TypeOK'
  BY <1>1, <1>3, <1>7, <1>8, <1>9 DEF TypeOK
<1>12. \A c \in Detectors : detector'[c].current \in SeenTimes'
  BY <1>2, <1>5, <1>9, <1>10 DEF BaseInv
<1>13. \A q \in Runs : run'[q].packets \subseteq captured' /\ run'[q].latest \in SeenTimes'
  BY <1>3, <1>4, <1>7, <1>10 DEF BaseInv
<1>14. ASSUME NEW q \in Runs, NEW c \in Detectors
       PROVE  /\ thread'[q][c].todo \subseteq captured'
              /\ thread'[q][c].pc = "analyse" => detector'[c].now \in 0 .. now'
              /\ thread'[q][c].pc = "done" => thread'[q][c].left # <<>>
  <2>1. CASE q = r /\ c = d
    BY <1>3, <1>6, <1>8, <2>1
  <2>2. CASE q # r \/ c # d
    <3>1. thread'[q][c] = thread[q][c]
      BY <1>8, <2>2
    <3>2. detector'[c].now = detector[c].now
      BY <1>2, <1>9 DEF s, States
    <3> QED
      BY <1>3, <3>1, <3>2 DEF BaseInv
  <2> QED
    BY <2>1, <2>2
<1> QED
  BY <1>3, <1>11, <1>12, <1>13, <1>14 DEF BaseInv

(* The clock, and a change of rules.                                       *)
LEMMA BaseEnvironment ==
    ASSUME BaseInv, Tick \/ \E d \in Detectors : ChangeRules(d)
    PROVE  BaseInv'
<1>1. TypeOK
  BY DEF BaseInv
<1>2. /\ now' \in Nat /\ now <= now' /\ rules' \subseteq Detectors
      /\ lapsed' \subseteq Detectors /\ lapses' \in 0 .. MaxLapses
      /\ UNCHANGED <<captured, cutoff, alerts, detector, continuous, run, thread, interruptions>>
  <2>1. CASE Tick
    BY <1>1, <2>1 DEF Tick, TypeOK, database, history
  <2>2. ASSUME NEW d \in Detectors, ChangeRules(d) PROVE <1>2!:
    BY <1>1, <2>2, EngineAssumption DEF ChangeRules, Lapse, TypeOK
  <2> QED
    BY <2>1, <2>2
<1>3. SeenTimes' = SeenTimes
  BY <1>2 DEF SeenTimes
<1>4. TypeOK'
  BY <1>1, <1>2 DEF TypeOK
<1>5. \A q \in captured' : TimeOf[q] <= now'
  <2>1. \A q \in captured : TimeOf[q] \in Nat /\ TimeOf[q] <= now
    BY <1>1, TimesAreNumbers DEF BaseInv, TypeOK
  <2> QED
    BY <1>1, <1>2, <2>1 DEF TypeOK
<1>6. \A n \in Int : n \in 0 .. now => n \in 0 .. now'
  BY <1>1, <1>2 DEF TypeOK
<1>7. IsFiniteSet(captured')
  BY <1>2 DEF BaseInv
<1>8. /\ \A d \in Detectors : detector'[d].current \in SeenTimes'
      /\ \A r \in Runs : run'[r].packets \subseteq captured' /\ run'[r].latest \in SeenTimes'
  BY <1>2, <1>3 DEF BaseInv
<1>9. ASSUME NEW r \in Runs, NEW d \in Detectors
      PROVE  /\ thread'[r][d].todo \subseteq captured'
             /\ thread'[r][d].pc = "analyse" => detector'[d].now \in 0 .. now'
             /\ thread'[r][d].pc = "done" => thread'[r][d].left # <<>>
  BY <1>2, <1>6 DEF BaseInv
<1> QED
  BY <1>4, <1>5, <1>7, <1>8, <1>9 DEF BaseInv

(* A restart.                                                              *)
LEMMA BaseRestart ==
    ASSUME BaseInv, Restart
    PROVE  BaseInv'
<1>1. TypeOK
  BY DEF BaseInv
<1>2. NewDetector \in States /\ Idle \in RunStates /\ Over \in ThreadStates
  BY Places DEF NewDetector, States, Times, Idle, RunStates, Over, ThreadStates
<1>3. /\ UNCHANGED <<now, captured, rules, cutoff, alerts, lapsed, lapses>>
      /\ continuous' = FALSE /\ interruptions' \in 0 .. MaxInterruptions
      /\ detector' \in [Detectors -> States] /\ run' \in [Runs -> RunStates]
      /\ thread' \in [Runs -> [Detectors -> ThreadStates]]
      /\ \A d \in Detectors : detector'[d] = NewDetector
      /\ \A r \in Runs : run'[r] = Idle
      /\ \A r \in Runs, d \in Detectors : thread'[r][d] = Over
  BY <1>1, <1>2, EngineAssumption DEF Restart, Interrupt, database, TypeOK
<1>4. SeenTimes' = SeenTimes
  BY <1>3 DEF SeenTimes
<1>5. TypeOK'
  BY <1>1, <1>3 DEF TypeOK
<1> QED
  BY <1>3, <1>4, <1>5 DEF BaseInv, NewDetector, Idle, Over, SeenTimes

(* What the query returns were stored.                                     *)
LEMMA FetchedWereStored ==
    ASSUME NEW r \in Runs, NEW ps \in Fetch(r)
    PROVE  /\ ps \subseteq captured /\ \A p \in ps : TimeOf[p] > run[r].last
           /\ Cardinality(ps) = IF Cardinality(Later(r)) < Limit
                                THEN Cardinality(Later(r)) ELSE Limit
           /\ \A p \in ps, q \in captured \ ps :
                 TimeOf[q] > run[r].last => TimeOf[p] <= TimeOf[q]
BY DEF Fetch, Later

(* The steps of a run that start no thread.                                *)
LEMMA BaseRun ==
    ASSUME BaseInv, NEW r \in Runs,
           \/ \E c \in BOOLEAN : Request(r, c)
           \/ ReadLog(r) \/ Query(r) \/ JoinDetector(r) \/ WriteLog(r) \/ Loop(r)
           \/ RunDies(r)
    PROVE  BaseInv'
<1>1. TypeOK /\ run[r] \in RunStates /\ cutoff \in SeenTimes /\ -1 \in SeenTimes
      /\ interruptions \in 0 .. MaxInterruptions
  BY DEF BaseInv, TypeOK, SeenTimes
<1>2. /\ run[r].packets \subseteq captured /\ run[r].latest \in SeenTimes
      /\ captured \subseteq Packets /\ SeenTimes \subseteq Times
  BY <1>1, SeenAreTimes DEF BaseInv, TypeOK
<1>3. Idle \in RunStates /\ Idle.packets = {} /\ Idle.latest = -1
  BY Places DEF Idle, RunStates, Times
<1>4. ASSUME NEW pc \in {"log", "loop"}
      PROVE  LET x == [Idle EXCEPT !.pc = pc]
             IN  x \in RunStates /\ x.packets = {} /\ x.latest = -1
  BY <1>3 DEF RunStates
<1>5. ASSUME NEW c \in BOOLEAN, Request(r, c) PROVE BaseInv'
  <2>1. /\ RunGoesOn(r, [Idle EXCEPT !.pc = "log"]) /\ continuous' \in BOOLEAN
        /\ UNCHANGED <<now, captured, rules, cutoff, alerts, detector, thread, lapsed, lapses,
                       interruptions>>
    BY <1>5 DEF Request, database, history
  <2> QED
    BY <1>1, <1>4, <2>1, RunKeepsBase
<1>6. CASE ReadLog(r)
  <2> DEFINE x == [Idle EXCEPT !.pc = "log"]
             y == [Idle EXCEPT !.pc = "query", !.last = cutoff]
  <2>1. /\ RunGoesOn(r, y)
        /\ UNCHANGED <<now, captured, rules, cutoff, alerts, detector, continuous, thread,
                       lapsed, lapses, interruptions>>
    BY <1>6 DEF ReadLog, LocalsOnly, DatabaseOnly, history
  <2>2. y \in RunStates /\ y.packets = {} /\ y.latest = -1
    BY <1>1, <1>2, <1>3 DEF RunStates
  <2> HIDE DEF y
  <2>3. continuous' \in BOOLEAN /\ interruptions' \in 0 .. MaxInterruptions
    BY <1>1, <2>1 DEF TypeOK
  <2> QED
    BY <1>1, <2>1, <2>2, <2>3, RunKeepsBase
<1>7. CASE Query(r)
  <2>1. PICK ps \in Fetch(r) :
           RunGoesOn(r, IF ps = {} THEN [Idle EXCEPT !.pc = "loop"]
                        ELSE [run[r] EXCEPT !.pc = "start", !.packets = ps])
    BY <1>7 DEF Query
  <2> DEFINE y == IF ps = {} THEN [Idle EXCEPT !.pc = "loop"]
                  ELSE [run[r] EXCEPT !.pc = "start", !.packets = ps]
  <2>2. UNCHANGED <<now, captured, rules, cutoff, alerts, detector, continuous, thread,
                    lapsed, lapses, interruptions>>
    BY <1>7 DEF Query, LocalsOnly, DatabaseOnly, history
  <2>3. y \in RunStates /\ y.packets \subseteq captured /\ y.latest \in SeenTimes
    <3>1. ps \subseteq captured /\ ps \in SUBSET Packets
      BY <1>2, FetchedWereStored
    <3>2. CASE ps = {}
      BY <1>1, <1>4, <3>2
    <3>3. CASE ps # {}
      BY <1>1, <1>2, <3>1, <3>3 DEF RunStates
    <3> QED
      BY <3>2, <3>3
  <2>4. RunGoesOn(r, y)
    BY <2>1
  <2> HIDE DEF y
  <2>5. continuous' \in BOOLEAN /\ interruptions' \in 0 .. MaxInterruptions
    BY <1>1, <2>2 DEF TypeOK
  <2> QED
    BY <1>1, <2>2, <2>3, <2>4, <2>5, RunKeepsBase
<1>8. CASE JoinDetector(r)
  <2> DEFINE d == ActiveModules[run[r].next]
             z == IF run[r].latest < detector[d].current THEN detector[d].current
                  ELSE run[r].latest
             x == [run[r] EXCEPT !.latest = z]
             y == Advance(x, "join", "write")
  <2>1. /\ RunGoesOn(r, y)
        /\ UNCHANGED <<now, captured, rules, cutoff, alerts, detector, continuous, thread,
                       lapsed, lapses, interruptions>>
    BY <1>1, <1>8 DEF JoinDetector, LocalsOnly, DatabaseOnly, history, RunStates
  <2>2. d \in Detectors
    BY <1>1, Places DEF RunStates
  <2>3. z \in SeenTimes
    BY <1>2, <2>2 DEF BaseInv
  <2> HIDE DEF d, z
  <2>4. x \in RunStates /\ x.packets = run[r].packets /\ x.latest = z
    BY <1>1, <1>2, <2>3 DEF RunStates
  <2> HIDE DEF x
  <2>5. y \in RunStates /\ y.packets = run[r].packets /\ y.latest = z
    BY <2>4, AdvanceKeeps
  <2> HIDE DEF y
  <2>6. continuous' \in BOOLEAN /\ interruptions' \in 0 .. MaxInterruptions
    BY <1>1, <2>1 DEF TypeOK
  <2> QED
    BY <1>1, <1>2, <2>1, <2>3, <2>5, <2>6, RunKeepsBase
<1>9. CASE WriteLog(r)
  <2>1. /\ RunGoesOn(r, [Idle EXCEPT !.pc = "loop"]) /\ cutoff' = run[r].latest
        /\ UNCHANGED <<now, captured, rules, alerts, detector, continuous, thread,
                       lapsed, lapses, interruptions>>
    BY <1>9 DEF WriteLog, DatabaseOnly, history
  <2>2. continuous' \in BOOLEAN /\ interruptions' \in 0 .. MaxInterruptions
    BY <1>1, <2>1 DEF TypeOK
  <2> QED
    BY <1>1, <1>2, <1>4, <2>1, <2>2, RunKeepsBase
<1>10. CASE Loop(r)
  <2> DEFINE y == IF continuous THEN [Idle EXCEPT !.pc = "log"] ELSE Idle
  <2>1. /\ RunGoesOn(r, y)
        /\ UNCHANGED <<now, captured, rules, cutoff, alerts, detector, continuous, thread,
                       lapsed, lapses, interruptions>>
    BY <1>10 DEF Loop, LocalsOnly, DatabaseOnly, history
  <2>2. y \in RunStates /\ y.packets = {} /\ y.latest = -1
    BY <1>3, <1>4
  <2> HIDE DEF y
  <2>3. continuous' \in BOOLEAN /\ interruptions' \in 0 .. MaxInterruptions
    BY <1>1, <2>1 DEF TypeOK
  <2> QED
    BY <1>1, <2>1, <2>2, <2>3, RunKeepsBase
<1>11. CASE RunDies(r)
  <2>1. /\ RunGoesOn(r, Idle) /\ interruptions' \in 0 .. MaxInterruptions
        /\ UNCHANGED <<now, captured, rules, cutoff, alerts, detector, continuous, thread,
                       lapsed, lapses>>
    BY <1>1, <1>11, EngineAssumption DEF RunDies, Interrupt, database
  <2>2. continuous' \in BOOLEAN
    BY <1>1, <2>1 DEF TypeOK
  <2> QED
    BY <1>1, <1>3, <2>1, <2>2, RunKeepsBase
<1> QED
  BY <1>5, <1>6, <1>7, <1>8, <1>9, <1>10, <1>11

(* The steps of a thread.                                                  *)
LEMMA BaseThread ==
    ASSUME BaseInv, NEW r \in Runs, NEW d \in Detectors,
           ThreadStep(r, d) \/ ThreadDies(r, d)
    PROVE  BaseInv'
<1>1. /\ TypeOK /\ thread[r][d] \in ThreadStates /\ detector[d] \in States
      /\ detector = [detector EXCEPT ![d] = detector[d]]
      /\ IsABag(alerts) /\ BagToSet(alerts) \subseteq Alerts /\ now \in Nat
      /\ lapsed \subseteq Detectors /\ lapses \in 0 .. MaxLapses
  BY DEF BaseInv, TypeOK
<1>2. /\ thread[r][d].todo \subseteq captured /\ captured \subseteq Packets
      /\ detector[d].current \in SeenTimes
      /\ thread[r][d].pc = "analyse" => detector[d].now \in 0 .. now
      /\ thread[r][d].pc = "done" => thread[r][d].left # <<>>
  BY DEF BaseInv, TypeOK
<1>3. CASE ActivateDetector(r, d)
  <2> DEFINE s == Activate(d, detector[d], rules, now)
             t == [thread[r][d] EXCEPT !.pc = "analyse"]
  <2>1. /\ ThreadGoesOn(r, d, t) /\ detector' = [detector EXCEPT ![d] = s]
        /\ UNCHANGED <<now, captured, rules, cutoff, alerts, continuous, run,
                       lapsed, lapses, interruptions>>
    BY <1>1, <1>3 DEF ActivateDetector, ThreadOnly, history, TypeOK
  <2>2. s \in States /\ s.current = detector[d].current /\ s.now = now /\ now \in 0 .. now
    BY <1>1, ActivateKeeps
  <2>3. t \in ThreadStates /\ t.todo = thread[r][d].todo /\ t.pc = "analyse"
    BY <1>1 DEF ThreadStates
  <2> HIDE DEF s, t
  <2>4. t.todo \subseteq captured /\ t.pc # "done" /\ s.current \in SeenTimes
    BY <1>2, <2>2, <2>3
  <2>5. IsABag(alerts') /\ BagToSet(alerts') \subseteq Alerts
    BY <1>1, <2>1
  <2> QED
    BY <1>1, <2>1, <2>2, <2>3, <2>4, <2>5, ThreadKeepsBase
<1>4. CASE AnalysePacket(r, d)
  <2>1. PICK p \in thread[r][d].todo :
           /\ detector' = [detector EXCEPT ![d] = Analyse(d, detector[d], p)]
           /\ ThreadGoesOn(r, d, [thread[r][d] EXCEPT !.todo = thread[r][d].todo \ {p}])
    BY <1>1, <1>4 DEF AnalysePacket, TypeOK, ThreadGoesOn, ThreadStates
  <2> DEFINE s == Analyse(d, detector[d], p)
             t == [thread[r][d] EXCEPT !.todo = thread[r][d].todo \ {p}]
  <2>2. /\ thread[r][d].pc = "analyse"
        /\ UNCHANGED <<now, captured, rules, cutoff, alerts, continuous, run,
                       lapsed, lapses, interruptions>>
    BY <1>4 DEF AnalysePacket, ThreadOnly, history
  <2>3. p \in captured /\ p \in Packets /\ TimeOf[p] \in SeenTimes
    BY <1>2, <2>1 DEF SeenTimes
  <2>4. s \in States /\ s.current \in SeenTimes /\ s.now = detector[d].now
    <3>1. s \in States /\ s.now = detector[d].now /\ s.current \in {detector[d].current, TimeOf[p]}
      BY <1>1, <2>3, AnalyseKeeps
    <3> QED
      BY <1>2, <2>3, <3>1
  <2>5. /\ t \in ThreadStates /\ t.todo \subseteq captured /\ t.pc = "analyse"
    BY <1>1, <1>2, <2>2 DEF ThreadStates
  <2>6. ThreadGoesOn(r, d, t) /\ detector' = [detector EXCEPT ![d] = s]
    BY <2>1
  <2> HIDE DEF s, t
  <2> QED
    BY <1>1, <1>2, <2>2, <2>4, <2>5, <2>6, ThreadKeepsBase
<1>5. CASE FinishDetector(r, d)
  <2> DEFINE left == Findings(d, detector[d])
  <2>1. /\ thread[r][d].pc = "analyse" /\ ThreadGoesOn(r, d, WithAlerts(left))
        /\ UNCHANGED <<now, captured, rules, cutoff, alerts, detector, continuous, run,
                       lapsed, lapses, interruptions>>
    BY <1>5 DEF FinishDetector, ThreadOnly, history
  <2>2. left \in Seq(Alerts)
    <3>1. detector[d].now \in Nat
      BY <1>1, <1>2, <2>1
    <3> QED
      BY <1>1, <3>1, FindingsAreAlerts
  <2> HIDE DEF left
  <2>3. /\ WithAlerts(left) \in ThreadStates /\ WithAlerts(left).todo = {}
        /\ WithAlerts(left).pc \in {"over", "done"} /\ WithAlerts(left).left = left
        /\ WithAlerts(left).pc = "done" => left # <<>>
    BY <2>2, WithAlertsKeeps
  <2>4. detector' = [detector EXCEPT ![d] = detector[d]]
    BY <1>1, <2>1
  <2> QED
    BY <1>1, <1>2, <2>1, <2>3, <2>4, ThreadKeepsBase
<1>6. CASE StoreAlert(r, d)
  <2> DEFINE left == thread[r][d].left
             a == Head(left)
  <2>1. /\ thread[r][d].pc = "done" /\ ThreadGoesOn(r, d, WithAlerts(Tail(left)))
        /\ alerts' = alerts (+) SetToBag({a})
        /\ UNCHANGED <<now, captured, rules, cutoff, detector, continuous, run,
                       lapsed, lapses, interruptions>>
    BY <1>6 DEF StoreAlert, ThreadOnly, history
  <2>2. left \in Seq(Alerts) /\ left # <<>>
    BY <1>1, <1>2, <2>1 DEF ThreadStates
  <2> HIDE DEF left
  <2>3. a \in Alerts /\ Tail(left) \in Seq(Alerts)
    BY <2>2
  <2>4. IsABag(alerts') /\ BagToSet(alerts') \subseteq Alerts
    <3> HIDE DEF a
    <3>1. /\ IsABag(alerts (+) SetToBag({a}))
          /\ BagToSet(alerts (+) SetToBag({a})) = BagToSet(alerts) \cup {a}
      BY <1>1, BagGrows
    <3> QED
      BY <1>1, <2>1, <2>3, <3>1
  <2>5. /\ WithAlerts(Tail(left)) \in ThreadStates /\ WithAlerts(Tail(left)).todo = {}
        /\ WithAlerts(Tail(left)).pc \in {"over", "done"}
        /\ WithAlerts(Tail(left)).left = Tail(left)
        /\ WithAlerts(Tail(left)).pc = "done" => Tail(left) # <<>>
    BY <2>3, WithAlertsKeeps
  <2>6. detector' = [detector EXCEPT ![d] = detector[d]]
    BY <1>1, <2>1
  <2> QED
    BY <1>1, <1>2, <2>1, <2>4, <2>5, <2>6, ThreadKeepsBase
<1>7. CASE ThreadDies(r, d)
  <2>1. /\ ThreadGoesOn(r, d, Over) /\ lapsed' \subseteq Detectors /\ lapses' \in 0 .. MaxLapses
        /\ UNCHANGED <<now, captured, rules, cutoff, alerts, detector, continuous, run,
                       interruptions>>
    BY <1>1, <1>7, EngineAssumption DEF ThreadDies, Lapse, database
  <2>2. Over \in ThreadStates /\ Over.todo = {} /\ Over.pc = "over"
    BY DEF Over, ThreadStates
  <2>3. detector' = [detector EXCEPT ![d] = detector[d]]
    BY <1>1, <2>1
  <2> QED
    BY <1>1, <1>2, <2>1, <2>2, <2>3, ThreadKeepsBase
<1> QED
  BY <1>3, <1>4, <1>5, <1>6, <1>7 DEF ThreadStep

(* What holds however many runs there are is kept by every step.           *)
LEMMA BaseNext == BaseInv /\ [Next]_vars => BaseInv'
<1> SUFFICES ASSUME BaseInv, [Next]_vars PROVE BaseInv'
  OBVIOUS
<1>1. CASE UNCHANGED vars
  BY <1>1 DEF vars, database, history, BaseInv, TypeOK, SeenTimes
<1>2. CASE Next
  BY <1>2, BaseCapture, BaseEnvironment, BaseRestart, BaseRun, BaseStart, BaseThread
  DEF Next, RunStep
<1> QED
  BY <1>1, <1>2

(* Every variable of the engine keeps its type, and the cutoff is always   *)
(* that of a packet that was stored (or of none).                          *)
THEOREM TypeCorrect == Spec => []TypeOK
<1>1. BaseInv => TypeOK
  BY DEF BaseInv
<1> QED
  BY <1>1, BaseInit, BaseNext, PTL DEF Spec

-----------------------------------------------------------------------------
(* Once per interruption: what the steps have in common                    *)

(* The rows of an alert are counted by a number, ...                       *)
LEMMA CopiesAreNumbers ==
    ASSUME IsABag(alerts), NEW x
    PROVE  CopiesOf(x) \in Nat
BY DEF CopiesOf, IsABag, BagIn, BagToSet

(* ... which a new row makes greater by one.                               *)
LEMMA CopiesGrow ==
    ASSUME IsABag(alerts), NEW a, alerts' = alerts (+) SetToBag({a}), NEW x
    PROVE  CopiesOf(x)' = CopiesOf(x) + IF x = a THEN 1 ELSE 0
<1> DEFINE B == alerts (+) SetToBag({a})
<1>1. /\ BagToSet(B) = BagToSet(alerts) \cup {a}
      /\ B[a] = (IF BagIn(a, alerts) THEN alerts[a] ELSE 0) + 1
      /\ \A y \in DOMAIN alerts : y # a => B[y] = alerts[y]
  BY BagGrows
<1>2. alerts' = B
  OBVIOUS
<1>3. BagToSet(alerts) = DOMAIN alerts
  BY DEF BagToSet
<1> HIDE DEF B
<1>4. CASE x = a
  BY <1>1, <1>2, <1>3, <1>4 DEF CopiesOf, BagIn
<1>5. CASE x # a
  <2>1. CopiesOf(x) \in Nat
    BY CopiesAreNumbers
  <2>2. CopiesOf(x)' = CopiesOf(x)
    BY <1>1, <1>2, <1>3, <1>5 DEF CopiesOf, BagIn
  <2> QED
    BY <1>5, <2>1, <2>2
<1> QED
  BY <1>4, <1>5

(* No packet is lost: a flood keeps those it counted.                      *)
LEMMA PacketsOfGrow ==
    ASSUME IsFiniteSet(captured), captured \subseteq captured', IsFiniteSet(captured'), NEW f
    PROVE  /\ Cardinality(PacketsOf(f)) \in Nat /\ Cardinality(PacketsOf(f)') \in Nat
           /\ Cardinality(PacketsOf(f)) <= Cardinality(PacketsOf(f)')
<1>1. PacketsOf(f) \subseteq PacketsOf(f)' /\ PacketsOf(f)' \subseteq captured'
  BY DEF PacketsOf
<1>2. IsFiniteSet(PacketsOf(f)')
  BY <1>1, FS_Subset
<1> QED
  BY <1>1, <1>2, FS_Subset, FS_CardinalityType

(* The alerts for a flood are those of the DoS detector, with a number.    *)
LEMMA FloodsAreOfDoS ==
    ASSUME NEW a \in Alerts, a.detector = "DoS"
    PROVE  a \in FloodAlerts /\ a.number \in Nat
BY DEF Alerts, MessageAlerts, FloodAlerts, MessageDetectors

(* With one run, what is said of some run is said of that one.             *)
LEMMA OfTheOneRun ==
    ASSUME OneRun, NEW r \in Runs, NEW d, NEW p
    PROVE  /\ Pending(d, p) <=> PendingIn(r, d, p)
           /\ Pending(d, p)' <=> PendingIn(r, d, p)'
           /\ Analysed(d, p) <=> AnalysedIn(r, d, p)
           /\ Analysed(d, p)' <=> AnalysedIn(r, d, p)'
BY DEF OneRun, Pending, Analysed

(* Reports are counted by a number.                                        *)
LEMMA ReportsAreNumbers ==
    ASSUME IsABag(alerts), NEW d, NEW p
    PROVE  Copies(d, p) \in Nat /\ Reports(d, p) \in Nat
<1>1. Copies(d, p) \in Nat
  BY CopiesAreNumbers DEF Copies
<1> QED
  BY <1>1 DEF Reports

(* Before its first thread and after its last, a run has none.             *)
LEMMA ThreadsAreOver ==
    ASSUME NEW r \in Runs, \A d \in Detectors : ThreadInv(r, d), TypeOK,
           run[r].pc \in {"idle", "log", "query", "write", "loop"}
    PROVE  \A d \in Detectors : thread[r][d].pc = "over" /\ thread[r][d].todo = {}
BY DEF ThreadInv, HasStarted, HasJoined

(* A step of the loops over activeModules passes one detector.             *)
LEMMA PassesOne ==
    ASSUME NEW r \in Runs, run \in [Runs -> RunStates], NEW d, d = ActiveModules[run[r].next]
    PROVE  /\ d \in Detectors /\ ~Passed(r, d)
           /\ run'[r].next = run[r].next + 1 =>
                 \A c \in Detectors : Passed(r, c)' <=> Passed(r, c) \/ c = d
           /\ run[r].next = Len(ActiveModules) =>
                 \A c \in Detectors : Passed(r, c) \/ c = d
           /\ run'[r].next = 1 => \A c \in Detectors : ~Passed(r, c)'
<1>1. run[r].next \in 1 .. Len(ActiveModules) /\ Len(ActiveModules) \in Nat
  BY Places DEF RunStates
<1>2. d \in Detectors /\ ~Passed(r, d)
  BY <1>1, Places DEF Passed
<1>3. ASSUME run'[r].next = run[r].next + 1, NEW c \in Detectors
      PROVE  Passed(r, c)' <=> Passed(r, c) \/ c = d
  BY <1>1, <1>3, Places DEF Passed
<1>4. ASSUME run[r].next = Len(ActiveModules), NEW c \in Detectors
      PROVE  Passed(r, c) \/ c = d
  <2>1. PICK i \in DOMAIN ActiveModules : ActiveModules[i] = c
    BY Places
  <2> QED
    BY <1>1, <1>4, <2>1, Places DEF Passed
<1>5. ASSUME run'[r].next = 1, NEW c \in Detectors PROVE ~Passed(r, c)'
  BY <1>5, Places DEF Passed
<1> QED
  BY <1>2, <1>3, <1>4, <1>5

(* Steps that leave the locals and the tables as they are, but for packets *)
(* that are stored.                                                        *)
LEMMA OnceOutside ==
    ASSUME OneRunInv, IsFiniteSet(captured'), captured \subseteq captured',
           UNCHANGED <<cutoff, alerts, detector, run, thread, interruptions>>
    PROVE  /\ FloodsCountPackets'
           /\ \A r \in Runs : RunInv(r)'
           /\ \A r \in Runs, d \in Detectors : ThreadInv(r, d)'
           /\ \A d \in MessageDetectors, p \in Packets : ReportedOnce(d, p)'
<1>1. TypeOK /\ IsFiniteSet(captured)
  BY DEF OneRunInv, BaseInv
<1>2. \A a \in Alerts : a.detector = "DoS" =>
         (a.number <= Cardinality(PacketsOf(a)) => a.number <= Cardinality(PacketsOf(a)'))
  <2> SUFFICES ASSUME NEW a \in Alerts, a.detector = "DoS",
                      a.number <= Cardinality(PacketsOf(a))
               PROVE  a.number <= Cardinality(PacketsOf(a)')
    OBVIOUS
  <2>1. a.number \in Nat
    BY FloodsAreOfDoS
  <2>2. /\ Cardinality(PacketsOf(a)) \in Nat /\ Cardinality(PacketsOf(a)') \in Nat
        /\ Cardinality(PacketsOf(a)) <= Cardinality(PacketsOf(a)')
    BY <1>1, PacketsOfGrow
  <2> QED
    BY <2>1, <2>2
<1>3. FloodsCountPackets'
  <2> SUFFICES ASSUME NEW f \in BagToSet(alerts), f.detector = "DoS"
               PROVE  f.number <= Cardinality(PacketsOf(f)')
    BY DEF FloodsCountPackets
  <2> QED
    BY <1>1, <1>2 DEF OneRunInv, FloodsCountPackets, TypeOK
<1>4. ASSUME NEW r \in Runs PROVE RunInv(r)'
  BY DEF OneRunInv, RunInv, HasJoined, Passed
<1>5. ASSUME NEW r \in Runs, NEW d \in Detectors PROVE ThreadInv(r, d)'
  <2>1. ThreadInv(r, d)
    BY DEF OneRunInv
  <2>2. /\ HasStarted(r, d)' <=> HasStarted(r, d)
        /\ HasJoined(r, d)' <=> HasJoined(r, d)
    BY DEF HasStarted, HasJoined, Passed
  <2>3. FoundInv(r, d)' <=> FoundInv(r, d)
    BY DEF FoundInv
  <2>4. LeftInv(r, d) => LeftInv(r, d)'
    <3> SUFFICES ASSUME LeftInv(r, d), NEW a \in Range(thread[r][d].left), d = "DoS"
                 PROVE  a.number <= Cardinality(PacketsOf(a)')
      BY DEF LeftInv
    <3>1. a \in Alerts /\ a.detector = "DoS"
      <4>1. thread[r][d].left \in Seq(Alerts)
        BY <1>1 DEF TypeOK, ThreadStates
      <4> QED
        BY <4>1 DEF LeftInv, Range
    <3> QED
      BY <1>2, <3>1 DEF LeftInv
  <2> QED
    BY <2>1, <2>2, <2>3, <2>4 DEF ThreadInv
<1>6. ASSUME NEW d \in MessageDetectors, NEW p \in Packets PROVE ReportedOnce(d, p)'
  BY DEF OneRunInv, ReportedOnce, Reports, Copies, CopiesOf, Pending, PendingIn, Analysed,
         AnalysedIn, HasStarted, Passed
<1> QED
  BY <1>3, <1>4, <1>5, <1>6

(* A run that has no threads: its next step starts none, and leaves every  *)
(* report that is used up before the cutoff.                               *)
LEMMA OnceWithoutThreads ==
    ASSUME OneRun, OneRunInv, NEW r \in Runs, NEW x \in RunStates, RunGoesOn(r, x),
           x.pc \in {"idle", "log", "query", "start", "loop"},
           x.pc \in {"query", "start"} => x.next = 1 /\ x.last = cutoff',
           x.pc = "query" => x.latest = -1,
           x.pc = "start" => \A p \in x.packets : p \in captured /\ TimeOf[p] > cutoff',
           \A d \in Detectors : thread[r][d].pc = "over",
           interruptions' \in Nat, interruptions <= interruptions',
           \A d \in MessageDetectors, p \in Packets :
              Reports(d, p) > interruptions' => TimeOf[p] <= cutoff',
           UNCHANGED <<captured, alerts, detector, thread>>
    PROVE  /\ FloodsCountPackets'
           /\ \A q \in Runs : RunInv(q)'
           /\ \A q \in Runs, d \in Detectors : ThreadInv(q, d)'
           /\ \A d \in MessageDetectors, p \in Packets : ReportedOnce(d, p)'
<1>1. TypeOK /\ interruptions \in Nat
  BY EngineAssumption DEF OneRunInv, BaseInv, TypeOK
<1>2. run'[r] = x /\ \A q \in Runs : q = r
  BY <1>1, RunChanges DEF TypeOK, OneRun
<1>3. FloodsCountPackets'
  BY DEF OneRunInv, FloodsCountPackets, PacketsOf
<1>4. x.pc = "start" => \A d \in Detectors : ~Passed(r, d)'
  BY <1>2, Places DEF Passed
<1>5. RunInv(r)'
  <2>1. \A d \in Detectors : ~HasJoined(r, d)'
    BY <1>2 DEF HasJoined
  <2> QED
    BY <1>2, <2>1 DEF RunInv
<1>6. ASSUME NEW d \in Detectors PROVE ThreadInv(r, d)'
  <2>1. ThreadInv(r, d)
    BY DEF OneRunInv
  <2> QED
    BY <2>1 DEF ThreadInv
<1>7. ASSUME NEW d \in MessageDetectors, NEW p \in Packets PROVE ReportedOnce(d, p)'
  <2>1. d \in Detectors
    BY DEF MessageDetectors
  <2>2. Reports(d, p)' = Reports(d, p) /\ Reports(d, p) \in Nat
    BY <1>1, ReportsAreNumbers DEF Reports, Copies, CopiesOf, Pending, PendingIn, TypeOK
  <2>3. ReportedOnce(d, p)
    BY DEF OneRunInv
  <2> QED
    BY <1>1, <2>1, <2>2, <2>3 DEF ReportedOnce
<1> QED
  BY <1>2, <1>3, <1>5, <1>6, <1>7

(* Between two runs, the reports that are used up are before the cutoff.   *)
LEMMA UsedUpBeforeCutoff ==
    ASSUME OneRun, OneRunInv, NEW r \in Runs,
           run[r].pc \in {"idle", "log", "query", "loop"}
    PROVE  \A d \in MessageDetectors, p \in Packets :
              Reports(d, p) > interruptions => TimeOf[p] <= cutoff
<1> SUFFICES ASSUME NEW d \in MessageDetectors, NEW p \in Packets,
                    Reports(d, p) > interruptions
             PROVE  TimeOf[p] <= cutoff
  OBVIOUS
<1>1. TimeOf[p] <= cutoff \/ Analysed(d, p)
  BY DEF OneRunInv, ReportedOnce
<1>2. ~HasStarted(r, d)
  BY DEF HasStarted
<1> QED
  BY <1>1, <1>2, OfTheOneRun DEF AnalysedIn

(* The steps of a run outside the loops over activeModules.                *)
LEMMA OnceRun ==
    ASSUME OneRun, OneRunInv, NEW r \in Runs,
           \/ \E c \in BOOLEAN : Request(r, c)
           \/ ReadLog(r) \/ Query(r) \/ WriteLog(r) \/ Loop(r) \/ RunDies(r)
    PROVE  /\ FloodsCountPackets'
           /\ \A q \in Runs : RunInv(q)'
           /\ \A q \in Runs, d \in Detectors : ThreadInv(q, d)'
           /\ \A d \in MessageDetectors, p \in Packets : ReportedOnce(d, p)'
<1>1. /\ TypeOK /\ run[r] \in RunStates /\ cutoff \in Times /\ interruptions \in Nat
      /\ run[r].packets \subseteq captured /\ captured \subseteq Packets
  <2>1. TypeOK /\ run[r].packets \subseteq captured
    BY DEF OneRunInv, BaseInv
  <2>2. captured \subseteq Packets /\ cutoff \in SeenTimes /\ interruptions \in Nat
    BY <2>1, EngineAssumption DEF TypeOK, SeenTimes
  <2> QED
    BY <2>1, <2>2, SeenAreTimes DEF TypeOK
<1>2. /\ run[r].pc \in {"idle", "log", "query", "write", "loop"}
      /\ UNCHANGED <<captured, alerts, detector, thread>>
  BY DEF Request, ReadLog, Query, WriteLog, Loop, RunDies, LocalsOnly, DatabaseOnly, database
<1>3. \A d \in Detectors : thread[r][d].pc = "over"
  BY <1>1, <1>2, ThreadsAreOver DEF OneRunInv
<1>4. Idle \in RunStates /\ Idle.pc = "idle"
  BY Places DEF Idle, RunStates, Times
<1>5. ASSUME NEW pc \in {"log", "loop"}
      PROVE  [Idle EXCEPT !.pc = pc] \in RunStates /\ [Idle EXCEPT !.pc = pc].pc = pc
  BY <1>4 DEF RunStates
<1>6. ASSUME NEW x \in RunStates, RunGoesOn(r, x), x.pc \in {"idle", "log", "loop"},
             run[r].pc \in {"idle", "log", "query", "loop"}, UNCHANGED <<cutoff, interruptions>>
      PROVE  /\ FloodsCountPackets'
             /\ \A q \in Runs : RunInv(q)'
             /\ \A q \in Runs, d \in Detectors : ThreadInv(q, d)'
             /\ \A d \in MessageDetectors, p \in Packets : ReportedOnce(d, p)'
  <2>1. \A d \in MessageDetectors, p \in Packets :
           Reports(d, p) > interruptions' => TimeOf[p] <= cutoff'
    BY <1>6, UsedUpBeforeCutoff
  <2>2. interruptions' \in Nat /\ interruptions <= interruptions'
    BY <1>1, <1>6
  <2> QED
    BY <1>2, <1>3, <1>6, <2>1, <2>2, OnceWithoutThreads
<1>7. CASE \E c \in BOOLEAN : Request(r, c)
  <2>1. /\ RunGoesOn(r, [Idle EXCEPT !.pc = "log"]) /\ UNCHANGED <<cutoff, interruptions>>
        /\ run[r].pc = "idle"
    BY <1>7 DEF Request, database, history
  <2> QED
    BY <1>5, <1>6, <2>1
<1>8. CASE ReadLog(r)
  <2> DEFINE x == [Idle EXCEPT !.pc = "query", !.last = cutoff]
  <2>1. /\ RunGoesOn(r, x) /\ UNCHANGED <<cutoff, interruptions>> /\ run[r].pc = "log"
    BY <1>8 DEF ReadLog, LocalsOnly, DatabaseOnly, history
  <2>2. x \in RunStates /\ x.pc = "query" /\ x.next = 1 /\ x.last = cutoff /\ x.latest = -1
    BY <1>1, <1>4 DEF Idle, RunStates
  <2> HIDE DEF x
  <2>3. \A d \in MessageDetectors, p \in Packets :
           Reports(d, p) > interruptions' => TimeOf[p] <= cutoff'
    BY <2>1, UsedUpBeforeCutoff
  <2>4. interruptions' \in Nat /\ interruptions <= interruptions'
    BY <1>1, <2>1
  <2> QED
    BY <1>2, <1>3, <2>1, <2>2, <2>3, <2>4, OnceWithoutThreads
<1>9. CASE Query(r)
  <2>1. PICK ps \in Fetch(r) :
           RunGoesOn(r, IF ps = {} THEN [Idle EXCEPT !.pc = "loop"]
                        ELSE [run[r] EXCEPT !.pc = "start", !.packets = ps])
    BY <1>9 DEF Query
  <2>2. UNCHANGED <<cutoff, interruptions>> /\ run[r].pc = "query"
    BY <1>9 DEF Query, LocalsOnly, DatabaseOnly, history
  <2>3. CASE ps = {}
    BY <1>5, <1>6, <2>1, <2>2, <2>3
  <2>4. CASE ps # {}
    <3> DEFINE x == [run[r] EXCEPT !.pc = "start", !.packets = ps]
    <3>1. RunGoesOn(r, x)
      BY <2>1, <2>4
    <3>2. /\ ps \subseteq captured /\ ps \in SUBSET Packets
          /\ \A p \in ps : TimeOf[p] > run[r].last
      BY <1>1, FetchedWereStored
    <3>3. run[r].next = 1 /\ run[r].last = cutoff
      BY <2>2 DEF OneRunInv, RunInv
    <3>4. /\ x \in RunStates /\ x.pc = "start" /\ x.packets = ps
          /\ x.next = run[r].next /\ x.last = run[r].last
      BY <1>1, <3>2 DEF RunStates
    <3> HIDE DEF x
    <3>5. \A d \in MessageDetectors, p \in Packets :
             Reports(d, p) > interruptions' => TimeOf[p] <= cutoff'
      BY <2>2, UsedUpBeforeCutoff
    <3>6. interruptions' \in Nat /\ interruptions <= interruptions'
      BY <1>1, <2>2
    <3> QED
      BY <1>2, <1>3, <2>2, <3>1, <3>2, <3>3, <3>4, <3>5, <3>6, OnceWithoutThreads
  <2> QED
    BY <2>3, <2>4
<1>10. CASE WriteLog(r)
  <2>1. /\ RunGoesOn(r, [Idle EXCEPT !.pc = "loop"]) /\ cutoff' = run[r].latest
        /\ interruptions' = interruptions /\ run[r].pc = "write"
    BY <1>10 DEF WriteLog, DatabaseOnly, history
  <2>2. ASSUME NEW d \in MessageDetectors, NEW p \in Packets, Reports(d, p) > interruptions'
        PROVE  TimeOf[p] <= cutoff'
    <3>1. d \in Detectors /\ HasJoined(r, d)
      BY <2>1 DEF MessageDetectors, HasJoined
    <3>2. detector[d].current <= run[r].latest
      BY <3>1 DEF OneRunInv, RunInv
    <3>3. TimeOf[p] <= detector[d].current
      BY <2>1, <2>2 DEF OneRunInv, ReportedOnce
    <3>4. TimeOf[p] \in Int /\ detector[d].current \in Int /\ run[r].latest \in Int
      BY <1>1, <3>1, TimesAreNumbers DEF TypeOK, States, RunStates
    <3> QED
      BY <2>1, <3>2, <3>3, <3>4
  <2>3. interruptions' \in Nat /\ interruptions <= interruptions'
    BY <1>1, <2>1
  <2> QED
    BY <1>2, <1>3, <1>5, <2>1, <2>2, <2>3, OnceWithoutThreads
<1>11. CASE Loop(r)
  <2> DEFINE x == IF continuous THEN [Idle EXCEPT !.pc = "log"] ELSE Idle
  <2>1. /\ RunGoesOn(r, x) /\ UNCHANGED <<cutoff, interruptions>> /\ run[r].pc = "loop"
    BY <1>11 DEF Loop, LocalsOnly, DatabaseOnly, history
  <2>2. x \in RunStates /\ x.pc \in {"idle", "log"}
    BY <1>4, <1>5
  <2> HIDE DEF x
  <2> QED
    BY <1>6, <2>1, <2>2
<1>12. CASE RunDies(r)
  <2>1. /\ RunGoesOn(r, Idle) /\ cutoff' = cutoff /\ interruptions' = interruptions + 1
    BY <1>12 DEF RunDies, Interrupt, database
  <2>2. ASSUME NEW d \in MessageDetectors, NEW p \in Packets PROVE ~(Reports(d, p) > interruptions')
    <3>1. Reports(d, p) \in Nat
      BY <1>1, ReportsAreNumbers DEF TypeOK
    <3> QED
      BY <1>1, <2>1, <3>1 DEF OneRunInv, ReportedOnce
  <2>3. interruptions' \in Nat /\ interruptions <= interruptions'
    BY <1>1, <2>1
  <2> QED
    BY <1>2, <1>3, <1>4, <2>1, <2>2, <2>3, OnceWithoutThreads
<1> QED
  BY <1>7, <1>8, <1>9, <1>10, <1>11, <1>12

(* A detector is started: it has no thread before, and has analysed        *)
(* nothing of this run after.                                              *)
LEMMA OnceStart ==
    ASSUME OneRun, OneRunInv, NEW r \in Runs, StartDetector(r)
    PROVE  /\ FloodsCountPackets'
           /\ \A q \in Runs : RunInv(q)'
           /\ \A q \in Runs, c \in Detectors : ThreadInv(q, c)'
           /\ \A c \in MessageDetectors, p \in Packets : ReportedOnce(c, p)'
<1>1. /\ TypeOK /\ run[r] \in RunStates /\ run[r].pc = "start" /\ \A q \in Runs : q = r
      /\ run[r].packets \in SUBSET Packets
  BY DEF OneRunInv, BaseInv, TypeOK, StartDetector, OneRun, RunStates
<1>2. PICK d : d = ActiveModules[run[r].next]
  OBVIOUS
<1>3. PICK ps : ps = run[r].packets
  OBVIOUS
<1>4. PICK t : t = [Over EXCEPT !.pc = "activate", !.todo = ps]
  OBVIOUS
<1>5. PICK s : s = [detector[d] EXCEPT !.last = run[r].last]
  OBVIOUS
<1>6. PICK x : x = Advance(run[r], "start", "join")
  OBVIOUS
<1>7. d \in Detectors /\ ~Passed(r, d)
  BY <1>1, <1>2, PassesOne DEF TypeOK
<1>8. /\ detector' = [detector EXCEPT ![d] = s] /\ ThreadGoesOn(r, d, t) /\ RunGoesOn(r, x)
      /\ UNCHANGED <<captured, cutoff, alerts, interruptions>>
  BY <1>1, <1>2, <1>3, <1>4, <1>5, <1>6, <1>7
  DEF StartDetector, ThreadGoesOn, database, history, TypeOK
<1>9. /\ x \in RunStates /\ x.packets = ps /\ x.latest = run[r].latest /\ x.last = run[r].last
      /\ \/ run[r].next < Len(ActiveModules) /\ x.pc = "start" /\ x.next = run[r].next + 1
         \/ run[r].next = Len(ActiveModules) /\ x.pc = "join" /\ x.next = 1
  BY <1>1, <1>3, <1>6, AdvanceKeeps
<1>10. /\ detector[d] \in States /\ s \in States /\ s.last = run[r].last
       /\ s.current = detector[d].current /\ s.found = detector[d].found
  <2>1. detector[d] \in States /\ run[r].last \in Times
    BY <1>1, <1>7 DEF TypeOK, RunStates
  <2> QED
    BY <1>5, <2>1 DEF States
<1>11. t \in ThreadStates /\ t.todo = ps /\ t.pc = "activate"
  BY <1>1, <1>3, <1>4, ThreadStarts
<1>12. run'[r] = x
  BY <1>1, <1>8, RunChanges DEF TypeOK
<1>13. /\ thread'[r][d] = t
       /\ \A c \in Detectors : c # d => thread'[r][c] = thread[r][c]
  BY <1>1, <1>7, <1>8, ThreadChanges DEF TypeOK
<1>14. detector'[d] = s /\ \A c \in Detectors : c # d => detector'[c] = detector[c]
  BY <1>1, <1>7, <1>8 DEF TypeOK
<1>15. \A c \in Detectors : HasStarted(r, c)' <=> HasStarted(r, c) \/ c = d
  <2>1. CASE run[r].next < Len(ActiveModules) /\ x.pc = "start" /\ x.next = run[r].next + 1
    <3>1. \A c \in Detectors : Passed(r, c)' <=> Passed(r, c) \/ c = d
      BY <1>1, <1>2, <1>12, <2>1, PassesOne DEF TypeOK
    <3> QED
      BY <1>1, <1>12, <2>1, <3>1 DEF HasStarted
  <2>2. CASE run[r].next = Len(ActiveModules) /\ x.pc = "join" /\ x.next = 1
    <3>1. \A c \in Detectors : Passed(r, c) \/ c = d
      BY <1>1, <1>2, <2>2, PassesOne DEF TypeOK
    <3> QED
      BY <1>1, <1>12, <2>2, <3>1 DEF HasStarted
  <2> QED
    BY <1>9, <2>1, <2>2
<1>16. \A c \in Detectors : ~HasJoined(r, c) /\ ~HasJoined(r, c)'
  <2>1. x.pc = "join" => \A c \in Detectors : ~Passed(r, c)'
    BY <1>1, <1>2, <1>9, <1>12, PassesOne DEF TypeOK
  <2> QED
    BY <1>1, <1>9, <1>12, <2>1 DEF HasJoined
<1>17. ~HasStarted(r, d)
  BY <1>1, <1>7 DEF HasStarted
<1>18. thread[r][d].pc = "over"
  BY <1>7, <1>17 DEF OneRunInv, ThreadInv
<1>19. FloodsCountPackets'
  BY <1>8 DEF OneRunInv, FloodsCountPackets, PacketsOf
<1>20. RunInv(r)'
  <2>1. run[r].last = cutoff /\ \A p \in ps : p \in captured /\ TimeOf[p] > cutoff
    BY <1>1, <1>3 DEF OneRunInv, RunInv
  <2> QED
    BY <1>8, <1>9, <1>12, <1>16, <2>1 DEF RunInv
<1>21. ASSUME NEW c \in Detectors PROVE ThreadInv(r, c)'
  <2>1. CASE c = d
    <3>1. run[r].last = cutoff
      BY <1>1 DEF OneRunInv, RunInv
    <3> QED
      BY <1>7, <1>8, <1>9, <1>10, <1>11, <1>12, <1>13, <1>14, <1>15, <1>16, <2>1, <3>1 DEF ThreadInv
  <2>2. CASE c # d
    <3>1. ThreadInv(r, c)
      BY DEF OneRunInv
    <3>2. thread'[r][c] = thread[r][c] /\ detector'[c] = detector[c] /\ run'[r].packets = run[r].packets
      BY <1>3, <1>9, <1>12, <1>13, <1>14, <2>2
    <3>3. HasStarted(r, c)' <=> HasStarted(r, c)
      BY <1>15, <2>2
    <3>4. FoundInv(r, c)' <=> FoundInv(r, c)
      BY <3>2 DEF FoundInv
    <3>5. LeftInv(r, c)' <=> LeftInv(r, c)
      BY <1>8, <3>2 DEF LeftInv, PacketsOf
    <3> QED
      BY <1>8, <1>16, <3>1, <3>2, <3>3, <3>4, <3>5 DEF ThreadInv
  <2> QED
    BY <2>1, <2>2
<1>22. ASSUME NEW c \in MessageDetectors, NEW p \in Packets PROVE ReportedOnce(c, p)'
  <2>1. c \in Detectors /\ ReportedOnce(c, p)
    BY DEF OneRunInv, MessageDetectors
  <2>2. detector'[c].current = detector[c].current /\ Copies(c, p)' = Copies(c, p)
    BY <1>8, <1>10, <1>14, <2>1 DEF Copies, CopiesOf
  <2>3. CASE c = d
    <3>1. ~PendingIn(r, c, p) /\ ~PendingIn(r, c, p)' /\ ~AnalysedIn(r, c, p)
      BY <1>11, <1>13, <1>17, <1>18, <2>3 DEF PendingIn, AnalysedIn
    <3>2. Reports(c, p)' = Reports(c, p)
      BY <2>2, <3>1, OfTheOneRun DEF Reports
    <3> QED
      BY <1>8, <2>1, <2>2, <3>1, <3>2, OfTheOneRun DEF ReportedOnce
  <2>4. CASE c # d
    <3>1. thread'[r][c] = thread[r][c] /\ detector'[c] = detector[c]
      BY <1>13, <1>14, <2>1, <2>4
    <3>2. PendingIn(r, c, p)' <=> PendingIn(r, c, p)
      BY <3>1 DEF PendingIn
    <3>3. AnalysedIn(r, c, p)' <=> AnalysedIn(r, c, p)
      BY <1>15, <2>1, <2>4, <3>1 DEF AnalysedIn
    <3>4. Reports(c, p)' = Reports(c, p)
      BY <2>2, <3>2, OfTheOneRun DEF Reports
    <3> QED
      BY <1>8, <2>1, <2>2, <3>3, <3>4, OfTheOneRun DEF ReportedOnce
  <2> QED
    BY <2>3, <2>4
<1> QED
  BY <1>1, <1>19, <1>20, <1>21, <1>22

(* A detector is joined: its thread is over, and its time is not later     *)
(* than the latest.                                                        *)
LEMMA OnceJoin ==
    ASSUME OneRun, OneRunInv, NEW r \in Runs, JoinDetector(r)
    PROVE  /\ FloodsCountPackets'
           /\ \A q \in Runs : RunInv(q)'
           /\ \A q \in Runs, c \in Detectors : ThreadInv(q, c)'
           /\ \A c \in MessageDetectors, p \in Packets : ReportedOnce(c, p)'
<1>1. /\ TypeOK /\ run[r] \in RunStates /\ run[r].pc = "join" /\ \A q \in Runs : q = r
      /\ UNCHANGED <<captured, cutoff, alerts, detector, thread, interruptions>>
  BY DEF OneRunInv, BaseInv, TypeOK, JoinDetector, OneRun, LocalsOnly, DatabaseOnly, history
<1>2. PICK d : d = ActiveModules[run[r].next]
  OBVIOUS
<1>3. PICK z : z = IF run[r].latest < detector[d].current THEN detector[d].current
                   ELSE run[r].latest
  OBVIOUS
<1>4. PICK x : x = [run[r] EXCEPT !.latest = z]
  OBVIOUS
<1>5. PICK y : y = Advance(x, "join", "write")
  OBVIOUS
<1>6. d \in Detectors
  BY <1>1, <1>2, PassesOne DEF TypeOK
<1>7. RunGoesOn(r, y) /\ thread[r][d].pc = "over"
  BY <1>1, <1>2, <1>3, <1>4, <1>5 DEF JoinDetector, RunStates
<1>8. /\ z \in Times /\ z \in Int /\ z >= run[r].latest /\ z >= detector[d].current
      /\ run[r].latest \in Int /\ \A c \in Detectors : detector[c].current \in Int
  BY <1>1, <1>3, <1>6, TimesAreNumbers DEF TypeOK, RunStates, States
<1>9. /\ x \in RunStates /\ x.latest = z /\ x.next = run[r].next /\ x.last = run[r].last
      /\ x.packets = run[r].packets
  BY <1>1, <1>4, <1>8 DEF RunStates
<1>10. /\ y \in RunStates /\ y.packets = run[r].packets /\ y.latest = z /\ y.last = run[r].last
       /\ \/ run[r].next < Len(ActiveModules) /\ y.pc = "join" /\ y.next = run[r].next + 1
          \/ run[r].next = Len(ActiveModules) /\ y.pc = "write" /\ y.next = 1
  BY <1>5, <1>9, AdvanceKeeps
<1>11. run'[r] = y
  BY <1>1, <1>7, RunChanges DEF TypeOK
<1>12. \A c \in Detectors : HasStarted(r, c) /\ HasStarted(r, c)'
  BY <1>1, <1>10, <1>11 DEF HasStarted
<1>13. \A c \in Detectors : HasJoined(r, c)' <=> HasJoined(r, c) \/ c = d
  <2>1. CASE run[r].next < Len(ActiveModules) /\ y.pc = "join" /\ y.next = run[r].next + 1
    <3>1. \A c \in Detectors : Passed(r, c)' <=> Passed(r, c) \/ c = d
      BY <1>1, <1>2, <1>11, <2>1, PassesOne DEF TypeOK
    <3> QED
      BY <1>1, <1>11, <2>1, <3>1 DEF HasJoined
  <2>2. CASE run[r].next = Len(ActiveModules) /\ y.pc = "write" /\ y.next = 1
    <3>1. \A c \in Detectors : Passed(r, c) \/ c = d
      BY <1>1, <1>2, <2>2, PassesOne DEF TypeOK
    <3> QED
      BY <1>1, <1>11, <2>2, <3>1 DEF HasJoined
  <2> QED
    BY <1>10, <2>1, <2>2
<1>14. FloodsCountPackets'
  BY <1>1 DEF OneRunInv, FloodsCountPackets, PacketsOf
<1>15. RunInv(r)'
  <2>1. \A c \in Detectors : HasJoined(r, c)' => detector'[c].current <= y.latest
    BY <1>1, <1>8, <1>10, <1>13 DEF OneRunInv, RunInv
  <2>2. /\ run[r].last = cutoff
        /\ \A p \in run[r].packets : p \in captured /\ TimeOf[p] > cutoff
    BY <1>1 DEF OneRunInv, RunInv
  <2> QED
    BY <1>1, <1>10, <1>11, <2>1, <2>2 DEF RunInv
<1>16. ASSUME NEW c \in Detectors PROVE ThreadInv(r, c)'
  <2>1. ThreadInv(r, c)
    BY DEF OneRunInv
  <2>2. run'[r].packets = run[r].packets
    BY <1>10, <1>11
  <2>3. FoundInv(r, c)' <=> FoundInv(r, c)
    BY <1>1, <2>2 DEF FoundInv
  <2>4. LeftInv(r, c)' <=> LeftInv(r, c)
    BY <1>1 DEF LeftInv, PacketsOf
  <2> QED
    BY <1>1, <1>7, <1>12, <1>13, <2>1, <2>2, <2>3, <2>4 DEF ThreadInv
<1>17. ASSUME NEW c \in MessageDetectors, NEW p \in Packets PROVE ReportedOnce(c, p)'
  <2>1. c \in Detectors /\ ReportedOnce(c, p)
    BY DEF OneRunInv, MessageDetectors
  <2>2. Reports(c, p)' = Reports(c, p)
    BY <1>1 DEF Reports, Copies, CopiesOf, Pending, PendingIn
  <2>3. AnalysedIn(r, c, p)' <=> AnalysedIn(r, c, p)
    BY <1>1, <1>12, <2>1 DEF AnalysedIn
  <2> QED
    BY <1>1, <2>1, <2>2, <2>3, OfTheOneRun DEF ReportedOnce
<1> QED
  BY <1>1, <1>14, <1>15, <1>16, <1>17

(* A step of a thread concerns its own detector only.                      *)
LEMMA OnceThread ==
    ASSUME OneRun, OneRunInv, NEW r \in Runs, NEW d \in Detectors, NEW t, NEW s,
           ThreadGoesOn(r, d, t), detector' = [detector EXCEPT ![d] = s],
           thread[r][d].pc # "over",
           UNCHANGED <<captured, cutoff, run, interruptions>>,
           FloodsCountPackets', ThreadInv(r, d)',
           \A c \in MessageDetectors \ {d}, p \in Packets : Copies(c, p)' = Copies(c, p),
           d \in MessageDetectors => \A p \in Packets : ReportedOnce(d, p)'
    PROVE  /\ \A q \in Runs : RunInv(q)'
           /\ \A q \in Runs, c \in Detectors : ThreadInv(q, c)'
           /\ \A c \in MessageDetectors, p \in Packets : ReportedOnce(c, p)'
<1>1. TypeOK /\ \A q \in Runs : q = r
  BY DEF OneRunInv, BaseInv, OneRun
<1>2. \A c \in Detectors : c # d => thread'[r][c] = thread[r][c] /\ detector'[c] = detector[c]
  BY <1>1, ThreadChanges DEF TypeOK
<1>3. \A c \in Detectors : /\ HasStarted(r, c)' <=> HasStarted(r, c)
                           /\ HasJoined(r, c)' <=> HasJoined(r, c)
  BY DEF HasStarted, HasJoined, Passed
<1>4. RunInv(r)'
  <2>1. ~HasJoined(r, d)
    BY DEF OneRunInv, ThreadInv
  <2>2. \A c \in Detectors : HasJoined(r, c)' => detector'[c].current <= run[r].latest
    BY <1>2, <1>3, <2>1 DEF OneRunInv, RunInv
  <2> QED
    BY <2>2 DEF OneRunInv, RunInv
<1>5. ASSUME NEW c \in Detectors, c # d PROVE ThreadInv(r, c)'
  <2>1. ThreadInv(r, c)
    BY DEF OneRunInv
  <2>2. FoundInv(r, c)' <=> FoundInv(r, c)
    BY <1>2, <1>5 DEF FoundInv
  <2>3. LeftInv(r, c)' <=> LeftInv(r, c)
    BY <1>2, <1>5 DEF LeftInv, PacketsOf
  <2> QED
    BY <1>2, <1>3, <1>5, <2>1, <2>2, <2>3 DEF ThreadInv
<1>6. ASSUME NEW c \in MessageDetectors, c # d, NEW p \in Packets PROVE ReportedOnce(c, p)'
  <2>1. c \in Detectors /\ ReportedOnce(c, p)
    BY DEF OneRunInv, MessageDetectors
  <2>2. Pending(c, p)' <=> Pending(c, p)
    <3>1. PendingIn(r, c, p)' <=> PendingIn(r, c, p)
      BY <1>2, <1>6, <2>1 DEF PendingIn
    <3> QED
      BY <3>1, OfTheOneRun
  <2>3. Reports(c, p)' = Reports(c, p)
    BY <1>6, <2>2 DEF Reports
  <2>4. Analysed(c, p)' <=> Analysed(c, p)
    <3>1. AnalysedIn(r, c, p)' <=> AnalysedIn(r, c, p)
      BY <1>2, <1>3, <1>6, <2>1 DEF AnalysedIn
    <3> QED
      BY <3>1, OfTheOneRun
  <2> QED
    BY <1>2, <1>6, <2>1, <2>3, <2>4 DEF ReportedOnce
<1> QED
  BY <1>1, <1>4, <1>5, <1>6

(* No more reports, and the packet still behind: the report stays what it  *)
(* was.                                                                    *)
LEMMA ReportsStay ==
    ASSUME OneRun, OneRunInv, NEW r \in Runs, NEW d \in MessageDetectors, NEW p \in Packets,
           Reports(d, p)' \in Nat, Reports(d, p)' <= Reports(d, p),
           detector'[d].current \in Int, detector'[d].current >= detector[d].current,
           AnalysedIn(r, d, p) => AnalysedIn(r, d, p)',
           UNCHANGED <<cutoff, interruptions>>
    PROVE  ReportedOnce(d, p)'
<1>1. TypeOK /\ d \in Detectors
  BY DEF OneRunInv, BaseInv, MessageDetectors
<1>2. /\ Reports(d, p) \in Nat /\ interruptions \in Nat
      /\ detector[d].current \in Int /\ TimeOf[p] \in Int
  BY <1>1, ReportsAreNumbers, TimesAreNumbers, EngineAssumption DEF TypeOK, States
<1>3. ReportedOnce(d, p) /\ (Analysed(d, p) => Analysed(d, p)')
  BY OfTheOneRun DEF OneRunInv
<1> QED
  BY <1>2, <1>3 DEF ReportedOnce

(* A detector is activated: it has found nothing yet.                      *)
LEMMA OnceActivate ==
    ASSUME OneRun, OneRunInv, NEW r \in Runs, NEW d \in Detectors, ActivateDetector(r, d)
    PROVE  /\ FloodsCountPackets'
           /\ \A q \in Runs : RunInv(q)'
           /\ \A q \in Runs, c \in Detectors : ThreadInv(q, c)'
           /\ \A c \in MessageDetectors, p \in Packets : ReportedOnce(c, p)'
<1>1. /\ TypeOK /\ thread[r][d] \in ThreadStates /\ detector[d] \in States /\ now \in Nat
      /\ ThreadInv(r, d) /\ RunInv(r)
  BY DEF OneRunInv, BaseInv, TypeOK
<1>2. PICK s : s = Activate(d, detector[d], rules, now)
  OBVIOUS
<1>3. PICK t : t = [thread[r][d] EXCEPT !.pc = "analyse"]
  OBVIOUS
<1>4. /\ ThreadGoesOn(r, d, t) /\ detector' = [detector EXCEPT ![d] = s]
      /\ thread[r][d].pc = "activate"
      /\ UNCHANGED <<now, captured, cutoff, alerts, run, interruptions>>
  BY <1>1, <1>2, <1>3 DEF ActivateDetector, ThreadOnly, history, TypeOK
<1>5. /\ s \in States /\ s.current = detector[d].current /\ s.last = detector[d].last
      /\ s.now = now /\ s.found = <<>>
  BY <1>1, <1>2, ActivateKeeps
<1>6. t.todo = thread[r][d].todo /\ t.pc = "analyse"
  BY <1>1, <1>3 DEF ThreadStates
<1>7. thread'[r][d] = t /\ detector'[d] = s
  BY <1>1, <1>4, ThreadChanges DEF TypeOK
<1>8. FloodsCountPackets'
  BY <1>4 DEF OneRunInv, FloodsCountPackets, PacketsOf
<1>9. ThreadInv(r, d)'
  <2>1. FoundInv(r, d)'
    <3>1. \A p \in run[r].packets : TimeOf[p] <= now
      BY DEF OneRunInv, BaseInv
    <3> QED
      BY <1>4, <1>5, <1>7, <3>1 DEF FoundInv
  <2>2. HasStarted(r, d)' /\ ~HasJoined(r, d)'
    BY <1>1, <1>4 DEF ThreadInv, HasStarted, HasJoined, Passed
  <2> QED
    BY <1>1, <1>4, <1>5, <1>6, <1>7, <2>1, <2>2 DEF ThreadInv
<1>10. \A c \in MessageDetectors, p \in Packets : Copies(c, p)' = Copies(c, p)
  BY <1>4 DEF Copies, CopiesOf
<1>11. ASSUME d \in MessageDetectors, NEW p \in Packets PROVE ReportedOnce(d, p)'
  <2>1. ~PendingIn(r, d, p) /\ ~PendingIn(r, d, p)' /\ ~AnalysedIn(r, d, p)
    BY <1>4, <1>5, <1>6, <1>7 DEF PendingIn, AnalysedIn
  <2>2. Reports(d, p)' = Reports(d, p)
    BY <1>10, <1>11, <2>1, OfTheOneRun DEF Reports
  <2>3. Reports(d, p) \in Nat /\ detector[d].current \in Int
    BY <1>1, ReportsAreNumbers, TimesAreNumbers DEF TypeOK, States
  <2> QED
    BY <1>4, <1>5, <1>7, <1>11, <2>1, <2>2, <2>3, ReportsStay
<1> QED
  BY <1>4, <1>8, <1>9, <1>10, <1>11, OnceThread

(* A packet is analysed: it is after the cutoff and was not analysed       *)
(* before, so its report is not used up.                                   *)
LEMMA OnceAnalyse ==
    ASSUME OneRun, OneRunInv, NEW r \in Runs, NEW d \in Detectors, AnalysePacket(r, d)
    PROVE  /\ FloodsCountPackets'
           /\ \A q \in Runs : RunInv(q)'
           /\ \A q \in Runs, c \in Detectors : ThreadInv(q, c)'
           /\ \A c \in MessageDetectors, p \in Packets : ReportedOnce(c, p)'
<1>1. /\ TypeOK /\ thread[r][d] \in ThreadStates /\ detector[d] \in States
      /\ ThreadInv(r, d) /\ RunInv(r)
  BY DEF OneRunInv, BaseInv, TypeOK
<1>2. PICK p \in thread[r][d].todo :
         /\ detector' = [detector EXCEPT ![d] = Analyse(d, detector[d], p)]
         /\ ThreadGoesOn(r, d, [thread[r][d] EXCEPT !.todo = thread[r][d].todo \ {p}])
  BY <1>1 DEF AnalysePacket, TypeOK, ThreadGoesOn, ThreadStates
<1>3. PICK s : s = Analyse(d, detector[d], p)
  OBVIOUS
<1>4. PICK t : t = [thread[r][d] EXCEPT !.todo = thread[r][d].todo \ {p}]
  OBVIOUS
<1>5. /\ ThreadGoesOn(r, d, t) /\ detector' = [detector EXCEPT ![d] = s]
      /\ thread[r][d].pc = "analyse"
      /\ UNCHANGED <<now, captured, cutoff, alerts, run, interruptions>>
  BY <1>2, <1>3, <1>4 DEF AnalysePacket, ThreadOnly, history
<1>6. /\ p \in Packets /\ p \in run[r].packets /\ thread[r][d].todo \subseteq run[r].packets
      /\ HasStarted(r, d) /\ ~HasJoined(r, d) /\ detector[d].last = cutoff /\ FoundInv(r, d)
  BY <1>1, <1>2, <1>5 DEF ThreadInv, ThreadStates
<1>7. /\ s \in States /\ s.now = detector[d].now /\ s.last = detector[d].last
      /\ s.current >= detector[d].current
      /\ detector[d].ruled => s.current >= TimeOf[p]
      /\ s.found = IF detector[d].ruled /\ IsFinding(d, detector[d], p)
                   THEN Append(detector[d].found, p) ELSE detector[d].found
  BY <1>1, <1>3, <1>6, AnalyseKeeps
<1>8. t.todo = thread[r][d].todo \ {p} /\ t.pc = "analyse"
  BY <1>1, <1>4, <1>5 DEF ThreadStates
<1>9. thread'[r][d] = t /\ detector'[d] = s
  BY <1>1, <1>5, ThreadChanges DEF TypeOK
<1>10. detector[d].found \in Seq(Packets)
  BY <1>1 DEF States
<1>11. FloodsCountPackets'
  BY <1>5 DEF OneRunInv, FloodsCountPackets, PacketsOf
<1>12. FoundInv(r, d)'
  <2>1. CASE s.found = detector[d].found
    BY <1>5, <1>6, <1>7, <1>8, <1>9, <2>1 DEF FoundInv
  <2>2. CASE s.found = Append(detector[d].found, p) /\ IsFinding(d, detector[d], p)
    <3>1. PICK n \in Nat : /\ DOMAIN detector[d].found = 1 .. n
                           /\ DOMAIN s.found = 1 .. n + 1 /\ s.found[n + 1] = p
                           /\ \A i \in 1 .. n : s.found[i] = detector[d].found[i]
      BY <1>10, <2>2
    <3>2. \A i \in 1 .. n + 1 : i = n + 1 \/ i \in 1 .. n
      OBVIOUS
    <3>3. \A i \in 1 .. n : detector[d].found[i] \in run[r].packets \ thread[r][d].todo
      BY <1>6, <3>1 DEF FoundInv
    <3>4. \A i, j \in 1 .. n + 1 : s.found[i] = s.found[j] => i = j
      <4> SUFFICES ASSUME NEW i \in 1 .. n + 1, NEW j \in 1 .. n + 1, s.found[i] = s.found[j]
                   PROVE  i = j
        OBVIOUS
      <4>1. CASE i \in 1 .. n /\ j \in 1 .. n
        BY <1>6, <3>1, <4>1 DEF FoundInv
      <4>2. CASE i \in 1 .. n /\ j = n + 1
        BY <1>2, <3>1, <3>3, <4>2
      <4>3. CASE j \in 1 .. n /\ i = n + 1
        BY <1>2, <3>1, <3>3, <4>3
      <4> QED
        BY <3>2, <4>1, <4>2, <4>3
    <3>5. \A i \in 1 .. n + 1 : s.found[i] \in run[r].packets \ t.todo
      BY <1>6, <1>8, <3>1, <3>2, <3>3
    <3>6. d = "DoS" => \A i \in 1 .. n + 1 : s.now - TimeOf[s.found[i]] <= DosWindow
      <4>1. d = "DoS" => detector[d].now - TimeOf[p] <= DosWindow
        BY <2>2 DEF IsFinding
      <4> QED
        BY <1>6, <1>7, <3>1, <3>2, <4>1 DEF FoundInv
    <3>7. \A q \in run[r].packets : TimeOf[q] <= s.now
      BY <1>6, <1>7 DEF FoundInv
    <3> QED
      BY <1>5, <1>9, <3>1, <3>4, <3>5, <3>6, <3>7 DEF FoundInv
  <2> QED
    BY <1>7, <2>1, <2>2
<1>13. ThreadInv(r, d)'
  <2>1. HasStarted(r, d)' /\ ~HasJoined(r, d)'
    BY <1>5, <1>6 DEF HasStarted, HasJoined, Passed
  <2> QED
    BY <1>5, <1>6, <1>7, <1>8, <1>9, <1>12, <2>1 DEF ThreadInv
<1>14. \A c \in MessageDetectors, q \in Packets : Copies(c, q)' = Copies(c, q)
  BY <1>5 DEF Copies, CopiesOf
<1>15. ASSUME d \in MessageDetectors, NEW q \in Packets PROVE ReportedOnce(d, q)'
  <2>1. /\ Copies(d, q) \in Nat /\ Reports(d, q) \in Nat /\ Copies(d, q)' = Copies(d, q)
        /\ interruptions \in Nat /\ detector[d].current \in Int /\ s.current \in Int
        /\ TimeOf[q] \in Int
    BY <1>1, <1>7, <1>14, <1>15, ReportsAreNumbers, TimesAreNumbers, EngineAssumption
    DEF TypeOK, States
  <2>2. AnalysedIn(r, d, q) => AnalysedIn(r, d, q)'
    BY <1>5, <1>8, <1>9 DEF AnalysedIn, HasStarted, Passed
  <2>3. CASE Pending(d, q)' => Pending(d, q)
    <3>1. Reports(d, q)' \in Nat /\ Reports(d, q)' <= Reports(d, q)
      BY <2>1, <2>3 DEF Reports
    <3> QED
      BY <1>5, <1>7, <1>9, <1>15, <2>1, <2>2, <3>1, ReportsStay
  <2>4. CASE Pending(d, q)' /\ ~Pending(d, q)
    <3>1. PendingIn(r, d, q)' /\ ~PendingIn(r, d, q)
      BY <2>4, OfTheOneRun
    <3>2. /\ \E i \in DOMAIN s.found : s.found[i] = q
          /\ ~\E i \in DOMAIN detector[d].found : detector[d].found[i] = q
      BY <1>5, <1>8, <1>9, <3>1 DEF PendingIn
    <3>3. detector[d].ruled /\ q = p
      BY <1>7, <1>10, <3>2
    <3>4. TimeOf[q] > cutoff /\ ~Analysed(d, q)
      <4>1. run[r].pc \in {"start", "join", "write"}
        BY <1>6 DEF HasStarted
      <4>2. TimeOf[q] > cutoff
        BY <1>1, <1>6, <3>3, <4>1 DEF RunInv
      <4>3. ~AnalysedIn(r, d, q)
        BY <1>2, <3>3 DEF AnalysedIn
      <4> QED
        BY <4>2, <4>3, OfTheOneRun
    <3>5. Reports(d, q) <= interruptions
      <4>1. ~(TimeOf[q] <= cutoff)
        <5>1. cutoff \in Int
          BY <1>1, SeenAreTimes DEF TypeOK, SeenTimes
        <5> QED
          BY <2>1, <3>4, <5>1
      <4>2. ReportedOnce(d, q)
        BY <1>15 DEF OneRunInv
      <4> QED
        BY <2>1, <3>4, <4>1, <4>2 DEF ReportedOnce
    <3>6. Reports(d, q)' = Reports(d, q) + 1
      BY <2>1, <2>4 DEF Reports
    <3>7. TimeOf[q] <= s.current
      BY <1>7, <2>1, <3>3
    <3>8. Analysed(d, q)'
      <4>1. AnalysedIn(r, d, q)'
        BY <1>5, <1>6, <1>8, <1>9, <3>3 DEF AnalysedIn, HasStarted, Passed
      <4> QED
        BY <4>1, OfTheOneRun
    <3> QED
      BY <1>5, <1>9, <2>1, <3>5, <3>6, <3>7, <3>8 DEF ReportedOnce
  <2> QED
    BY <2>3, <2>4
<1> QED
  BY <1>5, <1>11, <1>13, <1>14, <1>15, OnceThread

(* A flood counts packets there were, each of them once.                   *)
LEMMA FloodsCount ==
    ASSUME OneRunInv, NEW r \in Runs, thread[r]["DoS"].pc = "analyse", "DoS" \in Detectors,
           NEW f \in Floods(detector["DoS"])
    PROVE  f.number <= Cardinality(PacketsOf(f))
<1>1. PICK s : s = detector["DoS"]
  OBVIOUS
<1>2. TypeOK /\ s \in States /\ s.now \in 0 .. now /\ now \in Nat /\ IsFiniteSet(captured)
  BY <1>1 DEF OneRunInv, BaseInv, TypeOK
<1>3. PICK src \in Addresses, dst \in Addresses \cup {AnyAddress} :
         f = [detector |-> "DoS", src |-> src, dst |-> dst, number |-> Count(s, src, dst),
              at |-> s.now]
  BY <1>1 DEF Floods
<1>4. f.src = src /\ f.dst = dst /\ f.number = Count(s, src, dst) /\ f.at = s.now
  BY <1>3
<1>5. /\ \A i, j \in DOMAIN s.found : s.found[i] = s.found[j] => i = j
      /\ \A i \in DOMAIN s.found :
            /\ s.found[i] \in captured
            /\ s.now - TimeOf[s.found[i]] <= DosWindow /\ TimeOf[s.found[i]] <= s.now
  BY <1>1 DEF OneRunInv, BaseInv, ThreadInv, FoundInv
<1> DEFINE D == {i \in DOMAIN s.found : Between(s.found[i], src, dst)}
           g == [i \in D |-> s.found[i]]
<1>6. \A i \in D : s.found[i] \in PacketsOf(f)
  <2> SUFFICES ASSUME NEW i \in D PROVE s.found[i] \in PacketsOf(f)
    OBVIOUS
  <2>1. TimeOf[s.found[i]] \in Nat
    BY <1>2, <1>5, TimesAreNumbers DEF TypeOK
  <2>2. TimeOf[s.found[i]] \in s.now - DosWindow .. s.now
    BY <1>2, <1>5, <2>1, PacketAssumption
  <2> QED
    BY <1>4, <1>5, <2>2 DEF PacketsOf
<1>7. IsFiniteSet(PacketsOf(f))
  BY <1>2, FS_Subset DEF PacketsOf
<1>8. g \in Injection(D, PacketsOf(f))
  <2>1. g \in [D -> PacketsOf(f)]
    BY <1>6
  <2>2. \A i, j \in D : g[i] = g[j] => i = j
    BY <1>5
  <2> HIDE DEF g, D
  <2> QED
    BY <2>1, <2>2 DEF Injection, IsInjective
<1> HIDE DEF g, D
<1>9. Cardinality(D) <= Cardinality(PacketsOf(f))
  BY <1>7, <1>8, FS_Injection
<1> QED
  BY <1>4, <1>9 DEF Count, D

(* A detector is done: what was found is to be stored.                     *)
LEMMA OnceFinish ==
    ASSUME OneRun, OneRunInv, NEW r \in Runs, NEW d \in Detectors, FinishDetector(r, d)
    PROVE  /\ FloodsCountPackets'
           /\ \A q \in Runs : RunInv(q)'
           /\ \A q \in Runs, c \in Detectors : ThreadInv(q, c)'
           /\ \A c \in MessageDetectors, p \in Packets : ReportedOnce(c, p)'
<1>1. /\ TypeOK /\ thread[r][d] \in ThreadStates /\ detector[d] \in States
      /\ ThreadInv(r, d) /\ detector = [detector EXCEPT ![d] = detector[d]]
  BY DEF OneRunInv, BaseInv, TypeOK
<1>2. PICK left : left = Findings(d, detector[d])
  OBVIOUS
<1>3. PICK t : t = WithAlerts(left)
  OBVIOUS
<1>4. /\ ThreadGoesOn(r, d, t) /\ UNCHANGED detector
      /\ thread[r][d].pc = "analyse" /\ thread[r][d].todo = {}
      /\ UNCHANGED <<captured, cutoff, alerts, run, interruptions>>
  <2>1. /\ ThreadGoesOn(r, d, WithAlerts(Findings(d, detector[d]))) /\ UNCHANGED detector
        /\ thread[r][d].pc = "analyse" /\ thread[r][d].todo = {}
        /\ UNCHANGED <<captured, cutoff, alerts, run, interruptions>>
    BY DEF FinishDetector, ThreadOnly, history
  <2> QED
    BY <1>2, <1>3, <2>1
<1>5. /\ left \in Seq(Alerts)
      /\ d = "DoS" => \A i \in DOMAIN left : left[i] \in Floods(detector[d])
  <2>1. detector[d].now \in Nat
    BY <1>1, <1>4 DEF OneRunInv, BaseInv, TypeOK
  <2> QED
    BY <1>1, <1>2, <2>1, FindingsAreAlerts
<1>6. t.todo = {} /\ t.left = left /\ t.pc \in {"over", "done"} /\ (t.pc = "done" <=> left # <<>>)
  BY <1>3, <1>5, WithAlertsKeeps
<1>7. thread'[r][d] = t
  BY <1>1, <1>4, ThreadChanges DEF TypeOK
<1>8. FoundInv(r, d) /\ HasStarted(r, d) /\ ~HasJoined(r, d)
  BY <1>1, <1>4 DEF ThreadInv
<1>9. d # "DoS" => /\ DOMAIN left = DOMAIN detector[d].found
                   /\ \A i \in DOMAIN left :
                         left[i] = [detector |-> d, packet |-> detector[d].found[i]]
  BY <1>2 DEF Findings
<1>10. FloodsCountPackets'
  BY <1>4 DEF OneRunInv, FloodsCountPackets, PacketsOf
<1>11. ThreadInv(r, d)'
  <2>1. LeftInv(r, d)'
    <3>1. CASE d = "DoS"
      <4>1. \A a \in Range(left) : a \in Floods(detector[d])
        BY <1>5, <3>1 DEF Range
      <4>2. \A i \in DOMAIN left : left[i].detector = d
        BY <1>5, <3>1 DEF Floods
      <4>3. \A a \in Range(left) : a.number <= Cardinality(PacketsOf(a))
        BY <1>4, <3>1, <4>1, FloodsCount
      <4>4. \A a \in Range(left) : a.number <= Cardinality(PacketsOf(a)')
        BY <1>4, <4>3 DEF PacketsOf
      <4> QED
        BY <1>6, <1>7, <3>1, <4>2, <4>4 DEF LeftInv
    <3>2. CASE d # "DoS"
      <4>1. \A i \in DOMAIN left : left[i].detector = d
        BY <1>9, <3>2
      <4>2. \A i, j \in DOMAIN left : left[i] = left[j] => i = j
        <5> SUFFICES ASSUME NEW i \in DOMAIN left, NEW j \in DOMAIN left, left[i] = left[j]
                     PROVE  i = j
          OBVIOUS
        <5>1. left[i].packet = detector[d].found[i] /\ left[j].packet = detector[d].found[j]
          BY <1>9, <3>2
        <5> QED
          BY <1>8, <1>9, <3>2, <5>1 DEF FoundInv
      <4> QED
        BY <1>6, <1>7, <3>2, <4>1, <4>2 DEF LeftInv
    <3> QED
      BY <3>1, <3>2
  <2>2. HasStarted(r, d)' /\ ~HasJoined(r, d)'
    BY <1>4, <1>8 DEF HasStarted, HasJoined, Passed
  <2> QED
    BY <1>6, <1>7, <2>1, <2>2 DEF ThreadInv
<1>12. \A c \in MessageDetectors, p \in Packets : Copies(c, p)' = Copies(c, p)
  BY <1>4 DEF Copies, CopiesOf
<1>13. ASSUME d \in MessageDetectors, NEW p \in Packets PROVE ReportedOnce(d, p)'
  <2>1. d # "DoS"
    BY <1>13 DEF MessageDetectors
  <2>2. PendingIn(r, d, p)' => PendingIn(r, d, p)
    <3> SUFFICES ASSUME PendingIn(r, d, p)' PROVE PendingIn(r, d, p)
      OBVIOUS
    <3>1. PICK i \in DOMAIN left : left[i] = [detector |-> d, packet |-> p]
      BY <1>6, <1>7 DEF PendingIn
    <3>2. detector[d].found[i] = p /\ i \in DOMAIN detector[d].found
      <4>1. left[i].packet = p
        BY <3>1
      <4> QED
        BY <1>9, <2>1, <4>1
    <3> QED
      BY <1>4, <3>2 DEF PendingIn
  <2>3. Reports(d, p)' \in Nat /\ Reports(d, p)' <= Reports(d, p) /\ detector[d].current \in Int
    <3>1. Copies(d, p) \in Nat /\ detector[d].current \in Int
      BY <1>1, ReportsAreNumbers, TimesAreNumbers DEF TypeOK, States
    <3>2. Copies(d, p)' = Copies(d, p) /\ (Pending(d, p)' => Pending(d, p))
      BY <1>12, <1>13, <2>2, OfTheOneRun
    <3> QED
      BY <3>1, <3>2 DEF Reports
  <2>4. AnalysedIn(r, d, p) => AnalysedIn(r, d, p)'
    BY <1>4, <1>6, <1>7 DEF AnalysedIn, HasStarted, Passed
  <2> QED
    BY <1>4, <1>13, <2>3, <2>4, ReportsStay
<1> QED
  BY <1>1, <1>4, <1>10, <1>11, <1>12, <1>13, OnceThread

(* The first and the rest of a sequence.                                   *)
LEMMA HeadAndTail ==
    ASSUME NEW S, NEW q \in Seq(S), q # <<>>
    PROVE  /\ Head(q) = q[1] /\ 1 \in DOMAIN q /\ Head(q) \in S /\ Tail(q) \in Seq(S)
           /\ \A i \in DOMAIN Tail(q) : i + 1 \in DOMAIN q /\ Tail(q)[i] = q[i + 1] /\ i + 1 # 1
           /\ \A i \in DOMAIN q : i = 1 \/ (i - 1 \in DOMAIN Tail(q) /\ Tail(q)[i - 1] = q[i])
           /\ \A i, j \in DOMAIN Tail(q) : i + 1 = j + 1 => i = j
<1>1. PICK n \in Nat : n = Len(q) /\ DOMAIN q = 1 .. n /\ n # 0
  OBVIOUS
<1>2. /\ Head(q) = q[1] /\ Tail(q) \in Seq(S) /\ DOMAIN Tail(q) = 1 .. n - 1
      /\ \A i \in 1 .. n - 1 : Tail(q)[i] = q[i + 1]
  BY <1>1
<1> QED
  BY <1>1, <1>2

(* An alert is stored: what was pending is counted.                        *)
LEMMA OnceStore ==
    ASSUME OneRun, OneRunInv, NEW r \in Runs, NEW d \in Detectors, StoreAlert(r, d)
    PROVE  /\ FloodsCountPackets'
           /\ \A q \in Runs : RunInv(q)'
           /\ \A q \in Runs, c \in Detectors : ThreadInv(q, c)'
           /\ \A c \in MessageDetectors, p \in Packets : ReportedOnce(c, p)'
<1>1. /\ TypeOK /\ thread[r][d] \in ThreadStates /\ detector[d] \in States
      /\ ThreadInv(r, d) /\ detector = [detector EXCEPT ![d] = detector[d]]
  BY DEF OneRunInv, BaseInv, TypeOK
<1>2. PICK left : left = thread[r][d].left
  OBVIOUS
<1>3. PICK a : a = Head(left)
  OBVIOUS
<1>4. PICK rest : rest = Tail(left)
  OBVIOUS
<1>5. PICK t : t = WithAlerts(rest)
  OBVIOUS
<1>6. /\ ThreadGoesOn(r, d, t) /\ UNCHANGED detector
      /\ thread[r][d].pc = "done" /\ alerts' = alerts (+) SetToBag({a})
      /\ UNCHANGED <<captured, cutoff, run, interruptions>>
  <2>1. /\ ThreadGoesOn(r, d, WithAlerts(Tail(thread[r][d].left))) /\ UNCHANGED detector
        /\ thread[r][d].pc = "done" /\ alerts' = alerts (+) SetToBag({Head(thread[r][d].left)})
        /\ UNCHANGED <<captured, cutoff, run, interruptions>>
    BY DEF StoreAlert, ThreadOnly, history
  <2> QED
    BY <1>2, <1>3, <1>4, <1>5, <2>1
<1>7. left \in Seq(Alerts) /\ left # <<>>
  BY <1>1, <1>2, <1>6 DEF OneRunInv, BaseInv, ThreadStates
<1>8. /\ a = left[1] /\ 1 \in DOMAIN left /\ a \in Alerts /\ rest \in Seq(Alerts)
      /\ \A i \in DOMAIN rest : i + 1 \in DOMAIN left /\ rest[i] = left[i + 1] /\ i + 1 # 1
      /\ \A i \in DOMAIN left : i = 1 \/ (i - 1 \in DOMAIN rest /\ rest[i - 1] = left[i])
      /\ \A i, j \in DOMAIN rest : i + 1 = j + 1 => i = j
  BY <1>3, <1>4, <1>7, HeadAndTail
<1>9. t.todo = {} /\ t.left = rest /\ t.pc \in {"over", "done"} /\ (t.pc = "done" <=> rest # <<>>)
  BY <1>5, <1>8, WithAlertsKeeps
<1>10. thread'[r][d] = t
  BY <1>1, <1>6, ThreadChanges DEF TypeOK
<1>11. LeftInv(r, d) /\ HasStarted(r, d) /\ ~HasJoined(r, d) /\ thread[r][d].todo = {}
  BY <1>1, <1>6 DEF ThreadInv
<1>12. a.detector = d /\ (d = "DoS" => a.number <= Cardinality(PacketsOf(a)))
  BY <1>2, <1>8, <1>11 DEF LeftInv, Range
<1>13. BagToSet(alerts') = BagToSet(alerts) \cup {a} /\ IsABag(alerts)
  BY <1>1, <1>6, BagGrows DEF TypeOK
<1>14. FloodsCountPackets'
  <2>1. \A f : PacketsOf(f)' = PacketsOf(f)
    BY <1>6 DEF PacketsOf
  <2> SUFFICES ASSUME NEW f \in BagToSet(alerts'), f.detector = "DoS"
               PROVE  f.number <= Cardinality(PacketsOf(f)')
    BY DEF FloodsCountPackets
  <2> QED
    BY <1>12, <1>13, <2>1 DEF OneRunInv, FloodsCountPackets
<1>15. ThreadInv(r, d)'
  <2>1. LeftInv(r, d)'
    <3>1. \A i \in DOMAIN rest : rest[i].detector = d
      BY <1>2, <1>8, <1>11 DEF LeftInv
    <3>2. d # "DoS" => \A i, j \in DOMAIN rest : rest[i] = rest[j] => i = j
      <4> SUFFICES ASSUME d # "DoS", NEW i \in DOMAIN rest, NEW j \in DOMAIN rest,
                          rest[i] = rest[j]
                   PROVE  i = j
        OBVIOUS
      <4>1. i + 1 \in DOMAIN left /\ j + 1 \in DOMAIN left /\ left[i + 1] = left[j + 1]
        BY <1>8
      <4>2. i + 1 = j + 1
        BY <1>2, <1>11, <4>1 DEF LeftInv
      <4> QED
        BY <1>8, <4>2
    <3>3. d = "DoS" => \A b \in Range(rest) : b.number <= Cardinality(PacketsOf(b))
      <4>1. Range(rest) \subseteq Range(left)
        BY <1>8 DEF Range
      <4> QED
        BY <1>2, <1>11, <4>1 DEF LeftInv
    <3>4. d = "DoS" => \A b \in Range(rest) : b.number <= Cardinality(PacketsOf(b)')
      BY <1>6, <3>3 DEF PacketsOf
    <3> QED
      BY <1>9, <1>10, <3>1, <3>2, <3>4 DEF LeftInv
  <2>2. HasStarted(r, d)' /\ ~HasJoined(r, d)'
    BY <1>6, <1>11 DEF HasStarted, HasJoined, Passed
  <2> QED
    BY <1>9, <1>10, <2>1, <2>2 DEF ThreadInv
<1>16. \A x : CopiesOf(x)' = CopiesOf(x) + IF x = a THEN 1 ELSE 0
  BY <1>6, <1>13, CopiesGrow
<1>17. \A c \in MessageDetectors \ {d}, p \in Packets : Copies(c, p)' = Copies(c, p)
  <2> SUFFICES ASSUME NEW c \in MessageDetectors \ {d}, NEW p \in Packets
               PROVE  Copies(c, p)' = Copies(c, p)
    OBVIOUS
  <2>1. PICK x : x = [detector |-> c, packet |-> p]
    OBVIOUS
  <2>2. x # a
    BY <1>12, <2>1
  <2>3. CopiesOf(x) \in Nat /\ CopiesOf(x)' = CopiesOf(x) + 0
    BY <1>13, <1>16, <2>2, CopiesAreNumbers
  <2> QED
    BY <2>1, <2>3 DEF Copies
<1>18. ASSUME d \in MessageDetectors, NEW p \in Packets PROVE ReportedOnce(d, p)'
  <2>1. d # "DoS"
    BY <1>18 DEF MessageDetectors
  <2>2. PICK x : x = [detector |-> d, packet |-> p]
    OBVIOUS
  <2>3. /\ Copies(d, p) = CopiesOf(x) /\ Copies(d, p)' = CopiesOf(x)' /\ CopiesOf(x) \in Nat
        /\ detector[d].current \in Int
    BY <1>1, <1>13, <2>2, CopiesAreNumbers, TimesAreNumbers DEF Copies, TypeOK, States
  <2>4. PendingIn(r, d, p) <=> x = a \/ PendingIn(r, d, p)'
    <3>1. PendingIn(r, d, p) <=> \E i \in DOMAIN left : left[i] = x
      BY <1>2, <1>6, <2>2 DEF PendingIn
    <3>2. PendingIn(r, d, p)' <=> \E i \in DOMAIN rest : rest[i] = x
      <4>1. rest = <<>> => ~\E i \in DOMAIN rest : rest[i] = x
        OBVIOUS
      <4> QED
        BY <1>9, <1>10, <2>2, <4>1 DEF PendingIn
    <3> QED
      BY <1>8, <3>1, <3>2
  <2>5. x = a => ~PendingIn(r, d, p)'
    <3>1. ~\E i \in DOMAIN rest : rest[i] = a
      BY <1>2, <1>8, <1>11, <2>1 DEF LeftInv
    <3> QED
      BY <1>9, <1>10, <2>2, <3>1 DEF PendingIn
  <2>6. Reports(d, p)' = Reports(d, p) /\ Reports(d, p) \in Nat
    BY <1>16, <2>3, <2>4, <2>5, OfTheOneRun DEF Reports
  <2>7. AnalysedIn(r, d, p) => AnalysedIn(r, d, p)'
    BY <1>6, <1>9, <1>10 DEF AnalysedIn, HasStarted, Passed
  <2> QED
    BY <1>6, <1>18, <2>3, <2>6, <2>7, ReportsStay
<1> QED
  BY <1>1, <1>6, <1>14, <1>15, <1>17, <1>18, OnceThread

(* A thread dies: what it found is not reported.                           *)
LEMMA OnceThreadDies ==
    ASSUME OneRun, OneRunInv, NEW r \in Runs, NEW d \in Detectors, ThreadDies(r, d)
    PROVE  /\ FloodsCountPackets'
           /\ \A q \in Runs : RunInv(q)'
           /\ \A q \in Runs, c \in Detectors : ThreadInv(q, c)'
           /\ \A c \in MessageDetectors, p \in Packets : ReportedOnce(c, p)'
<1>1. /\ TypeOK /\ detector[d] \in States /\ detector = [detector EXCEPT ![d] = detector[d]]
  BY DEF OneRunInv, BaseInv, TypeOK
<1>2. /\ ThreadGoesOn(r, d, Over) /\ thread[r][d].pc # "over"
      /\ UNCHANGED <<captured, cutoff, alerts, detector, run, interruptions>>
  BY DEF ThreadDies, Lapse, database
<1>3. thread'[r][d].pc = "over" /\ thread'[r][d].todo = {}
  BY <1>1, <1>2, ThreadChanges DEF TypeOK, Over
<1>4. FloodsCountPackets'
  BY <1>2 DEF OneRunInv, FloodsCountPackets, PacketsOf
<1>5. ThreadInv(r, d)'
  BY <1>3 DEF ThreadInv
<1>6. \A c \in MessageDetectors, p \in Packets : Copies(c, p)' = Copies(c, p)
  BY <1>2 DEF Copies, CopiesOf
<1>7. ASSUME d \in MessageDetectors, NEW p \in Packets PROVE ReportedOnce(d, p)'
  <2>1. ~Pending(d, p)'
    BY <1>3, OfTheOneRun DEF PendingIn
  <2>2. Copies(d, p) \in Nat /\ Copies(d, p)' = Copies(d, p) /\ detector[d].current \in Int
    BY <1>1, <1>6, <1>7, ReportsAreNumbers, TimesAreNumbers DEF TypeOK, States
  <2>3. Reports(d, p)' \in Nat /\ Reports(d, p)' <= Reports(d, p)
    BY <2>1, <2>2 DEF Reports
  <2>4. AnalysedIn(r, d, p) => AnalysedIn(r, d, p)'
    BY <1>2, <1>3 DEF AnalysedIn, HasStarted, Passed
  <2> QED
    BY <1>2, <1>7, <2>2, <2>3, <2>4, ReportsStay
<1> QED
  BY <1>1, <1>2, <1>4, <1>5, <1>6, <1>7, OnceThread

(* A restart: nothing is pending, and each packet may be reported again.   *)
LEMMA OnceRestart ==
    ASSUME OneRunInv, Restart
    PROVE  /\ FloodsCountPackets'
           /\ \A q \in Runs : RunInv(q)'
           /\ \A q \in Runs, c \in Detectors : ThreadInv(q, c)'
           /\ \A c \in MessageDetectors, p \in Packets : ReportedOnce(c, p)'
<1>1. TypeOK /\ interruptions \in Nat
  BY EngineAssumption DEF OneRunInv, BaseInv, TypeOK
<1>2. /\ UNCHANGED <<captured, cutoff, alerts>> /\ interruptions' = interruptions + 1
      /\ \A r \in Runs : run'[r] = Idle
      /\ \A r \in Runs, d \in Detectors : thread'[r][d] = Over
  BY DEF Restart, Interrupt, database
<1>3. FloodsCountPackets'
  BY <1>2 DEF OneRunInv, FloodsCountPackets, PacketsOf
<1>4. ASSUME NEW r \in Runs PROVE RunInv(r)'
  BY <1>2 DEF RunInv, HasJoined, Idle
<1>5. ASSUME NEW r \in Runs, NEW d \in Detectors PROVE ThreadInv(r, d)'
  BY <1>2 DEF ThreadInv, Over
<1>6. ASSUME NEW d \in MessageDetectors, NEW p \in Packets PROVE ReportedOnce(d, p)'
  <2>1. ~Pending(d, p)'
    BY <1>2 DEF Pending, PendingIn, Over, MessageDetectors
  <2>2. Copies(d, p)' = Copies(d, p) /\ Copies(d, p) \in Nat /\ Reports(d, p) \in Nat
    BY <1>1, <1>2, ReportsAreNumbers DEF Copies, CopiesOf, TypeOK
  <2>3. Copies(d, p) <= Reports(d, p) /\ Reports(d, p)' = Copies(d, p)
    BY <2>1, <2>2 DEF Reports
  <2>4. Reports(d, p) <= 1 + interruptions
    BY DEF OneRunInv, ReportedOnce
  <2> QED
    BY <1>1, <1>2, <2>2, <2>3, <2>4 DEF ReportedOnce
<1> QED
  BY <1>3, <1>4, <1>5, <1>6

-----------------------------------------------------------------------------
(* Once per interruption: the theorems *)

(* The first states.                                                       *)
LEMMA OnceInit == Init => OneRunInv
<1> SUFFICES ASSUME Init PROVE OneRunInv
  OBVIOUS
<1>1. BaseInv
  BY BaseInit
<1>2. \A x : ~BagIn(x, alerts)
  BY DEF Init, EmptyBag, BagIn, BagToSet, SetToBag
<1>3. FloodsCountPackets
  BY <1>2 DEF FloodsCountPackets, BagIn
<1>4. ASSUME NEW r \in Runs PROVE RunInv(r)
  BY DEF Init, RunInv, HasJoined, Idle
<1>5. ASSUME NEW r \in Runs, NEW d \in Detectors PROVE ThreadInv(r, d)
  BY DEF Init, ThreadInv, Over
<1>6. ASSUME NEW d \in MessageDetectors, NEW p \in Packets PROVE ReportedOnce(d, p)
  <2>1. ~Pending(d, p)
    BY DEF Init, Pending, PendingIn, Over, MessageDetectors
  <2>2. Reports(d, p) = 0
    BY <1>2, <2>1 DEF Reports, Copies, CopiesOf
  <2> QED
    BY <2>2 DEF ReportedOnce, Init
<1> QED
  BY <1>1, <1>3, <1>4, <1>5, <1>6 DEF OneRunInv

(* Every step of an engine that is run one request at a time keeps it.     *)
LEMMA OnceNext == ASSUME OneRun PROVE OneRunInv /\ [Next]_vars => OneRunInv'
<1> SUFFICES ASSUME OneRunInv, [Next]_vars PROVE OneRunInv'
  OBVIOUS
<1>1. BaseInv'
  BY BaseNext DEF OneRunInv
<1>2. IsFiniteSet(captured) /\ IsFiniteSet(captured')
  BY <1>1 DEF OneRunInv, BaseInv
<1> SUFFICES /\ FloodsCountPackets'
             /\ \A q \in Runs : RunInv(q)'
             /\ \A q \in Runs, c \in Detectors : ThreadInv(q, c)'
             /\ \A c \in MessageDetectors, p \in Packets : ReportedOnce(c, p)'
  BY <1>1 DEF OneRunInv
<1>3. CASE \/ \E p \in Packets : Capture(p)
           \/ Tick \/ \E d \in Detectors : ChangeRules(d)
           \/ UNCHANGED vars
  <2>1. /\ captured \subseteq captured'
        /\ UNCHANGED <<cutoff, alerts, detector, run, thread, interruptions>>
    BY <1>3 DEF Capture, Tick, ChangeRules, Lapse, vars, database, history
  <2> QED
    BY <1>2, <2>1, OnceOutside
<1>4. CASE Restart
  BY <1>4, OnceRestart
<1>5. ASSUME NEW r \in Runs,
             \/ \E c \in BOOLEAN : Request(r, c)
             \/ RunStep(r) \/ RunDies(r)
      PROVE  /\ FloodsCountPackets'
             /\ \A q \in Runs : RunInv(q)'
             /\ \A q \in Runs, c \in Detectors : ThreadInv(q, c)'
             /\ \A c \in MessageDetectors, p \in Packets : ReportedOnce(c, p)'
  BY <1>5, OnceRun, OnceStart, OnceJoin DEF RunStep
<1>6. ASSUME NEW r \in Runs, NEW d \in Detectors, ThreadStep(r, d) \/ ThreadDies(r, d)
      PROVE  /\ FloodsCountPackets'
             /\ \A q \in Runs : RunInv(q)'
             /\ \A q \in Runs, c \in Detectors : ThreadInv(q, c)'
             /\ \A c \in MessageDetectors, p \in Packets : ReportedOnce(c, p)'
  BY <1>6, OnceActivate, OnceAnalyse, OnceFinish, OnceStore, OnceThreadDies DEF ThreadStep
<1> QED
  BY <1>3, <1>4, <1>5, <1>6 DEF Next

(* A packet that violates a rule is reported once, and once more for each  *)
(* restart of the server or run that died, if requests run the engine one  *)
(* at a time: the alerts are stored before the cutoff is logged, and only  *)
(* a run that did not get to log it is repeated.                           *)
THEOREM AlertedOnce == ASSUME OneRun PROVE Spec => []AlertedOncePerInterruption
<1>1. OneRunInv => AlertedOncePerInterruption
  <2> SUFFICES ASSUME OneRunInv, NEW d \in MessageDetectors, NEW p \in Packets
               PROVE  Copies(d, p) <= 1 + interruptions
    BY DEF AlertedOncePerInterruption
  <2>1. Copies(d, p) \in Nat /\ interruptions \in Nat
    BY ReportsAreNumbers, EngineAssumption DEF OneRunInv, BaseInv, TypeOK
  <2>2. Reports(d, p) <= 1 + interruptions
    BY DEF OneRunInv, ReportedOnce
  <2>3. Copies(d, p) <= Reports(d, p)
    BY <2>1 DEF Reports
  <2>4. Reports(d, p) \in Nat
    BY <2>1 DEF Reports
  <2> QED
    BY <2>1, <2>2, <2>3, <2>4
<1>2. Init => OneRunInv
  BY OnceInit
<1>3. OneRunInv /\ [Next]_vars => OneRunInv'
  BY OnceNext
<1> QED
  BY <1>1, <1>2, <1>3, PTL DEF Spec

(* A flood that is reported, and may block a host, counts only packets     *)
(* that were stored, each of them once, within the window it names, if     *)
(* requests run the engine one at a time.                                  *)
THEOREM FloodsAreReal == ASSUME OneRun PROVE Spec => []FloodsCountPackets
<1>1. OneRunInv => FloodsCountPackets
  BY DEF OneRunInv
<1>2. Init => OneRunInv
  BY OnceInit
<1>3. OneRunInv /\ [Next]_vars => OneRunInv'
  BY OnceNext
<1> QED
  BY <1>1, <1>2, <1>3, PTL DEF Spec

-----------------------------------------------------------------------------
(* Nothing is skipped: the steps *)

(* The packets a detector has seen are finitely many.                      *)
LEMMA SeenAreFinite ==
    ASSUME BaseInv, NEW d \in Detectors
    PROVE  /\ Seen(d) \subseteq captured /\ IsFiniteSet(Seen(d)) /\ Cardinality(Seen(d)) \in Nat
           /\ cutoff \in Int /\ detector[d].current \in Int
<1>1. Seen(d) \subseteq captured /\ IsFiniteSet(captured)
  BY DEF Seen, BaseInv
<1>2. cutoff \in SeenTimes /\ detector[d].current \in SeenTimes /\ captured \subseteq Packets
  BY DEF BaseInv, TypeOK, SeenTimes
<1> QED
  BY <1>1, <1>2, SeenAreTimes, FS_Subset, FS_CardinalityType

(* A packet is stored: it is later than all that were, and than every time *)
(* the engine knows.                                                       *)
LEMMA HitsCapture ==
    ASSUME DistinctTimes, AllInv, NEW p \in Packets, Capture(p)
    PROVE  HitsInv'
<1>1. /\ BaseInv /\ TypeOK /\ captured \subseteq Packets /\ now \in Int
      /\ cutoff \in SeenTimes /\ \A d \in Detectors : detector[d].current \in SeenTimes
      /\ \A r \in Runs : run[r].packets \subseteq captured /\ run[r].latest \in SeenTimes
  BY DEF AllInv, OneRunInv, BaseInv, TypeOK, SeenTimes
<1>2. /\ captured' = captured \cup {p} /\ p \notin captured /\ TimeOf[p] >= now
      /\ UNCHANGED <<rules, cutoff, alerts, detector, run, thread, lapsed>>
  BY DEF Capture, history
<1>3. \A q \in captured : TimeOf[q] < TimeOf[p]
  <2> SUFFICES ASSUME NEW q \in captured PROVE TimeOf[q] < TimeOf[p]
    OBVIOUS
  <2>1. TimeOf[q] \in Nat /\ TimeOf[p] \in Nat /\ TimeOf[q] <= now
    BY <1>1, TimesAreNumbers DEF BaseInv
  <2>2. TimeOf[q] # TimeOf[p]
    BY <1>1, <1>2 DEF DistinctTimes
  <2> QED
    BY <1>1, <1>2, <2>1, <2>2
<1>4. \A t \in SeenTimes : t \in Int /\ t < TimeOf[p] /\ ~(TimeOf[p] <= t)
  BY <1>1, <1>3, TimesAreNumbers DEF SeenTimes
<1>5. HitsAlerted'
  <2>1. \A d, q : Copies(d, q)' = Copies(d, q)
    BY <1>2 DEF Copies, CopiesOf
  <2> QED
    BY <1>1, <1>2, <1>4, <2>1 DEF AllInv, HitsInv, HitsAlerted
<1>6. ASSUME NEW d \in Detectors PROVE Seen(d)' = Seen(d)
  BY <1>1, <1>2, <1>4 DEF Seen
<1>7. ASSUME NEW r \in Runs PROVE FetchInv(r)'
  BY <1>1, <1>2, <1>3, <1>4 DEF AllInv, HitsInv, FetchInv
<1>8. ASSUME NEW r \in Runs, NEW d \in MessageDetectors \ lapsed PROVE HitInv(r, d)'
  BY <1>2 DEF AllInv, HitsInv, HitInv, HasStarted, Passed, Copies, CopiesOf, Pending, PendingIn
<1> QED
  BY <1>2, <1>5, <1>6, <1>7, <1>8 DEF AllInv, HitsInv

(* The clock, a change of rules, and nothing at all.                       *)
LEMMA HitsOutside ==
    ASSUME AllInv, Tick \/ (\E d \in Detectors : ChangeRules(d)) \/ UNCHANGED vars
    PROVE  HitsInv'
<1>1. /\ UNCHANGED <<captured, cutoff, alerts, detector, run, thread>>
      /\ lapsed \subseteq lapsed'
  BY DEF Tick, ChangeRules, Lapse, vars, database, history
<1>2. Detectors \ rules' \subseteq lapsed'
  BY DEF Tick, ChangeRules, Lapse, vars, database, history, AllInv, HitsInv
<1>3. \A d, q : Copies(d, q)' = Copies(d, q)
  BY <1>1 DEF Copies, CopiesOf
<1>4. HitsAlerted'
  BY <1>1, <1>3 DEF AllInv, HitsInv, HitsAlerted
<1>5. ASSUME NEW d \in Detectors PROVE Seen(d)' = Seen(d)
  BY <1>1 DEF Seen
<1>6. ASSUME NEW r \in Runs PROVE FetchInv(r)'
  BY <1>1 DEF AllInv, HitsInv, FetchInv
<1>7. ASSUME NEW r \in Runs, NEW d \in MessageDetectors \ lapsed' PROVE HitInv(r, d)'
  BY <1>1 DEF AllInv, HitsInv, HitInv, HasStarted, Passed, Copies, CopiesOf, Pending, PendingIn
<1> QED
  BY <1>2, <1>4, <1>5, <1>6, <1>7 DEF AllInv, HitsInv

(* A run outside the loops over activeModules has nothing to keep but what *)
(* is before the cutoff.                                                   *)
LEMMA HitsWithoutThreads ==
    ASSUME OneRun, AllInv, NEW r \in Runs, NEW x \in RunStates, RunGoesOn(r, x),
           x.pc \in {"idle", "log", "query", "start", "loop"}, x.pc = "start" => x.next = 1,
           FetchInv(r)',
           UNCHANGED <<captured, cutoff, rules, alerts, detector, lapsed>>
    PROVE  HitsInv'
<1>1. run'[r] = x /\ \A q \in Runs : q = r
  BY RunChanges DEF AllInv, OneRunInv, BaseInv, TypeOK, OneRun
<1>2. \A d, q : Copies(d, q)' = Copies(d, q)
  BY DEF Copies, CopiesOf
<1>3. HitsAlerted'
  BY <1>2 DEF AllInv, HitsInv, HitsAlerted
<1>4. ASSUME NEW d \in Detectors PROVE Seen(d)' = Seen(d)
  BY DEF Seen
<1>5. ASSUME NEW d \in Detectors PROVE HitInv(r, d)'
  BY <1>1, Places DEF HitInv, HasStarted, Passed
<1> QED
  BY <1>1, <1>3, <1>4, <1>5 DEF AllInv, HitsInv, MessageDetectors

(* What a query leaves out is later than all any detector has seen: it     *)
(* returns as many packets as a run may fetch, and no detector has seen    *)
(* more.                                                                   *)
LEMMA LeftOutIsLater ==
    ASSUME DistinctTimes, AllInv, NEW r \in Runs, run[r].last = cutoff, NEW ps \in Fetch(r),
           NEW q \in captured \ ps, TimeOf[q] > cutoff
    PROVE  /\ IsFiniteSet(ps) /\ Cardinality(ps) <= Limit
           /\ \A p \in ps : TimeOf[p] < TimeOf[q]
           /\ \A d \in Detectors : detector[d].current < TimeOf[q]
<1>1. /\ BaseInv /\ captured \subseteq Packets /\ IsFiniteSet(captured) /\ Limit \in Nat
      /\ \A p \in captured : TimeOf[p] \in Nat
  BY EngineAssumption, TimesAreNumbers DEF AllInv, OneRunInv, BaseInv, TypeOK
<1>2. /\ ps \subseteq captured /\ \A p \in ps : TimeOf[p] > cutoff
      /\ Cardinality(ps) = IF Cardinality(Later(r)) < Limit
                           THEN Cardinality(Later(r)) ELSE Limit
      /\ \A p \in ps : TimeOf[p] <= TimeOf[q]
  BY FetchedWereStored
<1>3. Later(r) = {p \in captured : TimeOf[p] > cutoff}
  BY DEF Later
<1>4. /\ IsFiniteSet(ps) /\ IsFiniteSet(Later(r)) /\ ps \subseteq Later(r) /\ q \in Later(r) \ ps
      /\ Cardinality(ps) \in Nat /\ Cardinality(Later(r)) \in Nat
  BY <1>1, <1>2, <1>3, FS_Subset, FS_CardinalityType
<1>5. Cardinality(ps) < Cardinality(Later(r))
  <2>1. IsFiniteSet(ps \cup {q}) /\ Cardinality(ps \cup {q}) = Cardinality(ps) + 1
    BY <1>4, FS_AddElement
  <2>2. Cardinality(ps \cup {q}) <= Cardinality(Later(r))
    BY <1>4, FS_Subset
  <2> QED
    BY <1>4, <2>1, <2>2
<1>6. Cardinality(ps) = Limit
  BY <1>1, <1>2, <1>4, <1>5
<1>7. \A p \in ps : TimeOf[p] < TimeOf[q]
  BY <1>1, <1>2 DEF DistinctTimes
<1>8. ASSUME NEW d \in Detectors, ~(detector[d].current < TimeOf[q]) PROVE FALSE
  <2>1. /\ Seen(d) \subseteq captured /\ IsFiniteSet(Seen(d)) /\ Cardinality(Seen(d)) \in Nat
        /\ cutoff \in Int /\ detector[d].current \in Int
    BY <1>1, SeenAreFinite
  <2>2. ps \cup {q} \subseteq Seen(d)
    BY <1>1, <1>2, <1>8, <2>1 DEF Seen
  <2>3. IsFiniteSet(ps \cup {q}) /\ Cardinality(ps \cup {q}) = Limit + 1
    BY <1>4, <1>6, FS_AddElement
  <2>4. Cardinality(ps \cup {q}) <= Cardinality(Seen(d))
    BY <2>1, <2>2, FS_Subset
  <2>5. Cardinality(Seen(d)) <= Limit
    BY DEF AllInv, HitsInv
  <2> QED
    BY <1>1, <2>1, <2>3, <2>4, <2>5
<1> QED
  BY <1>1, <1>4, <1>6, <1>7, <1>8

(* The steps of a run outside the loops, but the one that logs the cutoff. *)
LEMMA HitsRun ==
    ASSUME OneRun, DistinctTimes, AllInv, NEW r \in Runs,
           \/ \E c \in BOOLEAN : Request(r, c)
           \/ ReadLog(r) \/ Query(r) \/ Loop(r) \/ RunDies(r)
    PROVE  HitsInv'
<1>1. /\ TypeOK /\ run[r] \in RunStates /\ cutoff \in Times
      /\ IsFiniteSet(captured) /\ captured \subseteq Packets /\ RunInv(r)
      /\ \A p \in Packets : TimeOf[p] \in Nat
  <2>1. TypeOK /\ IsFiniteSet(captured) /\ RunInv(r)
    BY DEF AllInv, OneRunInv, BaseInv
  <2>2. captured \subseteq Packets /\ cutoff \in SeenTimes /\ run[r] \in RunStates
    BY <2>1 DEF TypeOK, SeenTimes
  <2> QED
    BY <2>1, <2>2, SeenAreTimes, TimesAreNumbers
<1>2. UNCHANGED <<captured, cutoff, rules, alerts, detector, lapsed>>
  BY DEF Request, ReadLog, Query, Loop, RunDies, Interrupt, LocalsOnly, DatabaseOnly, database, history
<1>3. Idle \in RunStates /\ Idle.pc = "idle"
  BY Places DEF Idle, RunStates, Times
<1>4. ASSUME NEW x \in RunStates, RunGoesOn(r, x), x.pc \in {"idle", "log", "query", "loop"}
      PROVE  HitsInv'
  <2>1. FetchInv(r)'
    BY <1>1, <1>4, RunChanges DEF FetchInv, TypeOK
  <2> QED
    BY <1>2, <1>4, <2>1, HitsWithoutThreads
<1>5. ASSUME NEW pc \in {"log", "loop"}
      PROVE  [Idle EXCEPT !.pc = pc] \in RunStates /\ [Idle EXCEPT !.pc = pc].pc = pc
  BY <1>3 DEF RunStates
<1>6. CASE \E c \in BOOLEAN : Request(r, c)
  <2>1. RunGoesOn(r, [Idle EXCEPT !.pc = "log"])
    BY <1>6 DEF Request
  <2> QED
    BY <1>4, <1>5, <2>1
<1>7. CASE ReadLog(r)
  <2> DEFINE x == [Idle EXCEPT !.pc = "query", !.last = cutoff]
  <2>1. RunGoesOn(r, x)
    BY <1>7 DEF ReadLog
  <2>2. x \in RunStates /\ x.pc = "query"
    BY <1>1, <1>3 DEF Idle, RunStates
  <2> HIDE DEF x
  <2> QED
    BY <1>4, <2>1, <2>2
<1>8. CASE Query(r)
  <2>1. PICK ps \in Fetch(r) :
           RunGoesOn(r, IF ps = {} THEN [Idle EXCEPT !.pc = "loop"]
                        ELSE [run[r] EXCEPT !.pc = "start", !.packets = ps])
    BY <1>8 DEF Query
  <2>2. run[r].pc = "query" /\ run[r].next = 1 /\ run[r].last = cutoff /\ run[r].latest = -1
    BY <1>1, <1>8 DEF Query, RunInv
  <2>3. CASE ps = {}
    BY <1>4, <1>5, <2>1, <2>3
  <2>4. CASE ps # {}
    <3>1. PICK x : x = [run[r] EXCEPT !.pc = "start", !.packets = ps]
      OBVIOUS
    <3>2. RunGoesOn(r, x)
      BY <2>1, <2>4, <3>1
    <3>3. ps \subseteq captured /\ ps \in SUBSET Packets
      BY <1>1, FetchedWereStored
    <3>4. /\ x \in RunStates /\ x.pc = "start" /\ x.packets = ps
          /\ x.next = 1 /\ x.latest = -1
      BY <1>1, <2>2, <3>1, <3>3 DEF RunStates
    <3>5. run'[r] = x
      BY <1>1, <3>2, RunChanges DEF TypeOK
    <3>6. IsFiniteSet(ps) /\ Cardinality(ps) <= Limit
      <4>1. IsFiniteSet(Later(r)) /\ Cardinality(Later(r)) \in Nat /\ Limit \in Nat
        BY <1>1, FS_Subset, FS_CardinalityType, EngineAssumption DEF Later
      <4>2. Cardinality(ps) = IF Cardinality(Later(r)) < Limit
                              THEN Cardinality(Later(r)) ELSE Limit
        BY FetchedWereStored
      <4>3. IsFiniteSet(ps)
        BY <1>1, <3>3, FS_Subset
      <4> QED
        BY <4>1, <4>2, <4>3
    <3>7. FetchInv(r)'
      <4> SUFFICES ASSUME NEW q \in captured \ ps, TimeOf[q] > cutoff
                   PROVE  /\ \A p \in ps : TimeOf[p] < TimeOf[q]
                          /\ \A d \in Detectors : detector[d].current < TimeOf[q]
                          /\ x.latest < TimeOf[q]
        BY <1>2, <3>4, <3>5, <3>6 DEF FetchInv
      <4>1. /\ \A p \in ps : TimeOf[p] < TimeOf[q]
            /\ \A d \in Detectors : detector[d].current < TimeOf[q]
        BY <2>2, LeftOutIsLater
      <4> QED
        BY <1>1, <3>4, <4>1
    <3> QED
      BY <1>2, <3>2, <3>4, <3>7, HitsWithoutThreads
  <2> QED
    BY <2>3, <2>4
<1>9. CASE Loop(r)
  <2> DEFINE x == IF continuous THEN [Idle EXCEPT !.pc = "log"] ELSE Idle
  <2>1. RunGoesOn(r, x)
    BY <1>9 DEF Loop
  <2>2. x \in RunStates /\ x.pc \in {"idle", "log"}
    BY <1>3, <1>5
  <2> HIDE DEF x
  <2> QED
    BY <1>4, <2>1, <2>2
<1>10. CASE RunDies(r)
  BY <1>3, <1>4, <1>10 DEF RunDies
<1> QED
  BY <1>6, <1>7, <1>8, <1>9, <1>10

(* The cutoff is logged: what is before it was fetched by this run, or     *)
(* reported before, and what was fetched has been reported.                *)
LEMMA HitsWrite ==
    ASSUME OneRun, AllInv, NEW r \in Runs, WriteLog(r)
    PROVE  HitsInv'
<1>1. /\ TypeOK /\ IsFiniteSet(captured) /\ captured \subseteq Packets /\ \A q \in Runs : q = r
      /\ run[r].latest \in Int /\ cutoff \in Int
      /\ \A p \in captured : TimeOf[p] \in Int
      /\ \A d \in Detectors : detector[d].current \in Int
  <2>1. TypeOK /\ IsFiniteSet(captured) /\ \A q \in Runs : q = r
    BY DEF AllInv, OneRunInv, BaseInv, OneRun
  <2>2. /\ captured \subseteq Packets /\ cutoff \in SeenTimes /\ run[r].latest \in SeenTimes
        /\ \A d \in Detectors : detector[d].current \in SeenTimes
    BY <2>1 DEF TypeOK, SeenTimes, AllInv, OneRunInv, BaseInv
  <2> QED
    BY <2>1, <2>2, SeenAreTimes, TimesAreNumbers
<1>2. /\ run[r].pc = "write" /\ cutoff' = run[r].latest
      /\ RunGoesOn(r, [Idle EXCEPT !.pc = "loop"])
      /\ UNCHANGED <<captured, rules, alerts, detector, thread, lapsed>>
  BY DEF WriteLog, DatabaseOnly, history
<1>3. run'[r].pc = "loop"
  BY <1>1, <1>2, RunChanges DEF TypeOK, Idle
<1>4. \A d \in Detectors : /\ thread[r][d].pc = "over" /\ thread[r][d].todo = {}
                           /\ HasStarted(r, d) /\ detector[d].current <= run[r].latest
  BY <1>1, <1>2, ThreadsAreOver DEF AllInv, OneRunInv, RunInv, HasJoined, HasStarted
<1>5. HitsAlerted'
  <2> SUFFICES ASSUME NEW d \in MessageDetectors \ lapsed, NEW p \in captured \cap Hits[d],
                      TimeOf[p] <= run[r].latest
               PROVE  Copies(d, p) > 0
    BY <1>2 DEF HitsAlerted, Copies, CopiesOf
  <2>1. CASE TimeOf[p] <= cutoff
    BY <2>1 DEF AllInv, HitsInv, HitsAlerted
  <2>2. CASE ~(TimeOf[p] <= cutoff)
    <3>1. p \in run[r].packets
      BY <1>1, <1>2, <2>2 DEF AllInv, HitsInv, FetchInv
    <3>2. d \in Detectors /\ HitInv(r, d)
      BY DEF AllInv, HitsInv, MessageDetectors
    <3>3. ~Pending(d, p)
      BY <1>4, <3>2, OfTheOneRun DEF PendingIn
    <3> QED
      BY <1>4, <3>1, <3>2, <3>3 DEF HitInv
  <2> QED
    BY <2>1, <2>2
<1>6. ASSUME NEW d \in Detectors PROVE Cardinality(Seen(d)') <= Limit
  <2>1. Seen(d)' = {}
    BY <1>1, <1>2, <1>4 DEF Seen
  <2> QED
    BY <2>1, FS_EmptySet, EngineAssumption
<1>7. FetchInv(r)' /\ \A d \in Detectors : HitInv(r, d)'
  BY <1>3 DEF FetchInv, HitInv, HasStarted
<1> QED
  BY <1>1, <1>2, <1>5, <1>6, <1>7 DEF AllInv, HitsInv, MessageDetectors

(* A detector is started: its thread has all packets before it.            *)
LEMMA HitsStart ==
    ASSUME OneRun, AllInv, NEW r \in Runs, StartDetector(r)
    PROVE  HitsInv'
<1>1. /\ TypeOK /\ run[r] \in RunStates /\ run[r].pc = "start" /\ \A q \in Runs : q = r
      /\ run[r].packets \in SUBSET Packets
  BY DEF AllInv, OneRunInv, BaseInv, TypeOK, StartDetector, OneRun, RunStates
<1>2. PICK d : d = ActiveModules[run[r].next]
  OBVIOUS
<1>3. PICK ps : ps = run[r].packets
  OBVIOUS
<1>4. PICK t : t = [Over EXCEPT !.pc = "activate", !.todo = ps]
  OBVIOUS
<1>5. PICK s : s = [detector[d] EXCEPT !.last = run[r].last]
  OBVIOUS
<1>6. PICK x : x = Advance(run[r], "start", "join")
  OBVIOUS
<1>7. d \in Detectors /\ ~Passed(r, d)
  BY <1>1, <1>2, PassesOne DEF TypeOK
<1>8. /\ detector' = [detector EXCEPT ![d] = s] /\ ThreadGoesOn(r, d, t) /\ RunGoesOn(r, x)
      /\ UNCHANGED <<captured, rules, cutoff, alerts, lapsed>>
  BY <1>1, <1>2, <1>3, <1>4, <1>5, <1>6, <1>7
  DEF StartDetector, ThreadGoesOn, database, history, TypeOK
<1>9. /\ x \in RunStates /\ x.packets = ps /\ x.latest = run[r].latest
      /\ \/ run[r].next < Len(ActiveModules) /\ x.pc = "start" /\ x.next = run[r].next + 1
         \/ run[r].next = Len(ActiveModules) /\ x.pc = "join" /\ x.next = 1
  BY <1>1, <1>3, <1>6, AdvanceKeeps
<1>10. s.current = detector[d].current
  <2>1. detector[d] \in States
    BY <1>1, <1>7 DEF TypeOK
  <2> QED
    BY <1>5, <2>1 DEF States
<1>11. t.todo = ps /\ t.pc = "activate"
  BY <1>1, <1>3, <1>4, ThreadStarts
<1>12. run'[r] = x
  BY <1>1, <1>8, <1>9, RunChanges DEF TypeOK
<1>13. /\ thread'[r][d] = t
       /\ \A c \in Detectors : c # d => thread'[r][c] = thread[r][c]
  BY <1>1, <1>7, <1>8, ThreadChanges DEF TypeOK
<1>14. /\ \A c \in Detectors : c # d => detector'[c] = detector[c]
       /\ \A c \in Detectors : detector'[c].current = detector[c].current
  BY <1>1, <1>7, <1>8, <1>10 DEF TypeOK
<1>15. \A c \in Detectors : HasStarted(r, c)' => HasStarted(r, c) \/ c = d
  <2>1. CASE x.pc = "start" /\ x.next = run[r].next + 1
    <3>1. \A c \in Detectors : Passed(r, c)' <=> Passed(r, c) \/ c = d
      BY <1>1, <1>2, <1>12, <2>1, PassesOne DEF TypeOK
    <3> QED
      BY <1>1, <1>12, <2>1, <3>1 DEF HasStarted
  <2>2. CASE run[r].next = Len(ActiveModules)
    <3>1. \A c \in Detectors : Passed(r, c) \/ c = d
      BY <1>1, <1>2, <2>2, PassesOne DEF TypeOK
    <3> QED
      BY <1>1, <3>1 DEF HasStarted
  <2> QED
    BY <1>9, <2>1, <2>2
<1>16. \A c, p : Copies(c, p)' = Copies(c, p)
  BY <1>8 DEF Copies, CopiesOf
<1>17. HitsAlerted'
  BY <1>8, <1>16 DEF AllInv, HitsInv, HitsAlerted
<1>18. ASSUME NEW c \in Detectors PROVE Seen(c)' = Seen(c)
  BY <1>8, <1>14 DEF Seen
<1>19. FetchInv(r)'
  BY <1>1, <1>3, <1>8, <1>9, <1>12, <1>14 DEF AllInv, HitsInv, FetchInv
<1>20. ASSUME NEW c \in MessageDetectors \ lapsed PROVE HitInv(r, c)'
  <2>1. c \in Detectors /\ HitInv(r, c)
    BY DEF MessageDetectors, AllInv, HitsInv
  <2>2. CASE c = d
    BY <1>9, <1>11, <1>12, <1>13, <2>2 DEF HitInv
  <2>3. CASE c # d
    <3>1. \A p : Pending(c, p)' <=> Pending(c, p)
      <4> SUFFICES ASSUME NEW p PROVE PendingIn(r, c, p)' <=> PendingIn(r, c, p)
        BY OfTheOneRun
      <4> QED
        BY <1>13, <1>14, <2>1, <2>3 DEF PendingIn
    <3>2. /\ thread'[r][c] = thread[r][c] /\ detector'[c] = detector[c]
          /\ run'[r].packets = run[r].packets
      BY <1>3, <1>9, <1>12, <1>13, <1>14, <2>1, <2>3
    <3> QED
      BY <1>15, <1>16, <2>1, <2>3, <3>1, <3>2 DEF HitInv
  <2> QED
    BY <2>2, <2>3
<1> QED
  BY <1>1, <1>8, <1>17, <1>18, <1>19, <1>20 DEF AllInv, HitsInv

(* A detector is joined: the latest time stays before what was left out.   *)
LEMMA HitsJoin ==
    ASSUME OneRun, AllInv, NEW r \in Runs, JoinDetector(r)
    PROVE  HitsInv'
<1>1. /\ TypeOK /\ run[r] \in RunStates /\ run[r].pc = "join" /\ \A q \in Runs : q = r
      /\ UNCHANGED <<captured, rules, cutoff, alerts, detector, thread, lapsed>>
  BY DEF AllInv, OneRunInv, BaseInv, TypeOK, JoinDetector, OneRun, LocalsOnly, DatabaseOnly, history
<1>2. PICK d : d = ActiveModules[run[r].next]
  OBVIOUS
<1>3. PICK z : z = IF run[r].latest < detector[d].current THEN detector[d].current
                   ELSE run[r].latest
  OBVIOUS
<1>4. PICK x : x = [run[r] EXCEPT !.latest = z]
  OBVIOUS
<1>5. PICK y : y = Advance(x, "join", "write")
  OBVIOUS
<1>6. d \in Detectors
  BY <1>1, <1>2, PassesOne DEF TypeOK
<1>7. RunGoesOn(r, y)
  BY <1>1, <1>2, <1>3, <1>4, <1>5 DEF JoinDetector, RunStates
<1>8. z \in Times /\ z \in {run[r].latest, detector[d].current}
  BY <1>1, <1>3, <1>6 DEF TypeOK, RunStates, States
<1>9. x \in RunStates /\ x.latest = z /\ x.packets = run[r].packets
  BY <1>1, <1>4, <1>8 DEF RunStates
<1>10. y \in RunStates /\ y.packets = run[r].packets /\ y.latest = z /\ y.pc \in {"join", "write"}
  BY <1>5, <1>9, AdvanceKeeps
<1>11. run'[r] = y
  BY <1>1, <1>7, <1>10, RunChanges DEF TypeOK
<1>12. \A c, p : Copies(c, p)' = Copies(c, p)
  BY <1>1 DEF Copies, CopiesOf
<1>13. HitsAlerted'
  BY <1>1, <1>12 DEF AllInv, HitsInv, HitsAlerted
<1>14. ASSUME NEW c \in Detectors PROVE Seen(c)' = Seen(c)
  BY <1>1 DEF Seen
<1>15. FetchInv(r)'
  <2>1. FetchInv(r)
    BY DEF AllInv, HitsInv
  <2> QED
    BY <1>1, <1>6, <1>8, <1>10, <1>11, <2>1 DEF FetchInv
<1>16. ASSUME NEW c \in MessageDetectors \ lapsed PROVE HitInv(r, c)'
  <2>1. HitInv(r, c) /\ HasStarted(r, c)
    BY <1>1 DEF HasStarted, AllInv, HitsInv
  <2>2. \A p : Pending(c, p)' <=> Pending(c, p)
    BY <1>1 DEF Pending, PendingIn
  <2> QED
    BY <1>1, <1>10, <1>11, <1>12, <2>1, <2>2 DEF HitInv
<1> QED
  BY <1>1, <1>13, <1>14, <1>15, <1>16 DEF AllInv, HitsInv

(* A step of a thread: its detector sees no more than packets of the run,  *)
(* and no report is taken back.                                            *)
LEMMA HitsThread ==
    ASSUME OneRun, AllInv, NEW r \in Runs, NEW d \in Detectors, NEW t, NEW s,
           ThreadGoesOn(r, d, t), detector' = [detector EXCEPT ![d] = s],
           thread[r][d].pc # "over",
           s.current \in {detector[d].current} \cup {TimeOf[p] : p \in run[r].packets},
           \A c \in MessageDetectors, p \in Packets : Copies(c, p) > 0 => Copies(c, p)' > 0,
           d \in MessageDetectors \ lapsed' => HitInv(r, d)',
           lapsed \subseteq lapsed', UNCHANGED <<captured, rules, cutoff, run>>
    PROVE  HitsInv'
<1>1. TypeOK /\ BaseInv /\ captured \subseteq Packets /\ \A q \in Runs : q = r
  BY DEF AllInv, OneRunInv, BaseInv, TypeOK, OneRun
<1>2. \A c \in Detectors : c # d => thread'[r][c] = thread[r][c] /\ detector'[c] = detector[c]
  BY <1>1, ThreadChanges DEF TypeOK
<1>3. detector'[d] = s
  BY <1>1 DEF TypeOK
<1>4. run[r].pc \in {"start", "join", "write"} /\ FetchInv(r)
  BY DEF AllInv, HitsInv, OneRunInv, ThreadInv, HasStarted
<1>5. HitsAlerted'
  BY <1>1 DEF AllInv, HitsInv, HitsAlerted
<1>6. FetchInv(r)'
  BY <1>2, <1>3, <1>4 DEF FetchInv
<1>7. ASSUME NEW c \in Detectors PROVE Cardinality(Seen(c)') <= Limit
  <2>1. CASE c # d
    BY <1>2, <2>1 DEF Seen, AllInv, HitsInv
  <2>2. CASE s.current = detector[d].current /\ c = d
    BY <1>3, <2>2 DEF Seen, AllInv, HitsInv
  <2>3. CASE s.current \in {TimeOf[p] : p \in run[r].packets} /\ c = d
    <3>1. /\ \A p \in captured : TimeOf[p] \in Int /\ s.current \in Int /\ cutoff \in Int
          /\ run[r].packets \subseteq captured
      <4>1. run[r].packets \subseteq captured /\ cutoff \in SeenTimes
        BY <1>1 DEF BaseInv, TypeOK, SeenTimes
      <4> QED
        BY <1>1, <2>3, <4>1, SeenAreTimes, TimesAreNumbers
    <3>2. \A q \in captured \ run[r].packets : TimeOf[q] > cutoff => s.current < TimeOf[q]
      BY <1>4, <2>3 DEF FetchInv
    <3>3. Seen(c)' \subseteq run[r].packets
      BY <1>3, <2>3, <3>1, <3>2 DEF Seen
    <3>4. IsFiniteSet(run[r].packets) /\ Cardinality(run[r].packets) <= Limit
      BY <1>4 DEF FetchInv
    <3>5. /\ IsFiniteSet(Seen(c)') /\ Cardinality(Seen(c)') <= Cardinality(run[r].packets)
          /\ Cardinality(Seen(c)') \in Nat /\ Cardinality(run[r].packets) \in Nat
      BY <3>3, <3>4, FS_Subset, FS_CardinalityType
    <3> QED
      BY <3>4, <3>5, EngineAssumption
  <2> QED
    BY <2>1, <2>2, <2>3
<1>8. ASSUME NEW c \in MessageDetectors \ lapsed', c # d PROVE HitInv(r, c)'
  <2>1. HitInv(r, c) /\ c \in Detectors /\ thread'[r][c] = thread[r][c] /\ detector'[c] = detector[c]
    BY <1>2, <1>8 DEF AllInv, HitsInv, MessageDetectors
  <2>2. \A p : Pending(c, p)' <=> Pending(c, p)
    <3> SUFFICES ASSUME NEW p PROVE PendingIn(r, c, p)' <=> PendingIn(r, c, p)
      BY OfTheOneRun
    <3> QED
      BY <2>1 DEF PendingIn
  <2>3. HasStarted(r, c)' <=> HasStarted(r, c)
    BY DEF HasStarted, Passed
  <2>4. run[r].packets \subseteq Packets
    BY <1>1 DEF BaseInv
  <2> QED
    BY <2>1, <2>2, <2>3, <2>4 DEF HitInv
<1> QED
  BY <1>1, <1>5, <1>6, <1>7, <1>8 DEF AllInv, HitsInv

(* A detector is activated: it has rules, or had none at some time.        *)
LEMMA HitsActivate ==
    ASSUME OneRun, AllInv, NEW r \in Runs, NEW d \in Detectors, ActivateDetector(r, d)
    PROVE  HitsInv'
<1>1. /\ TypeOK /\ thread[r][d] \in ThreadStates /\ detector[d] \in States /\ now \in Nat
  BY DEF AllInv, OneRunInv, BaseInv, TypeOK
<1>2. PICK s : s = Activate(d, detector[d], rules, now)
  OBVIOUS
<1>3. PICK t : t = [thread[r][d] EXCEPT !.pc = "analyse"]
  OBVIOUS
<1>4. /\ ThreadGoesOn(r, d, t) /\ detector' = [detector EXCEPT ![d] = s]
      /\ thread[r][d].pc = "activate"
      /\ UNCHANGED <<captured, rules, cutoff, alerts, run, lapsed>>
  BY <1>1, <1>2, <1>3 DEF ActivateDetector, ThreadOnly, history, TypeOK
<1>5. s.current = detector[d].current /\ (d \in rules => s.ruled)
  BY <1>1, <1>2, ActivateKeeps
<1>6. t.todo = thread[r][d].todo /\ t.pc = "analyse"
  BY <1>1, <1>3 DEF ThreadStates
<1>7. thread'[r][d] = t /\ detector'[d] = s
  BY <1>1, <1>4, ThreadChanges DEF TypeOK
<1>8. \A c, p : Copies(c, p)' = Copies(c, p)
  BY <1>4 DEF Copies, CopiesOf
<1>9. ASSUME d \in MessageDetectors \ lapsed PROVE HitInv(r, d)'
  <2>1. HitInv(r, d) /\ d \in rules
    BY <1>9 DEF AllInv, HitsInv
  <2>2. HasStarted(r, d)' <=> HasStarted(r, d)
    BY <1>4 DEF HasStarted, Passed
  <2> QED
    BY <1>4, <1>5, <1>6, <1>7, <2>1, <2>2 DEF HitInv
<1> QED
  BY <1>4, <1>5, <1>8, <1>9, HitsThread

(* A packet is analysed: a violation is found.                             *)
LEMMA HitsAnalyse ==
    ASSUME OneRun, AllInv, NEW r \in Runs, NEW d \in Detectors, AnalysePacket(r, d)
    PROVE  HitsInv'
<1>1. /\ TypeOK /\ thread[r][d] \in ThreadStates /\ detector[d] \in States
      /\ ThreadInv(r, d) /\ RunInv(r)
  BY DEF AllInv, OneRunInv, BaseInv, TypeOK
<1>2. PICK p \in thread[r][d].todo :
         /\ detector' = [detector EXCEPT ![d] = Analyse(d, detector[d], p)]
         /\ ThreadGoesOn(r, d, [thread[r][d] EXCEPT !.todo = thread[r][d].todo \ {p}])
  BY <1>1 DEF AnalysePacket, TypeOK, ThreadGoesOn, ThreadStates
<1>3. PICK s : s = Analyse(d, detector[d], p)
  OBVIOUS
<1>4. PICK t : t = [thread[r][d] EXCEPT !.todo = thread[r][d].todo \ {p}]
  OBVIOUS
<1>5. /\ ThreadGoesOn(r, d, t) /\ detector' = [detector EXCEPT ![d] = s]
      /\ thread[r][d].pc = "analyse"
      /\ UNCHANGED <<captured, rules, cutoff, alerts, run, lapsed>>
  BY <1>2, <1>3, <1>4 DEF AnalysePacket, ThreadOnly, history
<1>6. /\ p \in Packets /\ p \in run[r].packets /\ HasStarted(r, d) /\ detector[d].last = cutoff
  BY <1>1, <1>2, <1>5 DEF ThreadInv, ThreadStates
<1>7. /\ s.ruled = detector[d].ruled /\ s.current \in {detector[d].current, TimeOf[p]}
      /\ s.found = IF detector[d].ruled /\ IsFinding(d, detector[d], p)
                   THEN Append(detector[d].found, p) ELSE detector[d].found
  BY <1>1, <1>3, <1>6, AnalyseKeeps
<1>8. t.todo = thread[r][d].todo \ {p} /\ t.pc = "analyse"
  BY <1>1, <1>4, <1>5 DEF ThreadStates
<1>9. thread'[r][d] = t /\ detector'[d] = s
  BY <1>1, <1>5, ThreadChanges DEF TypeOK
<1>10. detector[d].found \in Seq(Packets)
  BY <1>1 DEF States
<1>11. \A c, q : Copies(c, q)' = Copies(c, q)
  BY <1>5 DEF Copies, CopiesOf
<1>12. ASSUME d \in MessageDetectors \ lapsed PROVE HitInv(r, d)'
  <2>1. HitInv(r, d) /\ detector[d].ruled /\ d # "DoS"
    BY <1>5, <1>6, <1>12 DEF AllInv, HitsInv, HitInv, MessageDetectors
  <2>2. ASSUME NEW q \in run[r].packets \cap Hits[d]
        PROVE  Copies(d, q) > 0 \/ q \in t.todo \/ Pending(d, q)'
    <3>1. CASE q = p
      <4>1. TimeOf[p] > cutoff
        BY <1>1, <1>6 DEF RunInv, HasStarted
      <4>2. IsFinding(d, detector[d], p)
        BY <1>6, <2>1, <2>2, <3>1, <4>1 DEF IsFinding
      <4>3. \E i \in DOMAIN s.found : s.found[i] = p
        <5>1. s.found = Append(detector[d].found, p)
          BY <1>7, <2>1, <4>2
        <5>2. /\ Len(detector[d].found) + 1 \in DOMAIN s.found
              /\ s.found[Len(detector[d].found) + 1] = p
          BY <1>6, <1>10, <5>1
        <5> QED
          BY <5>2
      <4> QED
        BY <1>8, <1>9, <3>1, <4>3 DEF Pending, PendingIn
    <3>2. CASE q # p /\ Pending(d, q)
      <4>1. \E i \in DOMAIN detector[d].found : detector[d].found[i] = q
        <5>1. PendingIn(r, d, q)
          BY <3>2, OfTheOneRun
        <5> QED
          BY <1>5, <5>1 DEF PendingIn
      <4>2. \E i \in DOMAIN s.found : s.found[i] = q
        BY <1>6, <1>7, <1>10, <4>1
      <4> QED
        BY <1>8, <1>9, <4>2 DEF Pending, PendingIn
    <3>3. CASE q # p /\ ~Pending(d, q)
      BY <1>6, <1>8, <2>1, <2>2, <3>3 DEF HitInv
    <3> QED
      BY <3>1, <3>2, <3>3
  <2> QED
    BY <1>5, <1>7, <1>8, <1>9, <1>11, <2>1, <2>2 DEF HitInv
<1> QED
  BY <1>5, <1>6, <1>7, <1>11, <1>12, HitsThread

(* A detector is done: what it found is to be stored.                      *)
LEMMA HitsFinish ==
    ASSUME OneRun, AllInv, NEW r \in Runs, NEW d \in Detectors, FinishDetector(r, d)
    PROVE  HitsInv'
<1>1. /\ TypeOK /\ thread[r][d] \in ThreadStates /\ detector[d] \in States
      /\ detector = [detector EXCEPT ![d] = detector[d]] /\ HasStarted(r, d)
  BY DEF FinishDetector, AllInv, OneRunInv, BaseInv, TypeOK, ThreadInv
<1>2. PICK left : left = Findings(d, detector[d])
  OBVIOUS
<1>3. PICK t : t = WithAlerts(left)
  OBVIOUS
<1>4. /\ ThreadGoesOn(r, d, t) /\ UNCHANGED detector
      /\ thread[r][d].pc = "analyse" /\ thread[r][d].todo = {}
      /\ UNCHANGED <<captured, rules, cutoff, alerts, run, lapsed>>
  <2>1. /\ ThreadGoesOn(r, d, WithAlerts(Findings(d, detector[d]))) /\ UNCHANGED detector
        /\ thread[r][d].pc = "analyse" /\ thread[r][d].todo = {}
        /\ UNCHANGED <<captured, rules, cutoff, alerts, run, lapsed>>
    BY DEF FinishDetector, ThreadOnly, history
  <2> QED
    BY <1>2, <1>3, <2>1
<1>5. left \in Seq(Alerts)
  <2>1. detector[d].now \in Nat
    BY <1>1, <1>4 DEF AllInv, OneRunInv, BaseInv, TypeOK
  <2> QED
    BY <1>1, <1>2, <2>1, FindingsAreAlerts
<1>6. t.left = left /\ t.pc \in {"over", "done"} /\ (t.pc = "done" <=> left # <<>>)
  BY <1>3, <1>5, WithAlertsKeeps
<1>7. thread'[r][d] = t
  BY <1>1, <1>4, ThreadChanges DEF TypeOK
<1>8. \A c, p : Copies(c, p)' = Copies(c, p)
  BY <1>4 DEF Copies, CopiesOf
<1>9. ASSUME d \in MessageDetectors \ lapsed PROVE HitInv(r, d)'
  <2>1. HitInv(r, d) /\ d # "DoS"
    BY <1>9 DEF AllInv, HitsInv, MessageDetectors
  <2>2. /\ DOMAIN left = DOMAIN detector[d].found
        /\ \A i \in DOMAIN left : left[i] = [detector |-> d, packet |-> detector[d].found[i]]
    BY <1>2, <2>1 DEF Findings
  <2>3. ASSUME NEW p, Pending(d, p) PROVE Pending(d, p)'
    <3>1. PICK i \in DOMAIN detector[d].found : detector[d].found[i] = p
      <4>1. PendingIn(r, d, p)
        BY <2>3, OfTheOneRun
      <4> QED
        BY <1>4, <4>1 DEF PendingIn
    <3>2. i \in DOMAIN left /\ left[i] = [detector |-> d, packet |-> p]
      BY <2>2, <3>1
    <3>3. left # <<>>
      BY <3>2
    <3> QED
      BY <1>6, <1>7, <3>2, <3>3 DEF Pending, PendingIn
  <2> QED
    BY <1>1, <1>4, <1>6, <1>7, <1>8, <2>1, <2>3 DEF HitInv
<1> QED
  BY <1>1, <1>4, <1>8, <1>9, HitsThread

(* An alert is stored.                                                     *)
LEMMA HitsStore ==
    ASSUME OneRun, AllInv, NEW r \in Runs, NEW d \in Detectors, StoreAlert(r, d)
    PROVE  HitsInv'
<1>1. /\ TypeOK /\ thread[r][d] \in ThreadStates /\ IsABag(alerts)
      /\ detector = [detector EXCEPT ![d] = detector[d]]
      /\ thread[r][d].pc = "done" /\ thread[r][d].todo = {} /\ HasStarted(r, d)
      /\ thread[r][d].left # <<>>
  BY DEF StoreAlert, AllInv, OneRunInv, BaseInv, TypeOK, ThreadInv
<1>2. PICK left : left = thread[r][d].left
  OBVIOUS
<1>3. PICK a : a = Head(left)
  OBVIOUS
<1>4. PICK rest : rest = Tail(left)
  OBVIOUS
<1>5. PICK t : t = WithAlerts(rest)
  OBVIOUS
<1>6. /\ ThreadGoesOn(r, d, t) /\ UNCHANGED detector /\ alerts' = alerts (+) SetToBag({a})
      /\ UNCHANGED <<captured, rules, cutoff, run, lapsed>>
  <2>1. /\ ThreadGoesOn(r, d, WithAlerts(Tail(thread[r][d].left))) /\ UNCHANGED detector
        /\ alerts' = alerts (+) SetToBag({Head(thread[r][d].left)})
        /\ UNCHANGED <<captured, rules, cutoff, run, lapsed>>
    BY DEF StoreAlert, ThreadOnly, history
  <2> QED
    BY <1>2, <1>3, <1>4, <1>5, <2>1
<1>7. left \in Seq(Alerts) /\ left # <<>>
  BY <1>1, <1>2 DEF ThreadStates
<1>8. /\ a = left[1] /\ rest \in Seq(Alerts)
      /\ \A i \in DOMAIN left : i = 1 \/ (i - 1 \in DOMAIN rest /\ rest[i - 1] = left[i])
  BY <1>3, <1>4, <1>7, HeadAndTail
<1>9. t.left = rest /\ t.pc \in {"over", "done"} /\ (t.pc = "done" <=> rest # <<>>)
  BY <1>5, <1>8, WithAlertsKeeps
<1>10. thread'[r][d] = t
  BY <1>1, <1>6, ThreadChanges DEF TypeOK
<1>11. \A x : CopiesOf(x) \in Nat /\ CopiesOf(x)' = CopiesOf(x) + IF x = a THEN 1 ELSE 0
  BY <1>1, <1>6, CopiesGrow, CopiesAreNumbers
<1>12. \A c, p : /\ Copies(c, p) > 0 => Copies(c, p)' > 0
                 /\ [detector |-> c, packet |-> p] = a => Copies(c, p)' > 0
  <2> SUFFICES ASSUME NEW c, NEW p
               PROVE  /\ Copies(c, p) > 0 => Copies(c, p)' > 0
                      /\ [detector |-> c, packet |-> p] = a => Copies(c, p)' > 0
    OBVIOUS
  <2>1. PICK x : x = [detector |-> c, packet |-> p]
    OBVIOUS
  <2>2. Copies(c, p) = CopiesOf(x) /\ Copies(c, p)' = CopiesOf(x)'
    BY <2>1 DEF Copies
  <2>3. CopiesOf(x) \in Nat /\ CopiesOf(x)' = CopiesOf(x) + IF x = a THEN 1 ELSE 0
    BY <1>11
  <2> QED
    BY <2>1, <2>2, <2>3
<1>13. ASSUME d \in MessageDetectors \ lapsed PROVE HitInv(r, d)'
  <2>1. HitInv(r, d)
    BY <1>13 DEF AllInv, HitsInv
  <2>2. ASSUME NEW p, Pending(d, p) PROVE Copies(d, p)' > 0 \/ Pending(d, p)'
    <3>1. PICK i \in DOMAIN left : left[i] = [detector |-> d, packet |-> p]
      BY <1>1, <1>2, <2>2, OfTheOneRun DEF PendingIn
    <3>2. CASE i = 1
      BY <1>8, <1>12, <3>1, <3>2
    <3>3. CASE i - 1 \in DOMAIN rest /\ rest[i - 1] = left[i]
      <4>1. rest # <<>>
        BY <3>3
      <4> QED
        BY <1>9, <1>10, <3>1, <3>3, <4>1 DEF Pending, PendingIn
    <3> QED
      BY <1>8, <3>2, <3>3
  <2> QED
    BY <1>1, <1>6, <1>9, <1>10, <1>12, <2>1, <2>2 DEF HitInv
<1> QED
  BY <1>1, <1>6, <1>12, <1>13, HitsThread

(* A thread dies, and a restart: the detector has lapsed, the runs are     *)
(* gone.                                                                   *)
LEMMA HitsInterrupted ==
    ASSUME OneRun, AllInv,
           Restart \/ \E r \in Runs, d \in Detectors : ThreadDies(r, d)
    PROVE  HitsInv'
<1>1. BaseInv /\ TypeOK
  BY DEF AllInv, OneRunInv, BaseInv
<1>2. CASE Restart
  <2>1. /\ UNCHANGED <<captured, rules, cutoff, alerts, lapsed>>
        /\ \A r \in Runs : run'[r] = Idle
        /\ \A d \in Detectors : detector'[d] = NewDetector
    BY <1>2 DEF Restart, Interrupt, database
  <2>2. \A d, p : Copies(d, p)' = Copies(d, p)
    BY <2>1 DEF Copies, CopiesOf
  <2>3. HitsAlerted'
    BY <2>1, <2>2 DEF AllInv, HitsInv, HitsAlerted
  <2>4. ASSUME NEW d \in Detectors PROVE Cardinality(Seen(d)') <= Limit
    <3>1. Seen(d)' = {}
      <4>1. \A q \in captured : TimeOf[q] \in Nat
        BY <1>1, TimesAreNumbers DEF TypeOK
      <4> QED
        BY <2>1, <4>1 DEF Seen, NewDetector
    <3> QED
      BY <3>1, FS_EmptySet, EngineAssumption
  <2>5. ASSUME NEW r \in Runs PROVE FetchInv(r)' /\ \A d \in Detectors : HitInv(r, d)'
    BY <2>1 DEF FetchInv, HitInv, HasStarted, Idle
  <2> QED
    BY <2>1, <2>3, <2>4, <2>5 DEF AllInv, HitsInv, MessageDetectors
<1>3. ASSUME NEW r \in Runs, NEW d \in Detectors, ThreadDies(r, d) PROVE HitsInv'
  <2>1. /\ ThreadGoesOn(r, d, Over) /\ thread[r][d].pc # "over" /\ lapsed' = lapsed \cup {d}
        /\ UNCHANGED <<captured, rules, cutoff, alerts, detector, run>>
    BY <1>3 DEF ThreadDies, Lapse, database
  <2>2. detector' = [detector EXCEPT ![d] = detector[d]]
    BY <1>1, <2>1 DEF TypeOK
  <2>3. \A c, p : Copies(c, p)' = Copies(c, p)
    BY <2>1 DEF Copies, CopiesOf
  <2> QED
    BY <2>1, <2>2, <2>3, HitsThread
<1> QED
  BY <1>2, <1>3

-----------------------------------------------------------------------------
(* Nothing is skipped: the theorem *)

(* The first states.                                                       *)
LEMMA HitsInit == Init => AllInv
<1> SUFFICES ASSUME Init PROVE AllInv
  OBVIOUS
<1>1. OneRunInv
  BY OnceInit
<1>2. HitsAlerted /\ Detectors \ rules \subseteq lapsed
  BY DEF Init, HitsAlerted
<1>3. ASSUME NEW d \in Detectors PROVE Cardinality(Seen(d)) <= Limit
  <2>1. Seen(d) = {}
    BY DEF Init, Seen
  <2> QED
    BY <2>1, FS_EmptySet, EngineAssumption
<1>4. ASSUME NEW r \in Runs PROVE FetchInv(r) /\ \A d : HitInv(r, d)
  BY DEF Init, FetchInv, HitInv, HasStarted, Idle
<1> QED
  BY <1>1, <1>2, <1>3, <1>4 DEF AllInv, HitsInv

(* Every step of an engine that is run one request at a time keeps it, if  *)
(* no two packets have one time stamp.                                     *)
LEMMA HitsNext == ASSUME OneRun, DistinctTimes PROVE AllInv /\ [Next]_vars => AllInv'
<1> SUFFICES ASSUME AllInv, [Next]_vars PROVE HitsInv'
  BY OnceNext DEF AllInv
<1>1. ASSUME NEW p \in Packets, Capture(p) PROVE HitsInv'
  BY <1>1, HitsCapture
<1>2. CASE Tick \/ (\E d \in Detectors : ChangeRules(d)) \/ UNCHANGED vars
  BY <1>2, HitsOutside
<1>3. ASSUME NEW r \in Runs,
             \/ \E c \in BOOLEAN : Request(r, c)
             \/ RunStep(r) \/ RunDies(r)
      PROVE  HitsInv'
  BY <1>3, HitsRun, HitsWrite, HitsStart, HitsJoin DEF RunStep
<1>4. ASSUME NEW r \in Runs, NEW d \in Detectors, ThreadStep(r, d) PROVE HitsInv'
  BY <1>4, HitsActivate, HitsAnalyse, HitsFinish, HitsStore DEF ThreadStep
<1>5. CASE Restart \/ \E r \in Runs, d \in Detectors : ThreadDies(r, d)
  BY <1>5, HitsInterrupted
<1> QED
  BY <1>1, <1>2, <1>3, <1>4, <1>5 DEF Next

(* No packet that violates a rule is skipped: all of them up to the cutoff *)
(* have been reported by every detector that always had rules and never    *)
(* lost a thread, if requests run the engine one at a time and no two      *)
(* packets have one time stamp, although the cutoff is the maximum over    *)
(* detectors that work at their own speed, may stem from a run that did    *)
(* not log it, and is all that the next run knows.                         *)
THEOREM NoHitSkipped == ASSUME OneRun, DistinctTimes PROVE Spec => []HitsAlerted
<1>1. AllInv => HitsAlerted
  BY DEF AllInv, HitsInv
<1>2. Init => AllInv
  BY HitsInit
<1>3. AllInv /\ [Next]_vars => AllInv'
  BY HitsNext
<1> QED
  BY <1>1, <1>2, <1>3, PTL DEF Spec
=============================================================================
