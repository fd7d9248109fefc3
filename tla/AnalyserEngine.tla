--------------------------- MODULE AnalyserEngine ---------------------------
(***************************************************************************)
(* PacketAnalyserEngine: one object, shared by every request that runs the *)
(* analyser.  A run reads the last cutoff from engine_run_log, fetches the *)
(* packets after it, starts a thread per detector, joins them and logs a   *)
(* new cutoff; in continuous mode it does so again and again.              *)
(***************************************************************************)
EXTENDS PacketDetectors, Bags

CONSTANTS
    Runs,               \* server threads that execute runAnalyzer
    Limit,              \* packets a run fetches at most: 1000 in the code
    MaxTime,            \* bound of the clock
    MaxInterruptions,   \* bound of restarts and of runs that die
    MaxLapses           \* bound of changes of rules and of threads that die

ASSUME EngineAssumption ==
    /\ Limit \in Nat \ {0}
    /\ MaxTime \in Nat /\ MaxInterruptions \in Nat /\ MaxLapses \in Nat

VARIABLES
    now,            \* the clock
    captured,       \* table packet
    rules,          \* the detectors that have rules in active organizations
    cutoff,         \* cutoff_time of the last row of engine_run_log, -1 if none
    alerts,         \* table alert
    detector,       \* detector[d]: the detector objects of the engine
    continuous,     \* runContinous of the engine
    run,            \* run[r]: the locals of a run
    thread,         \* thread[r][d]: the thread a run started for a detector
    lapsed,         \* history: detectors that were without rules or lost a thread
    lapses,         \* history: changes of rules and threads that died
    interruptions   \* history: restarts and runs that died

database == <<captured, rules, cutoff, alerts>>
history  == <<lapsed, lapses, interruptions>>
vars     == <<now, database, detector, continuous, run, thread, history>>

(* last: the cutoff read.  next: the detector to start or join.  latest:   *)
(* the latest time stamp of the detectors joined.                          *)
RunStates == [pc : {"idle", "log", "query", "start", "join", "write", "loop"},
              last : Times, packets : SUBSET Packets,
              next : DOMAIN ActiveModules, latest : Times]

Idle == [pc |-> "idle", last |-> -1, packets |-> {}, next |-> 1, latest |-> -1]

(* todo: packets still to analyse.  left: alerts still to store.           *)
ThreadStates == [pc : {"over", "activate", "analyse", "done"},
                 todo : SUBSET Packets, left : Seq(Alerts)]

Over == [pc |-> "over", todo |-> {}, left |-> <<>>]

TypeOK ==
    /\ now \in Nat
    /\ captured \subseteq Packets
    /\ rules \subseteq Detectors
    /\ cutoff \in {-1} \cup {TimeOf[p] : p \in captured}
    /\ IsABag(alerts) /\ BagToSet(alerts) \subseteq Alerts
    /\ detector \in [Detectors -> States]
    /\ continuous \in BOOLEAN
    /\ run \in [Runs -> RunStates]
    /\ thread \in [Runs -> [Detectors -> ThreadStates]]
    /\ lapsed \subseteq Detectors
    /\ lapses \in 0 .. MaxLapses /\ interruptions \in 0 .. MaxInterruptions

Init ==
    /\ now = 0
    /\ captured = {}
    /\ rules \in SUBSET Detectors
    /\ cutoff = -1
    /\ alerts = EmptyBag
    /\ detector = [d \in Detectors |-> NewDetector]
    /\ continuous = FALSE
    /\ run = [r \in Runs |-> Idle]
    /\ thread = [r \in Runs |-> [d \in Detectors |-> Over]]
    /\ lapsed = Detectors \ rules
    /\ lapses = 0 /\ interruptions = 0

-----------------------------------------------------------------------------
(* The environment *)

(* capture.py stamps a packet and stores it before it receives the next:   *)
(* one capture stores packets in the order of their time stamps.           *)
Capture(p) ==
    /\ p \notin captured
    /\ TimeOf[p] >= now
    /\ now' = TimeOf[p]
    /\ captured' = captured \cup {p}
    /\ UNCHANGED <<rules, cutoff, alerts, detector, continuous, run, thread, history>>

Tick ==
    /\ now < MaxTime
    /\ now' = now + 1
    /\ UNCHANGED <<database, detector, continuous, run, thread, history>>

Lapse(d) ==
    /\ lapses < MaxLapses
    /\ lapses' = lapses + 1
    /\ lapsed' = lapsed \cup {d}
    /\ UNCHANGED interruptions

(* An operator activates or deactivates the rules of a detector.           *)
ChangeRules(d) ==
    /\ Lapse(d)
    /\ rules' = IF d \in rules THEN rules \ {d} ELSE rules \cup {d}
    /\ UNCHANGED <<now, captured, cutoff, alerts, detector, continuous, run, thread>>

-----------------------------------------------------------------------------
(* A run *)

RunGoesOn(r, rec) == run' = [run EXCEPT ![r] = rec]
DatabaseOnly == UNCHANGED <<now, captured, rules, detector, continuous, thread, history>>
LocalsOnly == DatabaseOnly /\ UNCHANGED <<cutoff, alerts>>

(* runAnalyzer: a request that starts, or stops, continuous mode also runs *)
(* the engine itself.                                                      *)
Request(r, c) ==
    /\ run[r].pc = "idle"
    /\ continuous' = c
    /\ RunGoesOn(r, [Idle EXCEPT !.pc = "log"])
    /\ UNCHANGED <<now, database, detector, thread, history>>

(* getLastEngineRunLog.                                                    *)
ReadLog(r) ==
    /\ run[r].pc = "log"
    /\ RunGoesOn(r, [Idle EXCEPT !.pc = "query", !.last = cutoff])
    /\ LocalsOnly

Later(r) == {p \in captured : TimeOf[p] > run[r].last}

(* Mutant: the latest packets first.                                       *)
FetchLatest(r) ==
    {ps \in SUBSET Later(r) :
        /\ Cardinality(ps) = IF Cardinality(Later(r)) < Limit THEN Cardinality(Later(r)) ELSE Limit
        /\ \A p \in ps, q \in Later(r) \ ps : TimeOf[p] >= TimeOf[q]}

(* The answers to the query: the first packets after the cutoff, those of  *)
(* one time stamp in any order.                                            *)
Fetch(r) ==
    {ps \in SUBSET Later(r) :
        /\ Cardinality(ps) = IF Cardinality(Later(r)) < Limit THEN Cardinality(Later(r)) ELSE Limit
        /\ \A p \in ps, q \in Later(r) \ ps : TimeOf[p] <= TimeOf[q]}

(* getAllPacketsByDestsSinceLastCutoffTime, of packets to the endpoints    *)
(* that are configured.  Without packets, the run is over.                 *)
Query(r) ==
    /\ run[r].pc = "query"
    /\ \E ps \in Fetch(r) :
          RunGoesOn(r, IF ps = {} THEN [Idle EXCEPT !.pc = "loop"]
                       ELSE [run[r] EXCEPT !.pc = "start", !.packets = ps])
    /\ LocalsOnly

(* Mutant: the loops leave out the last detector.                          *)
AdvanceEarly(x, pc, nextPc) ==
    IF x.next < Len(ActiveModules) - 1 THEN [x EXCEPT !.pc = pc, !.next = x.next + 1]
    ELSE [x EXCEPT !.pc = nextPc, !.next = 1]

(* The next detector of the loops over activeModules.                      *)
Advance(x, pc, nextPc) ==
    IF x.next < Len(ActiveModules) THEN [x EXCEPT !.pc = pc, !.next = x.next + 1]
    ELSE [x EXCEPT !.pc = nextPc, !.next = 1]

(* The detector is given the cutoff and a thread of this run.              *)
StartDetector(r) ==
    /\ run[r].pc = "start"
    /\ LET d == ActiveModules[run[r].next]
       IN  /\ detector' = [detector EXCEPT ![d].last = run[r].last]
           /\ thread' = [thread EXCEPT ![r][d] =
                            [Over EXCEPT !.pc = "activate", !.todo = run[r].packets]]
    /\ RunGoesOn(r, Advance(run[r], "start", "join"))
    /\ UNCHANGED <<now, database, continuous, history>>

(* The latest time any detector has seen, whatever became of its thread.   *)
JoinDetector(r) ==
    /\ run[r].pc = "join"
    /\ LET d == ActiveModules[run[r].next]
           current == detector[d].current
       IN  /\ thread[r][d].pc = "over"
           /\ RunGoesOn(r, Advance([run[r] EXCEPT !.latest = IF @ < current THEN current ELSE @],
                                   "join", "write"))
    /\ LocalsOnly

(* addEngineRunLog.                                                        *)
WriteLog(r) ==
    /\ run[r].pc = "write"
    /\ cutoff' = run[r].latest
    /\ RunGoesOn(r, [Idle EXCEPT !.pc = "loop"])
    /\ DatabaseOnly
    /\ UNCHANGED alerts

(* while (runContinous): sleep and run again.                              *)
Loop(r) ==
    /\ run[r].pc = "loop"
    /\ RunGoesOn(r, IF continuous THEN [Idle EXCEPT !.pc = "log"] ELSE Idle)
    /\ LocalsOnly

Interrupt ==
    /\ interruptions < MaxInterruptions
    /\ interruptions' = interruptions + 1
    /\ UNCHANGED <<lapsed, lapses>>

(* A failure of a database: runAnalyzer catches it, the request is over.   *)
RunDies(r) ==
    /\ run[r].pc \in {"log", "query", "write"}
    /\ Interrupt
    /\ RunGoesOn(r, Idle)
    /\ UNCHANGED <<now, database, detector, continuous, thread>>

-----------------------------------------------------------------------------
(* The thread of a detector: PacketAnalyzerThread.run *)

ThreadGoesOn(r, d, rec) == thread' = [thread EXCEPT ![r][d] = rec]
ThreadOnly == UNCHANGED <<now, captured, rules, cutoff, continuous, run, history>>

ActivateDetector(r, d) ==
    /\ thread[r][d].pc = "activate"
    /\ detector' = [detector EXCEPT ![d] = Activate(d, @, rules, now)]
    /\ ThreadGoesOn(r, d, [thread[r][d] EXCEPT !.pc = "analyse"])
    /\ UNCHANGED alerts
    /\ ThreadOnly

(* The packets in the order of the query.                                  *)
AnalysePacket(r, d) ==
    /\ thread[r][d].pc = "analyse"
    /\ \E p \in thread[r][d].todo :
          /\ \A q \in thread[r][d].todo : TimeOf[p] <= TimeOf[q]
          /\ detector' = [detector EXCEPT ![d] = Analyse(d, @, p)]
          /\ ThreadGoesOn(r, d, [thread[r][d] EXCEPT !.todo = @ \ {p}])
    /\ UNCHANGED alerts
    /\ ThreadOnly

WithAlerts(left) == IF left = <<>> THEN Over ELSE [Over EXCEPT !.pc = "done", !.left = left]

(* done: the findings, if any, ...                                         *)
FinishDetector(r, d) ==
    /\ thread[r][d].pc = "analyse"
    /\ thread[r][d].todo = {}
    /\ ThreadGoesOn(r, d, WithAlerts(Findings(d, detector[d])))
    /\ UNCHANGED <<detector, alerts>>
    /\ ThreadOnly

(* ... each of which is stored in a transaction of its own.                *)
StoreAlert(r, d) ==
    /\ thread[r][d].pc = "done"
    /\ alerts' = alerts (+) SetToBag({Head(thread[r][d].left)})
    /\ ThreadGoesOn(r, d, WithAlerts(Tail(thread[r][d].left)))
    /\ UNCHANGED detector
    /\ ThreadOnly

(* A failure of a database, or a rule without details.                     *)
ThreadDies(r, d) ==
    /\ thread[r][d].pc # "over"
    /\ Lapse(d)
    /\ ThreadGoesOn(r, d, Over)
    /\ UNCHANGED <<now, database, detector, continuous, run>>

(* The server is restarted: a new engine with new detectors.               *)
Restart ==
    /\ Interrupt
    /\ detector' = [d \in Detectors |-> NewDetector]
    /\ continuous' = FALSE
    /\ run' = [r \in Runs |-> Idle]
    /\ thread' = [r \in Runs |-> [d \in Detectors |-> Over]]
    /\ UNCHANGED <<now, database>>

-----------------------------------------------------------------------------
RunStep(r) ==
    \/ ReadLog(r)
    \/ Query(r)
    \/ StartDetector(r)
    \/ JoinDetector(r)
    \/ WriteLog(r)
    \/ Loop(r)

ThreadStep(r, d) ==
    \/ ActivateDetector(r, d)
    \/ AnalysePacket(r, d)
    \/ FinishDetector(r, d)
    \/ StoreAlert(r, d)

Next ==
    \/ \E p \in Packets : Capture(p)
    \/ Tick
    \/ \E d \in Detectors : ChangeRules(d)
    \/ Restart
    \/ \E r \in Runs :
          \/ \E c \in BOOLEAN : Request(r, c)
          \/ RunStep(r)
          \/ RunDies(r)
          \/ \E d \in Detectors : ThreadStep(r, d) \/ ThreadDies(r, d)

(* Threads that were started run; no operator is bound to do anything.     *)
Fairness ==
    \A r \in Runs :
        /\ WF_vars(RunStep(r))
        /\ \A d \in Detectors : WF_vars(ThreadStep(r, d))

Spec == Init /\ [][Next]_vars
FairSpec == Spec /\ Fairness

-----------------------------------------------------------------------------
CopiesOf(x) == IF BagIn(x, alerts) THEN alerts[x] ELSE 0

Copies(d, p) == CopiesOf([detector |-> d, packet |-> p])

(* No packet that violates a rule is skipped: all of them up to the cutoff *)
(* have been reported by every detector that always had rules and never    *)
(* lost a thread.  The cutoff is the maximum over three detectors that     *)
(* work at their own speed, and is all that the next run knows.            *)
HitsAlerted ==
    \A d \in MessageDetectors \ lapsed : \A p \in captured \cap Hits[d] :
        TimeOf[p] <= cutoff => Copies(d, p) > 0

(* A packet is reported once, and once more for each restart or run that   *)
(* died: the alerts are stored before the cutoff is logged, so only a run  *)
(* that did not get to log it is repeated.                                 *)
AlertedOncePerInterruption ==
    \A d \in MessageDetectors, p \in Packets : Copies(d, p) <= 1 + interruptions

(* The packets of a flood there were, in its window before it was found.   *)
PacketsOf(f) ==
    {p \in captured : /\ Between(p, f.src, f.dst)
                      /\ TimeOf[p] \in f.at - DosWindow .. f.at}

(* An alert for a denial of service, which may block a host, counts only   *)
(* packets that were sent, each of them once, within the window it names.  *)
FloodsCountPackets ==
    \A f \in BagToSet(alerts) :
        f.detector = "DoS" => f.number <= Cardinality(PacketsOf(f))

(* In continuous mode the threads get to every packet, however fast they   *)
(* are captured and how many there are per run.                            *)
Looping == continuous /\ \E r \in Runs : run[r].pc # "idle"

HitsAlertedInTheEnd ==
    \A d \in MessageDetectors : \A p \in Hits[d] :
        (p \in captured /\ Looping) ~> (Copies(d, p) > 0 \/ ~Looping \/ d \in lapsed)
=============================================================================
