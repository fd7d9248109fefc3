# Essence: a verification development

Essence watches the MultiSpeak traffic of an electric utility. Packets are
captured and stored; detectors and an anomaly detector raise alerts; a decision
engine turns alerts into decisions by rules; an action engine carries decisions
out, by e-mail or by flow entries on the switches of an SDN controller;
operators follow all of it in a browser and may change it at any time.

This directory holds TLA+ modules that model the part of the code that decides
and acts, TLC configurations that check small instances, and proofs, checked by
TLAPS, that hold for every instance. Paths below are relative to
`src/Essence/`; `business/` stands for
`essence-business/src/main/java/com/essence/`.

## 1. Inventory

Components, their state, operations and neighbours, what is hard about them, and
what makes them correct.

**Decision engine** (`business/decision/DecisionEngine.java`). State: the rules
loaded for a run in four maps, the list of OPEN and the list of PENDING alerts.
One operation, `runEnginesOnce`: load the rules, decide about every OPEN alert,
then about every alert PENDING at that moment. Per alert: choose a rule (by the
detection rule, the detection type, the cause and state of an anomaly, or the
severity; ties by severity and decision type), store or update a decision, set
the status of the alert. Runs are started by a request and may overlap. Hard:
two transactions per alert, a snapshot of rules others remove, lists that are
stale when their turn comes, exceptions that end the run. Correct when no alert
leaves OPEN without a decision, a decision has the type of its rule, the
tie-break picks the winner that the ranks of the code define (its comments rank
otherwise, section 6), every alert is decided in the end.

**Action engine** (`business/action/ActionEngine.java`, `ODLNBI.java`,
`EmailAlert.java`). State: the list of OPEN decisions of a pass; flow entries at
the controller. It loops for ever over passes: for each OPEN decision that asks
for something automatic, send mail or put one or two flow entries, then record
an action and mark the decision PERFORMED. Hard: refused requests, a block of a
pair half done, two transactions, more than one engine. Correct when nothing is
PERFORMED without a record, switches only drop what a decision asked for,
PERFORMED decisions are not opened again, and what can be done is done as long
as the loop runs, which an exception ends for good.

**Response store** (`business/persistence/*DAO.java`, schema in
`CreateVM/essence.db`). State: tables alert, decision, decision_rule, action.
Every DAO call is a transaction of its own; some read a row before the
transaction that writes it back. Hard: stale rows, the foreign key from a
decision to its rule.

**Operator console and REST services** (`essence-frontend/.../GreetingServiceImpl.java`,
`essence-services/.../AnomalyResource.java`, `AlertResource.java`). State: none
but the locals of a request, and what the browser shows. Requests that set
cause, state, severity, classification or action type, add and remove rules,
add alerts and run the engines. Hard: every request is a sequence of DAO calls
that interleaves with the engines.

**Packet analyser** (`business/analysis/`): a singleton that, once or
continuously, fetches packets later than the logged cutoff, runs the three
detectors (denial of service, MultiSpeak connectivity, values out of bounds) in
threads, joins them and logs a new cutoff. State: the detectors' counts and
alerts, cutoffs, the flag for continuous mode. Hard: shared singleton, time
stamps that are equal, threads that die, restarts between alerts and cutoff.

**Anomaly detection daemon** (`AnomalyDetection/.../DaemonService.java`,
`HistogramStore.java`, `SVMCalc.java`). A REST service. State: sets of histograms
by id, a map of sets it has computed for a category and a time window, a cache of
SVM models by id, and one lock of readers and writers. Requests load a set from the database, test one set against another, delete one
or all, list them; all of them take the lock but two developer's tests,
`getfakedata2` and `customTest`. Hard: early returns and exceptions with the lock
held, sets added under the read lock or under none, an increment of the next id
that is not atomic, ids that begin again or are remembered after their set is
gone. Correct when a model is used for the data it was learned from, a remembered
set is what it is remembered for, and requests are answered.

**Histogram windows** (`HistoTuple.java`, `DataIOCassandraDB.java`). The rows of
a query, in any order, become a list per category, and a window slides over each
list. Hard: sorting by insertion, a histogram computed from the one before,
boundaries, gaps. Correct when no row is lost, a histogram counts what is in its
window, and all categories have the same windows.

**SVM kernel threads** (`SVMKernel.java`). Threads claim rows of a matrix under a
lock, fill them without it, and clone rows of equal histograms from a cache.
Correct when each row is filled by one thread, a clone is of a finished row, and
the matrix has no hole when it is returned.

**OMF grid editor** (`omf/static/gridEdit.js`). The only page of the `omf/`
directory with logic of its own: it edits a feeder, a tree of objects that refer
to each other by name, and keeps records of what is drawn and what is folded
away. Hard: two representations kept in step by name, by index and by list;
folding and editing in any order; jobs that run from a timer. Correct when the
drawing is that of the tree, references have an end, houses replace nodes. The
template `gridEdit.html` of this repository draws the network graph and does not
load the editor, which is modelled from its own code.

**The rest**: capture and reassembly of packets (`PacketCapture/`), parsers of
MultiSpeak messages (`business/multispeak/`), the Python anomaly detector, browser
views, the page of the annotated network graph, generators of test traffic,
demonstrators, Qt tools (`Multispeaker/`, `MultispeakerServer/`), third-party code
(`omf/`).

## 2. Plan

In order of importance; all but `MessageRules` are built.

| module | what | composed by |
|---|---|---|
| `DecisionTypes`, `TieBreaker` | ranks; the tie-break loop against a definition of its winner | `DecisionRules` |
| `DecisionRules` | the four maps and the selection operators | `DecisionEngine` |
| `ResponseStore` | the tables, one operator per transaction | engines, console |
| `DecisionEngine`, `ActionEngine`, `OperatorConsole` | the threads | `ResponsePipeline` |
| `ResponsePipeline`, abstract `AlertLifecycle` | the composition and its promise | `MCResponse` |
| `PacketDetectors`, `AnalyserEngine` | detectors as objects; runs, threads, cutoffs, restarts of the packet analyser | `MCAnalyser` |
| `MessageRules` | what a message violates: the lookups of endpoints, operations and rules of `MSPConnectivityDetector` | `PacketDetectors` |
| `SVMKernel` | the threads that fill a kernel matrix | `MCSVMKernel` |
| `HistogramWindows` | rows to lists to histograms, step by step, against definitions of both | `MCHistogramWindows` |
| `HistogramDaemon` | lock, ids, remembered sets, cache of models | `MCHistogramDaemon` |
| `GridEditor` | the feeder tree and the drawing of it | `MCGridEditor` |

Each component with a run has its theorems in a module of its own
(`..._proofs`, section 5), and every safety invariant of the passing runs is
stated by one. Worth proving next: an abstract specification of the daemon, in
which a test is one step and the lock is not seen, that `HistogramDaemon`
implements while no two readers compute at once; the same of `SVMKernel` and a
matrix computed in one step; the type of the editor's state, whose bound on keys
is that of the instance so far. The analyser and the response part meet in the
table alert only; composing them would replace `NewAlert` by what the detectors
store.

## 3. The modules and the code

`DecisionTypes` gives severities and decision types their ranks
(`SeverityType.getOrder`, `DecisionType.getOrder`) and defines when a rule wins a
tie-break. `TieBreaker` is the loop of `selectTieBreakerRule`: variables are
its locals, `CompareSeverity` and `CompareDecisionType` are the two branches of
an iteration. `DecisionRules` holds what `loadDecisionRules` sorts rules into
and the choices `processAlert` makes among them as operators; the tie-break is
there by its definition, which the run `tie_breaker` and the theorem
`TieBreakerCorrect` show to be what the loop computes.

`ResponseStore` declares the tables as variables. An operator such as
`UpdateDecisionForFinding` is the effect of one DAO transaction. Texts, times
and joins are left out. A decision keeps the columns that are read again: its
alert, type, rule, addresses, cause, state, memo (the action type an operator
chose) and status.

`DecisionEngine` has `run[e]`, the locals of one run of the engine.
`LoadDecisionRules`, `QueryAlerts`, `ProcessAlert` (what is read and chosen for
one alert), `WriteDecision` and `WriteAlertStatus` (the two transactions),
`EndOfList` and `RunDies` (the request thread is lost). `ProcessAlert` covers
every branch of `processAlert`, the ones that throw included. The order in which
a list is worked off is left open, that of alerts here and that of decisions in
the action engine: the queries have no ORDER BY.

`ActionEngine` has `worker[w]`, one pass of `runEnginesOnce`, and the controller
as `flows[s]`, the one entry (table 0, flow 1) that the code writes per switch;
`"null"` is the switch of a host the controller does not list. Each request may
be refused or fail. An exception ends the loop of `main` (`WorkerDies`): the
worker is `dead` until somebody starts it again (`WorkerStarts`), which nothing in
the code does.

`OperatorConsole` has `task[o]`, the request a server thread executes.
`ReadDecision` and `CommitDecision` are the read and the transaction of
`setCause`, `setState` and `setClassification`. `ChooseAction` is an operator who
acts on what a view showed.

`ResponsePipeline` composes them: a step is a new alert, a request, a step of
one thread or a crash. `AlertLifecycle` is the abstract specification: alerts
leave OPEN only when decided, decisions are performed only when recorded, nothing
stored or recorded is lost. `MCResponse` holds rules and alerts for TLC.

`PacketDetectors` has the state of a detector object and its `Activate`,
`Analyse` and `Findings` (`activate`, `analyse`, `done`). `DoSDetector` counts
packets by source and destination: the model keeps the packets it counted,
`found`, and counts them when it is done. Of the two detectors that look at
messages it keeps which packets violate a rule, `Hits`, one rule per message, and
reports each. Cutoffs are compared as each detector does: `<` in `DoSDetector`,
`<=` in the others; a detector without rules leaves its latest time alone.

`AnalyserEngine` has `detector[d]`, the objects all runs share, `run[r]`, the
locals of a run, and `thread[r][d]`, the thread it started for a detector. A
thread stores its alerts one by one (`StoreAlert`); the run joins all threads and
logs the latest time any detector has seen since the server started (`JoinDetector`,
`WriteLog`). `RunDies` is an exception that `runAnalyzer` catches, `ThreadDies`
one that only ends a detector's thread and that the join does not notice.
`Restart` is a new server. `lapsed` remembers the detectors that were without
rules or lost a thread for some time: the code skips packets for them.
`Capture` stores packets in the order of their time stamps, as one `capture.py`
does: it stamps a packet and stores it before it receives the next.

`SVMKernel` has `retNode`, the matrix, with the node of column 0 apart because
`clone` shares it: `node` is the row that created it and `serial` its value.
What a thread does under the lock is one step (`CloneRow`, `ClaimRow`,
`NoRowLeft`, the caching in `FinishRow`), each cell it fills without the lock is
another (`FillCell`). A kernel value is represented by the histogram it was
computed from. A kernel type that is not defined ends the thread (`ThreadDies`).

`HistogramWindows` reads the rows one by one (`ReadRow` with `Inserted`, the
sort by insertion of `DataIOCassandraDB.getData`) and then runs the loops of
`HistoTuple.mergeWindows`: each turn of the loop for the head is `AddHead`, for
the tail `DropTail`, for the window `AddHistogram`. The flag `wasCounted` of a
tuple is a set of indexes. Categories are taken in any order, as from a hash map.

`HistogramDaemon`: a request that takes the write lock keeps out all others that
take the lock and is one step. One with the read lock goes in steps: those of
`recalculateByCategory`, which reads the field for the next id in each, are
`CreateSet`, `CreateValue`, `CreateCategory`, `SumCategories`, `TakeID`,
`ReadNextID` and `WriteNextID` (the two halves of `nextHistogramMapID++`) and
`RememberID`. So do the two without a lock: `GetFakeData2` and `CustomTest` put
their sets by `NextID`, `PutSet` and the same two halves of the increment, beside
readers and writers; `customTest` then takes the last id there is (`LastID`) and
learns from it (`RunOneTest`). `raced` notes that two requests have added sets at
the same time. A request that returns early or throws leaves the lock with its thread, in `lock`; a
thread of the container that kept it may take it again, as Java's lock allows. A
histogram is the set of batches and categories it counts; `Below` says which
category has the fields of which.

`GridEditor` has `tree`, and of the records that draw it those that are drawn
(`nodes`, `links`) and those folded away (`hiddenNodes`, `hiddenLinks`).
`record` holds what a node record knows: its name, type and size. Handlers of
the page are steps; so is each object of `staticLoadsToHouses` and `solarAdding`,
which run from a timer, a hundred objects at a time in the code, behind a progress
bar that covers the page. Where the code looks an object up by name or index and
takes the first, the model takes any; where it finds none and goes on with
`undefined`, `Spliced` removes the first element, as JavaScript does.
`newChildAtLocation` asks d3 for an attribute of the first grid node drawn, which
throws when there is none: before it has changed anything, or, for a parent with
coordinates, when the child is in the tree and has no record (`Thrown`;
coordinates are not modelled, so both may happen). `failed` remembers that a
handler ended so after it had changed the tree. In a job the exception leaves
`inUse` set and the next tick ends the job (`Over`), as it does when the rounded
percentage is 100 (`Rounded`). `SaveObject` renames, and writes what is typed for
`from`, `to`, `parent` and an added attribute `name` unless the user is careful. A
new object is named after its key; in the code its type goes before it, so
`OwnNames`, what a user types, are names of no key (`own`).

Definitions whose comment begins with "Mutant" or "A mutant" are faulty variants used to show
that a property can fail; no specification refers to them.

## 4. Runs

| run | instance | shows |
|---|---|---|
| `tie_breaker` | lists of up to 3 rules, 4 severities (null and unknown too), 4 types | the loop returns the winner; its invariant holds |
| `findings` | 2 findings, 3 rules, 1 engine run, 1 pass, 1 operator request, 1 crash | decisions before status, actions before PERFORMED, flow entries, lifecycle |
| `rules` | 1 finding, 2 rules that come and go, 2 engine runs, 2 passes, 1 request | decisions follow their rule and PERFORMED stays under races |
| `anomaly` | 1 anomaly, 2 rules, 2 operators with 2 requests by console and REST | the inductive invariant and the lifecycle under stale rows |
| `liveness` | 1 finding, 2 rules, 2 requests for severity or action type, a crash, one run and pass at a time | before a crash one decision per alert and one action per decision, of its type; OPEN decisions that can be carried out are, while an engine is alive |
| `poison_alert` | an anomaly and a finding | finding 1 |
| `analyser` | 3 packets, 2 of them violations, 2 per run; 2 detectors; one run at a time; an interruption, a lapse | no violation below the cutoff is skipped, none is reported again without an interruption, floods count packets once; in continuous mode every violation is reported |
| `svm_kernel` | 3 threads, 4 rows of 2 histograms, 2 columns | rows are complete, computed once per thread and never rewritten; `getData` returns |
| `windows` | all queries of up to 2 rows of 2 categories and types, and of up to 4 with fewer, 5 times, 4 settings | lists in order, no row lost, histograms count, same windows |
| `daemon` | 2 threads, 3 requests, 3 categories, 2 batches of 2 windows (one without what is asked for), fake data of both | until two requests add sets at once, models and remembered sets are of the right data and a test learns only from the category, and from the window, it was asked for; requests are answered |
| `stale_model` | 1 thread, 4 requests | finding 2 |
| `grid_editor` | a node, a meter linked to it, a node of the meter; 3 edits, any folding, exceptions | the drawing is that of the tree, links fold with nodes, references resolve, houses replace nodes |

Bounds. `MaxRequests` and `MaxCrashes` bound requests and crashes; alerts and
rules are finite sets. Two alerts, runs, passes or operators are enough for every
pairwise race, and no property relates three. Three candidate rules allow a later
severity to void a candidate and a tie to follow it. Ids of states that are the
same boxed object are listed in `CachedStates`.

In the analyser, `Limit` is 2 where the code has 1000, so that three packets need
two runs; `MaxTime` bounds the clock, which reaches the time of every packet;
`MaxInterruptions` bounds restarts and runs that die, `MaxLapses` changes of rules
and threads that die. Two detectors suffice, `DoS` and one that looks at
messages: the two of that kind differ only in `Hits`. Packets have distinct
times; with equal ones at the limit of a query the code skips packets, and
`HitsAlerted` would not hold.

In `svm_kernel` two of the three threads can compute the same histogram while the
third clones it, and four rows of two histograms give each a clone whichever
thread is first. In `windows` three tuples are needed for one to leave, one to
stay and one to enter; settings overlap, adjoin, leave gaps in the slide and
exceed the window, which is refused. A slide of 0, which the code accepts, never
ends and is left out of the instance, not of the proofs. In `daemon` three
requests load a batch, compute a set from it and use, delete or replace it in
between, or put fake data beside another request; three are also enough for two
readers to lose an update of the next id, or for `customTest` to learn from the
set of another. After `deleteAll` the flag `cleared` exempts what `stale_model`
shows, and `raced` what two requests that add sets at the same time do to each
other (section 6). `customTest` counts as adding only while it puts a set, so the
steps of a writer between its puts, its look at the last id and its tests are
covered.
A set without histograms has no window: when it is one that a computation left
behind, the set computed for the test takes its place, and `AnswersFitRequest`
accepts that the test learns from it. In
`grid_editor` `MaxEdits` bounds changes of the tree, not folding; three edits are
enough to link, rename and delete an object that was folded before. `Careful`
excludes deleting or renaming what is folded, and editing what the page itself
writes: `from`, `to` and `parent`, and a second attribute `name`. The page says
"Avoid editing machine-written properties!" (`gridEdit.js:1486`) and leaves them
out of the panel it shows first, but its edit panel (`:1593`) offers them and Save
(`:1667`, `:1675`, `:1682`) writes or deletes them unchecked; with
`Careful = FALSE` the model does so. Section 6 says what breaks. The typed name
is a model value, that of no new object. A feeder of four objects never rounds
to 100 before its end; the proofs are for feeders of any size.

In `rules` engine runs, and passes, are interchangeable, so their permutations
are taken as a symmetry. Deadlock is checked in every run of the pipeline and of
the analyser, where an engine can always start again, and not where the program
really stops: the tie-break, the kernel threads and the windows return, the
daemon and the editor have used up their requests or edits (the daemon may also
stand still because a thread kept the lock).

Fairness (`FairSpec`). `ActionEngine.main` repeats passes as long as nothing is
thrown, so the steps of a pass, its fetch included, are weakly fair for a worker
that is alive. It has no catch and nothing starts it again: a dead worker has no
fairness, and `ActionableIsPerformed` asks for nothing once all are dead. That a
request to the controller succeeds is not assumed:
`putRestCall` returns a text whether it was accepted, refused or not answered,
and the pass goes on. A run of the decision engine or a request that has started
is a running thread and goes on. No operator is assumed to do anything; only
`poison_alert` assumes operators who run the engine again and again
(`EagerSpec`), which makes its counterexample stronger: even then an alert stays
OPEN. In the analyser (`FairSpec` of `AnalyserEngine`) a run and a thread that
were started go on; nothing makes an operator start one, so the liveness property
is about continuous mode while it lasts. The threads of `SVMKernel` were started
and run, and so does the one that waits in `getData`. In `HistogramDaemon` a
request that has the read lock, or needs none, goes on (`Fairness` is about
`GoesOn` only): no request has to arrive, and one that waits for the lock is not assumed to get it.

## 5. Proofs

| theorem | statement |
|---|---|
| `TieBreaker_proofs!LoopInvariant`, `TieBreakerCorrect` | the loop keeps its invariant and returns a winner |
| `ResponsePipeline_proofs!TieBreakerSelects` | of a non-empty set of candidates one is selected, and it wins the tie-break |
| `ResponsePipeline_proofs!InductiveInvariant`, `TypeCorrect`, `DecidedAlways`, `RecordedAlways` | `Spec => []IInv` and its consequences: no alert leaves OPEN without a decision, none is PERFORMED without an action |
| `ResponseLifecycle_proofs!Knowledge`, `DecisionsFollow`, `FlowsAreOrdered`, `LifecycleImplemented` | decisions follow their rules, flow entries their decisions; the pipeline implements `AlertLifecycle` |
| `ResponseLifecycle_proofs!ProcessedAreDecided`, `PerformedStay`, `DecidedOnce`, `PerformedAsDecided`, `CarriedOutOnce` | a PROCESSED alert has a settled decision, what is PERFORMED stays so, and until a crash things happen once and as decided, under the hypotheses named below |
| `AnalyserEngine_proofs!TypeCorrect`, `AlertedOnce`, `FloodsAreReal`, `NoHitSkipped` | types; each violation reported once per interruption; floods count packets there were; none up to the cutoff skipped |
| `SVMKernel_proofs!InductiveInvariant`, `RowsHaveOneOwner`, `DataIsComplete`, `FinishedRowsStay`, `RowsAreReused` | `Spec => []IInv` and its consequences for the matrix; no histogram is computed by more rows than there are threads |
| `HistogramWindows_proofs!InductiveInvariant`, `ListsStayInOrder`, `HistogramsAreCounts`, `RangesAreTheSame`, `TailStaysBehindHead`, `RowsAreKept` | the lists, the counts and the windows, for any rows and settings; no row is lost or doubled |
| `HistogramDaemon_proofs!InductiveInvariant`, `TypeCorrect`, `ModelsMatchSets`, `RememberedSetsFit`, `TestsLearnWhatIsAsked` | until two requests add sets at once, remembered sets are of the right data, and until `deleteAll` models are too and tests use what was learned from what was asked for |
| `GridEditor_proofs!InductiveInvariant`, `DrawingAlwaysMatches`, `LinksAlwaysFold`, `HiddenChildrenAlwaysShown`, `ReferencesAlwaysResolve`, `HousesAlwaysReplaced` | for every feeder and any number of edits, folds, job steps and exceptions, under the hypotheses named below: references resolve; the drawing is that of the tree until an exception ends a handler after a change of the tree |

Assumptions are the named ones on constants, which TLC evaluates in every run:

- `CandidatesAssumption`, `RulesAssumption`, `StoreAssumption`: rows have the
  columns the schema gives them, ids are natural numbers, `AnyHost` is no host;
- `SwitchAssumption`, `OperatorAssumption`, `BoundsAssumption`: the controller
  knows switches, operators do what the console offers;
- `PacketAssumption`, `EngineAssumption`: the detectors in use are a sequence of
  different ones, times are natural numbers, a query returns at least one packet;
- `KernelAssumption`, `WindowsAssumption`, `DaemonAssumption`: threads are finitely
  many, there is a column; rows have a time; `Below` is an order, and a batch has
  a window and categories;
- `FeederAssumption`: what GridLAB-D asks of a feeder, namely that names are
  unique, references are names of nodes, a link has two ends and a house a parent,
  and no object is its own parent.

**The pipeline.** `DecidedHasDecision` and `PerformedHasAction` are not inductive:
whether a transaction keeps them depends on what its thread read earlier. `IInv`
adds that knowledge per thread. `EngineInv`: alerts of the PENDING list have a
decision, and so does the alert whose status is about to be written; a planned
update refers to a decision that exists. `WorkerInv`: a pass holds existing
decisions, and has recorded the action of the one it is about to mark.
`OperatorInv`: a row about to be written back is of the request's alert, and
PERFORMED only if the action was on record when it was read. Tables only grow in
the columns these facts mention (`Kept`), so a thread's knowledge survives the
steps of all others (`EngineUndisturbed` and its siblings); one lemma per action
does the rest.

`KInv` adds the foreign keys and what threads know about rules and addresses: the
type a run plans is one its rule asks for, the order of a pass is between the
hosts of its decision, a row read to be written back follows its rule. Each step
is then shown to be one of seven transactions on the store (`StepIsTransaction`),
or none. The refinement follows from these: the initial states map to initial
states, each transaction to a step of `AlertLifecycle` or to a stutter.

The theorems about what happens once have hypotheses, because without them the
code does things twice. `NoRowWriters`: no request in use reads a decision and
later writes the whole row back; the ones that do (cause, state,
classification, confirmation) can put back a status that has changed.
`OneDecisionRun` and `OneActionWorker`: one run, or pass, at a time; two store
two decisions, or carry one out twice. Other requests, of severity, action type
and rules, may interleave as they like. `QuietInv` says that, under the first, what is
processed has a settled decision that is not reopened (after a crash behind
`addDecision` there may be a second one, which still waits); `OnceInv` and
`CarriedInv` add,
until the first crash, that the run and the pass hold no alert or decision of
their list a second time, and that an OPEN decision with an action is the one the
pass is about to mark.

**The analyser.** `BaseInv` (types, and that what is kept was captured) holds for
any number of runs. `OneRunInv` needs `OneRun`, one run at a time, since runs
share the detector objects: packets that were counted are not still to do, the
alerts left to store are of packets of the run, and a violation is reported at
most once per interruption, counted with the report that is under way
(`Reports`); one that has used its reports up is behind the cutoff or analysed.
`AllInv` shows that nothing is skipped, with `DistinctTimes`: the cutoff is a
time, so the code skips a packet of the same time that a query left out. The
cutoff is the latest time of any detector, also of runs that failed before they
logged it; `HitsInv` bounds what lies between it and what a detector has seen by
one query (`Seen`), so the next query returns all of it again.

**The kernel threads.** That rows are complete when `getData` returns needs to
know why nobody has to look at them again: `RowInv` says that a row which is not
null is complete or has a thread at work on it (or dead), `ThreadInv` that a
thread has passed only rows that are not null and what it has filled so far is
right, and `OneOwner` that no other thread writes there. A step of a thread
changes its own row or one that was null (`LeavesOthers`), so the facts about the
others stay. At the end no thread is at work and all have passed the last row.
For `RowsAreReused`, `OwnedInv` says that while no row of a histogram is
remembered, each of its claimed rows is in the hands of a thread, and no two of
the same thread; once one is remembered, no thread computes another.

**The windows.** The running histogram is explained by `WindowInv`: the
tuples counted are exactly those between tail and head; those before the tail
are older than the window, those from the head on are not older. Head and tail
never cross because the slide is at most the window. `SeenInv` makes a row that
is not later than the highest date find its place, so it is never dropped.
`RangesInv` gives the time of the k-th window of each category, and with it that
they are the same. `RowsAreKept` counts: `HighInv` says that the highest date is
that of a tuple, `HeldInv` that a list holds a tuple as often as it was read; an
insertion adds one place for it and moves the others by one (`OneMore`).

**The daemon.** As long as no two requests have added sets at the same time, sets
below the next id are never changed, only deleted (`Grown`), so a model stays
right as long as ids do, that is until `deleteAll`. At the next id there is at
most what a computation left behind, which holds no histogram (`Vacant`), or what
one request is still adding. A remembered set is what it is remembered for
(`Mapped`). `OrderInv` says of the one request that adds, with the read lock or
without a lock, that it works at the next id and holds the right one (`InPlace`).
Every property of the sets has that premise, `~raced`: the increment of the next
id is a read and a write, a lost update moves it back, and then ids are used
twice. The types hold without it (`BaseInv`, `StoreInv`). Writers are alone among
those that take the lock, because a reader is at work only without a writer, or is
the thread that kept the lock.

**The editor.** What has to be shown is that each link is drawn exactly when
both its ends are, although folding takes nodes with one drawn link, in any
order, and unfolding brings links back by their ends. The invariant gives each
node a level: drawn nodes have the highest, folded ones the lower the earlier they
were folded (`Levels`); and from a folded node only one link leads to nodes that
were not folded before it (`OneWayUp`). That is the link it was folded by, and
with its other end it comes back. Sizes follow (`BigWhenDrawn`, `BigWhenFolded`):
a folded node that can come back is large exactly if something was folded before
it. Levels are not in the code, so the invariant states that there are some. A
job that replaces nodes by houses keeps, for the objects it is done with, that
they were refused and have their house, if there was a grid node to ask
(`JobInv`). Hypotheses: `Careful`, nothing folded is deleted or renamed and no
machine-written property edited (the page does not prevent either);
`TypedNames` and `FeederNames`, a name that new objects get is typed by nobody and
is in the feeder only at its own key. When the drawing of a link has failed because
an end is not drawn (`Broken`), the page is stuck, and nothing more is modelled;
when an exception has ended a handler after a change of the tree (`failed`), the
drawing may lack what was not added. The theorems about the drawing end there
(`Intact`), and so does the one about houses at the second; that references
resolve holds on, because an exception leaves the tree well formed (`ListsInv`).

Only model-checked: the liveness properties (`ActionableIsPerformed`,
`HitsAlertedInTheEnd`, `DataReturned`, `RequestsAnswered`), since liveness under
fairness is out of the prover's reach; and of the editor the type of its state,
whose bound on keys, four for each edit, is one of the instance. The recursion
of the loops is in the steps of the models, so no theorem needs an induction over
data. All safety invariants and action properties of the passing runs are
theorems.

## 6. Findings

Two are runs that end in a counterexample:

1. `poison_alert`: an anomaly whose decision has a state when it is OPEN ends
   every run with an exception; alerts after it are never decided.
2. `stale_model`: `deleteAll` makes ids begin at 0 again and keeps the SVM models;
   fresh data is scored by the model of deleted data. `demo` does so each time its
   page is reloaded.

Others were met while modelling. The models have the behaviour, and the
properties are stated for where it does not reach:

- `selectTieBreakerRule` prefers BLOCK_BETWEEN_PAIR to BLOCK_DESTINATION; the
  comment of `processAlert` (`DecisionEngine.java:165-171`) lists them the other way.
- The comment on the rules of a detection type (`DecisionEngine.java:65-67`) takes
  "the decision rule that has matching severity with the finding or otherwise has
  the highest severity"; `selectTieBreakerRule` never looks at the finding's
  severity and takes the highest. `ReturnsTieBreakWinner` states what the code does.
- After a crash between `addDecision` and `updateStatus` the next run decides about
  the alert again. If the first decision was manual and the severity has been set
  meanwhile, the alert becomes PROCESSED by the second while the first waits for an
  operator for ever.
- `ActionEngine.main` (`:26-34`) has no catch: the first exception of a pass, say of
  the database, ends the engine.
- Two runs of the engine at once store two decisions about one alert
  (`OneDecisionPerAlert` with two `DecisionRuns`).
- A cause, state or classification written from a row read earlier puts a
  PERFORMED decision back to OPEN: it is carried out twice
  (`OneActionPerDecision` with REST requests).
- Two runs of the packet analyser share its detector objects and both count the
  same packets (`FloodsCountPackets` with two runs).
- `SVMKernel` clones a row with its nodes: the serial number of the clone
  overwrites that of the cached row (`serial` in the model), against the format
  its comment gives (`SVMKernel.java:46`).
- `setSlideWindowSecs` compares the new slide with `SAMPLE_WINDOW_SECS`: equal to
  the window, it keeps histograms made with the old slide.
- `nextHistogramMapID++` (`HistogramStore.java:81`, `:217`) is a plain increment by
  requests that hold only the read lock, or none. An update that is lost moves the
  next id back onto sets that are remembered and have models; the next set is
  stored over them. Between `:178` and `:180` another request may also take the id,
  which is a null pointer and leaves the lock locked. The properties of the sets
  fail without their premise `~raced`.
- `getfakedata2` and `customTest` (`DaemonService.java:987-1155`) take no lock:
  they put sets while a writer is at work or a reader computes one, and
  `customTest` tests whatever set is the last.
- A computation of the daemon that finds no histograms leaves an empty set at the
  next id (`HistogramStore.java:178`), which requests can name until the id is
  given out: a test that names it as training data learns from the set computed
  for the tested data (`DaemonService.java:629`, `:638`). The proofs had to allow
  it: `Vacant`.
- The editor makes the name of a new object from its type and the next key
  (`gridEdit.js:542`, `:602`, `:638`) without asking whether it is taken, which the
  TODO at `:603` fears; the check of `:1625`, "to make sure we don't make non-unique
  names", is for typed names only. A name typed early is later given again. An
  added attribute called `name` (`:1682`) replaces the name without that check. So
  names are not unique, and no property says so.
- Save writes `from`, `to` and `parent` as they are typed, or deletes them
  (`:1667`, `:1675`): a reference may lose its end (`ReferencesResolve` with
  `Careful = FALSE` and such a name), and the drawing is not told.
- `newChildAtLocation` throws while all grid nodes are folded away (`:650`, `:666`).
  In `staticLoadsToHouses` the node of the meter is deleted by then: the meter is
  left without node and house, `in_use` stays set and the next tick ends the job
  (`:803`). The end of the solar job sets `is_use` (`:935`) and leaves `in_use` set
  for good, which the start of a job resets.
- `percentage` is rounded (`:800`, `:930`): in a feeder of more than 200 objects a
  job may end before its last ones. `HousesReplaced` speaks of those it came to.
- The page recommends a slide that is 0 for a busy network, with which
  `mergeWindows` never returns, under the write lock.
- In the grid editor, deleting an object that is folded away removes the first
  node that is drawn, and renaming one leaves its record with the old name
  (`DrawingMatchesTree` with `Careful = FALSE`).

## 7. Not modelled

Planned: what makes a message a violation. Left out for good: the numerics of
anomaly detection in Java and Python (libsvm, k-d trees, random features),
packet capture, parsers, views, Qt tools, PHP pages, generators, the page of the
annotated network graph, which are numerics, formats or I/O without state that
the properties could speak of. Users, organizations, policies and detection rules
are data the engines only read. Database failures other than a crash and the
foreign key are not modelled in the response part.

By lines most of the repository's JavaScript is third-party: jQuery, d3 and two
versions of Highcharts, and two older copies of the editor (`itWorks.js`,
`gridEditWorksBefore.js`). None of it is this system's logic, and the models
stand for a small share of those lines only: those of `gridEdit.js`. The system's
own logic is Java, and there the core components are modelled.

Of the daemon: the scores themselves, training on known anomalies and the
supervised cache, `packetStats` and the settings that touch no data; several
value names, each of which has sets of its own (the three of `getfakedata2` are
taken as one); what an unlocked request meets in the middle of one with the write
lock, which is one step here; a test of `customTest` in steps, when another learns
a model for the same key; what two threads do to one `HashMap` at once, which may
lose an entry. Of the windows: the dimensions
of a histogram, which grow as message types are seen, are the fixed set `Types`.
Of the editor: zooming, pinning and searching, `foldSecSys`,
`replaceLoadWithTriplex`, which nothing calls, attributes other than names and
references, the coordinates that decide at which of its two lines
`newChildAtLocation` throws, a click while the timer works on a batch (the page is
covered), and whatever is done on a page that is stuck (`Broken`).

Of the analyser: the race of two first requests in `getInstance`, taken as one
step; what two threads do to one `HashMap` at once; several captures at once,
whose packets may be stored out of order and then fall below the cutoff.
