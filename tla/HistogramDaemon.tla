-------------------------- MODULE HistogramDaemon --------------------------
(***************************************************************************)
(* The REST service of the anomaly detection daemon: one store of          *)
(* histograms behind a lock of readers and writers, sets computed from     *)
(* other sets and remembered by category and time window, and models kept  *)
(* by the id of the set they were trained on.                              *)
(*                                                                         *)
(* A request that writes keeps all others with a lock out, from the lock   *)
(* to the unlock, and is one step; those that take the read lock, though   *)
(* they add sets as well, and the two that take no lock at all go step by  *)
(* step.  A request that fails on the way, or returns early, leaves its    *)
(* thread of the container with the lock.                                  *)
(***************************************************************************)
EXTENDS Integers, FiniteSets, Sequences

CONSTANTS
    Threads,        \* threads of the container that answer requests
    NoThread,
    Categories,     \* points of category fields
    Below,          \* <<c, d>>: every field of c is a field of d
    Asked,          \* the categories that requests ask for
    Batches,        \* what a query of the database may return
    CategoriesOf,   \* the categories of a batch
    WindowOf,       \* the time of its one histogram per category
    FakeSets,       \* what getfakedata2 makes: anomalies, then data
    FakeKeys,       \* categories customTest trains, tests and checks with
    MaxRequests     \* bound on the requests

ASSUME DaemonAssumption ==
    /\ NoThread \notin Threads
    /\ Categories # {}
    /\ Asked \subseteq Categories
    /\ Below \subseteq Categories \X Categories
    /\ \A c \in Categories : <<c, c>> \in Below
    /\ \A c, d, e \in Categories :
          <<c, d>> \in Below /\ <<d, e>> \in Below => <<c, e>> \in Below
    /\ CategoriesOf \in [Batches -> SUBSET Categories]
    /\ WindowOf \in [Batches -> Nat]
    /\ FakeSets \in Batches \X Batches
    /\ FakeKeys \in Categories \X Categories \X Categories
    /\ MaxRequests \in Nat

VARIABLES
    histogramData,  \* the store: sets by id, remapped categories, next id
    svmModels,      \* of an algorithm, a set and a category: what it learned
    lock,           \* allHistogramsMapLock: a writer, readers that keep it
    thread,         \* of each thread: where it is in a request, and locals
    answer,         \* the last test: what was asked for, used and learned
    requests,       \* requests so far
    cleared,        \* deleteAll has replaced the store
    raced           \* two requests have added sets at the same time

vars == <<histogramData, svmModels, lock, thread, answer, requests, cleared, raced>>

Times == {WindowOf[b] : b \in Batches}

(* A histogram at a time, by the batches and categories it counts.         *)
Histogram == [time : Times, sources : SUBSET (Batches \X Categories)]

(* f with value v at k, which may be new.                                  *)
Put(f, k, v) == [x \in DOMAIN f \cup {k} |-> IF x = k THEN v ELSE f[x]]

Without(f, S) == [x \in DOMAIN f \ S |-> f[x]]

(* bare: the ids of sets that have no map of categories yet.               *)
NewStore == [sets |-> <<>>, bare |-> {}, remap |-> <<>>, next |-> 0]

Algorithms == {"SVM", "SVMRandom"}

(* The locals of a request: id and category are those asked for, seen is   *)
(* the next id as it was read to be incremented; puts and tests are what a *)
(* request without a lock has still to do.                                 *)
Idle == [pc |-> "idle", id |-> -1, category |-> CHOOSE c \in Categories : TRUE,
         newID |-> -1, seen |-> -1, puts |-> <<>>, tests |-> <<>>]

NoAnswer == [window |-> {}, category |-> Idle.category, train |-> {}, learned |-> {}]

Init ==
    /\ histogramData = NewStore
    /\ svmModels = <<>>
    /\ lock = [writer |-> NoThread, readers |-> {}]
    /\ thread = [t \in Threads |-> Idle]
    /\ answer = NoAnswer
    /\ requests = 0
    /\ cleared = FALSE
    /\ raced = FALSE

-----------------------------------------------------------------------------
(* HistogramStore.                                                         *)

HasCategory(h, id, c) == id \in DOMAIN h.sets /\ c \in DOMAIN h.sets[id]

(* The times of the histograms of a set; none when they are all empty.     *)
StartAndEnd(h, id) ==
    IF id \in DOMAIN h.sets
    THEN {x.time : x \in UNION {h.sets[id][c] : c \in DOMAIN h.sets[id]}}
    ELSE {}

Stored(h, id, set) == [h EXCEPT !.sets = Put(h.sets, id, set), !.bare = h.bare \ {id}]

(* A mutant that reuses the lowest id that is free.                        *)
PutHistogramSetLowest(h, set) ==
    LET id == CHOOSE n \in 0 .. Cardinality(DOMAIN h.sets) :
                 n \notin DOMAIN h.sets /\ \A m \in 0 .. n - 1 : m \in DOMAIN h.sets
    IN  [Stored(h, id, set) EXCEPT !.next = h.next + 1]

PutHistogramSet(h, set) == [Stored(h, h.next, set) EXCEPT !.next = h.next + 1]

(* What a query returned, a histogram for each category.                   *)
BatchSet(b) ==
    [c \in CategoriesOf[b] |-> {[time |-> WindowOf[b], sources |-> {<<b, c>>}]}]

(* A mutant that also sums histograms of fewer fields.                     *)
SupersetsEitherWay(h, id, c) ==
    {d \in DOMAIN h.sets[id] : <<c, d>> \in Below \/ <<d, c>> \in Below}

(* Categories of a set a new one is summed from.                           *)
Supersets(h, id, c) == {d \in DOMAIN h.sets[id] : <<c, d>> \in Below}

(* The histograms of a time are added together.                            *)
Summed(h, id, c) ==
    LET found == UNION {h.sets[id][d] : d \in Supersets(h, id, c)}
    IN  {[time |-> w, sources |-> UNION {x.sources : x \in {y \in found : y.time = w}}] :
            w \in {x.time : x \in found}}

IsRemapped(h, id, c) ==
    /\ StartAndEnd(h, id) # {}
    /\ <<c, StartAndEnd(h, id)>> \in DOMAIN h.remap

(* An empty set, at an id that is not taken yet.                           *)
Created(h, c) == Stored(h, h.next, Put(<<>>, c, {}))

Filled(h, c, sum) ==
    Stored(h, h.next, Put(h.sets[h.next], c, h.sets[h.next][c] \cup sum))

(* A mutant that remembers the new set and does not take its id.           *)
HandedOutUntaken(h, c, newID) ==
    [h EXCEPT !.remap = Put(h.remap, <<c, StartAndEnd(h, newID)>>, newID)]

(* A mutant that remembers the id after the new one.                       *)
HandedOutNext(h, c, newID) ==
    [h EXCEPT !.next = h.next + 1,
              !.remap = Put(h.remap, <<c, StartAndEnd(h, newID)>>, h.next + 1)]

(* The id is remembered under the window of the new set ...                *)
Remembered(h, c, newID) ==
    [h EXCEPT !.remap = Put(h.remap, <<c, StartAndEnd(h, newID)>>, newID)]

(* ... once it is taken.                                                   *)
HandedOut(h, c, newID) == Remembered([h EXCEPT !.next = h.next + 1], c, newID)

NotFound == -1
Thrown   == -2

(* recalculateByCategory under the write lock: the id of a set that has    *)
(* the category, or NotFound and an empty set left behind.                 *)
Recalculated(h, id, c) ==
    LET created == Created(h, c)
        filled  == Filled(created, c, Summed(created, id, c))
    IN  CASE id \notin DOMAIN h.sets \ h.bare -> [store |-> h, id |-> Thrown]
          [] HasCategory(h, id, c)   -> [store |-> h, id |-> id]
          [] OTHER ->
             IF IsRemapped(h, id, c)
             THEN [store |-> h, id |-> h.remap[<<c, StartAndEnd(h, id)>>]]
             ELSE IF Supersets(created, id, c) = {}
             THEN [store |-> created, id |-> NotFound]
             ELSE [store |-> HandedOut(filled, c, h.next), id |-> h.next]

-----------------------------------------------------------------------------
(* The lock.  A thread that kept it may take it again.                     *)

(* A reader between its first change of the store and its last, and a      *)
(* request without a lock between the id it reads and its increment.       *)
Computing(t) ==
    thread[t].pc \in {"value", "category", "sum", "take", "read", "write", "remap"}

Putting(t) == thread[t].pc \in {"put", "reread", "rewrite"}

Adding(t) == Computing(t) \/ Putting(t)

Reading(t) == Computing(t) \/ thread[t].pc \in {"list", "disturbed", "create", "answer"}

CanWrite(t) ==
    \/ lock.writer = t
    \/ /\ lock.writer = NoThread
       /\ lock.readers = {}
       /\ \A u \in Threads : ~Reading(u)

CanRead(t) == lock.writer \in {NoThread, t}

WriteLockKept(t) == lock' = [lock EXCEPT !.writer = t]

ReadLockKept(t) == lock' = [lock EXCEPT !.readers = lock.readers \cup {t}]

(* Ids a request may name: those there are, and one there is not.          *)
Known == DOMAIN histogramData.sets \cup {NotFound}

(* A request reaches an idle thread that gets the lock.                    *)
Starts(t) ==
    /\ thread[t].pc = "idle"
    /\ requests < MaxRequests
    /\ requests' = requests + 1

(* A request that writes has its turn, and its thread goes back to the     *)
(* pool.                                                                   *)
Writes(t) ==
    /\ Starts(t)
    /\ CanWrite(t)
    /\ raced' = (raced \/ \E u \in Threads : Adding(u))
    /\ UNCHANGED thread

(* A query of the database stores a set, when it finds packets.            *)
Queried(h) == {h} \cup {PutHistogramSet(h, BatchSet(b)) : b \in Batches}

(* getdb, getfakedata and testhist.                                        *)
Load(t) ==
    /\ Writes(t)
    /\ histogramData' \in Queried(histogramData)
    /\ UNCHANGED <<svmModels, lock, answer, cleared>>

(* The models of SVMRandomCalc for the set stay.                           *)
DeleteOne(t) ==
    /\ Writes(t)
    /\ \E id \in Known :
          /\ histogramData' = [histogramData EXCEPT !.sets = Without(@, {id}), !.bare = @ \ {id}]
          /\ svmModels' = Without(svmModels, {<<"SVM", id, c>> : c \in Categories})
    /\ UNCHANGED <<lock, answer, cleared>>

(* deleteall, and the settings of the window and its slide, unless the new *)
(* value is that of the window.                                            *)
DeleteAll(t) ==
    /\ Writes(t)
    /\ histogramData' = NewStore
    /\ cleared' = TRUE
    /\ UNCHANGED <<svmModels, lock, answer>>

(* The models of two sets are forgotten when either had to be brought to   *)
(* the message types of today.                                             *)
Kept(a, train, test, changed) ==
    IF changed
    THEN Without(svmModels, {a} \X {train, test} \X Categories)
    ELSE svmModels

Learned(models, key, list) ==
    IF key \in DOMAIN models THEN models ELSE Put(models, key, list)

(* getDataSVM on store h: the text of an error when a category is not      *)
(* found, an exception for an unknown id or an empty list to learn from.   *)
(* For SVMRandom the text leaves the lock locked, and no result throws.    *)
GetDataSVM(t, a, h, train, c, test, d) ==
    \E r1 \in {Recalculated(h, train, c)} :
    \E r2 \in {IF r1.id < 0 THEN r1 ELSE Recalculated(r1.store, test, d)} :
    LET found == r2.id >= 0 /\ HasCategory(r2.store, r1.id, c) /\ HasCategory(r2.store, r2.id, d)
        key == <<a, r1.id, c>>
    IN  \E changed \in {found, FALSE} :
        LET kept   == IF found THEN Kept(a, r1.id, r2.id, changed) ELSE svmModels
            list   == r2.store.sets[r1.id][c]
            learns == found /\ (key \in DOMAIN kept \/ list # {})
            fails  == \/ r2.id = Thrown
                      \/ found /\ ~learns
                      \/ a = "SVMRandom" /\ ~(found /\ r2.store.sets[r2.id][d] # {})
        IN  /\ histogramData' = r2.store
            /\ svmModels' = IF learns THEN Learned(kept, key, list) ELSE kept
            /\ answer' = IF learns
                         THEN [window |-> StartAndEnd(h, train), category |-> c,
                               train |-> list, learned |-> svmModels'[key]]
                         ELSE answer
            /\ lock' = IF fails THEN [lock EXCEPT !.writer = t] ELSE lock

(* testSVM, test and testSVMRandom.                                        *)
TestSVM(t) ==
    /\ Writes(t)
    /\ \E a \in Algorithms, train, test \in Known, c, d \in Asked :
          GetDataSVM(t, a, histogramData, train, c, test, d)
    /\ UNCHANGED cleared

(* The page of the demo: fresh data, in sets 0 and 1 when both queries     *)
(* find some, and a test of them when they have a category to spare.       *)
Demo(t) ==
    /\ Writes(t)
    /\ \E h1 \in Queried(NewStore) : \E h2 \in Queried(h1) :
          IF {0, 1} \subseteq DOMAIN h2.sets /\ Cardinality(DOMAIN h2.sets[0]) > 1
          THEN \E c \in Asked : GetDataSVM(t, "SVM", h2, 0, c, 1, c)
          ELSE histogramData' = h2 /\ UNCHANGED <<svmModels, lock, answer>>
    /\ cleared' = TRUE

(* testKDTree computes nothing that stays, but throws for missing data;    *)
(* test throws for the third calculation type there is, and a query for a  *)
(* slide beyond the window.                                                *)
TestFails(t) ==
    /\ Writes(t)
    /\ WriteLockKept(t)
    /\ UNCHANGED <<histogramData, svmModels, answer, cleared>>

-----------------------------------------------------------------------------
(* Requests that hold the read lock, together with others that do.         *)

Goes(t, pc) == [thread EXCEPT ![t].pc = pc]

Ends(t) == [thread EXCEPT ![t] = Idle]

Unchanged == UNCHANGED <<svmModels, answer, cleared>>

(* getDatasetKeys goes through the sets.                                   *)
ListKeys(t) ==
    /\ Starts(t)
    /\ CanRead(t)
    /\ thread' = Goes(t, "list")
    /\ Unchanged /\ UNCHANGED <<histogramData, lock, raced>>

(* A list that was disturbed by a new set may throw.                       *)
ListEnds(t) ==
    /\ \/ thread[t].pc \in {"list", "disturbed"} /\ UNCHANGED lock
       \/ thread[t].pc = "disturbed" /\ ReadLockKept(t)
    /\ thread' = Ends(t)
    /\ Unchanged /\ UNCHANGED <<requests, histogramData, raced>>

(* A mutant that takes the write lock to add a set.                        *)
MayCreateUpgrading(t) == CanRead(t) /\ CanWrite(t)

MayCreate(t) == CanRead(t)

(* getHistograms: recalculateByCategory, in the steps another reader can   *)
(* come between.                                                           *)
GetHistograms(t) ==
    /\ Starts(t)
    /\ CanRead(t)
    /\ \E id \in Known, c \in Asked :
          LET h == histogramData
              at(pc, found) ==
                  [Idle EXCEPT !.pc = pc, !.id = id, !.category = c, !.newID = found]
          IN  CASE id \notin DOMAIN h.sets \ h.bare ->
                   thread' = Ends(t) /\ ReadLockKept(t)
                [] HasCategory(h, id, c) ->
                   thread' = [thread EXCEPT ![t] = at("answer", id)] /\ UNCHANGED lock
                [] OTHER ->
                   /\ thread' = [thread EXCEPT ![t] =
                        IF IsRemapped(h, id, c)
                        THEN at("answer", h.remap[<<c, StartAndEnd(h, id)>>])
                        ELSE at("create", NotFound)]
                   /\ UNCHANGED lock
    /\ Unchanged /\ UNCHANGED <<histogramData, raced>>

(* Who goes through the sets notices that one was put there.               *)
Disturbs(t, rec) ==
    thread' = [u \in Threads |->
                  IF u = t THEN rec
                  ELSE IF thread[u].pc = "list" THEN [thread[u] EXCEPT !.pc = "disturbed"]
                  ELSE thread[u]]

(* The next id is read for each of the three steps in which a new set gets *)
(* its map and its category.                                               *)
CreateSet(t) ==
    /\ thread[t].pc = "create"
    /\ MayCreate(t)
    /\ histogramData' = [Stored(histogramData, histogramData.next, <<>>)
                            EXCEPT !.bare = @ \cup {histogramData.next}]
    /\ Disturbs(t, [thread[t] EXCEPT !.pc = "value"])
    /\ raced' = (raced \/ \E u \in Threads \ {t} : Adding(u))
    /\ Unchanged /\ UNCHANGED <<requests, lock>>

CreateValue(t) ==
    /\ thread[t].pc = "value"
    /\ LET h == histogramData
       IN  IF h.next \in DOMAIN h.sets
           THEN /\ histogramData' = Stored(h, h.next, <<>>)
                /\ thread' = Goes(t, "category")
                /\ UNCHANGED lock
           ELSE thread' = Ends(t) /\ ReadLockKept(t) /\ UNCHANGED histogramData
    /\ Unchanged /\ UNCHANGED <<requests, raced>>

CreateCategory(t) ==
    /\ thread[t].pc = "category"
    /\ LET h == histogramData
       IN  IF h.next \in DOMAIN h.sets \ h.bare
           THEN /\ histogramData' =
                      Stored(h, h.next, Put(h.sets[h.next], thread[t].category, {}))
                /\ thread' = Goes(t, "sum")
                /\ UNCHANGED lock
           ELSE thread' = Ends(t) /\ ReadLockKept(t) /\ UNCHANGED histogramData
    /\ Unchanged /\ UNCHANGED <<requests, raced>>

(* The new set is looked up again by the next id, which another request    *)
(* may have taken, or filled with another category: an exception.  Without *)
(* a superset the answer is about set -1, another one.                     *)
SumCategories(t) ==
    /\ thread[t].pc = "sum"
    /\ LET h == histogramData
           c == thread[t].category
           sum == Summed(h, thread[t].id, c)
       IN  IF \/ thread[t].id \in h.bare
              \/ Supersets(h, thread[t].id, c) = {}
              \/ sum # {} /\ ~HasCategory(h, h.next, c)
           THEN thread' = Ends(t) /\ ReadLockKept(t) /\ UNCHANGED histogramData
           ELSE /\ histogramData' = IF sum = {} THEN h ELSE Filled(h, c, sum)
                /\ thread' = Goes(t, "take")
                /\ UNCHANGED lock
    /\ Unchanged /\ UNCHANGED <<requests, raced>>

TakeID(t) ==
    /\ thread[t].pc = "take"
    /\ thread' = [thread EXCEPT ![t].pc = "read", ![t].newID = histogramData.next]
    /\ Unchanged /\ UNCHANGED <<requests, histogramData, lock, raced>>

(* nextHistogramMapID++, of a reader or of a request without a lock, is a  *)
(* read and a write: what another has written in between is lost.          *)
ReadNextID(t, from, to) ==
    /\ thread[t].pc = from
    /\ thread' = [thread EXCEPT ![t].pc = to, ![t].seen = histogramData.next]
    /\ Unchanged /\ UNCHANGED <<requests, histogramData, lock, raced>>

WriteNextID(t, from, to) ==
    /\ thread[t].pc = from
    /\ histogramData' = [histogramData EXCEPT !.next = thread[t].seen + 1]
    /\ thread' = [thread EXCEPT ![t].pc = to, ![t].seen = -1]
    /\ Unchanged /\ UNCHANGED <<requests, lock, raced>>

RememberID(t) ==
    /\ thread[t].pc = "remap"
    /\ histogramData' = Remembered(histogramData, thread[t].category, thread[t].newID)
    /\ thread' = Goes(t, "answer")
    /\ Unchanged /\ UNCHANGED <<requests, lock, raced>>

(* Statistics of the histograms, which have to be there.                   *)
Answer(t) ==
    /\ thread[t].pc = "answer"
    /\ IF /\ HasCategory(histogramData, thread[t].newID, thread[t].category)
          /\ histogramData.sets[thread[t].newID][thread[t].category] # {}
       THEN UNCHANGED lock
       ELSE ReadLockKept(t)
    /\ thread' = Ends(t)
    /\ Unchanged /\ UNCHANGED <<requests, histogramData, raced>>

-----------------------------------------------------------------------------
(* Requests that take no lock: getfakedata2 puts two sets, and customTest  *)
(* calls it and learns from the last set there is then.                    *)

GetFakeData2(t) ==
    /\ Starts(t)
    /\ thread' = [thread EXCEPT ![t] = [Idle EXCEPT !.pc = "next", !.puts = FakeSets]]
    /\ Unchanged /\ UNCHANGED <<histogramData, lock, raced>>

CustomTest(t) ==
    /\ Starts(t)
    /\ thread' = [thread EXCEPT ![t] = [Idle EXCEPT !.pc = "next", !.puts = FakeSets,
                                                   !.tests = <<"SVMRandom", "SVM">>]]
    /\ Unchanged /\ UNCHANGED <<histogramData, lock, raced>>

(* putHistogramSet: the id, ...                                            *)
NextID(t) ==
    /\ thread[t].pc = "next"
    /\ thread[t].puts # <<>>
    /\ thread' = [thread EXCEPT ![t].pc = "put", ![t].newID = histogramData.next]
    /\ raced' = (raced \/ \E u \in Threads \ {t} : Adding(u))
    /\ Unchanged /\ UNCHANGED <<requests, histogramData, lock>>

(* ... the set, and the next id behind it.                                 *)
PutSet(t) ==
    /\ thread[t].pc = "put"
    /\ histogramData' = Stored(histogramData, thread[t].newID, BatchSet(Head(thread[t].puts)))
    /\ Disturbs(t, [thread[t] EXCEPT !.pc = "reread", !.newID = -1, !.puts = Tail(@)])
    /\ Unchanged /\ UNCHANGED <<requests, lock, raced>>

(* Both sets are there: a request for fake data is done, customTest takes  *)
(* the last id.                                                            *)
LastID(t) ==
    /\ thread[t].pc = "next"
    /\ thread[t].puts = <<>>
    /\ thread' = IF thread[t].tests = <<>> THEN Ends(t)
                 ELSE [thread EXCEPT ![t].pc = "test", ![t].newID = histogramData.next - 1]
    /\ Unchanged /\ UNCHANGED <<requests, histogramData, lock, raced>>

(* runOneTestSVM of each algorithm, of the last set and of the anomalies   *)
(* in the one before: a text when one of them is not there.                *)
RunOneTest(t) ==
    /\ thread[t].pc = "test"
    /\ LET h  == histogramData
           id == thread[t].newID
           a  == Head(thread[t].tests)
           found == /\ HasCategory(h, id, FakeKeys[1])
                    /\ HasCategory(h, id, FakeKeys[2])
                    /\ HasCategory(h, id - 1, FakeKeys[3])
           key == <<a, id, FakeKeys[1]>>
           more == Len(thread[t].tests) > 1
       IN  \E changed \in {found, FALSE} :
           LET kept   == IF found THEN Kept(a, id, id, changed) ELSE svmModels
               list   == h.sets[id][FakeKeys[1]]
               learns == found /\ (key \in DOMAIN kept \/ list # {})
               fails  == found /\ ~learns
           IN  /\ svmModels' = IF learns THEN Learned(kept, key, list) ELSE kept
               /\ answer' = IF learns
                            THEN [window |-> StartAndEnd(h, id), category |-> FakeKeys[1],
                                  train |-> list, learned |-> svmModels'[key]]
                            ELSE answer
               /\ thread' = IF more /\ ~fails
                            THEN [thread EXCEPT ![t].tests = Tail(thread[t].tests)]
                            ELSE Ends(t)
    /\ UNCHANGED <<requests, histogramData, lock, cleared, raced>>

(* The next step of a request that others can come between.                *)
GoesOn(t) ==
    \/ ListEnds(t) \/ CreateSet(t) \/ CreateValue(t) \/ CreateCategory(t) \/ SumCategories(t)
    \/ TakeID(t) \/ ReadNextID(t, "read", "write") \/ WriteNextID(t, "write", "remap")
    \/ RememberID(t) \/ Answer(t)
    \/ NextID(t) \/ PutSet(t)
    \/ ReadNextID(t, "reread", "rewrite") \/ WriteNextID(t, "rewrite", "next")
    \/ LastID(t) \/ RunOneTest(t)

Next ==
    \E t \in Threads :
        \/ Load(t) \/ DeleteOne(t) \/ DeleteAll(t) \/ TestSVM(t) \/ Demo(t) \/ TestFails(t)
        \/ ListKeys(t) \/ GetHistograms(t) \/ GetFakeData2(t) \/ CustomTest(t)
        \/ GoesOn(t)

(* A thread of the container goes on with its request.                     *)
Fairness == \A t \in Threads : WF_vars(GoesOn(t))

Spec == Init /\ [][Next]_vars

FairSpec == Spec /\ Fairness

-----------------------------------------------------------------------------
Steps == {"idle", "list", "disturbed", "create", "value", "category", "sum", "take",
          "read", "write", "remap", "answer", "next", "put", "reread", "rewrite", "test"}

(* The store, the cache of models and the lock; and sets beyond the last   *)
(* id, which computations that found nothing left behind, are empty unless *)
(* a request is at work there or two have raced: putHistogramSet and the   *)
(* next computation take their place.                                      *)
TypeOK ==
    /\ histogramData.next \in Nat
    /\ histogramData.bare \subseteq DOMAIN histogramData.sets
    /\ \A id \in DOMAIN histogramData.sets :
          /\ id \in Nat
          /\ DOMAIN histogramData.sets[id] \subseteq Categories
          /\ \A c \in DOMAIN histogramData.sets[id] :
                histogramData.sets[id][c] \subseteq Histogram
    /\ \A k \in DOMAIN histogramData.remap : histogramData.remap[k] \in Nat
    /\ DOMAIN svmModels \subseteq Algorithms \X Nat \X Categories
    /\ lock \in [writer : Threads \cup {NoThread}, readers : SUBSET Threads]
    /\ \A t \in Threads : thread[t].pc \in Steps /\ thread[t].category \in Categories
    /\ requests \in 0 .. MaxRequests
    /\ (~raced /\ \A t \in Threads : ~Adding(t)) =>
          \A id \in DOMAIN histogramData.sets : id >= histogramData.next =>
             \A c \in DOMAIN histogramData.sets[id] : histogramData.sets[id][c] = {}

(* A model kept for a set that is there was learned from the histograms    *)
(* the set has: ids are not used twice, what a failed computation left     *)
(* behind is never learned from, and deleting a set does not leave its id  *)
(* to another.  Two things break it: deleteAll, which begins with id 0     *)
(* again and forgets no model, and requests that add sets at the same      *)
(* time, of which one may move the next id back.                           *)
ModelMatchesData ==
    ~cleared /\ ~raced =>
        \A k \in DOMAIN svmModels :
            HasCategory(histogramData, k[2], k[3]) =>
                svmModels[k] = histogramData.sets[k[2]][k[3]]

(* What a test learned from are the histograms it was asked to learn from. *)
(* "deleteAll(); //invalidate the existing data", say the settings of the  *)
(* window, which are to "delete all existing data from the system".        *)
LearnedFromAskedData == answer.learned = answer.train

(* The set that is handed out for a category and a window holds histograms *)
(* of that category in that window, as long as it was not deleted and no   *)
(* two requests have added sets at the same time.                          *)
RemappedIsThere ==
    ~raced =>
        \A k \in DOMAIN histogramData.remap :
            LET id == histogramData.remap[k]
            IN  id \in DOMAIN histogramData.sets =>
                    k[1] \in DOMAIN histogramData.sets[id] /\ StartAndEnd(histogramData, id) = k[2]

(* What a test uses was learned from histograms of the time window of the  *)
(* set that was asked for and of categories that have all the fields asked *)
(* for, whether they were stored, summed for this request, remembered from *)
(* another or learned long ago, until deleteAll or until two requests have *)
(* added sets at the same time.                                            *)
(* A set without histograms has no window: when it is one that a failed    *)
(* computation left behind, the set computed for the test takes its place, *)
(* and the test learns from that.                                          *)
AnswersFitRequest ==
    ~raced /\ ~cleared /\ answer.window # {} =>
        \A x \in answer.learned :
            /\ x.time \in answer.window
            /\ \A s \in x.sources : <<answer.category, s[2]>> \in Below

LockKept == lock.writer # NoThread \/ lock.readers # {}

(* A request that goes step by step is answered, in spite of others that   *)
(* wait for nothing but the lock, until one has left the lock locked: each *)
(* thread is idle again and again.                                         *)
RequestsAnswered ==
    \A t \in Threads : []<>(thread[t].pc = "idle" \/ LockKept)
=============================================================================
