----------------------- MODULE HistogramDaemon_proofs -----------------------
(***************************************************************************)
(* The store of histograms under any number of threads, batches and        *)
(* categories.  As long as no two requests have added sets at the same     *)
(* time, sets below the next id are never changed, only deleted, and at    *)
(* the next id there is at most what a computation left behind or what a   *)
(* request is still working on.  So a remembered set stays right, and      *)
(* until deleteAll a model, once learned.                                  *)
(***************************************************************************)
EXTENDS HistogramDaemon, SequenceTheorems, TLAPS

(* A store has the fields of one.                                          *)
StoreShape(h) == \E s, b, r, n : h = [sets |-> s, bare |-> b, remap |-> r, next |-> n]

(* Histograms that have the fields of the category they are filed under.   *)
GoodSet(set) ==
    /\ DOMAIN set \subseteq Categories
    /\ \A c \in DOMAIN set : \A x \in set[c] :
          x \in Histogram /\ \A s \in x.sources : <<c, s[2]>> \in Below

GoodStore(h) ==
    /\ StoreShape(h)
    /\ h.next \in Nat
    /\ h.bare \subseteq DOMAIN h.sets /\ \A id \in h.bare : DOMAIN h.sets[id] = {}
    /\ \A id \in DOMAIN h.sets : id \in Nat /\ GoodSet(h.sets[id])
    /\ \A k \in DOMAIN h.remap : h.remap[k] \in Nat

(* No set is beyond the next id, ...                                       *)
Bounded(h) == \A id \in DOMAIN h.sets : id <= h.next

(* ... and nothing has been put there.                                     *)
Vacant(h) ==
    /\ Bounded(h)
    /\ h.next \in DOMAIN h.sets =>
          \A c \in DOMAIN h.sets[h.next] : h.sets[h.next][c] = {}

(* Sets that have their id stay as they are or are deleted.                *)
Grown(h, g) ==
    /\ h.next <= g.next
    /\ \A id \in DOMAIN g.sets :
          id < h.next => id \in DOMAIN h.sets /\ g.sets[id] = h.sets[id]

(* Remembered sets have their ids, and are what they are remembered for.   *)
Mapped(h) ==
    \A k \in DOMAIN h.remap :
        /\ h.remap[k] < h.next
        /\ h.remap[k] \in DOMAIN h.sets =>
              k[1] \in DOMAIN h.sets[h.remap[k]] /\ StartAndEnd(h, h.remap[k]) = k[2]

-----------------------------------------------------------------------------
(* What the operations do to a store.                                      *)

LEMMA TwoFields ==
    ASSUME NEW h, StoreShape(h), NEW p, NEW q
    PROVE  [h EXCEPT !.sets = p, !.bare = q] =
               [sets |-> p, bare |-> q, remap |-> h.remap, next |-> h.next]
<1>1. PICK s, b, r, n : h = [sets |-> s, bare |-> b, remap |-> r, next |-> n]
  BY DEF StoreShape
<1>2. PICK g : g = [h EXCEPT !.sets = p]
  OBVIOUS
<1>3. g = [sets |-> p, bare |-> b, remap |-> r, next |-> n]
  BY <1>1, <1>2
<1>4. [g EXCEPT !.bare = q] = [sets |-> p, bare |-> q, remap |-> r, next |-> n]
  BY <1>3
<1>5. [h EXCEPT !.sets = p, !.bare = q] = [g EXCEPT !.bare = q]
  BY <1>1, <1>2
<1>6. h.remap = r /\ h.next = n
  BY <1>1
<1> QED
  BY <1>4, <1>5, <1>6

LEMMA StoredShape ==
    ASSUME NEW h, StoreShape(h), NEW id, NEW set
    PROVE  Stored(h, id, set) = [sets |-> Put(h.sets, id, set), bare |-> h.bare \ {id},
                                 remap |-> h.remap, next |-> h.next]
<1>1. PICK p, q : p = Put(h.sets, id, set) /\ q = h.bare \ {id}
  OBVIOUS
<1>2. [h EXCEPT !.sets = p, !.bare = q] = [sets |-> p, bare |-> q, remap |-> h.remap, next |-> h.next]
  BY TwoFields
<1> QED
  BY <1>1, <1>2 DEF Stored

LEMMA PutShape ==
    ASSUME NEW h, StoreShape(h), NEW set
    PROVE  PutHistogramSet(h, set) =
               [sets |-> Put(h.sets, h.next, set), bare |-> h.bare \ {h.next},
                remap |-> h.remap, next |-> h.next + 1]
<1>1. PICK g : g = Stored(h, h.next, set)
  OBVIOUS
<1>2. g = [sets |-> Put(h.sets, h.next, set), bare |-> h.bare \ {h.next},
           remap |-> h.remap, next |-> h.next]
  BY <1>1, StoredShape
<1>3. [g EXCEPT !.next = h.next + 1] =
          [sets |-> Put(h.sets, h.next, set), bare |-> h.bare \ {h.next},
           remap |-> h.remap, next |-> h.next + 1]
  BY <1>2
<1> QED
  BY <1>1, <1>3 DEF PutHistogramSet

(* Taking an id, remembering one and deleting a set.                       *)
LEMMA NextShape ==
    ASSUME NEW h, StoreShape(h), NEW n
    PROVE  [h EXCEPT !.next = n] =
               [sets |-> h.sets, bare |-> h.bare, remap |-> h.remap, next |-> n]
BY DEF StoreShape

LEMMA RememberedShape ==
    ASSUME NEW h, StoreShape(h), NEW c, NEW m
    PROVE  Remembered(h, c, m) =
               [sets |-> h.sets, bare |-> h.bare,
                remap |-> Put(h.remap, <<c, StartAndEnd(h, m)>>, m), next |-> h.next]
BY DEF Remembered, StoreShape

LEMMA DeletedShape ==
    ASSUME NEW h, StoreShape(h), NEW id
    PROVE  [h EXCEPT !.sets = Without(@, {id}), !.bare = @ \ {id}] =
               [sets |-> Without(h.sets, {id}), bare |-> h.bare \ {id},
                remap |-> h.remap, next |-> h.next]
<1>1. PICK p, q : p = Without(h.sets, {id}) /\ q = h.bare \ {id}
  OBVIOUS
<1>2. [h EXCEPT !.sets = p, !.bare = q] = [sets |-> p, bare |-> q, remap |-> h.remap, next |-> h.next]
  BY TwoFields
<1>3. [h EXCEPT !.sets = Without(@, {id}), !.bare = @ \ {id}] = [h EXCEPT !.sets = p, !.bare = q]
  BY <1>1 DEF StoreShape
<1> QED
  BY <1>1, <1>2, <1>3

(* A remembered set is not touched as long as its id stays its own.        *)
LEMMA MappedGrown ==
    ASSUME NEW h, NEW g, GoodStore(h), GoodStore(g), Mapped(h), Grown(h, g), g.remap = h.remap
    PROVE  Mapped(g)
<1> SUFFICES ASSUME NEW k \in DOMAIN g.remap
             PROVE  /\ g.remap[k] < g.next
                    /\ g.remap[k] \in DOMAIN g.sets =>
                          /\ k[1] \in DOMAIN g.sets[g.remap[k]]
                          /\ StartAndEnd(g, g.remap[k]) = k[2]
  BY DEF Mapped
<1>1. PICK m : m = g.remap[k] /\ m = h.remap[k]
  OBVIOUS
<1>2. m \in Nat /\ m < h.next /\ h.next \in Nat /\ g.next \in Nat /\ h.next <= g.next
  BY <1>1 DEF Mapped, GoodStore, Grown
<1>3. ASSUME m \in DOMAIN g.sets
      PROVE  k[1] \in DOMAIN g.sets[m] /\ StartAndEnd(g, m) = k[2]
  <2>1. m \in DOMAIN h.sets /\ g.sets[m] = h.sets[m]
    BY <1>2, <1>3 DEF Grown
  <2>2. k[1] \in DOMAIN h.sets[m] /\ StartAndEnd(h, m) = k[2]
    BY <1>1, <2>1 DEF Mapped
  <2>3. StartAndEnd(g, m) = StartAndEnd(h, m)
    BY <1>3, <2>1 DEF StartAndEnd
  <2> QED
    BY <2>1, <2>2, <2>3
<1> QED
  BY <1>1, <1>2, <1>3

(* A sum has histograms of the times and the categories it is made from.   *)
LEMMA SummedFits ==
    ASSUME NEW h, GoodStore(h), NEW id \in DOMAIN h.sets, NEW c \in Categories,
           NEW x \in Summed(h, id, c)
    PROVE  /\ x \in Histogram
           /\ \A s \in x.sources : <<c, s[2]>> \in Below
           /\ x.time \in StartAndEnd(h, id)
<1> DEFINE D == Supersets(h, id, c)
           found == UNION {h.sets[id][d] : d \in D}
           at(w) == {y.sources : y \in {z \in found : z.time = w}}
<1>1. PICK w \in {y.time : y \in found} : x = [time |-> w, sources |-> UNION at(w)]
  BY DEF Summed
<1>2. \A y \in found : \E d \in DOMAIN h.sets[id] : <<c, d>> \in Below /\ y \in h.sets[id][d]
  BY DEF Supersets
<1>3. ASSUME NEW y \in found
      PROVE  /\ y \in Histogram /\ y.time \in StartAndEnd(h, id)
             /\ \A s \in y.sources : <<c, s[2]>> \in Below
  <2>1. PICK d \in DOMAIN h.sets[id] : <<c, d>> \in Below /\ y \in h.sets[id][d]
    BY <1>2
  <2>2. y \in Histogram /\ d \in Categories /\ \A s \in y.sources : <<d, s[2]>> \in Below
    BY <2>1 DEF GoodStore, GoodSet
  <2>3. \A s \in y.sources : <<c, s[2]>> \in Below
    <3>1. SUFFICES ASSUME NEW s \in y.sources PROVE <<c, s[2]>> \in Below
      OBVIOUS
    <3>2. PICK e : e = s[2]
      OBVIOUS
    <3>3. <<d, e>> \in Below /\ e \in Categories
      BY <2>2, <3>2, DaemonAssumption
    <3> QED
      BY <2>1, <2>2, <3>2, <3>3, DaemonAssumption
  <2>4. y.time \in StartAndEnd(h, id)
    BY <2>1 DEF StartAndEnd
  <2> QED
    BY <2>2, <2>3, <2>4
<1>4. PICK y \in found : y.time = w
  BY <1>1
<1>5. w \in Times /\ w \in StartAndEnd(h, id)
  BY <1>3, <1>4 DEF Histogram
<1>6. \A s \in UNION at(w) : s \in Batches \X Categories /\ <<c, s[2]>> \in Below
  BY <1>3 DEF Histogram
<1>7. PICK u : u = UNION at(w)
  OBVIOUS
<1>8. x = [time |-> w, sources |-> u] /\ \A s \in u : s \in Batches \X Categories /\ <<c, s[2]>> \in Below
  BY <1>1, <1>6, <1>7
<1> HIDE DEF D, found, at
<1> QED
  BY <1>5, <1>8 DEF Histogram

(* A good set at an id leaves a good store.                                *)
LEMMA StoredGood ==
    ASSUME NEW h, GoodStore(h), NEW id \in Nat, NEW set, GoodSet(set)
    PROVE  LET g == Stored(h, id, set)
           IN  /\ GoodStore(g) /\ g.remap = h.remap /\ g.next = h.next /\ g.bare = h.bare \ {id}
               /\ DOMAIN g.sets = DOMAIN h.sets \cup {id} /\ g.sets[id] = set
               /\ \A m \in DOMAIN h.sets : m # id => g.sets[m] = h.sets[m]
<1>1. PICK g : g = Stored(h, id, set)
  OBVIOUS
<1>2. PICK p : p = Put(h.sets, id, set)
  OBVIOUS
<1>3. g = [sets |-> p, bare |-> h.bare \ {id}, remap |-> h.remap, next |-> h.next]
  BY <1>1, <1>2, StoredShape DEF GoodStore
<1>4. g.sets = p /\ g.remap = h.remap /\ g.next = h.next /\ g.bare = h.bare \ {id}
  BY <1>3
<1>5. /\ DOMAIN p = DOMAIN h.sets \cup {id} /\ p[id] = set
      /\ \A m \in DOMAIN h.sets : m # id => p[m] = h.sets[m]
  BY <1>2 DEF Put
<1>6. GoodStore(g)
  <2>1. StoreShape(g)
    BY <1>3 DEF StoreShape
  <2>2. ASSUME NEW m \in DOMAIN g.sets
        PROVE  m \in Nat /\ GoodSet(g.sets[m])
    <3>1. CASE m = id
      BY <3>1, <1>4, <1>5
    <3>2. CASE m # id
      <4>1. m \in DOMAIN h.sets /\ g.sets[m] = h.sets[m]
        BY <2>2, <3>2, <1>4, <1>5
      <4> QED
        BY <4>1 DEF GoodStore
    <3> QED
      BY <3>1, <3>2
  <2>3. /\ g.next \in Nat /\ \A k \in DOMAIN g.remap : g.remap[k] \in Nat
        /\ g.bare \subseteq DOMAIN g.sets /\ \A m \in g.bare : DOMAIN g.sets[m] = {}
    BY <1>4, <1>5 DEF GoodStore
  <2> QED
    BY <2>1, <2>2, <2>3 DEF GoodStore
<1> QED
  BY <1>1, <1>4, <1>5, <1>6

(* At the next id it does not touch the others.                            *)
LEMMA StoredNext ==
    ASSUME NEW h, GoodStore(h), NEW g, g.next = h.next,
           DOMAIN g.sets = DOMAIN h.sets \cup {h.next},
           \A m \in DOMAIN h.sets : m # h.next => g.sets[m] = h.sets[m]
    PROVE  Grown(h, g) /\ (Bounded(h) => Bounded(g))
<1>1. h.next \in Nat /\ \A m \in DOMAIN h.sets : m \in Nat
  BY DEF GoodStore
<1> QED
  BY <1>1 DEF Grown, Bounded

(* What a query returns is a good set.                                     *)
LEMMA BatchGood ==
    ASSUME NEW b \in Batches
    PROVE  GoodSet(BatchSet(b))
<1>1. PICK set : set = BatchSet(b)
  OBVIOUS
<1>2. DOMAIN set = CategoriesOf[b] /\ CategoriesOf[b] \subseteq Categories
  BY <1>1, DaemonAssumption DEF BatchSet
<1>3. ASSUME NEW c \in DOMAIN set, NEW x \in set[c]
      PROVE  x \in Histogram /\ \A s \in x.sources : <<c, s[2]>> \in Below
  <2>1. x = [time |-> WindowOf[b], sources |-> {<<b, c>>}]
    BY <1>1, <1>2, <1>3 DEF BatchSet
  <2>2. c \in Categories /\ WindowOf[b] \in Times /\ <<c, c>> \in Below
    BY <1>2, DaemonAssumption DEF Times
  <2>3. x \in Histogram
    BY <2>1, <2>2 DEF Histogram
  <2>4. \A s \in x.sources : s = <<b, c>>
    BY <2>1
  <2> QED
    BY <2>2, <2>3, <2>4
<1> QED
  BY <1>1, <1>2, <1>3 DEF GoodSet

(* The next id is moved on, behind all sets.                               *)
LEMMA NextGood ==
    ASSUME NEW h, GoodStore(h), NEW n \in Nat
    PROVE  LET g == [h EXCEPT !.next = n]
           IN  /\ GoodStore(g) /\ g.sets = h.sets /\ g.bare = h.bare
               /\ g.remap = h.remap /\ g.next = n
               /\ Bounded(h) /\ n = h.next + 1 => Vacant(g) /\ Grown(h, g)
<1>1. PICK g : g = [h EXCEPT !.next = n]
  OBVIOUS
<1>2. g = [sets |-> h.sets, bare |-> h.bare, remap |-> h.remap, next |-> n]
  BY <1>1, NextShape DEF GoodStore
<1>3. g.sets = h.sets /\ g.bare = h.bare /\ g.remap = h.remap /\ g.next = n
  BY <1>2
<1>4. GoodStore(g)
  <2>1. StoreShape(g)
    BY <1>2 DEF StoreShape
  <2> QED
    BY <2>1, <1>3 DEF GoodStore
<1>5. h.next \in Nat /\ \A id \in DOMAIN h.sets : id \in Nat
  BY DEF GoodStore
<1>6. ASSUME Bounded(h), n = h.next + 1
      PROVE  Vacant(g) /\ Grown(h, g)
  <2>1. \A id \in DOMAIN g.sets : id < g.next
    BY <1>3, <1>5, <1>6 DEF Bounded
  <2>2. Vacant(g)
    BY <2>1, <1>3, <1>5 DEF Vacant, Bounded
  <2>3. Grown(h, g)
    BY <1>3, <1>5, <1>6 DEF Grown
  <2> QED
    BY <2>2, <2>3
<1> QED
  BY <1>1, <1>3, <1>4, <1>6

(* The result of a query takes the next id.                                *)
LEMMA PutGood ==
    ASSUME NEW h, GoodStore(h), NEW b \in Batches
    PROVE  LET g == PutHistogramSet(h, BatchSet(b))
           IN  /\ GoodStore(g) /\ g.remap = h.remap
               /\ Bounded(h) => Vacant(g) /\ Grown(h, g)
<1>1. PICK set : set = BatchSet(b)
  OBVIOUS
<1>2. PICK f : f = Stored(h, h.next, set)
  OBVIOUS
<1>3. PICK g : g = PutHistogramSet(h, set)
  OBVIOUS
<1>4. h.next \in Nat /\ GoodSet(set)
  BY <1>1, BatchGood DEF GoodStore
<1>5. /\ GoodStore(f) /\ f.remap = h.remap /\ f.next = h.next
      /\ DOMAIN f.sets = DOMAIN h.sets \cup {h.next}
      /\ \A m \in DOMAIN h.sets : m # h.next => f.sets[m] = h.sets[m]
  BY <1>2, <1>4, StoredGood
<1>6. Grown(h, f) /\ (Bounded(h) => Bounded(f))
  BY <1>5, StoredNext
<1>7. g = [f EXCEPT !.next = f.next + 1]
  BY <1>2, <1>3, <1>5 DEF PutHistogramSet
<1>8. /\ GoodStore(g) /\ g.sets = f.sets /\ g.remap = f.remap /\ g.next = f.next + 1
      /\ Bounded(f) => Vacant(g) /\ Grown(f, g)
  <2>1. f.next + 1 \in Nat
    BY <1>4, <1>5
  <2> QED
    BY <1>5, <1>7, <2>1, NextGood
<1>9. Grown(h, g)
  BY <1>4, <1>5, <1>6, <1>8 DEF Grown
<1> QED
  BY <1>1, <1>3, <1>5, <1>6, <1>8, <1>9

(* A set is deleted, and its id stays taken.                               *)
LEMMA DeletedGood ==
    ASSUME NEW h, GoodStore(h), NEW id
    PROVE  LET g == [h EXCEPT !.sets = Without(@, {id}), !.bare = @ \ {id}]
           IN  /\ GoodStore(g) /\ Grown(h, g) /\ g.remap = h.remap
               /\ Vacant(h) => Vacant(g)
<1>1. PICK g : g = [h EXCEPT !.sets = Without(@, {id}), !.bare = @ \ {id}]
  OBVIOUS
<1>2. g = [sets |-> Without(h.sets, {id}), bare |-> h.bare \ {id},
           remap |-> h.remap, next |-> h.next]
  BY <1>1, DeletedShape DEF GoodStore
<1>3. /\ DOMAIN g.sets = DOMAIN h.sets \ {id} /\ g.bare = h.bare \ {id}
      /\ \A m \in DOMAIN g.sets : m \in DOMAIN h.sets /\ g.sets[m] = h.sets[m]
      /\ g.remap = h.remap /\ g.next = h.next
  BY <1>2 DEF Without
<1>4. GoodStore(g)
  <2>1. StoreShape(g)
    BY <1>2 DEF StoreShape
  <2> QED
    BY <2>1, <1>3 DEF GoodStore
<1>5. Grown(h, g) /\ (Vacant(h) => Vacant(g))
  BY <1>3 DEF Grown, Vacant, Bounded, GoodStore
<1> QED
  BY <1>1, <1>3, <1>4, <1>5

LEMMA NewGood == GoodStore(NewStore) /\ Vacant(NewStore) /\ Mapped(NewStore)
<1>1. /\ DOMAIN NewStore.sets = {} /\ DOMAIN NewStore.remap = {} /\ NewStore.next = 0
      /\ NewStore.bare = {}
  BY DEF NewStore
<1>2. StoreShape(NewStore)
  BY DEF NewStore, StoreShape
<1>3. PICK g : g = NewStore
  OBVIOUS
<1>4. GoodStore(g)
  <2>1. StoreShape(g) /\ DOMAIN g.sets = {} /\ DOMAIN g.remap = {} /\ g.next = 0 /\ g.bare = {}
    BY <1>1, <1>2, <1>3
  <2>2. \A id \in DOMAIN g.sets : FALSE
    BY <2>1
  <2>3. \A k \in DOMAIN g.remap : FALSE
    BY <2>1
  <2> QED
    BY <2>1, <2>2, <2>3 DEF GoodStore
<1>5. Vacant(g) /\ Mapped(g)
  BY <1>1, <1>3 DEF Vacant, Bounded, Mapped
<1> QED
  BY <1>3, <1>4, <1>5

(* The empty set of a computation that begins.                             *)
LEMMA CreatedGood ==
    ASSUME NEW h, GoodStore(h), NEW c \in Categories
    PROVE  LET g == Created(h, c)
           IN  /\ GoodStore(g) /\ Grown(h, g) /\ (Bounded(h) => Vacant(g))
               /\ g.remap = h.remap /\ g.next = h.next
               /\ DOMAIN g.sets = DOMAIN h.sets \cup {h.next}
               /\ DOMAIN g.sets[h.next] = {c} /\ g.sets[h.next][c] = {}
               /\ \A id \in DOMAIN h.sets : id # h.next => g.sets[id] = h.sets[id]
<1>1. PICK set : set = Put(<<>>, c, {})
  OBVIOUS
<1>2. DOMAIN set = {c} /\ set[c] = {}
  BY <1>1 DEF Put
<1>3. PICK g : g = Stored(h, h.next, set)
  OBVIOUS
<1>4. /\ GoodStore(g) /\ g.remap = h.remap /\ g.next = h.next
      /\ DOMAIN g.sets = DOMAIN h.sets \cup {h.next} /\ g.sets[h.next] = set
      /\ \A id \in DOMAIN h.sets : id # h.next => g.sets[id] = h.sets[id]
  <2>1. GoodSet(set) /\ h.next \in Nat
    BY <1>2 DEF GoodSet, GoodStore
  <2> QED
    BY <2>1, <1>3, StoredGood
<1>5. Grown(h, g) /\ (Bounded(h) => Bounded(g))
  BY <1>4, StoredNext
<1>6. Bounded(h) => Vacant(g)
  BY <1>2, <1>4, <1>5 DEF Vacant
<1>7. g = Created(h, c)
  BY <1>1, <1>3 DEF Created
<1> QED
  BY <1>2, <1>4, <1>5, <1>6, <1>7

(* The sum is added to the set at the next id.                             *)
LEMMA FilledGood ==
    ASSUME NEW h, GoodStore(h), NEW c, HasCategory(h, h.next, c), NEW sum,
           \A x \in sum : x \in Histogram /\ \A s \in x.sources : <<c, s[2]>> \in Below
    PROVE  LET g == Filled(h, c, sum)
           IN  /\ GoodStore(g) /\ Grown(h, g) /\ (Bounded(h) => Bounded(g))
               /\ g.remap = h.remap /\ g.next = h.next
               /\ DOMAIN g.sets = DOMAIN h.sets \cup {h.next}
               /\ DOMAIN g.sets[h.next] = DOMAIN h.sets[h.next]
               /\ g.sets[h.next][c] = h.sets[h.next][c] \cup sum
               /\ \A id \in DOMAIN h.sets : id # h.next => g.sets[id] = h.sets[id]
<1>1. PICK old : old = h.sets[h.next]
  OBVIOUS
<1>2. /\ DOMAIN old \subseteq Categories /\ c \in DOMAIN old /\ h.next \in Nat
      /\ \A d \in DOMAIN old : \A x \in old[d] :
            x \in Histogram /\ \A s \in x.sources : <<d, s[2]>> \in Below
  BY <1>1 DEF GoodStore, GoodSet, HasCategory
<1>3. PICK set : set = Put(old, c, old[c] \cup sum)
  OBVIOUS
<1>4. DOMAIN set = DOMAIN old /\ set[c] = old[c] \cup sum /\ \A d \in DOMAIN old : d # c => set[d] = old[d]
  BY <1>2, <1>3 DEF Put
<1>5. ASSUME NEW d \in DOMAIN set, NEW x \in set[d]
      PROVE  x \in Histogram /\ \A s \in x.sources : <<d, s[2]>> \in Below
  <2>1. d \in DOMAIN old /\ (x \in old[d] \/ (d = c /\ x \in sum))
    <3>1. CASE d = c
      BY <1>5, <3>1, <1>4
    <3>2. CASE d # c
      BY <1>5, <3>2, <1>4
    <3> QED
      BY <3>1, <3>2
  <2> QED
    BY <2>1, <1>2
<1>6. GoodSet(set)
  BY <1>2, <1>4, <1>5 DEF GoodSet
<1>7. PICK g : g = Stored(h, h.next, set)
  OBVIOUS
<1>8. /\ GoodStore(g) /\ g.remap = h.remap /\ g.next = h.next
      /\ DOMAIN g.sets = DOMAIN h.sets \cup {h.next} /\ g.sets[h.next] = set
      /\ \A id \in DOMAIN h.sets : id # h.next => g.sets[id] = h.sets[id]
  BY <1>2, <1>6, <1>7, StoredGood
<1>9. Grown(h, g) /\ (Bounded(h) => Bounded(g))
  BY <1>8, StoredNext
<1>10. g = Filled(h, c, sum)
  BY <1>1, <1>3, <1>7 DEF Filled
<1> QED
  BY <1>1, <1>4, <1>8, <1>9, <1>10

(* An id that is taken is remembered.                                      *)
LEMMA RememberedGood ==
    ASSUME NEW h, GoodStore(h), NEW c, NEW m \in Nat
    PROVE  LET g == Remembered(h, c, m)
           IN  /\ GoodStore(g) /\ Grown(h, g) /\ g.sets = h.sets /\ g.next = h.next
               /\ Mapped(h) /\ m < h.next /\ HasCategory(h, m, c) => Mapped(g)
<1>1. PICK w : w = StartAndEnd(h, m)
  OBVIOUS
<1>2. PICK p : p = Put(h.remap, <<c, w>>, m)
  OBVIOUS
<1>3. PICK g : g = Remembered(h, c, m)
  OBVIOUS
<1>4. g = [sets |-> h.sets, bare |-> h.bare, remap |-> p, next |-> h.next]
  BY <1>1, <1>2, <1>3, RememberedShape DEF GoodStore
<1>5. g.sets = h.sets /\ g.remap = p /\ g.next = h.next /\ g.bare = h.bare
  BY <1>4
<1>6. \A k \in DOMAIN p : \/ p[k] = m /\ k = <<c, w>>
                          \/ k \in DOMAIN h.remap /\ p[k] = h.remap[k]
  <2>1. PICK key : key = <<c, w>>
    OBVIOUS
  <2>2. PICK r : r = h.remap
    OBVIOUS
  <2>3. p = [x \in DOMAIN r \cup {key} |-> IF x = key THEN m ELSE r[x]]
    BY <1>2, <2>1, <2>2 DEF Put
  <2>4. \A k \in DOMAIN p : (p[k] = m /\ k = key) \/ (k \in DOMAIN r /\ p[k] = r[k])
    BY <2>3
  <2> QED
    BY <2>1, <2>2, <2>4
<1>7. h.next \in Nat
  BY DEF GoodStore
<1>8. GoodStore(g)
  <2>1. StoreShape(g)
    BY <1>4 DEF StoreShape
  <2>2. \A k \in DOMAIN g.remap : g.remap[k] \in Nat
    <3>1. \A k \in DOMAIN h.remap : h.remap[k] \in Nat
      BY DEF GoodStore
    <3> QED
      BY <1>5, <1>6, <3>1
  <2> QED
    BY <2>1, <2>2, <1>5 DEF GoodStore
<1>9. Grown(h, g)
  BY <1>5, <1>7 DEF Grown
<1>10. ASSUME Mapped(h), m < h.next, HasCategory(h, m, c)
       PROVE  Mapped(g)
  <2>1. \A id : StartAndEnd(g, id) = StartAndEnd(h, id)
    BY <1>5 DEF StartAndEnd
  <2>2. SUFFICES ASSUME NEW k \in DOMAIN p
                 PROVE  /\ p[k] < h.next
                        /\ p[k] \in DOMAIN h.sets =>
                              k[1] \in DOMAIN h.sets[p[k]] /\ StartAndEnd(h, p[k]) = k[2]
    BY <1>5, <2>1 DEF Mapped
  <2>3. CASE k \in DOMAIN h.remap /\ p[k] = h.remap[k]
    BY <1>10, <2>3 DEF Mapped
  <2>4. CASE p[k] = m /\ k = <<c, w>>
    <3>1. k[1] = c /\ k[2] = w
      BY <2>4
    <3> QED
      BY <3>1, <2>4, <1>1, <1>10 DEF HasCategory
  <2> QED
    BY <1>6, <2>3, <2>4
<1> QED
  BY <1>3, <1>5, <1>8, <1>9, <1>10

(* The next id is taken and remembered.                                    *)
LEMMA HandedOutGood ==
    ASSUME NEW h, GoodStore(h), NEW c
    PROVE  LET g == HandedOut(h, c, h.next)
           IN  /\ GoodStore(g) /\ g.sets = h.sets /\ g.next = h.next + 1
               /\ Bounded(h) => Vacant(g) /\ Grown(h, g)
               /\ Bounded(h) /\ Mapped(h) /\ HasCategory(h, h.next, c) => Mapped(g)
<1>1. PICK m : m = h.next
  OBVIOUS
<1>2. PICK f : f = [h EXCEPT !.next = m + 1]
  OBVIOUS
<1>3. PICK g : g = Remembered(f, c, m)
  OBVIOUS
<1>4. m \in Nat /\ m + 1 \in Nat
  BY <1>1 DEF GoodStore
<1>5. /\ GoodStore(f) /\ f.sets = h.sets /\ f.remap = h.remap /\ f.next = m + 1
      /\ Bounded(h) => Vacant(f) /\ Grown(h, f)
  BY <1>1, <1>2, <1>4, NextGood
<1>6. /\ GoodStore(g) /\ Grown(f, g) /\ g.sets = f.sets /\ g.next = f.next
      /\ Mapped(f) /\ m < f.next /\ HasCategory(f, m, c) => Mapped(g)
  BY <1>3, <1>4, <1>5, RememberedGood
<1>7. g = HandedOut(h, c, h.next)
  BY <1>1, <1>2, <1>3 DEF HandedOut
<1>8. Bounded(h) => Vacant(g) /\ Grown(h, g)
  BY <1>4, <1>5, <1>6 DEF Vacant, Bounded, Grown
<1>9. ASSUME Bounded(h), Mapped(h), HasCategory(h, m, c)
      PROVE  Mapped(g)
  <2>1. Mapped(f)
    BY <1>5, <1>9, MappedGrown
  <2>2. m < f.next /\ HasCategory(f, m, c)
    BY <1>4, <1>5, <1>9 DEF HasCategory
  <2> QED
    BY <2>1, <2>2, <1>6
<1> QED
  BY <1>1, <1>5, <1>6, <1>7, <1>8, <1>9

(* How a set that has a category was come by: it was asked for, remembered *)
(* or is a new one, with histograms of the times of the one asked for.     *)
Found(h, id, c, g, m) ==
    /\ id \in DOMAIN h.sets
    /\ \/ m = id /\ g = h
       \/ /\ g = h
          /\ IsRemapped(h, id, c)
          /\ m = h.remap[<<c, StartAndEnd(h, id)>>]
       \/ /\ m = h.next
          /\ g.next = h.next + 1
          /\ id # h.next => \A x \in g.sets[h.next][c] : x.time \in StartAndEnd(h, id)

LEMMA RecalculatedGood ==
    ASSUME NEW h, GoodStore(h), NEW id, NEW c \in Categories
    PROVE  LET r == Recalculated(h, id, c)
           IN  /\ GoodStore(r.store) /\ r.id \in Int
               /\ Vacant(h) => /\ Vacant(r.store) /\ Grown(h, r.store)
                               /\ Mapped(h) => Mapped(r.store)
               /\ r.id >= 0 => Found(h, id, c, r.store, r.id)
<1> DEFINE Result(r) ==
               /\ GoodStore(r.store) /\ r.id \in Int
               /\ Vacant(h) => /\ Vacant(r.store) /\ Grown(h, r.store)
                               /\ Mapped(h) => Mapped(r.store)
               /\ r.id >= 0 => Found(h, id, c, r.store, r.id)
<1>0. PICK r : r = Recalculated(h, id, c)
  OBVIOUS
<1>1. SUFFICES Result(r)
  BY <1>0
<1>2. Grown(h, h)
  BY DEF GoodStore, Grown
<1>3. NotFound = -1 /\ Thrown = -2 /\ h.next \in Nat
  BY DEF NotFound, Thrown, GoodStore
<1>4. CASE id \notin DOMAIN h.sets \ h.bare
  <2>1. r = [store |-> h, id |-> Thrown]
    <3>1. ~HasCategory(h, id, c)
      BY <1>4 DEF HasCategory, GoodStore
    <3> QED
      BY <1>0, <1>4, <3>1 DEF Recalculated
  <2>2. r.store = h /\ r.id = -2
    BY <2>1, <1>3
  <2> QED
    BY <2>2, <1>2
<1>5. CASE id \in DOMAIN h.sets \ h.bare /\ HasCategory(h, id, c)
  <2>1. r = [store |-> h, id |-> id]
    BY <1>0, <1>5 DEF Recalculated
  <2>2. r.store = h /\ r.id = id /\ id \in Int
    BY <2>1, <1>5 DEF GoodStore
  <2>3. Found(h, id, c, h, id)
    BY <1>5 DEF Found
  <2> QED
    BY <2>2, <2>3, <1>2
<1>6. CASE id \in DOMAIN h.sets \ h.bare /\ ~HasCategory(h, id, c) /\ IsRemapped(h, id, c)
  <2>1. PICK m : m = h.remap[<<c, StartAndEnd(h, id)>>]
    OBVIOUS
  <2>2. r = [store |-> h, id |-> m]
    BY <1>0, <1>6, <2>1 DEF Recalculated
  <2>3. r.store = h /\ r.id = m
    BY <2>2
  <2>4. m \in Int
    BY <2>1, <1>6 DEF IsRemapped, GoodStore
  <2>5. Found(h, id, c, h, m)
    BY <1>6, <2>1 DEF Found
  <2> QED
    BY <2>3, <2>4, <2>5, <1>2
<1>7. CASE id \in DOMAIN h.sets \ h.bare /\ ~HasCategory(h, id, c) /\ ~IsRemapped(h, id, c)
  <2>1. PICK g : g = Created(h, c)
    OBVIOUS
  <2>2. /\ GoodStore(g) /\ Grown(h, g) /\ (Bounded(h) => Vacant(g))
        /\ g.remap = h.remap /\ g.next = h.next
        /\ DOMAIN g.sets = DOMAIN h.sets \cup {h.next}
        /\ DOMAIN g.sets[h.next] = {c} /\ g.sets[h.next][c] = {}
        /\ \A n \in DOMAIN h.sets : n # h.next => g.sets[n] = h.sets[n]
    BY <2>1, CreatedGood
  <2>3. Mapped(h) => Mapped(g)
    BY <2>2, MappedGrown
  <2>4. CASE Supersets(g, id, c) = {}
    <3>1. r = [store |-> g, id |-> NotFound]
      BY <1>0, <1>7, <2>1, <2>4 DEF Recalculated
    <3>2. r.store = g /\ r.id = -1
      BY <3>1, <1>3
    <3>3. Vacant(h) => Vacant(g)
      BY <2>2 DEF Vacant
    <3> QED
      BY <3>2, <3>3, <2>2, <2>3
  <2>5. CASE Supersets(g, id, c) # {}
    <3>1. PICK sum : sum = Summed(g, id, c)
      OBVIOUS
    <3>2. id \in DOMAIN g.sets
      BY <1>7, <2>2
    <3>3. \A x \in sum : /\ x \in Histogram /\ x.time \in StartAndEnd(g, id)
                         /\ \A s \in x.sources : <<c, s[2]>> \in Below
      BY <2>2, <3>1, <3>2, SummedFits
    <3>4. HasCategory(g, g.next, c)
      BY <2>2 DEF HasCategory
    <3>5. PICK f : f = Filled(g, c, sum)
      OBVIOUS
    <3>6. /\ GoodStore(f) /\ Grown(g, f) /\ (Bounded(g) => Bounded(f))
          /\ f.remap = g.remap /\ f.next = g.next
          /\ DOMAIN f.sets = DOMAIN g.sets \cup {g.next}
          /\ DOMAIN f.sets[g.next] = DOMAIN g.sets[g.next]
          /\ f.sets[g.next][c] = g.sets[g.next][c] \cup sum
      <4>1. \A x \in sum : x \in Histogram /\ \A s \in x.sources : <<c, s[2]>> \in Below
        BY <3>3
      <4>2. GoodStore(g)
        BY <2>2
      <4> QED
        BY ONLY <4>2, <3>4, <3>5, <4>1, FilledGood
    <3>7. Mapped(h) => Mapped(f)
      BY <2>2, <2>3, <3>6, MappedGrown
    <3>8. HasCategory(f, h.next, c)
      BY <2>2, <3>6 DEF HasCategory
    <3>9. PICK k : k = HandedOut(f, c, h.next)
      OBVIOUS
    <3>10. /\ GoodStore(k) /\ k.sets = f.sets /\ k.next = f.next + 1
           /\ Bounded(f) => Vacant(k) /\ Grown(f, k)
           /\ Bounded(f) /\ Mapped(f) /\ HasCategory(f, h.next, c) => Mapped(k)
      <4>1. f.next = h.next
        BY <2>2, <3>6
      <4> QED
        BY <3>6, <3>9, <4>1, HandedOutGood
    <3>11. r = [store |-> k, id |-> h.next]
      BY <1>0, <1>7, <2>1, <2>5, <3>1, <3>5, <3>9 DEF Recalculated
    <3>12. r.store = k /\ r.id = h.next
      BY <3>11
    <3>13. Vacant(h) => Vacant(k) /\ Grown(h, k)
      <4>1. Vacant(h) => Bounded(f)
        BY <2>2, <3>6 DEF Vacant
      <4>2. Bounded(f) => Grown(h, k)
        BY <1>3, <2>2, <3>6, <3>10 DEF Grown
      <4> QED
        BY <4>1, <4>2, <3>10
    <3>14. id # h.next => StartAndEnd(g, id) = StartAndEnd(h, id)
      <4>1. id # h.next => g.sets[id] = h.sets[id]
        BY <1>7, <2>2
      <4>2. id \in DOMAIN h.sets /\ id \in DOMAIN g.sets
        BY <1>7, <2>2
      <4> QED
        BY <4>1, <4>2 DEF StartAndEnd
    <3>15. \A x \in k.sets[h.next][c] : x \in sum
      BY <2>2, <3>6, <3>10
    <3>16. Found(h, id, c, k, h.next)
      BY <1>7, <2>2, <3>3, <3>6, <3>10, <3>14, <3>15 DEF Found
    <3>17. Vacant(h) /\ Mapped(h) => Mapped(k)
      <4>1. Vacant(h) => Bounded(f)
        BY <2>2, <3>6 DEF Vacant
      <4> QED
        BY <3>7, <3>8, <3>10, <4>1
    <3> QED
      BY <1>3, <3>10, <3>12, <3>13, <3>16, <3>17
  <2> QED
    BY <2>4, <2>5
<1> QED
  BY <1>4, <1>5, <1>6, <1>7

(* The two computations of a test, one after the other: the set to learn   *)
(* from is that of the first.                                              *)
LEMMA TwiceGood ==
    ASSUME NEW h, GoodStore(h), NEW train, NEW c \in Categories,
           NEW test, NEW d \in Categories,
           NEW r1, r1 = Recalculated(h, train, c),
           NEW r2, r2 = IF r1.id < 0 THEN r1 ELSE Recalculated(r1.store, test, d)
    PROVE  /\ GoodStore(r2.store)
           /\ HasCategory(r2.store, r1.id, c) => r1.id \in Nat
           /\ Vacant(h) => /\ Vacant(r2.store) /\ Grown(h, r2.store)
                           /\ Mapped(h) => Mapped(r2.store)
           /\ Vacant(h) /\ r2.id >= 0 /\ HasCategory(r2.store, r1.id, c) =>
                 /\ r1.id <= r2.store.next
                 /\ \A x \in r2.store.sets[r1.id][c] :
                       /\ \A s \in x.sources : <<c, s[2]>> \in Below
                       /\ Mapped(h) /\ StartAndEnd(h, train) # {} =>
                             x.time \in StartAndEnd(h, train)
<1>1. PICK g1 : g1 = r1.store
  OBVIOUS
<1>2. PICK m : m = r1.id
  OBVIOUS
<1>3. /\ GoodStore(g1) /\ m \in Int
      /\ Vacant(h) => /\ Vacant(g1) /\ Grown(h, g1)
                      /\ Mapped(h) => Mapped(g1)
      /\ m >= 0 => Found(h, train, c, g1, m)
  BY <1>1, <1>2, RecalculatedGood
<1>4. PICK g : g = r2.store
  OBVIOUS
<1>5. CASE m < 0
  <2>1. r2 = r1 /\ g = g1 /\ r2.id < 0
    BY <1>1, <1>2, <1>4, <1>5
  <2>2. \A id \in DOMAIN g.sets : id \in Nat
    BY <1>3, <2>1 DEF GoodStore
  <2> QED
    BY <1>1, <1>2, <1>3, <1>4, <1>5, <2>1, <2>2 DEF HasCategory
<1>6. CASE ~(m < 0)
  <2>1. r2 = Recalculated(g1, test, d)
    BY <1>1, <1>2, <1>6
  <2>a. /\ GoodStore(g)
        /\ Vacant(g1) => /\ Vacant(g) /\ Grown(g1, g)
                         /\ Mapped(g1) => Mapped(g)
    BY <1>3, <1>4, <2>1, RecalculatedGood
  <2>b. HasCategory(g, m, c) => m \in Nat
    BY <2>a DEF HasCategory, GoodStore
  <2>c. CASE ~Vacant(h)
    BY <1>2, <1>4, <2>a, <2>b, <2>c
  <2>d. CASE Vacant(h)
    <3>2. /\ GoodStore(g) /\ Vacant(g) /\ Grown(g1, g)
          /\ Mapped(g1) => Mapped(g)
          /\ Grown(h, g1) /\ (Mapped(h) => Mapped(g1))
      BY <1>3, <2>a, <2>d
    <3>3. h.next \in Nat /\ g1.next \in Nat /\ g.next \in Nat
      BY <1>3, <3>2 DEF GoodStore
    <3>4. Grown(h, g)
      <4>1. h.next <= g1.next /\ g1.next <= g.next
        BY <3>2 DEF Grown
      <4>2. ASSUME NEW id \in DOMAIN g.sets, id < h.next
            PROVE  id \in DOMAIN h.sets /\ g.sets[id] = h.sets[id]
        <5>1. id \in Nat
          BY <3>2 DEF GoodStore
        <5>2. id < g1.next
          BY <4>1, <4>2, <5>1, <3>3
        <5>3. id \in DOMAIN g1.sets /\ g.sets[id] = g1.sets[id]
          BY <3>2, <5>2 DEF Grown
        <5> QED
          BY <3>2, <4>2, <5>3 DEF Grown
      <4> QED
        BY <4>1, <4>2, <3>3 DEF Grown
    <3>5. ASSUME HasCategory(g, m, c)
          PROVE  /\ m \in Nat /\ m <= g.next
                 /\ \A x \in g.sets[m][c] :
                       /\ \A s \in x.sources : <<c, s[2]>> \in Below
                       /\ Mapped(h) /\ StartAndEnd(h, train) # {} =>
                             x.time \in StartAndEnd(h, train)
      <4>1. /\ m \in DOMAIN g.sets /\ c \in DOMAIN g.sets[m]
            /\ m \in Nat /\ m <= g.next
        BY <3>2, <3>5 DEF HasCategory, GoodStore, Vacant, Bounded
      <4>2. \A x \in g.sets[m][c] : \A s \in x.sources : <<c, s[2]>> \in Below
        BY <3>2, <4>1 DEF GoodStore, GoodSet
      <4>3. ASSUME Mapped(h), StartAndEnd(h, train) # {}, NEW x \in g.sets[m][c]
            PROVE  x.time \in StartAndEnd(h, train)
        <5>1. train \in DOMAIN h.sets
          BY <4>3 DEF StartAndEnd
        <5>2. \E e \in DOMAIN h.sets[train] : h.sets[train][e] # {}
          BY <4>3, <5>1 DEF StartAndEnd
        <5>3. train \in Nat /\ train < h.next
          <6>1. train # h.next
            BY <2>d, <5>1, <5>2 DEF Vacant
          <6> QED
            BY <2>d, <5>1, <6>1, <3>3 DEF GoodStore, Vacant, Bounded
        <5>4. Found(h, train, c, g1, m)
          BY <1>3, <1>6
        <5>5. CASE m = train
          <6>1. g.sets[m] = h.sets[m]
            BY <3>4, <4>1, <5>3, <5>5 DEF Grown
          <6> QED
            BY <4>1, <4>3, <5>1, <5>5, <6>1 DEF StartAndEnd
        <5>6. CASE IsRemapped(h, train, c) /\ m = h.remap[<<c, StartAndEnd(h, train)>>]
          <6>1. PICK k : k = <<c, StartAndEnd(h, train)>>
            OBVIOUS
          <6>2. k \in DOMAIN h.remap /\ m = h.remap[k] /\ k[2] = StartAndEnd(h, train)
            BY <5>6, <6>1 DEF IsRemapped
          <6>3. m < h.next
            BY <4>3, <6>2 DEF Mapped
          <6>4. m \in DOMAIN h.sets /\ g.sets[m] = h.sets[m]
            BY <3>4, <4>1, <6>3 DEF Grown
          <6>5. StartAndEnd(h, m) = StartAndEnd(h, train)
            BY <4>3, <6>2, <6>4 DEF Mapped
          <6>6. x.time \in StartAndEnd(h, m)
            BY <4>1, <4>3, <6>4 DEF StartAndEnd
          <6> QED
            BY <6>5, <6>6
        <5>7. CASE /\ m = h.next
                   /\ g1.next = h.next + 1
                   /\ train # h.next => \A y \in g1.sets[h.next][c] :
                                           y.time \in StartAndEnd(h, train)
          <6>1. m < g1.next
            BY <3>3, <5>7
          <6>2. g.sets[m] = g1.sets[m]
            BY <3>2, <4>1, <6>1 DEF Grown
          <6> QED
            BY <3>3, <4>3, <5>3, <5>7, <6>2
        <5> QED
          BY <5>4, <5>5, <5>6, <5>7 DEF Found
      <4> QED
        BY <4>1, <4>2, <4>3
    <3>6. Mapped(h) => Mapped(g)
      BY <3>2
    <3> QED
      BY <1>2, <1>4, <3>2, <3>4, <3>5, <3>6
  <2> QED
    BY <2>c, <2>d
<1> QED
  BY <1>3, <1>5, <1>6

(* A model is one there was, or is learned from the set it is kept for.    *)
Learning(k) ==
    \/ k \in DOMAIN svmModels /\ svmModels'[k] = svmModels[k]
    \/ /\ k \in Algorithms \X Nat \X Categories
       /\ k[2] < histogramData'.next
       /\ svmModels'[k] = histogramData'.sets[k[2]][k[3]]

(* What a test leaves, its models and an answer: the set it learned from,  *)
(* with the model kept for it, and histograms that fit, if the set asked   *)
(* for has any.                                                            *)
TestLeaves(h, train, c, t) ==
    /\ GoodStore(histogramData')
    /\ DOMAIN svmModels' \subseteq DOMAIN svmModels \cup (Algorithms \X Nat \X Categories)
    /\ lock' = lock \/ lock' = [lock EXCEPT !.writer = t]
    /\ Vacant(h) =>
          /\ Vacant(histogramData') /\ Grown(h, histogramData')
          /\ Mapped(h) => Mapped(histogramData')
          /\ \A k \in DOMAIN svmModels' : Learning(k)
          /\ \/ answer' = answer
             \/ /\ answer'.window = StartAndEnd(h, train)
                /\ \E k \in DOMAIN svmModels' :
                      /\ HasCategory(histogramData', k[2], k[3])
                      /\ answer'.train = histogramData'.sets[k[2]][k[3]]
                      /\ answer'.learned = svmModels'[k]
                /\ \A x \in answer'.train :
                      /\ \A s \in x.sources : <<answer'.category, s[2]>> \in Below
                      /\ Mapped(h) /\ answer'.window # {} => x.time \in answer'.window

LEMMA TestGood ==
    ASSUME NEW t, NEW a \in Algorithms, NEW h, GoodStore(h),
           NEW train, NEW c \in Categories, NEW test, NEW d \in Categories,
           GetDataSVM(t, a, h, train, c, test, d)
    PROVE  TestLeaves(h, train, c, t)
<1> DEFINE tested(r1, r2) ==
        LET found == r2.id >= 0 /\ HasCategory(r2.store, r1.id, c) /\ HasCategory(r2.store, r2.id, d)
            key == <<a, r1.id, c>>
        IN  \E changed \in {found, FALSE} :
            LET kept   == IF found THEN Kept(a, r1.id, r2.id, changed) ELSE svmModels
                list   == r2.store.sets[r1.id][c]
                learns == found /\ (key \in DOMAIN kept \/ list # {})
                fails  == \/ r2.id = Thrown
                          \/ found /\ ~learns
                          \/ a = "SVMRandom" /\ ~(found /\ r2.store.sets[r2.id][d] # {})
            IN  /\ histogramData' = r2.store
                /\ svmModels' = IF learns THEN Learned(kept, key, list) ELSE kept
                /\ answer' = IF learns
                             THEN [window |-> StartAndEnd(h, train), category |-> c,
                                   train |-> list, learned |-> svmModels'[key]]
                             ELSE answer
                /\ lock' = IF fails THEN [lock EXCEPT !.writer = t] ELSE lock
<1>0. \E r1 \in {Recalculated(h, train, c)} :
         \E r2 \in {IF r1.id < 0 THEN r1 ELSE Recalculated(r1.store, test, d)} : tested(r1, r2)
  BY Zenon DEF GetDataSVM
<1> HIDE DEF tested
<1>1. PICK r1 : r1 = Recalculated(h, train, c)
  OBVIOUS
<1>2. PICK r2 : r2 = IF r1.id < 0 THEN r1 ELSE Recalculated(r1.store, test, d)
  OBVIOUS
<1> DEFINE found == r2.id >= 0 /\ HasCategory(r2.store, r1.id, c) /\ HasCategory(r2.store, r2.id, d)
           key == <<a, r1.id, c>>
           kept(changed) == IF found THEN Kept(a, r1.id, r2.id, changed) ELSE svmModels
           list == r2.store.sets[r1.id][c]
           learns(changed) == found /\ (key \in DOMAIN kept(changed) \/ list # {})
           fails(changed) == \/ r2.id = Thrown
                             \/ found /\ ~learns(changed)
                             \/ a = "SVMRandom" /\ ~(found /\ r2.store.sets[r2.id][d] # {})
           models(changed) == IF learns(changed) THEN Learned(kept(changed), key, list) ELSE kept(changed)
<1>12. tested(r1, r2)
  BY <1>0, <1>1, <1>2, Zenon
<1>13. PICK changed :
          /\ histogramData' = r2.store
          /\ svmModels' = models(changed)
          /\ answer' = IF learns(changed)
                       THEN [window |-> StartAndEnd(h, train), category |-> c,
                             train |-> list, learned |-> svmModels'[key]]
                       ELSE answer
          /\ lock' = IF fails(changed) THEN [lock EXCEPT !.writer = t] ELSE lock
  BY <1>12, Zenon DEF tested
<1>3. /\ histogramData' = r2.store
      /\ svmModels' = models(changed)
      /\ answer' = IF learns(changed)
                   THEN [window |-> StartAndEnd(h, train), category |-> c,
                         train |-> list, learned |-> svmModels'[key]]
                   ELSE answer
      /\ lock' = lock \/ lock' = [lock EXCEPT !.writer = t]
  <2> HIDE DEF models, learns, fails, list, key
  <2> QED
    BY <1>13, Zenon
<1>4. PICK g : g = r2.store
  OBVIOUS
<1>5. /\ GoodStore(g) /\ (HasCategory(g, r1.id, c) => r1.id \in Nat)
      /\ Vacant(h) => /\ Vacant(g) /\ Grown(h, g)
                      /\ Mapped(h) => Mapped(g)
      /\ Vacant(h) /\ found =>
            /\ r1.id <= g.next
            /\ \A x \in list :
                  /\ \A s \in x.sources : <<c, s[2]>> \in Below
                  /\ Mapped(h) /\ StartAndEnd(h, train) # {} => x.time \in StartAndEnd(h, train)
  BY <1>1, <1>2, <1>4, TwiceGood
<1>6. found => HasCategory(g, r1.id, c)
  BY <1>4
<1>7. \A k \in DOMAIN kept(changed) : k \in DOMAIN svmModels /\ kept(changed)[k] = svmModels[k]
  BY DEF Kept, Without
<1>8. PICK m, ls, old : m = r1.id /\ ls = list /\ old = kept(changed)
  OBVIOUS
<1>9. ls = g.sets[m][c] /\ key = <<a, m, c>>
  BY <1>4, <1>8
<1>10. \/ svmModels' = old
       \/ found /\ key \notin DOMAIN old /\ ls # {} /\ svmModels' = Put(old, key, ls)
  BY <1>3, <1>8 DEF Learned
<1>11. DOMAIN svmModels' \subseteq DOMAIN svmModels \cup (Algorithms \X Nat \X Categories)
  <2>1. CASE svmModels' = old
    BY <1>7, <1>8, <2>1
  <2>2. CASE found /\ svmModels' = Put(old, key, ls)
    <3>1. m \in Nat
      BY <1>5, <1>6, <1>8, <2>2
    <3>2. key \in Algorithms \X Nat \X Categories
      BY <1>9, <3>1
    <3>3. DOMAIN svmModels' = DOMAIN old \cup {key}
      BY <2>2 DEF Put
    <3> QED
      BY <1>7, <1>8, <3>2, <3>3
  <2> QED
    BY <1>10, <2>1, <2>2
<1>14. ASSUME Vacant(h), NEW k \in DOMAIN svmModels'
        PROVE  Learning(k)
  <2>1. CASE svmModels' = old
    BY <1>7, <1>8, <1>14, <2>1 DEF Learning
  <2>2. CASE found /\ key \notin DOMAIN old /\ ls # {} /\ svmModels' = Put(old, key, ls)
    <3>1. CASE k = key
      <4>1. svmModels'[k] = ls
        BY <2>2, <3>1 DEF Put
      <4>2. m \in Nat /\ m <= g.next /\ g.next \in Nat
        BY <1>5, <1>6, <1>8, <1>14, <2>2 DEF GoodStore
      <4>3. m # g.next
        BY <1>5, <1>6, <1>8, <1>9, <1>14, <2>2 DEF Vacant, HasCategory
      <4>4. k = <<a, m, c>> /\ k[2] = m /\ k[3] = c
        BY <3>1, <1>9
      <4>5. histogramData' = g
        BY <1>3, <1>4
      <4> HIDE DEF key, found
      <4> QED
        BY <4>1, <4>2, <4>3, <4>4, <4>5, <1>9 DEF Learning
    <3>2. CASE k # key
      <4>1. k \in DOMAIN old /\ svmModels'[k] = old[k]
        BY <1>14, <2>2, <3>2 DEF Put
      <4> QED
        BY <1>7, <1>8, <4>1 DEF Learning
    <3> QED
      BY <3>1, <3>2
  <2> QED
    BY <1>10, <2>1, <2>2
<1>15. ASSUME Vacant(h)
        PROVE  \/ answer' = answer
               \/ /\ answer'.window = StartAndEnd(h, train)
                  /\ \E k \in DOMAIN svmModels' :
                        /\ HasCategory(histogramData', k[2], k[3])
                        /\ answer'.train = histogramData'.sets[k[2]][k[3]]
                        /\ answer'.learned = svmModels'[k]
                  /\ \A x \in answer'.train :
                        /\ \A s \in x.sources : <<answer'.category, s[2]>> \in Below
                        /\ Mapped(h) /\ answer'.window # {} => x.time \in answer'.window
  <2>1. CASE ~learns(changed)
    BY <1>3, <2>1
  <2>2. CASE learns(changed)
    <3>1. PICK w, l : w = StartAndEnd(h, train) /\ l = svmModels'[key]
      OBVIOUS
    <3>2. answer' = [window |-> w, category |-> c, train |-> ls, learned |-> l]
      BY <1>3, <1>8, <2>2, <3>1
    <3>3. /\ answer'.window = w /\ answer'.category = c /\ answer'.train = ls
          /\ answer'.learned = l
      BY <3>2
    <3>4. \A x \in ls : /\ \A s \in x.sources : <<c, s[2]>> \in Below
                        /\ Mapped(h) /\ w # {} => x.time \in w
      BY <1>5, <1>8, <1>15, <2>2, <3>1
    <3>5. key \in DOMAIN svmModels'
      <4>1. svmModels' = Learned(kept(changed), key, list)
        BY <1>3, <2>2
      <4> QED
        BY <4>1 DEF Learned, Put
    <3>6. histogramData' = g /\ HasCategory(g, m, c)
      BY <1>3, <1>4, <1>6, <1>8, <2>2
    <3>7. key[2] = m /\ key[3] = c
      BY <1>9
    <3> HIDE DEF key
    <3>8. \E k \in DOMAIN svmModels' :
              /\ HasCategory(histogramData', k[2], k[3])
              /\ answer'.train = histogramData'.sets[k[2]][k[3]]
              /\ answer'.learned = svmModels'[k]
      BY <1>9, <3>1, <3>3, <3>5, <3>6, <3>7
    <3> QED
      BY <3>1, <3>3, <3>4, <3>8
  <2> QED
    BY <2>1, <2>2
<1> HIDE DEF found, key, kept, list, learns, models
<1> QED
  BY <1>3, <1>4, <1>5, <1>11, <1>14, <1>15 DEF TestLeaves

-----------------------------------------------------------------------------
(* Threads and the lock.                                                   *)

ThreadRec == [pc : Steps, id : Int, category : Categories, newID : Int, seen : Int,
              puts : Seq(Batches), tests : Seq(Algorithms)]

(* What a step uses is there.                                              *)
Ready(r) ==
    /\ r.pc \in {"read", "write", "remap", "put"} => r.newID \in Nat
    /\ r.pc \in {"write", "rewrite"} => r.seen \in Nat
    /\ r.pc = "put" => r.puts # <<>>
    /\ r.pc = "test" => r.tests # <<>>

(* A thread that kept the write lock is the only one that can read.        *)
BaseInv ==
    /\ thread \in [Threads -> ThreadRec]
    /\ lock \in [writer : Threads \cup {NoThread}, readers : SUBSET Threads]
    /\ requests \in 0 .. MaxRequests
    /\ lock.writer # NoThread => \A u \in Threads : Reading(u) => u = lock.writer
    /\ \A t \in Threads : Ready(thread[t])

(* The other threads stay where they are, but for lists that are disturbed.*)
OthersStay(t) ==
    \A u \in Threads \ {t} :
        \/ thread'[u] = thread[u]
        \/ thread[u].pc = "list" /\ thread'[u].pc = "disturbed"

(* A thread goes on, with these of its locals.                             *)
Moved(t, pc, newID, seen) ==
    /\ thread' \in [Threads -> ThreadRec] /\ OthersStay(t)
    /\ thread'[t].pc = pc /\ thread'[t].newID = newID /\ thread'[t].seen = seen
    /\ thread'[t].id = thread[t].id /\ thread'[t].category = thread[t].category

LEMMA IdleRecord == Idle \in ThreadRec /\ Idle.pc = "idle"
<1>1. PICK c : c = CHOOSE d \in Categories : TRUE
  OBVIOUS
<1>2. c \in Categories
  BY <1>1, DaemonAssumption
<1>3. Idle = [pc |-> "idle", id |-> -1, category |-> c, newID |-> -1, seen |-> -1,
              puts |-> <<>>, tests |-> <<>>]
  BY <1>1 DEF Idle
<1>4. -1 \in Int /\ "idle" \in Steps
  BY DEF Steps
<1>5. <<>> \in Seq(Batches) /\ <<>> \in Seq(Algorithms)
  OBVIOUS
<1> QED
  BY <1>2, <1>3, <1>4, <1>5 DEF ThreadRec

(* One local changes and the others stay.                                  *)
LEMMA SetPC ==
    ASSUME NEW r \in ThreadRec, NEW pc \in Steps
    PROVE  LET q == [r EXCEPT !.pc = pc]
           IN  /\ q \in ThreadRec /\ q.pc = pc /\ q.id = r.id /\ q.category = r.category
               /\ q.newID = r.newID /\ q.seen = r.seen /\ q.tests = r.tests /\ q.puts = r.puts
BY DEF ThreadRec

LEMMA SetNewID ==
    ASSUME NEW r \in ThreadRec, NEW n \in Int
    PROVE  LET q == [r EXCEPT !.newID = n]
           IN  /\ q \in ThreadRec /\ q.newID = n /\ q.pc = r.pc /\ q.id = r.id
               /\ q.category = r.category /\ q.seen = r.seen /\ q.tests = r.tests /\ q.puts = r.puts
BY DEF ThreadRec

LEMMA SetSeen ==
    ASSUME NEW r \in ThreadRec, NEW n \in Int
    PROVE  LET q == [r EXCEPT !.seen = n]
           IN  /\ q \in ThreadRec /\ q.seen = n /\ q.pc = r.pc /\ q.id = r.id
               /\ q.category = r.category /\ q.newID = r.newID /\ q.tests = r.tests /\ q.puts = r.puts
BY DEF ThreadRec

LEMMA SetID ==
    ASSUME NEW r \in ThreadRec, NEW id \in Int
    PROVE  LET q == [r EXCEPT !.id = id]
           IN  q \in ThreadRec /\ q.id = id /\ q.pc = r.pc
BY DEF ThreadRec

LEMMA SetCategory ==
    ASSUME NEW r \in ThreadRec, NEW c \in Categories
    PROVE  LET q == [r EXCEPT !.category = c]
           IN  q \in ThreadRec /\ q.id = r.id /\ q.pc = r.pc
BY DEF ThreadRec

LEMMA SetPuts ==
    ASSUME NEW r \in ThreadRec, NEW s \in Seq(Batches)
    PROVE  LET q == [r EXCEPT !.puts = s]
           IN  /\ q \in ThreadRec /\ q.puts = s /\ q.pc = r.pc /\ q.id = r.id
               /\ q.category = r.category /\ q.newID = r.newID /\ q.seen = r.seen /\ q.tests = r.tests
BY DEF ThreadRec

LEMMA SetTests ==
    ASSUME NEW r \in ThreadRec, NEW s \in Seq(Algorithms)
    PROVE  LET q == [r EXCEPT !.tests = s]
           IN  /\ q \in ThreadRec /\ q.tests = s /\ q.pc = r.pc /\ q.id = r.id
               /\ q.category = r.category /\ q.newID = r.newID /\ q.seen = r.seen /\ q.puts = r.puts
BY DEF ThreadRec

LEMMA ThreadMoves ==
    ASSUME thread \in [Threads -> ThreadRec], NEW t \in Threads, NEW r \in ThreadRec,
           thread' = [thread EXCEPT ![t] = r]
    PROVE  thread' \in [Threads -> ThreadRec] /\ thread'[t] = r /\ OthersStay(t)
BY DEF OthersStay

LEMMA GoesOnTo ==
    ASSUME thread \in [Threads -> ThreadRec], NEW t \in Threads, NEW pc \in Steps,
           thread' = Goes(t, pc)
    PROVE  Moved(t, pc, thread[t].newID, thread[t].seen)
<1>1. PICK old, r : old = thread[t] /\ r = [old EXCEPT !.pc = pc]
  OBVIOUS
<1>2. /\ r \in ThreadRec /\ r.pc = pc /\ r.id = old.id /\ r.category = old.category
      /\ r.newID = old.newID /\ r.seen = old.seen
  BY <1>1, SetPC
<1>3. thread' = [thread EXCEPT ![t] = r]
  BY <1>1 DEF Goes
<1> QED
  BY <1>1, <1>2, <1>3, ThreadMoves DEF Moved

LEMMA EndsIdle ==
    ASSUME thread \in [Threads -> ThreadRec], NEW t \in Threads, thread' = Ends(t)
    PROVE  thread' \in [Threads -> ThreadRec] /\ OthersStay(t) /\ thread'[t].pc = "idle"
BY IdleRecord, ThreadMoves DEF Ends

LEMMA MovesWithID ==
    ASSUME thread \in [Threads -> ThreadRec], NEW t \in Threads, NEW pc \in Steps, NEW n \in Int,
           thread' = [thread EXCEPT ![t].pc = pc, ![t].newID = n]
    PROVE  /\ Moved(t, pc, n, thread[t].seen)
           /\ thread'[t].tests = thread[t].tests /\ thread'[t].puts = thread[t].puts
<1>1. PICK old, q : old = thread[t] /\ q = [old EXCEPT !.pc = pc]
  OBVIOUS
<1>2. PICK r : r = [q EXCEPT !.newID = n]
  OBVIOUS
<1>3. old \in ThreadRec
  BY <1>1
<1>4. /\ q \in ThreadRec /\ q.pc = pc /\ q.id = old.id /\ q.category = old.category
      /\ q.seen = old.seen /\ q.tests = old.tests /\ q.puts = old.puts
  BY <1>1, <1>3, SetPC
<1>5. /\ r \in ThreadRec /\ r.pc = q.pc /\ r.id = q.id /\ r.category = q.category
      /\ r.newID = n /\ r.seen = q.seen /\ r.tests = q.tests /\ r.puts = q.puts
  BY <1>2, <1>4, SetNewID
<1>6. thread' = [thread EXCEPT ![t] = r]
  BY <1>1, <1>2
<1> QED
  BY <1>1, <1>4, <1>5, <1>6, ThreadMoves DEF Moved

LEMMA MovesWithSeen ==
    ASSUME thread \in [Threads -> ThreadRec], NEW t \in Threads, NEW pc \in Steps, NEW n \in Int,
           thread' = [thread EXCEPT ![t].pc = pc, ![t].seen = n]
    PROVE  Moved(t, pc, thread[t].newID, n)
<1>1. PICK old, q : old = thread[t] /\ q = [old EXCEPT !.pc = pc]
  OBVIOUS
<1>2. PICK r : r = [q EXCEPT !.seen = n]
  OBVIOUS
<1>3. old \in ThreadRec
  BY <1>1
<1>4. /\ q \in ThreadRec /\ q.pc = pc /\ q.id = old.id /\ q.category = old.category
      /\ q.newID = old.newID
  BY <1>1, <1>3, SetPC
<1>5. /\ r \in ThreadRec /\ r.pc = q.pc /\ r.id = q.id /\ r.category = q.category
      /\ r.seen = n /\ r.newID = q.newID
  BY <1>2, <1>4, SetSeen
<1>6. thread' = [thread EXCEPT ![t] = r]
  BY <1>1, <1>2
<1> QED
  BY <1>1, <1>4, <1>5, <1>6, ThreadMoves DEF Moved

(* A step that disturbs lists.                                             *)
LEMMA DisturbsMoves ==
    ASSUME thread \in [Threads -> ThreadRec], NEW t \in Threads, NEW r \in ThreadRec,
           Disturbs(t, r)
    PROVE  thread' \in [Threads -> ThreadRec] /\ OthersStay(t) /\ thread'[t] = r
<1>1. \A u \in Threads :
          thread'[u] = IF u = t THEN r
                       ELSE IF thread[u].pc = "list" THEN [thread[u] EXCEPT !.pc = "disturbed"]
                       ELSE thread[u]
  BY DEF Disturbs
<1>2. "disturbed" \in Steps
  BY DEF Steps
<1>3. ASSUME NEW u \in Threads \ {t}
      PROVE  /\ thread'[u] \in ThreadRec
             /\ \/ thread'[u] = thread[u]
                \/ thread[u].pc = "list" /\ thread'[u].pc = "disturbed"
  <2>1. PICK q : q = thread[u]
    OBVIOUS
  <2>2. q \in ThreadRec
    BY <2>1
  <2>3. CASE q.pc = "list"
    <3>1. PICK p : p = [q EXCEPT !.pc = "disturbed"]
      OBVIOUS
    <3>2. p \in ThreadRec /\ p.pc = "disturbed"
      BY <1>2, <2>2, <3>1, SetPC
    <3> QED
      BY <1>1, <2>1, <2>3, <3>1, <3>2
  <2>4. CASE q.pc # "list"
    BY <1>1, <2>1, <2>2, <2>4
  <2> QED
    BY <2>3, <2>4
<1>4. thread' = [u \in Threads |-> thread'[u]]
  BY DEF Disturbs
<1>5. thread'[t] = r
  BY <1>1
<1>6. thread' \in [Threads -> ThreadRec]
  BY <1>3, <1>4, <1>5
<1> QED
  BY <1>3, <1>5, <1>6 DEF OthersStay

(* The request for histograms begins: its thread is answered, has found a  *)
(* set or goes on to compute one.                                          *)
LEMMA GetMoves ==
    ASSUME thread \in [Threads -> ThreadRec], GoodStore(histogramData), NEW t \in Threads,
           GetHistograms(t)
    PROVE  /\ thread' \in [Threads -> ThreadRec] /\ OthersStay(t)
           /\ thread'[t].pc \in {"idle", "answer", "create"}
           /\ thread'[t].pc = "create" => thread'[t].id \in DOMAIN histogramData.sets
           /\ lock' = lock \/ ReadLockKept(t)
<1> DEFINE h == histogramData
           at(pc, id, c, n) == [Idle EXCEPT !.pc = pc, !.id = id, !.category = c, !.newID = n]
<1>1. PICK id \in Known, c \in Asked :
          \/ thread' = Ends(t) /\ ReadLockKept(t)
          \/ thread' = [thread EXCEPT ![t] = at("answer", id, c, id)] /\ lock' = lock
          \/ /\ id \in DOMAIN h.sets
             /\ thread' = [thread EXCEPT ![t] =
                     IF IsRemapped(h, id, c)
                     THEN at("answer", id, c, h.remap[<<c, StartAndEnd(h, id)>>])
                     ELSE at("create", id, c, NotFound)]
             /\ lock' = lock
  <2>1. PICK id \in Known, c \in Asked :
          CASE id \notin DOMAIN h.sets \ h.bare -> thread' = Ends(t) /\ ReadLockKept(t)
            [] HasCategory(h, id, c) ->
               thread' = [thread EXCEPT ![t] = at("answer", id, c, id)] /\ UNCHANGED lock
            [] OTHER ->
               /\ thread' = [thread EXCEPT ![t] =
                     IF IsRemapped(h, id, c)
                     THEN at("answer", id, c, h.remap[<<c, StartAndEnd(h, id)>>])
                     ELSE at("create", id, c, NotFound)]
               /\ UNCHANGED lock
    BY DEF GetHistograms
  <2> HIDE DEF at
  <2>2. CASE id \notin DOMAIN h.sets \ h.bare
    <3>1. ~HasCategory(h, id, c)
      BY <2>2 DEF HasCategory, GoodStore
    <3> QED
      BY <2>1, <2>2, <3>1
  <2>3. CASE id \in DOMAIN h.sets \ h.bare /\ HasCategory(h, id, c)
    BY <2>1, <2>3
  <2>4. CASE id \in DOMAIN h.sets \ h.bare /\ ~HasCategory(h, id, c)
    BY <2>1, <2>4
  <2> QED
    BY <2>2, <2>3, <2>4
<1>2. id \in Int /\ c \in Categories /\ NotFound \in Int
  BY DaemonAssumption DEF Known, NotFound, GoodStore
<1>3. {"idle", "answer", "create"} \subseteq Steps
  BY DEF Steps
<1>4. ASSUME NEW pc \in Steps, NEW n \in Int
      PROVE  LET r == at(pc, id, c, n) IN r \in ThreadRec /\ r.pc = pc /\ r.id = id
  <2>1. PICK q : q = [Idle EXCEPT !.pc = pc]
    OBVIOUS
  <2>2. q \in ThreadRec /\ q.pc = pc
    BY <2>1, IdleRecord, SetPC
  <2>a. PICK o : o = [q EXCEPT !.id = id]
    OBVIOUS
  <2>b. o \in ThreadRec /\ o.pc = pc /\ o.id = id
    BY <1>2, <2>2, <2>a, SetID
  <2>3. PICK p : p = [o EXCEPT !.category = c]
    OBVIOUS
  <2>4. p \in ThreadRec /\ p.pc = pc /\ p.id = id
    BY <1>2, <2>b, <2>3, SetCategory
  <2>5. PICK r : r = [p EXCEPT !.newID = n]
    OBVIOUS
  <2>6. r \in ThreadRec /\ r.pc = pc /\ r.id = id
    BY <2>4, <2>5, SetNewID
  <2>7. r = at(pc, id, c, n)
    BY <2>1, <2>a, <2>3, <2>5
  <2> QED
    BY <2>6, <2>7
<1> HIDE DEF at
<1>5. CASE thread' = Ends(t) /\ ReadLockKept(t)
  BY <1>5, EndsIdle
<1>6. CASE thread' = [thread EXCEPT ![t] = at("answer", id, c, id)] /\ lock' = lock
  <2>1. at("answer", id, c, id) \in ThreadRec /\ at("answer", id, c, id).pc = "answer"
    BY <1>2, <1>3, <1>4
  <2> QED
    BY <1>6, <2>1, ThreadMoves
<1>7. CASE /\ id \in DOMAIN h.sets
           /\ thread' = [thread EXCEPT ![t] =
                  IF IsRemapped(h, id, c)
                  THEN at("answer", id, c, h.remap[<<c, StartAndEnd(h, id)>>])
                  ELSE at("create", id, c, NotFound)]
           /\ lock' = lock
  <2>1. CASE IsRemapped(h, id, c)
    <3>1. PICK m : m = h.remap[<<c, StartAndEnd(h, id)>>]
      OBVIOUS
    <3>2. m \in Int
      BY <2>1, <3>1 DEF IsRemapped, GoodStore
    <3>3. at("answer", id, c, m) \in ThreadRec /\ at("answer", id, c, m).pc = "answer"
      BY <1>3, <1>4, <3>2
    <3> QED
      BY <1>7, <2>1, <3>1, <3>3, ThreadMoves
  <2>2. CASE ~IsRemapped(h, id, c)
    <3>1. /\ at("create", id, c, NotFound) \in ThreadRec
          /\ at("create", id, c, NotFound).pc = "create" /\ at("create", id, c, NotFound).id = id
      BY <1>2, <1>3, <1>4
    <3> QED
      BY <1>7, <2>2, <3>1, ThreadMoves
  <2> QED
    BY <2>1, <2>2
<1> QED
  BY <1>1, <1>5, <1>6, <1>7

(* A request without a lock begins.                                        *)
LEMMA FakeMoves ==
    ASSUME thread \in [Threads -> ThreadRec], NEW t \in Threads,
           GetFakeData2(t) \/ CustomTest(t)
    PROVE  thread' \in [Threads -> ThreadRec] /\ OthersStay(t) /\ thread'[t].pc = "next"
<1>0. "next" \in Steps /\ <<"SVMRandom", "SVM">> \in Seq(Algorithms) /\ FakeSets \in Seq(Batches)
  <2>1. FakeSets = <<FakeSets[1], FakeSets[2]>> /\ FakeSets[1] \in Batches /\ FakeSets[2] \in Batches
    BY DaemonAssumption
  <2>2. PICK b, c : b = FakeSets[1] /\ c = FakeSets[2]
    OBVIOUS
  <2>3. <<b, c>> \in Seq(Batches)
    BY <2>1, <2>2
  <2>4. "SVM" \in Algorithms /\ "SVMRandom" \in Algorithms
    BY DEF Algorithms
  <2>5. <<"SVMRandom", "SVM">> \in Seq(Algorithms)
    BY <2>4
  <2> QED
    BY <2>1, <2>2, <2>3, <2>5 DEF Steps
<1>1. PICK q, p : q = [Idle EXCEPT !.pc = "next"] /\ p = [q EXCEPT !.puts = FakeSets]
  OBVIOUS
<1>2. q \in ThreadRec /\ q.pc = "next"
  BY <1>0, <1>1, IdleRecord, SetPC
<1>3. p \in ThreadRec /\ p.pc = "next"
  BY <1>0, <1>1, <1>2, SetPuts
<1>4. CASE GetFakeData2(t)
  <2>1. thread' = [thread EXCEPT ![t] = p]
    BY <1>1, <1>4 DEF GetFakeData2
  <2> QED
    BY <1>3, <2>1, ThreadMoves
<1>5. CASE CustomTest(t)
  <2>1. PICK r : r = [p EXCEPT !.tests = <<"SVMRandom", "SVM">>]
    OBVIOUS
  <2>2. r \in ThreadRec /\ r.pc = "next"
    BY <1>0, <1>3, <2>1, SetTests
  <2>3. thread' = [thread EXCEPT ![t] = r]
    BY <1>1, <1>5, <2>1 DEF CustomTest
  <2> QED
    BY <2>2, <2>3, ThreadMoves
<1> QED
  BY <1>4, <1>5

(* A set is put, and its id is still to be taken.                          *)
LEMMA PutMoves ==
    ASSUME thread \in [Threads -> ThreadRec], NEW t \in Threads, PutSet(t),
           thread[t].puts # <<>>
    PROVE  /\ thread' \in [Threads -> ThreadRec] /\ OthersStay(t) /\ thread'[t].pc = "reread"
           /\ Head(thread[t].puts) \in Batches
<1>1. PICK old, q : old = thread[t] /\ q = [old EXCEPT !.pc = "reread"]
  OBVIOUS
<1>2. old \in ThreadRec /\ "reread" \in Steps /\ -1 \in Int
  BY <1>1 DEF Steps
<1>3. q \in ThreadRec /\ q.pc = "reread" /\ q.puts = old.puts
  BY <1>1, <1>2, SetPC
<1>4. PICK p : p = [q EXCEPT !.newID = -1]
  OBVIOUS
<1>5. p \in ThreadRec /\ p.pc = "reread" /\ p.puts = old.puts
  BY <1>2, <1>3, <1>4, SetNewID
<1>6. PICK s : s = old.puts
  OBVIOUS
<1>7. s \in Seq(Batches) /\ s # <<>>
  BY <1>1, <1>2, <1>6 DEF ThreadRec
<1>8. Tail(s) \in Seq(Batches) /\ Head(s) \in Batches
  BY <1>7
<1>9. PICK r : r = [p EXCEPT !.puts = Tail(s)]
  OBVIOUS
<1>10. r \in ThreadRec /\ r.pc = "reread"
  BY <1>5, <1>8, <1>9, SetPuts
<1>11. Disturbs(t, r)
  BY <1>1, <1>3, <1>4, <1>5, <1>6, <1>9 DEF PutSet
<1> QED
  BY <1>1, <1>6, <1>8, <1>10, <1>11, DisturbsMoves

(* While others stay where they are they read and compute as before.       *)
LEMMA OthersAlike ==
    ASSUME NEW t, OthersStay(t), NEW u \in Threads, u # t
    PROVE  /\ thread'[u].pc # "disturbed" => thread'[u] = thread[u]
           /\ Reading(u)' <=> Reading(u)
           /\ Adding(u)' <=> Adding(u)
BY DEF OthersStay, Reading, Adding, Computing, Putting

(* A request that writes runs without readers.                             *)
LEMMA WriterAlone ==
    ASSUME BaseInv, NEW t \in Threads, Writes(t)
    PROVE  \A u \in Threads : ~Reading(u)
<1>1. thread[t].pc = "idle" /\ CanWrite(t)
  BY DEF Writes, Starts
<1>2. CASE lock.writer = t
  <2>1. \A u \in Threads : Reading(u) => u = t
    BY <1>2, DaemonAssumption DEF BaseInv
  <2> QED
    BY <1>1, <2>1 DEF Reading, Computing
<1> QED
  BY <1>1, <1>2 DEF CanWrite

LEMMA WriterKeepsBase ==
    ASSUME BaseInv, NEW t \in Threads, Writes(t),
           lock' = lock \/ lock' = [lock EXCEPT !.writer = t]
    PROVE  BaseInv'
<1>1. thread' = thread /\ requests \in 0 .. MaxRequests /\ requests < MaxRequests /\ requests' = requests + 1
  BY DEF Writes, Starts, BaseInv
<1>2. requests' \in 0 .. MaxRequests
  BY <1>1, DaemonAssumption
<1>3. \A u \in Threads : ~Reading(u)'
  BY <1>1, WriterAlone DEF Reading, Computing
<1>4. lock' \in [writer : Threads \cup {NoThread}, readers : SUBSET Threads]
  BY DEF BaseInv
<1>5. \A u \in Threads : Ready(thread'[u])
  BY <1>1 DEF BaseInv
<1> QED
  BY <1>1, <1>2, <1>3, <1>4, <1>5 DEF BaseInv

LEMMA TestKeepsLock ==
    ASSUME NEW t, NEW a, NEW h, NEW train, NEW c, NEW test, NEW d,
           GetDataSVM(t, a, h, train, c, test, d)
    PROVE  lock' = lock \/ lock' = [lock EXCEPT !.writer = t]
BY SMTT(30) DEF GetDataSVM

(* The requests that write.                                                *)
WriterStep(t) ==
    Load(t) \/ DeleteOne(t) \/ DeleteAll(t) \/ TestSVM(t) \/ Demo(t) \/ TestFails(t)

LEMMA WriterFacts ==
    ASSUME BaseInv, NEW t \in Threads, WriterStep(t)
    PROVE  BaseInv' /\ Writes(t)
<1>1. Writes(t)
  BY DEF WriterStep, Load, DeleteOne, DeleteAll, TestSVM, Demo, TestFails
<1>2. lock' = lock \/ lock' = [lock EXCEPT !.writer = t]
  <2>1. CASE Load(t) \/ DeleteOne(t) \/ DeleteAll(t)
    BY <2>1 DEF Load, DeleteOne, DeleteAll
  <2>2. CASE TestSVM(t)
    BY <2>2, TestKeepsLock DEF TestSVM
  <2>3. CASE Demo(t)
    BY <2>3, TestKeepsLock DEF Demo
  <2>4. CASE TestFails(t)
    BY <2>4 DEF TestFails, WriteLockKept
  <2> QED
    BY <2>1, <2>2, <2>3, <2>4 DEF WriterStep
<1> QED
  BY <1>1, <1>2, WriterKeepsBase

-----------------------------------------------------------------------------
(* The store between the steps of a request.                               *)

(* A model is for an id that is taken, and right if its set is there.      *)
ModelsRight ==
    \A k \in DOMAIN svmModels :
        /\ k[2] < histogramData.next
        /\ HasCategory(histogramData, k[2], k[3]) =>
              svmModels[k] = histogramData.sets[k[2]][k[3]]

StoreInv ==
    /\ GoodStore(histogramData)
    /\ DOMAIN svmModels \subseteq Algorithms \X Nat \X Categories

(* The set a reader computes from is there until it has the sum.           *)
AskedInv ==
    \A t \in Threads :
        thread[t].pc \in {"create", "value", "category", "sum"} =>
            thread[t].id \in DOMAIN histogramData.sets

(* A thread that has put something at the next id.                         *)
Filling(t) == thread[t].pc \in {"take", "read", "write", "reread", "rewrite"}

(* Where a thread is at work: at the next id, or with a set that has got   *)
(* its id.                                                                 *)
InPlace(r, h) ==
    /\ r.pc \in {"sum", "take", "read", "write"} => HasCategory(h, h.next, r.category)
    /\ r.pc \in {"read", "write", "put"} => r.newID = h.next
    /\ r.pc \in {"write", "rewrite"} => r.seen = h.next
    /\ r.pc = "remap" => r.newID < h.next /\ HasCategory(h, r.newID, r.category)

(* Without a race one thread at a time adds a set, in its place; what is   *)
(* at the next id is its, or nothing.  Models and tests are for ids that   *)
(* are taken.                                                              *)
OrderInv ==
    ~raced =>
        /\ Bounded(histogramData) /\ Mapped(histogramData)
        /\ ~Vacant(histogramData) => \E t \in Threads : Filling(t)
        /\ \A t, u \in Threads : Adding(t) /\ Adding(u) => t = u
        /\ \A t \in Threads : InPlace(thread[t], histogramData)
        /\ ~cleared =>
              /\ ModelsRight
              /\ \A t \in Threads : thread[t].pc = "test" => thread[t].newID < histogramData.next

(* Of the categories and the time asked for.                               *)
AnswerInv ==
    ~raced /\ ~cleared => \A x \in answer.learned :
        /\ \A s \in x.sources : <<answer.category, s[2]>> \in Below
        /\ answer.window # {} => x.time \in answer.window

DaemonInv == BaseInv /\ StoreInv /\ AskedInv /\ OrderInv /\ AnswerInv

LEMMA QueriedGood ==
    ASSUME NEW h, GoodStore(h), NEW g \in Queried(h)
    PROVE  /\ GoodStore(g)
           /\ Vacant(h) => /\ Vacant(g) /\ Grown(h, g)
                           /\ Mapped(h) => Mapped(g)
<1>1. CASE g = h
  <2>1. Grown(h, h)
    BY DEF GoodStore, Grown
  <2> QED
    BY <1>1, <2>1
<1>2. CASE g # h
  <2>1. PICK b \in Batches : g = PutHistogramSet(h, BatchSet(b))
    BY <1>2 DEF Queried
  <2>2. /\ GoodStore(g) /\ g.remap = h.remap
        /\ Bounded(h) => Vacant(g) /\ Grown(h, g)
    BY <2>1, PutGood
  <2> QED
    BY <2>2, MappedGrown DEF Vacant
<1> QED
  BY <1>1, <1>2

(* Models stay right while sets that have their id do not change.          *)
LEMMA ModelsStayRight ==
    ASSUME GoodStore(histogramData), GoodStore(histogramData'),
           Grown(histogramData, histogramData'), ModelsRight,
           DOMAIN svmModels \subseteq Algorithms \X Nat \X Categories,
           \A k \in DOMAIN svmModels' : Learning(k)
    PROVE  ModelsRight'
<1> SUFFICES ASSUME NEW k \in DOMAIN svmModels'
             PROVE  /\ k[2] < histogramData'.next
                    /\ HasCategory(histogramData', k[2], k[3]) =>
                          svmModels'[k] = histogramData'.sets[k[2]][k[3]]
  BY DEF ModelsRight
<1>1. CASE k \in DOMAIN svmModels /\ svmModels'[k] = svmModels[k]
  <2>1. PICK id, c : id = k[2] /\ c = k[3]
    OBVIOUS
  <2>2. id \in Nat /\ id < histogramData.next
    BY <1>1, <2>1 DEF ModelsRight
  <2>3. histogramData.next \in Nat /\ histogramData'.next \in Nat /\ histogramData.next <= histogramData'.next
    BY DEF GoodStore, Grown
  <2>4. ASSUME HasCategory(histogramData', id, c)
        PROVE  svmModels'[k] = histogramData'.sets[id][c]
    <3>1. id \in DOMAIN histogramData.sets /\ histogramData'.sets[id] = histogramData.sets[id]
      BY <2>2, <2>4 DEF Grown, HasCategory
    <3>2. HasCategory(histogramData, id, c)
      BY <2>4, <3>1 DEF HasCategory
    <3> QED
      BY <1>1, <2>1, <3>1, <3>2 DEF ModelsRight
  <2> QED
    BY <2>1, <2>2, <2>3, <2>4
<1>2. CASE /\ k[2] < histogramData'.next
           /\ svmModels'[k] = histogramData'.sets[k[2]][k[3]]
  BY <1>2
<1> QED
  BY <1>1, <1>2 DEF Learning

LEMMA SameModels ==
    ASSUME svmModels' = svmModels
    PROVE  \A k \in DOMAIN svmModels' : Learning(k)
BY DEF Learning

(* A request that writes leaves the store in order: under ~raced' nobody   *)
(* else is adding, so nothing is at the next id.                           *)
LEMMA WriterKeeps ==
    ASSUME DaemonInv, NEW t \in Threads, WriterStep(t)
    PROVE  StoreInv' /\ AskedInv' /\ OrderInv' /\ AnswerInv'
<1> DEFINE h == histogramData
           new == \A k \in DOMAIN svmModels' : Learning(k)
<1>0. BaseInv /\ StoreInv /\ AskedInv /\ OrderInv /\ AnswerInv
  BY DEF DaemonInv
<1>1. Writes(t) /\ thread' = thread /\ raced' = (raced \/ \E u \in Threads : Adding(u))
  BY <1>0, WriterFacts DEF Writes
<1>2. \A u \in Threads : ~Reading(u)
  BY <1>0, <1>1, WriterAlone
<1>3. GoodStore(h) /\ DOMAIN svmModels \subseteq Algorithms \X Nat \X Categories
  BY <1>0 DEF StoreInv
<1>4. AskedInv'
  BY <1>1, <1>2 DEF AskedInv, Reading, Computing
<1>5. ASSUME ~raced'
      PROVE  /\ ~raced /\ Vacant(h) /\ Mapped(h)
             /\ \A u \in Threads : ~Adding(u) /\ ~Adding(u)' /\ ~Filling(u)
             /\ \A u \in Threads : \A g : InPlace(thread'[u], g)
  <2>1. ~raced /\ \A u \in Threads : ~Adding(u)
    BY <1>1, <1>5
  <2>2. \A u \in Threads : ~Filling(u)
    BY <2>1 DEF Filling, Adding, Computing, Putting
  <2>3. Vacant(h) /\ Mapped(h)
    BY <1>0, <2>1, <2>2 DEF OrderInv
  <2>4. \A u \in Threads : ~Adding(u)'
    BY <1>1, <2>1 DEF Adding, Computing, Putting
  <2>5. \A u \in Threads : \A g : InPlace(thread'[u], g)
    BY <1>1, <2>1 DEF InPlace, Adding, Computing, Putting
  <2> QED
    BY <2>1, <2>2, <2>3, <2>4, <2>5
<1>6. ASSUME GoodStore(histogramData'),
             DOMAIN svmModels' \subseteq DOMAIN svmModels \cup (Algorithms \X Nat \X Categories),
             ~raced' => Vacant(histogramData') /\ Mapped(histogramData'),
             cleared' \/ (cleared' = cleared /\ (~raced' => Grown(h, histogramData') /\ new))
      PROVE  StoreInv' /\ OrderInv' /\ (~raced' /\ ~cleared' => ModelsRight')
  <2>1. StoreInv'
    BY <1>3, <1>6 DEF StoreInv
  <2>2. ASSUME ~raced', ~cleared'
        PROVE  /\ ModelsRight'
               /\ \A u \in Threads : thread'[u].pc = "test" => thread'[u].newID < histogramData'.next
    <3>1. /\ ModelsRight
          /\ \A u \in Threads : thread[u].pc = "test" => thread[u].newID < h.next
      BY <1>0, <1>5, <1>6, <2>2 DEF OrderInv
    <3>2. ModelsRight'
      BY <1>3, <1>6, <2>2, <3>1, ModelsStayRight
    <3>3. /\ h.next \in Nat /\ histogramData'.next \in Nat /\ h.next <= histogramData'.next
          /\ \A u \in Threads : thread[u].newID \in Int
      BY <1>0, <1>3, <1>6, <2>2 DEF GoodStore, Grown, BaseInv, ThreadRec
    <3> QED
      BY <1>1, <3>1, <3>2, <3>3
  <2>3. Bounded(histogramData') \/ raced'
    BY <1>6 DEF Vacant
  <2>4. OrderInv'
    BY <1>5, <1>6, <2>2, <2>3 DEF OrderInv
  <2> QED
    BY <2>1, <2>2, <2>4
<1>7. ASSUME answer' = answer, cleared' \/ cleared' = cleared
      PROVE  AnswerInv'
  BY <1>0, <1>5, <1>7 DEF AnswerInv
<1>8. ASSUME NEW g, NEW train, NEW c, TestLeaves(g, train, c, t),
             ~raced' => Vacant(g) /\ Mapped(g), cleared' \/ (cleared' = cleared /\ g = h)
      PROVE  StoreInv' /\ OrderInv' /\ AnswerInv'
  <2>1. /\ GoodStore(histogramData')
        /\ DOMAIN svmModels' \subseteq DOMAIN svmModels \cup (Algorithms \X Nat \X Categories)
        /\ ~raced' => /\ Vacant(histogramData') /\ Mapped(histogramData') /\ new
                      /\ Grown(g, histogramData')
    BY <1>8 DEF TestLeaves
  <2>2. StoreInv' /\ OrderInv' /\ (~raced' /\ ~cleared' => ModelsRight')
    BY <1>6, <1>8, <2>1
  <2>3. CASE answer' = answer
    BY <1>7, <1>8, <2>2, <2>3
  <2>4. CASE answer' # answer /\ ~raced' /\ ~cleared'
    <3>1. PICK k \in DOMAIN svmModels' :
              /\ HasCategory(histogramData', k[2], k[3])
              /\ answer'.train = histogramData'.sets[k[2]][k[3]]
              /\ answer'.learned = svmModels'[k]
      BY <1>8, <2>4 DEF TestLeaves
    <3>2. answer'.learned = answer'.train
      BY <2>2, <2>4, <3>1 DEF ModelsRight
    <3>3. \A x \in answer'.train :
             /\ \A s \in x.sources : <<answer'.category, s[2]>> \in Below
             /\ answer'.window # {} => x.time \in answer'.window
      BY <1>8, <2>4 DEF TestLeaves
    <3>4. AnswerInv'
      BY <3>2, <3>3 DEF AnswerInv
    <3> QED
      BY <2>2, <3>4
  <2>5. CASE raced' \/ cleared'
    BY <2>2, <2>5 DEF AnswerInv
  <2> QED
    BY <2>3, <2>4, <2>5
<1> HIDE DEF h, new
<1>9. CASE Load(t)
  <2>1. histogramData' \in Queried(h) /\ svmModels' = svmModels /\ answer' = answer /\ cleared' = cleared
    BY <1>9 DEF Load, h
  <2>2. /\ GoodStore(histogramData')
        /\ ~raced' => Vacant(histogramData') /\ Mapped(histogramData') /\ Grown(h, histogramData')
    BY <1>3, <1>5, <2>1, QueriedGood
  <2> QED
    BY <1>4, <1>6, <1>7, <2>1, <2>2, SameModels DEF new
<1>10. CASE DeleteOne(t)
  <2>1. PICK id \in Known :
            /\ histogramData' = [histogramData EXCEPT !.sets = Without(@, {id}), !.bare = @ \ {id}]
            /\ svmModels' = Without(svmModels, {<<"SVM", id, c>> : c \in Categories})
    BY <1>10 DEF DeleteOne
  <2>2. answer' = answer /\ cleared' = cleared
    BY <1>10 DEF DeleteOne
  <2>3. PICK g : g = [h EXCEPT !.sets = Without(@, {id}), !.bare = @ \ {id}]
    OBVIOUS
  <2>4. GoodStore(g) /\ Grown(h, g) /\ g.remap = h.remap /\ (Vacant(h) => Vacant(g))
    BY <1>3, <2>3, DeletedGood
  <2>5. Mapped(h) => Mapped(g)
    BY <1>3, <2>4, MappedGrown
  <2>6. new /\ DOMAIN svmModels' \subseteq DOMAIN svmModels
    BY <2>1 DEF Without, new, Learning
  <2>7. histogramData' = g
    BY <2>1, <2>3 DEF h
  <2> QED
    BY <1>4, <1>5, <1>6, <1>7, <2>2, <2>4, <2>5, <2>6, <2>7
<1>11. CASE DeleteAll(t)
  <2>1. histogramData' = NewStore /\ cleared' = TRUE /\ svmModels' = svmModels /\ answer' = answer
    BY <1>11 DEF DeleteAll
  <2> QED
    BY <1>4, <1>6, <1>7, <2>1, NewGood
<1>12. CASE TestSVM(t)
  <2>1. PICK a \in Algorithms, train \in Known, test \in Known, c \in Asked, d \in Asked :
            GetDataSVM(t, a, h, train, c, test, d)
    BY <1>12 DEF TestSVM, h
  <2>2. c \in Categories /\ d \in Categories
    BY DaemonAssumption
  <2>3. TestLeaves(h, train, c, t)
    BY <1>3, <2>1, <2>2, TestGood
  <2>4. cleared' = cleared
    BY <1>12 DEF TestSVM
  <2> QED
    BY <1>4, <1>5, <1>8, <2>3, <2>4
<1>13. CASE Demo(t)
  <2>0. PICK h1 \in Queried(NewStore) : \E h2 \in Queried(h1) :
            IF {0, 1} \subseteq DOMAIN h2.sets /\ Cardinality(DOMAIN h2.sets[0]) > 1
            THEN \E c \in Asked : GetDataSVM(t, "SVM", h2, 0, c, 1, c)
            ELSE histogramData' = h2 /\ svmModels' = svmModels /\ answer' = answer
    BY <1>13 DEF Demo
  <2>1. PICK h2 \in Queried(h1) :
            IF {0, 1} \subseteq DOMAIN h2.sets /\ Cardinality(DOMAIN h2.sets[0]) > 1
            THEN \E c \in Asked : GetDataSVM(t, "SVM", h2, 0, c, 1, c)
            ELSE histogramData' = h2 /\ svmModels' = svmModels /\ answer' = answer
    BY <2>0
  <2>2. cleared' = TRUE
    BY <1>13 DEF Demo
  <2>3. GoodStore(h2) /\ Vacant(h2) /\ Mapped(h2)
    <3>1. GoodStore(h1) /\ Vacant(h1) /\ Mapped(h1)
      BY NewGood, QueriedGood
    <3> QED
      BY <3>1, QueriedGood
  <2>4. CASE \E c \in Asked : GetDataSVM(t, "SVM", h2, 0, c, 1, c)
    <3>1. PICK c \in Asked : GetDataSVM(t, "SVM", h2, 0, c, 1, c)
      BY <2>4
    <3>2. c \in Categories /\ "SVM" \in Algorithms
      BY DaemonAssumption DEF Algorithms
    <3>3. TestLeaves(h2, 0, c, t)
      BY <2>3, <3>1, <3>2, TestGood
    <3> QED
      BY <1>4, <1>8, <2>2, <2>3, <3>3
  <2>5. CASE histogramData' = h2 /\ svmModels' = svmModels /\ answer' = answer
    BY <1>4, <1>6, <1>7, <2>2, <2>3, <2>5
  <2> QED
    BY <2>1, <2>4, <2>5
<1>14. CASE TestFails(t)
  <2>1. /\ histogramData' = h /\ svmModels' = svmModels /\ answer' = answer /\ cleared' = cleared
    BY <1>14 DEF TestFails, h
  <2>2. Grown(h, h)
    BY <1>3 DEF GoodStore, Grown
  <2> QED
    BY <1>3, <1>4, <1>5, <1>6, <1>7, <2>1, <2>2, SameModels DEF new
<1> QED
  BY <1>9, <1>10, <1>11, <1>12, <1>13, <1>14 DEF WriterStep

(* A step of a request that others can come between.                       *)
ReaderStep(t) ==
    /\ thread' \in [Threads -> ThreadRec] /\ OthersStay(t) /\ Ready(thread'[t])
    /\ lock' = lock \/ ReadLockKept(t)
    /\ Reading(t)' => Reading(t) \/ CanRead(t)
    /\ requests' \in 0 .. MaxRequests
    /\ thread'[t].pc \in {"create", "value", "category", "sum"} =>
          thread'[t].id \in DOMAIN histogramData'.sets
    /\ cleared' = cleared

LEMMA TypesKept ==
    ASSUME DaemonInv, NEW t \in Threads, ReaderStep(t), GoodStore(histogramData'),
           DOMAIN histogramData.sets \subseteq DOMAIN histogramData'.sets,
           DOMAIN svmModels' \subseteq Algorithms \X Nat \X Categories
    PROVE  BaseInv' /\ StoreInv' /\ AskedInv'
<1>0. BaseInv /\ StoreInv /\ AskedInv /\ OthersStay(t)
  BY DEF DaemonInv, ReaderStep
<1>1. lock \in [writer : Threads \cup {NoThread}, readers : SUBSET Threads]
  BY <1>0 DEF BaseInv
<1>2. /\ lock' \in [writer : Threads \cup {NoThread}, readers : SUBSET Threads]
      /\ lock'.writer = lock.writer
  BY <1>1 DEF ReaderStep, ReadLockKept
<1>3. ASSUME lock'.writer # NoThread, NEW u \in Threads, Reading(u)'
      PROVE  u = lock'.writer
  <2>1. CASE u = t
    <3>1. Reading(t) \/ CanRead(t)
      BY <1>3, <2>1 DEF ReaderStep
    <3> QED
      BY <1>0, <1>2, <1>3, <2>1, <3>1 DEF BaseInv, CanRead
  <2>2. CASE u # t
    <3>1. Reading(u)
      BY <1>0, <1>3, <2>2, OthersAlike
    <3> QED
      BY <1>0, <1>2, <1>3, <3>1 DEF BaseInv
  <2> QED
    BY <2>1, <2>2
<1>4. ASSUME NEW u \in Threads
      PROVE  Ready(thread'[u])
  <2>1. CASE u = t
    BY <2>1 DEF ReaderStep
  <2>2. CASE u # t
    <3>1. Ready(thread[u])
      BY <1>0 DEF BaseInv
    <3>2. thread'[u] = thread[u] \/ thread'[u].pc = "disturbed"
      BY <1>0, <2>2 DEF OthersStay
    <3> QED
      BY <3>1, <3>2 DEF Ready
  <2> QED
    BY <2>1, <2>2
<1>5. BaseInv'
  BY <1>2, <1>3, <1>4 DEF BaseInv, ReaderStep
<1>6. ASSUME NEW u \in Threads, thread'[u].pc \in {"create", "value", "category", "sum"}
      PROVE  thread'[u].id \in DOMAIN histogramData'.sets
  <2>1. CASE u = t
    BY <1>6, <2>1 DEF ReaderStep
  <2>2. CASE u # t
    <3>1. thread'[u] = thread[u]
      BY <1>0, <1>6, <2>2, OthersAlike
    <3> QED
      BY <1>0, <1>6, <3>1 DEF AskedInv
  <2> QED
    BY <2>1, <2>2
<1> QED
  BY <1>5, <1>6 DEF StoreInv, AskedInv

(* Steps of the one thread that adds a set.                                *)
LEMMA AddingKeeps ==
    ASSUME DaemonInv, NEW t \in Threads, ReaderStep(t), GoodStore(histogramData'),
           DOMAIN histogramData.sets \subseteq DOMAIN histogramData'.sets,
           UNCHANGED <<svmModels, answer>>, thread'[t].pc # "test",
           ~raced' =>
              /\ ~raced /\ \A u \in Threads \ {t} : ~Adding(u)
              /\ Bounded(histogramData') /\ Mapped(histogramData')
              /\ Grown(histogramData, histogramData')
              /\ ~Vacant(histogramData') => Filling(t)'
              /\ InPlace(thread'[t], histogramData')
    PROVE  DaemonInv'
<1> DEFINE h == histogramData
<1>0. BaseInv /\ StoreInv /\ OrderInv /\ AnswerInv /\ OthersStay(t) /\ cleared' = cleared
  BY DEF DaemonInv, ReaderStep
<1>1. DOMAIN svmModels' \subseteq Algorithms \X Nat \X Categories
  BY <1>0 DEF StoreInv
<1>2. BaseInv' /\ StoreInv' /\ AskedInv'
  BY <1>1, TypesKept
<1>3. AnswerInv'
  BY <1>0 DEF AnswerInv
<1>4. ASSUME ~raced'
      PROVE  /\ \A u, v \in Threads : Adding(u)' /\ Adding(v)' => u = v
             /\ \A u \in Threads : InPlace(thread'[u], histogramData')
  <2>1. \A u \in Threads : Adding(u)' => u = t
    BY <1>0, <1>4, OthersAlike
  <2>2. ASSUME NEW u \in Threads
        PROVE  InPlace(thread'[u], histogramData')
    <3>1. CASE u = t
      BY <1>4, <3>1
    <3>2. CASE u # t
      <4>1. ~Adding(u)'
        BY <2>1, <3>2
      <4> QED
        BY <4>1 DEF InPlace, Adding, Computing, Putting
    <3> QED
      BY <3>1, <3>2
  <2> QED
    BY <2>1, <2>2
<1>5. ASSUME ~raced', ~cleared'
      PROVE  /\ ModelsRight'
             /\ \A u \in Threads : thread'[u].pc = "test" => thread'[u].newID < histogramData'.next
  <2>1. /\ ModelsRight /\ GoodStore(h) /\ DOMAIN svmModels \subseteq Algorithms \X Nat \X Categories
        /\ \A u \in Threads : thread[u].pc = "test" => thread[u].newID < h.next
    BY <1>0, <1>5 DEF OrderInv, StoreInv
  <2>2. ModelsRight'
    BY <1>5, <2>1, SameModels, ModelsStayRight
  <2>3. ASSUME NEW u \in Threads, thread'[u].pc = "test"
        PROVE  thread'[u].newID < histogramData'.next
    <3>1. thread'[u] = thread[u]
      BY <1>0, <2>3, OthersAlike
    <3>2. thread[u].newID \in Int /\ thread[u].newID < h.next
      BY <1>0, <2>1, <2>3, <3>1 DEF BaseInv, ThreadRec
    <3>3. h.next \in Nat /\ histogramData'.next \in Nat /\ h.next <= histogramData'.next
      BY <1>5, <2>1 DEF GoodStore, Grown
    <3> QED
      BY <3>1, <3>2, <3>3
  <2> QED
    BY <2>2, <2>3
<1>6. OrderInv'
  BY <1>4, <1>5 DEF OrderInv
<1> QED
  BY <1>2, <1>3, <1>6 DEF DaemonInv

(* Steps of a thread that adds none.                                       *)
LEMMA LookingKeeps ==
    ASSUME DaemonInv, NEW t \in Threads, ReaderStep(t), ~Adding(t), ~Adding(t)',
           UNCHANGED <<histogramData, raced>>,
           DOMAIN svmModels' \subseteq Algorithms \X Nat \X Categories,
           AnswerInv',
           ~raced /\ ~cleared =>
              /\ ModelsRight'
              /\ thread'[t].pc = "test" => thread'[t].newID < histogramData.next
    PROVE  DaemonInv'
<1> DEFINE h == histogramData
<1>0. BaseInv /\ StoreInv /\ OrderInv /\ OthersStay(t) /\ cleared' = cleared
  BY DEF DaemonInv, ReaderStep
<1>1. BaseInv' /\ StoreInv' /\ AskedInv'
  BY <1>0, TypesKept DEF StoreInv
<1>2. \A u \in Threads : Adding(u)' <=> Adding(u)
  BY <1>0, OthersAlike
<1>3. ASSUME ~raced, NEW u \in Threads
      PROVE  InPlace(thread'[u], h)
  <2>1. CASE Adding(u)
    <3>1. u # t /\ thread'[u].pc # "disturbed"
      BY <1>2, <2>1 DEF Adding, Computing, Putting
    <3>2. thread'[u] = thread[u]
      BY <1>0, <3>1, OthersAlike
    <3> QED
      BY <1>0, <1>3, <3>2 DEF OrderInv
  <2>2. CASE ~Adding(u)
    <3>1. ~Adding(u)'
      BY <1>2, <2>2
    <3> QED
      BY <3>1 DEF InPlace, Adding, Computing, Putting
  <2> QED
    BY <2>1, <2>2
<1>4. ASSUME ~raced, ~Vacant(h)
      PROVE  \E u \in Threads : Filling(u)'
  <2>1. PICK u \in Threads : Filling(u)
    BY <1>0, <1>4 DEF OrderInv
  <2>2. u # t
    BY <2>1 DEF Filling, Adding, Computing, Putting
  <2>3. Filling(u)'
    BY <1>0, <2>1, <2>2 DEF OthersStay, Filling
  <2> QED
    BY <2>3
<1>5. ASSUME ~raced, ~cleared, NEW u \in Threads, thread'[u].pc = "test"
      PROVE  thread'[u].newID < h.next
  <2>1. CASE u = t
    BY <1>5, <2>1
  <2>2. CASE u # t
    <3>1. thread'[u] = thread[u]
      BY <1>0, <1>5, <2>2, OthersAlike
    <3> QED
      BY <1>0, <1>5, <3>1 DEF OrderInv
  <2> QED
    BY <2>1, <2>2
<1>6. OrderInv'
  <2>1. ASSUME ~raced
        PROVE  /\ Bounded(h) /\ Mapped(h)
               /\ \A u, v \in Threads : Adding(u)' /\ Adding(v)' => u = v
    BY <1>0, <1>2, <2>1 DEF OrderInv
  <2> QED
    BY <1>0, <1>3, <1>4, <1>5, <2>1 DEF OrderInv
<1> QED
  BY <1>1, <1>6 DEF DaemonInv

LEMMA LookingAtSets ==
    ASSUME DaemonInv, NEW t \in Threads, ReaderStep(t), ~Adding(t), ~Adding(t)',
           UNCHANGED <<histogramData, raced, svmModels, answer>>,
           ~raced /\ ~cleared =>
               (thread'[t].pc = "test" => thread'[t].newID < histogramData.next)
    PROVE  DaemonInv'
<1>1. AnswerInv' /\ DOMAIN svmModels' \subseteq Algorithms \X Nat \X Categories
  BY DEF DaemonInv, AnswerInv, StoreInv, ReaderStep
<1>2. ~raced /\ ~cleared => ModelsRight'
  BY DEF DaemonInv, OrderInv, ModelsRight
<1> QED
  BY <1>1, <1>2, LookingKeeps

(* A thread at its work that changes nothing.                              *)
LEMMA StaysInPlace ==
    ASSUME DaemonInv, NEW t \in Threads, ReaderStep(t), Adding(t), Filling(t) => Filling(t)',
           UNCHANGED <<histogramData, raced, svmModels, answer>>, thread'[t].pc # "test",
           ~raced => InPlace(thread'[t], histogramData)
    PROVE  DaemonInv'
<1> DEFINE h == histogramData
<1>1. GoodStore(h)
  BY DEF DaemonInv, StoreInv
<1>2. ASSUME ~raced
      PROVE  /\ \A u \in Threads \ {t} : ~Adding(u)
             /\ Bounded(h) /\ Mapped(h) /\ Grown(h, h)
             /\ ~Vacant(h) => Filling(t)'
  <2>1. /\ Bounded(h) /\ Mapped(h) /\ \A u \in Threads \ {t} : ~Adding(u)
        /\ ~Vacant(h) => \E u \in Threads : Filling(u)
    BY <1>2 DEF DaemonInv, OrderInv
  <2>2. \A u \in Threads : Filling(u) => Adding(u)
    BY DEF Filling, Adding, Computing, Putting
  <2>3. Grown(h, h)
    BY <1>1 DEF GoodStore, Grown
  <2> QED
    BY <2>1, <2>2, <2>3
<1> QED
  BY <1>1, <1>2, AddingKeeps

(* Requests begin, and threads know of sets what they knew.                *)
LEMMA RequestsBounded ==
    ASSUME BaseInv, NEW t \in Threads, Starts(t) \/ requests' = requests
    PROVE  requests' \in 0 .. MaxRequests
BY DaemonAssumption DEF BaseInv, Starts

LEMMA StillAsked ==
    ASSUME DaemonInv, NEW t \in Threads, thread'[t].id = thread[t].id,
           thread[t].pc \in {"create", "value", "category", "sum"},
           DOMAIN histogramData.sets \subseteq DOMAIN histogramData'.sets
    PROVE  thread'[t].id \in DOMAIN histogramData'.sets
BY DEF DaemonInv, AskedInv

LEMMA StartsKeeps ==
    ASSUME DaemonInv, NEW t \in Threads,
           ListKeys(t) \/ GetHistograms(t) \/ GetFakeData2(t) \/ CustomTest(t)
    PROVE  DaemonInv'
<1>0. BaseInv /\ GoodStore(histogramData) /\ thread \in [Threads -> ThreadRec]
  BY DEF DaemonInv, StoreInv, BaseInv
<1>1. /\ Starts(t) /\ thread[t].pc = "idle"
      /\ UNCHANGED <<histogramData, raced, svmModels, answer, cleared>>
  BY DEF ListKeys, GetHistograms, GetFakeData2, CustomTest, Starts, Unchanged
<1>2. requests' \in 0 .. MaxRequests
  BY <1>0, <1>1, RequestsBounded
<1>3. /\ thread' \in [Threads -> ThreadRec] /\ OthersStay(t)
      /\ thread'[t].pc \in {"list", "idle", "answer", "create", "next"}
      /\ thread'[t].pc = "create" => thread'[t].id \in DOMAIN histogramData.sets
      /\ lock' = lock \/ ReadLockKept(t)
      /\ Reading(t)' => CanRead(t)
  <2>1. CASE ListKeys(t)
    <3>1. "list" \in Steps
      BY DEF Steps
    <3>2. Moved(t, "list", thread[t].newID, thread[t].seen)
      BY <1>0, <2>1, <3>1, GoesOnTo DEF ListKeys
    <3> QED
      BY <2>1, <3>2 DEF ListKeys, Moved
  <2>2. CASE GetHistograms(t)
    BY <1>0, <2>2, GetMoves DEF GetHistograms
  <2>3. CASE GetFakeData2(t) \/ CustomTest(t)
    <3>1. thread' \in [Threads -> ThreadRec] /\ OthersStay(t) /\ thread'[t].pc = "next"
      BY <1>0, <2>3, FakeMoves
    <3>2. lock' = lock
      BY <2>3 DEF GetFakeData2, CustomTest
    <3> QED
      BY <3>1, <3>2 DEF Reading, Computing
  <2> QED
    BY <2>1, <2>2, <2>3
<1>4. Ready(thread'[t])
  BY <1>3 DEF Ready
<1>5. ReaderStep(t)
  BY <1>1, <1>2, <1>3, <1>4 DEF ReaderStep
<1>6. ~Adding(t) /\ ~Adding(t)' /\ thread'[t].pc # "test"
  BY <1>1, <1>3 DEF Adding, Computing, Putting
<1> QED
  BY <1>1, <1>5, <1>6, LookingAtSets

(* A request that ends has left nothing at the next id.                    *)
LEMMA EndsKeeps ==
    ASSUME DaemonInv, NEW t \in Threads, thread' = Ends(t), ~Filling(t),
           lock' = lock \/ ReadLockKept(t),
           UNCHANGED <<histogramData, raced, svmModels, answer, cleared, requests>>
    PROVE  DaemonInv'
<1>0. BaseInv /\ thread \in [Threads -> ThreadRec]
  BY DEF DaemonInv, BaseInv
<1>1. thread' \in [Threads -> ThreadRec] /\ OthersStay(t) /\ thread'[t].pc = "idle"
  BY <1>0, EndsIdle
<1>2. requests' \in 0 .. MaxRequests
  BY <1>0, RequestsBounded
<1>3. Ready(thread'[t]) /\ ~Reading(t)' /\ ~Adding(t)' /\ InPlace(thread'[t], histogramData)
  BY <1>1 DEF Ready, Reading, Adding, Computing, Putting, InPlace
<1>4. ReaderStep(t)
  BY <1>1, <1>2, <1>3 DEF ReaderStep
<1>5. CASE Adding(t)
  BY <1>1, <1>3, <1>4, <1>5, StaysInPlace
<1>6. CASE ~Adding(t)
  BY <1>1, <1>3, <1>4, <1>6, LookingAtSets
<1> QED
  BY <1>5, <1>6

LEMMA LookersEnd ==
    ASSUME DaemonInv, NEW t \in Threads, ListEnds(t) \/ Answer(t)
    PROVE  DaemonInv'
<1>1. /\ thread[t].pc \in {"list", "disturbed", "answer"} /\ thread' = Ends(t)
      /\ UNCHANGED <<histogramData, raced, svmModels, answer, cleared, requests>>
  BY DEF ListEnds, Answer, Unchanged
<1>2. lock' = lock \/ ReadLockKept(t)
  BY DEF ListEnds, Answer
<1>3. ~Filling(t)
  BY <1>1 DEF Filling
<1> QED
  BY <1>1, <1>2, <1>3, EndsKeeps

(* A set without categories at the next id, marked as one without a map.   *)
LEMMA EmptyGood ==
    ASSUME NEW h, GoodStore(h), NEW g,
           \/ g = Stored(h, h.next, <<>>)
           \/ g = [Stored(h, h.next, <<>>) EXCEPT !.bare = @ \cup {h.next}]
    PROVE  /\ GoodStore(g) /\ Grown(h, g) /\ (Bounded(h) => Vacant(g))
           /\ g.remap = h.remap /\ g.next = h.next
           /\ DOMAIN g.sets = DOMAIN h.sets \cup {h.next}
<1>1. PICK set : set = <<>>
  OBVIOUS
<1>2. DOMAIN set = {}
  BY <1>1
<1>3. GoodSet(set) /\ h.next \in Nat
  BY <1>2 DEF GoodSet, GoodStore
<1>4. PICK f : f = Stored(h, h.next, set)
  OBVIOUS
<1>5. /\ GoodStore(f) /\ f.remap = h.remap /\ f.next = h.next
      /\ DOMAIN f.sets = DOMAIN h.sets \cup {h.next} /\ f.sets[h.next] = set
      /\ \A id \in DOMAIN h.sets : id # h.next => f.sets[id] = h.sets[id]
  BY <1>3, <1>4, StoredGood
<1>6. Grown(h, f) /\ (Bounded(h) => Bounded(f))
  BY <1>5, StoredNext
<1>7. CASE g = f
  BY <1>2, <1>5, <1>6, <1>7 DEF Vacant
<1>8. CASE g = [f EXCEPT !.bare = @ \cup {h.next}]
  <2>1. PICK s, b, r, n : f = [sets |-> s, bare |-> b, remap |-> r, next |-> n]
    BY <1>5 DEF GoodStore, StoreShape
  <2>2. g = [sets |-> s, bare |-> b \cup {h.next}, remap |-> r, next |-> n]
    BY <1>8, <2>1
  <2>3. /\ g.sets = f.sets /\ g.bare = f.bare \cup {h.next} /\ g.remap = f.remap
        /\ g.next = f.next /\ StoreShape(g)
    BY <2>1, <2>2 DEF StoreShape
  <2>4. GoodStore(g)
    BY <1>2, <1>5, <2>3 DEF GoodStore
  <2>5. Grown(h, g) /\ (Bounded(h) => Vacant(g))
    BY <1>2, <1>5, <1>6, <2>3 DEF Grown, Vacant, Bounded
  <2> QED
    BY <1>5, <2>3, <2>4, <2>5
<1>9. g = f \/ g = [f EXCEPT !.bare = @ \cup {h.next}]
  BY <1>1, <1>4
<1> QED
  BY <1>7, <1>8, <1>9

LEMMA CreateSetKeeps ==
    ASSUME DaemonInv, NEW t \in Threads, CreateSet(t)
    PROVE  DaemonInv'
<1> DEFINE h == histogramData
<1>0. BaseInv /\ GoodStore(h) /\ OrderInv /\ thread \in [Threads -> ThreadRec]
  BY DEF DaemonInv, StoreInv, BaseInv
<1>1. /\ thread[t].pc = "create" /\ UNCHANGED <<svmModels, answer, cleared, requests, lock>>
      /\ raced' = (raced \/ \E u \in Threads \ {t} : Adding(u))
      /\ h' = [Stored(h, h.next, <<>>) EXCEPT !.bare = @ \cup {h.next}]
      /\ Disturbs(t, [thread[t] EXCEPT !.pc = "value"])
  BY DEF CreateSet, Unchanged
<1>2. PICK r : r = [thread[t] EXCEPT !.pc = "value"]
  OBVIOUS
<1>3. r \in ThreadRec /\ r.pc = "value" /\ r.id = thread[t].id
  <2>1. "value" \in Steps /\ thread[t] \in ThreadRec
    BY <1>0 DEF Steps
  <2> QED
    BY <1>2, <2>1, SetPC
<1>4. thread' \in [Threads -> ThreadRec] /\ OthersStay(t) /\ thread'[t] = r
  BY <1>0, <1>1, <1>2, <1>3, DisturbsMoves
<1>5. /\ GoodStore(h') /\ Grown(h, h') /\ (Bounded(h) => Vacant(h'))
      /\ h'.remap = h.remap /\ h'.next = h.next
      /\ DOMAIN h.sets \subseteq DOMAIN h'.sets
  <2>1. PICK g : g = [Stored(h, h.next, <<>>) EXCEPT !.bare = @ \cup {h.next}]
    OBVIOUS
  <2>2. /\ GoodStore(g) /\ Grown(h, g) /\ (Bounded(h) => Vacant(g))
        /\ g.remap = h.remap /\ g.next = h.next
        /\ DOMAIN g.sets = DOMAIN h.sets \cup {h.next}
    BY <1>0, <2>1, EmptyGood
  <2> QED
    BY <1>1, <2>1, <2>2
<1>6. ReaderStep(t)
  <2>1. requests' \in 0 .. MaxRequests
    BY <1>0, <1>1, RequestsBounded
  <2>2. thread'[t].id \in DOMAIN h'.sets
    BY <1>1, <1>3, <1>4, <1>5, StillAsked
  <2>3. Ready(thread'[t]) /\ Reading(t)
    BY <1>1, <1>3, <1>4 DEF Ready, Reading
  <2> QED
    BY <1>1, <1>4, <2>1, <2>2, <2>3 DEF ReaderStep
<1>7. ASSUME ~raced'
      PROVE  /\ ~raced /\ \A u \in Threads \ {t} : ~Adding(u)
             /\ Bounded(h') /\ Mapped(h') /\ Grown(h, h') /\ Vacant(h')
  <2>1. ~raced /\ \A u \in Threads \ {t} : ~Adding(u)
    BY <1>1, <1>7
  <2>2. Bounded(h) /\ Mapped(h)
    BY <1>0, <2>1 DEF OrderInv
  <2>3. Mapped(h')
    BY <1>0, <1>5, <2>2, MappedGrown
  <2> QED
    BY <1>5, <2>1, <2>2, <2>3 DEF Vacant
<1>8. InPlace(thread'[t], h') /\ thread'[t].pc # "test"
  BY <1>3, <1>4 DEF InPlace
<1> HIDE DEF h
<1> QED
  BY <1>1, <1>5, <1>6, <1>7, <1>8, AddingKeeps DEF h

(* A thread goes on with the set it adds.                                  *)
LEMMA WorkKeeps ==
    ASSUME DaemonInv, NEW t \in Threads, Adding(t), NEW pc, NEW n, NEW s,
           Moved(t, pc, n, s), Ready(thread'[t]), Reading(t)' => Reading(t),
           pc \notin {"test", "create", "value"},
           pc \in {"category", "sum"} => thread[t].pc \in {"value", "category"},
           UNCHANGED <<svmModels, answer, cleared, requests, raced, lock>>,
           GoodStore(histogramData'), DOMAIN histogramData.sets \subseteq DOMAIN histogramData'.sets,
           ~raced =>
              /\ Bounded(histogramData') /\ Mapped(histogramData')
              /\ Grown(histogramData, histogramData')
              /\ ~Vacant(histogramData') => Filling(t)'
              /\ InPlace(thread'[t], histogramData')
    PROVE  DaemonInv'
<1>0. BaseInv /\ OrderInv /\ thread'[t].pc = pc /\ thread'[t].id = thread[t].id
  BY DEF DaemonInv, Moved
<1>1. requests' \in 0 .. MaxRequests
  BY <1>0, RequestsBounded
<1>2. pc \in {"category", "sum"} => thread'[t].id \in DOMAIN histogramData'.sets
  BY <1>0, StillAsked
<1>3. ReaderStep(t)
  BY <1>0, <1>1, <1>2 DEF ReaderStep, Moved
<1>4. ~raced' => ~raced /\ \A u \in Threads \ {t} : ~Adding(u)
  BY <1>0 DEF OrderInv
<1> QED
  BY <1>0, <1>3, <1>4, AddingKeeps

(* Until the sum is there, nothing is at the next id.                      *)
LEMMA StillVacant ==
    ASSUME DaemonInv, NEW t \in Threads, Adding(t), ~Filling(t), ~raced
    PROVE  /\ Vacant(histogramData) /\ Bounded(histogramData) /\ Mapped(histogramData)
           /\ InPlace(thread[t], histogramData)
<1>1. \A u \in Threads : ~Filling(u)
  BY DEF DaemonInv, OrderInv, Filling, Adding, Computing, Putting
<1> QED
  BY <1>1 DEF DaemonInv, OrderInv

LEMMA CreateValueKeeps ==
    ASSUME DaemonInv, NEW t \in Threads, CreateValue(t)
    PROVE  DaemonInv'
<1> DEFINE h == histogramData
<1>0. BaseInv /\ GoodStore(h) /\ OrderInv /\ thread \in [Threads -> ThreadRec]
  BY DEF DaemonInv, StoreInv, BaseInv
<1>1. /\ thread[t].pc = "value" /\ UNCHANGED <<svmModels, answer, cleared, requests, raced>>
      /\ \/ h' = Stored(h, h.next, <<>>) /\ thread' = Goes(t, "category") /\ lock' = lock
         \/ thread' = Ends(t) /\ ReadLockKept(t) /\ h' = h
  BY DEF CreateValue, Unchanged
<1>2. Adding(t) /\ Reading(t) /\ ~Filling(t)
  BY <1>1 DEF Adding, Computing, Reading, Filling
<1>3. CASE thread' = Ends(t) /\ ReadLockKept(t) /\ h' = h
  BY <1>1, <1>2, <1>3, EndsKeeps
<1>4. CASE h' = Stored(h, h.next, <<>>) /\ thread' = Goes(t, "category") /\ lock' = lock
  <2>1. PICK g : g = Stored(h, h.next, <<>>)
    OBVIOUS
  <2>2. /\ GoodStore(g) /\ Grown(h, g) /\ (Bounded(h) => Vacant(g))
        /\ g.remap = h.remap /\ DOMAIN g.sets = DOMAIN h.sets \cup {h.next}
    BY <1>0, <2>1, EmptyGood
  <2>3. h' = g
    BY <1>4, <2>1
  <2>4. Moved(t, "category", thread[t].newID, thread[t].seen)
    <3>1. "category" \in Steps
      BY DEF Steps
    <3> QED
      BY <1>0, <1>4, <3>1, GoesOnTo
  <2>5. thread'[t].pc = "category"
    BY <2>4 DEF Moved
  <2>6. ASSUME ~raced
        PROVE  Mapped(g) /\ Vacant(g) /\ Bounded(g)
    <3>1. Bounded(h) /\ Mapped(h)
      BY <1>2, <2>6, StillVacant
    <3> QED
      BY <1>0, <2>2, <3>1, MappedGrown DEF Vacant
  <2>7. Ready(thread'[t]) /\ InPlace(thread'[t], h')
    BY <2>5 DEF Ready, InPlace
  <2> HIDE DEF h
  <2> QED
    BY <1>1, <1>2, <1>4, <2>2, <2>3, <2>4, <2>6, <2>7, WorkKeeps DEF h
<1> QED
  BY <1>1, <1>3, <1>4

(* An empty category at the next id.                                       *)
LEMMA CategoryGood ==
    ASSUME NEW h, GoodStore(h), h.next \in DOMAIN h.sets, NEW c \in Categories
    PROVE  LET g == Stored(h, h.next, Put(h.sets[h.next], c, {}))
           IN  /\ GoodStore(g) /\ Grown(h, g) /\ (Vacant(h) => Vacant(g))
               /\ g.remap = h.remap /\ DOMAIN g.sets = DOMAIN h.sets \cup {h.next}
               /\ HasCategory(g, g.next, c)
<1>1. PICK old, set : old = h.sets[h.next] /\ set = Put(old, c, {})
  OBVIOUS
<1>2. /\ DOMAIN set = DOMAIN old \cup {c} /\ set[c] = {}
      /\ \A d \in DOMAIN old : d # c => set[d] = old[d]
  BY <1>1 DEF Put
<1>3. GoodSet(old) /\ h.next \in Nat
  BY <1>1 DEF GoodStore
<1>4. GoodSet(set)
  BY <1>2, <1>3 DEF GoodSet
<1>5. PICK g : g = Stored(h, h.next, set)
  OBVIOUS
<1>6. /\ GoodStore(g) /\ g.remap = h.remap /\ g.next = h.next
      /\ DOMAIN g.sets = DOMAIN h.sets \cup {h.next} /\ g.sets[h.next] = set
      /\ \A id \in DOMAIN h.sets : id # h.next => g.sets[id] = h.sets[id]
  BY <1>3, <1>4, <1>5, StoredGood
<1>7. Grown(h, g) /\ (Bounded(h) => Bounded(g))
  BY <1>6, StoredNext
<1>8. Vacant(h) => Vacant(g)
  BY <1>1, <1>2, <1>6, <1>7 DEF Vacant
<1>9. HasCategory(g, g.next, c)
  BY <1>2, <1>6 DEF HasCategory
<1> QED
  BY <1>1, <1>5, <1>6, <1>7, <1>8, <1>9

LEMMA CreateCategoryKeeps ==
    ASSUME DaemonInv, NEW t \in Threads, CreateCategory(t)
    PROVE  DaemonInv'
<1> DEFINE h == histogramData
           c == thread[t].category
<1>0. BaseInv /\ GoodStore(h) /\ OrderInv /\ thread \in [Threads -> ThreadRec] /\ c \in Categories
  BY DEF DaemonInv, StoreInv, BaseInv, ThreadRec
<1>1. /\ thread[t].pc = "category" /\ UNCHANGED <<svmModels, answer, cleared, requests, raced>>
      /\ \/ /\ h.next \in DOMAIN h.sets /\ h' = Stored(h, h.next, Put(h.sets[h.next], c, {}))
            /\ thread' = Goes(t, "sum") /\ lock' = lock
         \/ thread' = Ends(t) /\ ReadLockKept(t) /\ h' = h
  BY DEF CreateCategory, Unchanged
<1>2. Adding(t) /\ Reading(t) /\ ~Filling(t)
  BY <1>1 DEF Adding, Computing, Reading, Filling
<1>3. CASE thread' = Ends(t) /\ ReadLockKept(t) /\ h' = h
  BY <1>1, <1>2, <1>3, EndsKeeps
<1>4. CASE /\ h.next \in DOMAIN h.sets /\ h' = Stored(h, h.next, Put(h.sets[h.next], c, {}))
           /\ thread' = Goes(t, "sum") /\ lock' = lock
  <2>1. PICK g : g = Stored(h, h.next, Put(h.sets[h.next], c, {}))
    OBVIOUS
  <2>2. /\ GoodStore(g) /\ Grown(h, g) /\ (Vacant(h) => Vacant(g))
        /\ g.remap = h.remap /\ DOMAIN g.sets = DOMAIN h.sets \cup {h.next}
        /\ HasCategory(g, g.next, c)
    BY <1>0, <1>4, <2>1, CategoryGood
  <2>3. h' = g
    BY <1>4, <2>1
  <2>4. Moved(t, "sum", thread[t].newID, thread[t].seen)
    <3>1. "sum" \in Steps
      BY DEF Steps
    <3> QED
      BY <1>0, <1>4, <3>1, GoesOnTo
  <2>5. thread'[t].pc = "sum" /\ thread'[t].category = c
    BY <2>4 DEF Moved
  <2>6. ASSUME ~raced
        PROVE  Mapped(g) /\ Vacant(g) /\ Bounded(g)
    <3>1. Vacant(h) /\ Mapped(h)
      BY <1>2, <2>6, StillVacant
    <3> QED
      BY <1>0, <2>2, <3>1, MappedGrown DEF Vacant
  <2>7. Ready(thread'[t]) /\ InPlace(thread'[t], h')
    BY <2>2, <2>3, <2>5 DEF Ready, InPlace
  <2> HIDE DEF h
  <2> QED
    BY <1>1, <1>2, <1>4, <2>2, <2>3, <2>4, <2>6, <2>7, WorkKeeps DEF h
<1> QED
  BY <1>1, <1>3, <1>4

LEMMA SumCategoriesKeeps ==
    ASSUME DaemonInv, NEW t \in Threads, SumCategories(t)
    PROVE  DaemonInv'
<1> DEFINE h == histogramData
           c == thread[t].category
           sum == Summed(h, thread[t].id, c)
<1>0. BaseInv /\ GoodStore(h) /\ OrderInv /\ thread \in [Threads -> ThreadRec] /\ c \in Categories
  BY DEF DaemonInv, StoreInv, BaseInv, ThreadRec
<1>1. /\ thread[t].pc = "sum" /\ UNCHANGED <<svmModels, answer, cleared, requests, raced>>
      /\ \/ thread' = Ends(t) /\ ReadLockKept(t) /\ h' = h
         \/ thread' = Goes(t, "take") /\ lock' = lock /\ h' = h
         \/ /\ thread' = Goes(t, "take") /\ lock' = lock
            /\ h' = Filled(h, c, sum) /\ HasCategory(h, h.next, c)
  BY DEF SumCategories, Unchanged
<1>2. Adding(t) /\ Reading(t) /\ ~Filling(t)
  BY <1>1 DEF Adding, Computing, Reading, Filling
<1>3. CASE thread' = Ends(t) /\ ReadLockKept(t) /\ h' = h
  BY <1>1, <1>2, <1>3, EndsKeeps
<1>4. ASSUME thread' = Goes(t, "take"), lock' = lock
      PROVE  /\ Moved(t, "take", thread[t].newID, thread[t].seen)
             /\ thread'[t].category = c /\ Filling(t)' /\ Ready(thread'[t])
             /\ \A g : HasCategory(g, g.next, c) => InPlace(thread'[t], g)
  <2>1. Moved(t, "take", thread[t].newID, thread[t].seen)
    <3>1. "take" \in Steps
      BY DEF Steps
    <3> QED
      BY <1>0, <1>4, <3>1, GoesOnTo
  <2>2. thread'[t].pc = "take" /\ thread'[t].category = c
    BY <2>1 DEF Moved
  <2> QED
    BY <2>1, <2>2 DEF Filling, Ready, InPlace
<1>5. ~raced => HasCategory(h, h.next, c) /\ Bounded(h) /\ Mapped(h)
  BY <1>1, <1>2, StillVacant DEF InPlace
<1>6. CASE thread' = Goes(t, "take") /\ lock' = lock /\ h' = h
  <2>1. Grown(h, h)
    BY <1>0 DEF GoodStore, Grown
  <2> HIDE DEF h
  <2> QED
    BY <1>0, <1>1, <1>2, <1>4, <1>5, <1>6, <2>1, WorkKeeps DEF h
<1>7. CASE /\ thread' = Goes(t, "take") /\ lock' = lock
           /\ h' = Filled(h, c, sum) /\ HasCategory(h, h.next, c)
  <2>1. PICK id, s, g : id = thread[t].id /\ s = Summed(h, id, c) /\ g = Filled(h, c, s)
    OBVIOUS
  <2>2. id \in DOMAIN h.sets
    BY <1>1, <2>1 DEF DaemonInv, AskedInv
  <2>3. \A x \in s : x \in Histogram /\ \A y \in x.sources : <<c, y[2]>> \in Below
    BY <1>0, <2>1, <2>2, SummedFits
  <2>4. /\ GoodStore(g) /\ Grown(h, g) /\ (Bounded(h) => Bounded(g))
        /\ g.remap = h.remap /\ g.next = h.next
        /\ DOMAIN g.sets = DOMAIN h.sets \cup {h.next}
        /\ DOMAIN g.sets[h.next] = DOMAIN h.sets[h.next]
    <3>1. PICK k, d : k = h /\ d = c
      OBVIOUS
    <3>2. GoodStore(k)
      BY <1>0, <3>1
    <3>3. HasCategory(k, k.next, d)
      BY <1>7, <3>1
    <3>4. \A x \in s : x \in Histogram /\ \A y \in x.sources : <<d, y[2]>> \in Below
      BY <2>3, <3>1
    <3>5. g = Filled(k, d, s)
      BY <2>1, <3>1
    <3>6. /\ GoodStore(g) /\ Grown(k, g) /\ (Bounded(k) => Bounded(g))
          /\ g.remap = k.remap /\ g.next = k.next
          /\ DOMAIN g.sets = DOMAIN k.sets \cup {k.next}
          /\ DOMAIN g.sets[k.next] = DOMAIN k.sets[k.next]
          /\ g.sets[k.next][d] = k.sets[k.next][d] \cup s
      BY ONLY <3>2, <3>3, <3>4, <3>5, FilledGood
    <3> QED
      BY <3>1, <3>6
  <2>5. h' = g
    BY <1>7, <2>1
  <2>6. HasCategory(g, g.next, c)
    BY <1>7, <2>4 DEF HasCategory
  <2>7. ~raced => Mapped(g)
    BY <1>0, <1>5, <2>4, MappedGrown
  <2> HIDE DEF h
  <2> QED
    BY <1>1, <1>2, <1>4, <1>5, <1>7, <2>4, <2>5, <2>6, <2>7, WorkKeeps DEF h
<1> HIDE DEF h, c, sum
<1> QED
  BY <1>1, <1>3, <1>6, <1>7

(* The next id is read.                                                    *)
LEMMA TakeKeeps ==
    ASSUME DaemonInv, NEW t \in Threads,
           TakeID(t) \/ ReadNextID(t, "read", "write") \/ ReadNextID(t, "reread", "rewrite")
    PROVE  DaemonInv'
<1> DEFINE h == histogramData
           old == thread[t]
<1>0. /\ BaseInv /\ GoodStore(h) /\ OrderInv /\ thread \in [Threads -> ThreadRec]
      /\ h.next \in Nat /\ h.next \in Int /\ {"read", "write", "rewrite"} \subseteq Steps /\ Ready(old)
  BY DEF DaemonInv, StoreInv, BaseInv, GoodStore, Steps
<1>1. UNCHANGED <<svmModels, answer, cleared, requests, raced, lock, histogramData>>
  BY DEF TakeID, ReadNextID, Unchanged
<1>2. PICK pc, n, s :
          /\ Moved(t, pc, n, s)
          /\ \/ old.pc = "take" /\ pc = "read" /\ n = h.next
             \/ old.pc = "read" /\ pc = "write" /\ n = old.newID /\ s = h.next
             \/ old.pc = "reread" /\ pc = "rewrite" /\ s = h.next
  <2>1. CASE TakeID(t)
    <3>1. old.pc = "take" /\ thread' = [thread EXCEPT ![t].pc = "read", ![t].newID = h.next]
      BY <2>1 DEF TakeID
    <3>2. Moved(t, "read", h.next, old.seen)
      BY <1>0, <3>1, MovesWithID
    <3> QED
      BY <3>1, <3>2
  <2>2. CASE ReadNextID(t, "read", "write")
    <3>1. old.pc = "read" /\ thread' = [thread EXCEPT ![t].pc = "write", ![t].seen = h.next]
      BY <2>2 DEF ReadNextID
    <3>2. Moved(t, "write", old.newID, h.next)
      BY <1>0, <3>1, MovesWithSeen
    <3> QED
      BY <3>1, <3>2
  <2>3. CASE ReadNextID(t, "reread", "rewrite")
    <3>1. old.pc = "reread" /\ thread' = [thread EXCEPT ![t].pc = "rewrite", ![t].seen = h.next]
      BY <2>3 DEF ReadNextID
    <3>2. Moved(t, "rewrite", old.newID, h.next)
      BY <1>0, <3>1, MovesWithSeen
    <3> QED
      BY <3>1, <3>2
  <2> QED
    BY <2>1, <2>2, <2>3
<1>3. /\ thread'[t].pc = pc /\ thread'[t].newID = n /\ thread'[t].seen = s
      /\ thread'[t].category = old.category
  BY <1>2 DEF Moved
<1>4. Adding(t) /\ Filling(t)' /\ (Reading(t)' => Reading(t))
  BY <1>2, <1>3 DEF Adding, Computing, Putting, Filling, Reading
<1>5. Ready(thread'[t])
  BY <1>0, <1>2, <1>3 DEF Ready
<1>6. ASSUME ~raced
      PROVE  Bounded(h) /\ Mapped(h) /\ Grown(h, h) /\ InPlace(thread'[t], h)
  <2>1. Bounded(h) /\ Mapped(h) /\ InPlace(old, h)
    BY <1>0, <1>6 DEF OrderInv
  <2>2. InPlace(thread'[t], h)
    BY <1>2, <1>3, <2>1 DEF InPlace
  <2>3. Grown(h, h)
    BY <1>0 DEF Grown
  <2> QED
    BY <2>1, <2>2, <2>3
<1>7. pc \notin {"test", "create", "value", "category", "sum"}
  BY <1>2
<1>8. h' = h
  BY <1>1
<1> HIDE DEF h, old
<1> QED
  BY <1>0, <1>1, <1>2, <1>4, <1>5, <1>6, <1>7, <1>8, WorkKeeps DEF h

(* The next id is moved on.                                                *)
LEMMA MoveOnKeeps ==
    ASSUME DaemonInv, NEW t \in Threads,
           WriteNextID(t, "write", "remap") \/ WriteNextID(t, "rewrite", "next")
    PROVE  DaemonInv'
<1> DEFINE h == histogramData
           old == thread[t]
<1>0. /\ BaseInv /\ GoodStore(h) /\ OrderInv /\ thread \in [Threads -> ThreadRec]
      /\ h.next \in Nat /\ {"remap", "next"} \subseteq Steps /\ Ready(old) /\ -1 \in Int
  BY DEF DaemonInv, StoreInv, BaseInv, GoodStore, Steps
<1>1. UNCHANGED <<svmModels, answer, cleared, requests, raced, lock>>
  BY DEF WriteNextID, Unchanged
<1>2. PICK pc :
          /\ Moved(t, pc, old.newID, -1)
          /\ \/ old.pc = "write" /\ pc = "remap"
             \/ old.pc = "rewrite" /\ pc = "next"
  <2>1. CASE WriteNextID(t, "write", "remap")
    <3>1. old.pc = "write" /\ thread' = [thread EXCEPT ![t].pc = "remap", ![t].seen = -1]
      BY <2>1 DEF WriteNextID
    <3>2. Moved(t, "remap", old.newID, -1)
      BY <1>0, <3>1, MovesWithSeen
    <3> HIDE DEF old
    <3> QED
      BY <3>1, <3>2
  <2>2. CASE WriteNextID(t, "rewrite", "next")
    <3>1. old.pc = "rewrite" /\ thread' = [thread EXCEPT ![t].pc = "next", ![t].seen = -1]
      BY <2>2 DEF WriteNextID
    <3>2. Moved(t, "next", old.newID, -1)
      BY <1>0, <3>1, MovesWithSeen
    <3> QED
      BY <3>1, <3>2
  <2> QED
    BY <2>1, <2>2
<1>3. /\ thread'[t].pc = pc /\ thread'[t].newID = old.newID
      /\ thread'[t].category = old.category
  BY <1>2 DEF Moved
<1>4. PICK n, g : n = old.seen + 1 /\ g = [h EXCEPT !.next = n]
  OBVIOUS
<1>5. old.seen \in Nat /\ n \in Nat
  BY <1>0, <1>2, <1>4 DEF Ready
<1>6. h' = g
  BY <1>4 DEF WriteNextID
<1>7. /\ GoodStore(g) /\ g.sets = h.sets /\ g.remap = h.remap /\ g.next = n
      /\ Bounded(h) /\ n = h.next + 1 => Vacant(g) /\ Grown(h, g)
  BY <1>0, <1>4, <1>5, NextGood
<1>8. Adding(t) /\ (Reading(t)' => Reading(t))
  BY <1>2, <1>3 DEF Adding, Computing, Putting, Reading
<1>9. Ready(thread'[t])
  BY <1>0, <1>2, <1>3 DEF Ready
<1>10. ASSUME ~raced
       PROVE  Bounded(g) /\ Mapped(g) /\ Grown(h, g) /\ Vacant(g) /\ InPlace(thread'[t], g)
  <2>1. Bounded(h) /\ Mapped(h) /\ InPlace(old, h)
    BY <1>0, <1>10 DEF OrderInv
  <2>2. old.seen = h.next
    BY <1>2, <2>1 DEF InPlace
  <2>3. n = h.next + 1
    BY <1>4, <2>2
  <2>4. Vacant(g) /\ Grown(h, g)
    BY <1>7, <2>1, <2>3
  <2>5. Mapped(g)
    BY <1>0, <1>7, <2>1, <2>4, MappedGrown
  <2>6. InPlace(thread'[t], g)
    <3>1. CASE pc = "remap"
      <4>1. old.newID = h.next /\ HasCategory(h, h.next, old.category)
        BY <1>2, <2>1, <3>1 DEF InPlace
      <4>2. HasCategory(g, old.newID, old.category) /\ old.newID < g.next
        BY <1>0, <1>7, <2>3, <4>1 DEF HasCategory
      <4> QED
        BY <1>3, <3>1, <4>2 DEF InPlace
    <3>2. CASE pc = "next"
      BY <1>3, <3>2 DEF InPlace
    <3> QED
      BY <1>2, <3>1, <3>2
  <2> QED
    BY <2>4, <2>5, <2>6 DEF Vacant
<1>11. pc \notin {"test", "create", "value", "category", "sum"}
  BY <1>2
<1>12. DOMAIN h.sets \subseteq DOMAIN g.sets
  BY <1>7
<1> HIDE DEF h, old
<1> QED
  BY <1>1, <1>2, <1>6, <1>7, <1>8, <1>9, <1>10, <1>11, <1>12, WorkKeeps DEF h

LEMMA RememberKeeps ==
    ASSUME DaemonInv, NEW t \in Threads, RememberID(t)
    PROVE  DaemonInv'
<1> DEFINE h == histogramData
           old == thread[t]
<1>0. /\ BaseInv /\ GoodStore(h) /\ OrderInv /\ thread \in [Threads -> ThreadRec]
      /\ "answer" \in Steps /\ Ready(old)
  BY DEF DaemonInv, StoreInv, BaseInv, Steps
<1>1. /\ old.pc = "remap" /\ thread' = Goes(t, "answer")
      /\ h' = Remembered(h, old.category, old.newID)
      /\ UNCHANGED <<svmModels, answer, cleared, requests, raced, lock>>
  BY DEF RememberID, Unchanged
<1>2. Moved(t, "answer", old.newID, old.seen)
  BY <1>0, <1>1, GoesOnTo
<1>3. thread'[t].pc = "answer"
  BY <1>2 DEF Moved
<1>4. PICK m, c, g : m = old.newID /\ c = old.category /\ g = Remembered(h, c, m)
  OBVIOUS
<1>5. m \in Nat
  BY <1>0, <1>1, <1>4 DEF Ready
<1>6. /\ GoodStore(g) /\ Grown(h, g) /\ g.sets = h.sets /\ g.next = h.next
      /\ Mapped(h) /\ m < h.next /\ HasCategory(h, m, c) => Mapped(g)
  BY <1>0, <1>4, <1>5, RememberedGood
<1>7. h' = g
  BY <1>1, <1>4
<1>8. Adding(t) /\ Reading(t) /\ ~Filling(t)
  BY <1>1 DEF Adding, Computing, Reading, Filling
<1>9. Ready(thread'[t]) /\ InPlace(thread'[t], g)
  BY <1>3 DEF Ready, InPlace
<1>10. ASSUME ~raced
       PROVE  Bounded(g) /\ Mapped(g) /\ Vacant(g)
  <2>1. Vacant(h) /\ Mapped(h) /\ InPlace(old, h)
    BY <1>8, <1>10, StillVacant
  <2>2. Mapped(g)
    BY <1>1, <1>4, <1>6, <2>1 DEF InPlace
  <2> QED
    BY <1>6, <2>1, <2>2 DEF Vacant, Bounded
<1>11. DOMAIN h.sets \subseteq DOMAIN g.sets
  BY <1>6
<1> HIDE DEF h, old
<1> QED
  BY <1>1, <1>2, <1>6, <1>7, <1>8, <1>9, <1>10, <1>11, WorkKeeps DEF h

(* A request without a lock has an id to put a set at.                     *)
LEMMA NextIDKeeps ==
    ASSUME DaemonInv, NEW t \in Threads, NextID(t)
    PROVE  DaemonInv'
<1> DEFINE h == histogramData
           old == thread[t]
<1>0. /\ BaseInv /\ GoodStore(h) /\ OrderInv /\ thread \in [Threads -> ThreadRec]
      /\ h.next \in Nat /\ h.next \in Int /\ "put" \in Steps
  BY DEF DaemonInv, StoreInv, BaseInv, GoodStore, Steps
<1>1. /\ old.pc = "next" /\ old.puts # <<>>
      /\ thread' = [thread EXCEPT ![t].pc = "put", ![t].newID = h.next]
      /\ raced' = (raced \/ \E u \in Threads \ {t} : Adding(u))
      /\ UNCHANGED <<svmModels, answer, cleared, requests, lock, histogramData>>
  BY DEF NextID, Unchanged
<1>2. /\ Moved(t, "put", h.next, old.seen) /\ thread'[t].puts = old.puts
  BY <1>0, <1>1, MovesWithID
<1>3. thread'[t].pc = "put" /\ thread'[t].newID = h.next
  BY <1>2 DEF Moved
<1>4. Ready(thread'[t]) /\ ~Reading(t)' /\ InPlace(thread'[t], h) /\ ~Filling(t)
  BY <1>0, <1>1, <1>2, <1>3 DEF Ready, Reading, Computing, InPlace, Filling
<1>5. ReaderStep(t)
  <2>1. requests' \in 0 .. MaxRequests
    BY <1>0, <1>1, RequestsBounded
  <2>2. thread' \in [Threads -> ThreadRec] /\ OthersStay(t)
    BY <1>2 DEF Moved
  <2> QED
    BY <1>1, <1>3, <1>4, <2>1, <2>2 DEF ReaderStep
<1>6. ASSUME ~raced'
      PROVE  /\ ~raced /\ \A u \in Threads \ {t} : ~Adding(u)
             /\ Bounded(h) /\ Mapped(h) /\ Grown(h, h) /\ Vacant(h)
  <2>1. ~raced /\ \A u \in Threads \ {t} : ~Adding(u)
    BY <1>1, <1>6
  <2>2. \A u \in Threads : ~Filling(u)
    BY <1>4, <2>1 DEF Filling, Adding, Computing, Putting
  <2>3. Bounded(h) /\ Mapped(h) /\ Vacant(h)
    BY <1>0, <2>1, <2>2 DEF OrderInv
  <2>4. Grown(h, h)
    BY <1>0 DEF Grown
  <2> QED
    BY <2>1, <2>3, <2>4
<1>7. h' = h
  BY <1>1
<1> HIDE DEF h, old
<1> QED
  BY <1>0, <1>1, <1>3, <1>4, <1>5, <1>6, <1>7, AddingKeeps DEF h

LEMMA PutSetKeeps ==
    ASSUME DaemonInv, NEW t \in Threads, PutSet(t)
    PROVE  DaemonInv'
<1> DEFINE h == histogramData
           old == thread[t]
<1>0. /\ BaseInv /\ GoodStore(h) /\ OrderInv /\ thread \in [Threads -> ThreadRec] /\ Ready(old)
  BY DEF DaemonInv, StoreInv, BaseInv
<1>1. /\ old.pc = "put" /\ h' = Stored(h, old.newID, BatchSet(Head(old.puts)))
      /\ UNCHANGED <<svmModels, answer, cleared, requests, raced, lock>>
  BY DEF PutSet, Unchanged
<1>2. old.puts # <<>> /\ old.newID \in Nat
  BY <1>0, <1>1 DEF Ready
<1>3. /\ thread' \in [Threads -> ThreadRec] /\ OthersStay(t) /\ thread'[t].pc = "reread"
      /\ Head(old.puts) \in Batches
  BY <1>0, <1>2, PutMoves
<1>4. PICK b, n, set, g : /\ b = Head(old.puts) /\ n = old.newID /\ set = BatchSet(b)
                          /\ g = Stored(h, n, set)
  OBVIOUS
<1>5. n \in Nat /\ GoodSet(set)
  BY <1>2, <1>3, <1>4, BatchGood
<1>6. /\ GoodStore(g) /\ g.remap = h.remap /\ g.next = h.next
      /\ DOMAIN g.sets = DOMAIN h.sets \cup {n}
      /\ \A m \in DOMAIN h.sets : m # n => g.sets[m] = h.sets[m]
  BY <1>0, <1>4, <1>5, StoredGood
<1>7. h' = g
  BY <1>1, <1>4
<1>8. Adding(t) /\ Filling(t)' /\ ~Reading(t)'
  BY <1>1, <1>3 DEF Adding, Putting, Filling, Reading, Computing
<1>9. Ready(thread'[t]) /\ InPlace(thread'[t], g)
  BY <1>3 DEF Ready, InPlace
<1>10. ReaderStep(t)
  <2>1. requests' \in 0 .. MaxRequests
    BY <1>0, <1>1, RequestsBounded
  <2> QED
    BY <1>1, <1>3, <1>8, <1>9, <2>1 DEF ReaderStep
<1>11. ASSUME ~raced
       PROVE  /\ \A u \in Threads \ {t} : ~Adding(u)
              /\ Bounded(g) /\ Mapped(g) /\ Grown(h, g)
  <2>1. /\ \A u \in Threads \ {t} : ~Adding(u)
        /\ Bounded(h) /\ Mapped(h) /\ InPlace(old, h)
    BY <1>0, <1>8, <1>11 DEF OrderInv
  <2>2. n = h.next
    BY <1>1, <1>4, <2>1 DEF InPlace
  <2>3. Grown(h, g) /\ Bounded(g)
    BY <1>0, <1>6, <2>1, <2>2, StoredNext
  <2>4. Mapped(g)
    BY <1>0, <1>6, <2>1, <2>3, MappedGrown
  <2> QED
    BY <2>1, <2>3, <2>4
<1>12. DOMAIN h.sets \subseteq DOMAIN g.sets
  BY <1>6
<1>13. thread'[t].pc # "test"
  BY <1>3
<1> HIDE DEF h, old
<1> QED
  BY <1>1, <1>6, <1>7, <1>8, <1>9, <1>10, <1>11, <1>12, <1>13, AddingKeeps DEF h

LEMMA LastIDKeeps ==
    ASSUME DaemonInv, NEW t \in Threads, LastID(t)
    PROVE  DaemonInv'
<1> DEFINE h == histogramData
           old == thread[t]
<1>0. /\ BaseInv /\ GoodStore(h) /\ OrderInv /\ thread \in [Threads -> ThreadRec]
      /\ h.next \in Nat /\ h.next - 1 \in Int /\ "test" \in Steps
  BY DEF DaemonInv, StoreInv, BaseInv, GoodStore, Steps
<1>1. /\ old.pc = "next"
      /\ thread' = IF old.tests = <<>> THEN Ends(t)
                   ELSE [thread EXCEPT ![t].pc = "test", ![t].newID = h.next - 1]
      /\ UNCHANGED <<svmModels, answer, cleared, requests, raced, lock, histogramData>>
  BY DEF LastID, Unchanged
<1>2. ~Adding(t) /\ ~Filling(t)
  BY <1>1 DEF Adding, Computing, Putting, Filling
<1>3. CASE old.tests = <<>>
  BY <1>1, <1>2, <1>3, EndsKeeps
<1>4. CASE old.tests # <<>>
  <2>1. Moved(t, "test", h.next - 1, old.seen) /\ thread'[t].tests = old.tests
    BY <1>0, <1>1, <1>4, MovesWithID
  <2>2. thread'[t].pc = "test" /\ thread'[t].newID = h.next - 1
    BY <2>1 DEF Moved
  <2>3. Ready(thread'[t]) /\ ~Reading(t)' /\ ~Adding(t)'
    BY <1>4, <2>1, <2>2 DEF Ready, Reading, Adding, Computing, Putting
  <2>4. requests' \in 0 .. MaxRequests
    BY <1>0, <1>1, RequestsBounded
  <2>5. ReaderStep(t)
    BY <1>1, <2>1, <2>2, <2>3, <2>4 DEF ReaderStep, Moved
  <2>6. thread'[t].newID < h.next
    BY <1>0, <2>2
  <2> QED
    BY <1>1, <1>2, <2>3, <2>5, <2>6, LookingAtSets
<1> QED
  BY <1>3, <1>4

(* A request without a lock tests the last set: its thread ends or goes on *)
(* to the next algorithm.                                                  *)
LEMMA TestMoves ==
    ASSUME DaemonInv, NEW t \in Threads, thread[t].pc = "test",
           \/ thread' = Ends(t)
           \/ /\ Len(thread[t].tests) > 1
              /\ thread' = [thread EXCEPT ![t].tests = Tail(thread[t].tests)],
           UNCHANGED <<histogramData, lock, requests, cleared>>
    PROVE  /\ ReaderStep(t) /\ ~Adding(t) /\ ~Adding(t)'
           /\ thread'[t].pc = "test" => thread'[t].newID = thread[t].newID
<1>0. BaseInv /\ thread \in [Threads -> ThreadRec]
  BY DEF DaemonInv, BaseInv
<1>1. requests' \in 0 .. MaxRequests
  BY <1>0, RequestsBounded
<1>2. PICK old, s : old = thread[t] /\ s = old.tests
  OBVIOUS
<1>3. /\ thread' \in [Threads -> ThreadRec] /\ OthersStay(t)
      /\ \/ thread'[t].pc = "idle"
         \/ /\ thread'[t].pc = "test" /\ thread'[t].newID = old.newID
            /\ thread'[t].tests # <<>>
  <2>1. CASE thread' = Ends(t)
    BY <1>0, <2>1, EndsIdle
  <2>2. CASE Len(s) > 1 /\ thread' = [thread EXCEPT ![t].tests = Tail(s)]
    <3>1. s \in Seq(Algorithms) /\ old \in ThreadRec
      BY <1>0, <1>2 DEF ThreadRec
    <3>2. Tail(s) \in Seq(Algorithms) /\ Tail(s) # <<>>
      <4>1. s # <<>> /\ Len(s) \in Nat
        BY <2>2, <3>1
      <4>2. Tail(s) \in Seq(Algorithms)
        BY <3>1, <4>1
      <4>3. Len(Tail(s)) = Len(s) - 1
        BY <3>1, <4>1, HeadTailProperties, Zenon
      <4>4. PICK m, n : m = Len(s) /\ n = Len(Tail(s))
        OBVIOUS
      <4>5. m \in Nat /\ m > 1 /\ n = m - 1
        BY <2>2, <4>1, <4>3, <4>4, Zenon
      <4>6. n # 0
        BY <4>5
      <4>7. Len(Tail(s)) # 0
        BY <4>4, <4>6, Zenon
      <4>8. Tail(s) # <<>>
        BY <4>2, <4>7, EmptySeq
      <4> QED
        BY <4>2, <4>8
    <3>3. PICK r : r = [old EXCEPT !.tests = Tail(s)]
      OBVIOUS
    <3>4. r \in ThreadRec /\ r.tests = Tail(s) /\ r.pc = old.pc /\ r.newID = old.newID
      BY <3>1, <3>2, <3>3, SetTests
    <3>5. thread' = [thread EXCEPT ![t] = r]
      BY <1>2, <2>2, <3>3
    <3> QED
      BY <1>0, <1>2, <3>2, <3>4, <3>5, ThreadMoves
  <2> QED
    BY <1>2, <2>1, <2>2
<1>4. Ready(thread'[t]) /\ ~Reading(t)' /\ ~Adding(t)' /\ ~Adding(t)
  BY <1>3 DEF Ready, Reading, Adding, Computing, Putting
<1>5. ReaderStep(t)
  BY <1>1, <1>3, <1>4 DEF ReaderStep
<1> QED
  BY <1>2, <1>3, <1>4, <1>5

LEMMA RunOneTestKeeps ==
    ASSUME DaemonInv, NEW t \in Threads, RunOneTest(t)
    PROVE  DaemonInv'
<1> DEFINE tested(h, id, a) ==
        LET found == /\ HasCategory(h, id, FakeKeys[1])
                     /\ HasCategory(h, id, FakeKeys[2])
                     /\ HasCategory(h, id - 1, FakeKeys[3])
            key == <<a, id, FakeKeys[1]>>
            more == Len(thread[t].tests) > 1
        IN  \E changed \in {found, FALSE} :
            LET kept   == IF found THEN Kept(a, id, id, changed) ELSE svmModels
                list   == h.sets[id][FakeKeys[1]]
                learns == found /\ (key \in DOMAIN kept \/ list # {})
                fails  == found /\ ~learns
            IN  /\ svmModels' = IF learns THEN Learned(kept, key, list) ELSE kept
                /\ answer' = IF learns
                             THEN [window |-> StartAndEnd(h, id), category |-> FakeKeys[1],
                                   train |-> list, learned |-> svmModels'[key]]
                             ELSE answer
                /\ thread' = IF more /\ ~fails
                             THEN [thread EXCEPT ![t].tests = Tail(thread[t].tests)]
                             ELSE Ends(t)
<1>0. /\ thread[t].pc = "test" /\ tested(histogramData, thread[t].newID, Head(thread[t].tests))
      /\ UNCHANGED <<requests, histogramData, lock, cleared, raced>>
  BY Zenon DEF RunOneTest
<1> HIDE DEF tested
<1>1. PICK h, id, a : h = histogramData /\ id = thread[t].newID /\ a = Head(thread[t].tests)
  OBVIOUS
<1>2. tested(h, id, a)
  BY <1>0, <1>1
<1>3. PICK f1, f2, f3 : f1 = FakeKeys[1] /\ f2 = FakeKeys[2] /\ f3 = FakeKeys[3]
  OBVIOUS
<1> DEFINE found == HasCategory(h, id, f1) /\ HasCategory(h, id, f2) /\ HasCategory(h, id - 1, f3)
           key == <<a, id, f1>>
           more == Len(thread[t].tests) > 1
           kept(changed) == IF found THEN Kept(a, id, id, changed) ELSE svmModels
           list == h.sets[id][f1]
           learns(changed) == found /\ (key \in DOMAIN kept(changed) \/ list # {})
           fails(changed) == found /\ ~learns(changed)
<1>4. PICK changed :
          /\ svmModels' = IF learns(changed) THEN Learned(kept(changed), key, list) ELSE kept(changed)
          /\ answer' = IF learns(changed)
                       THEN [window |-> StartAndEnd(h, id), category |-> f1,
                             train |-> list, learned |-> svmModels'[key]]
                       ELSE answer
          /\ thread' = IF more /\ ~fails(changed)
                       THEN [thread EXCEPT ![t].tests = Tail(thread[t].tests)]
                       ELSE Ends(t)
  BY <1>2, <1>3, Zenon DEF tested
<1>5. /\ BaseInv /\ StoreInv /\ OrderInv /\ AnswerInv /\ GoodStore(h)
      /\ DOMAIN svmModels \subseteq Algorithms \X Nat \X Categories
  BY <1>1 DEF DaemonInv, StoreInv
<1>6. a \in Algorithms /\ f1 \in Categories
  <2>1. PICK s : s = thread[t].tests
    OBVIOUS
  <2>2. s \in Seq(Algorithms) /\ s # <<>>
    BY <1>0, <1>5, <2>1 DEF BaseInv, ThreadRec, Ready
  <2>3. Head(s) \in Algorithms
    BY <2>2
  <2> QED
    BY <1>1, <1>3, <2>1, <2>3, DaemonAssumption
<1>7. \A k \in DOMAIN kept(changed) : k \in DOMAIN svmModels /\ kept(changed)[k] = svmModels[k]
  BY DEF Kept, Without
<1>8. PICK ls, old : ls = list /\ old = kept(changed)
  OBVIOUS
<1>9. \/ svmModels' = old
      \/ found /\ svmModels' = Put(old, key, ls)
  BY <1>4, <1>8 DEF Learned
<1>10. found => key \in Algorithms \X Nat \X Categories
  <2>1. found => id \in Nat
    BY <1>5 DEF HasCategory, GoodStore
  <2> QED
    BY <1>6, <2>1
<1>11. DOMAIN svmModels' \subseteq Algorithms \X Nat \X Categories
  <2>1. CASE svmModels' = old
    BY <1>5, <1>7, <1>8, <2>1
  <2>2. CASE found /\ svmModels' = Put(old, key, ls)
    <3>1. DOMAIN svmModels' = DOMAIN old \cup {key}
      BY <2>2 DEF Put
    <3> QED
      BY <1>5, <1>7, <1>8, <1>10, <2>2, <3>1
  <2> QED
    BY <1>9, <2>1, <2>2
<1>12. ReaderStep(t) /\ ~Adding(t) /\ ~Adding(t)' /\ (thread'[t].pc = "test" => thread'[t].newID = id)
  <2>1. \/ thread' = Ends(t)
        \/ more /\ thread' = [thread EXCEPT ![t].tests = Tail(thread[t].tests)]
    BY <1>4
  <2> QED
    BY <1>0, <1>1, <2>1, TestMoves
<1>13. key[2] = id /\ key[3] = f1
  OBVIOUS
<1>14. ASSUME ~raced, ~cleared
       PROVE  ModelsRight' /\ id < h.next
  <2>1. id < h.next /\ ModelsRight
    BY <1>0, <1>1, <1>5, <1>14 DEF OrderInv
  <2>2. ASSUME NEW k \in DOMAIN svmModels'
        PROVE  Learning(k)
    <3>1. CASE k \in DOMAIN old /\ svmModels'[k] = old[k]
      BY <1>7, <1>8, <3>1 DEF Learning
    <3>2. CASE found /\ k = key /\ svmModels'[k] = ls
      <4>1. k \in Algorithms \X Nat \X Categories /\ k[2] = id /\ k[3] = f1
        BY <1>10, <1>13, <3>2
      <4>2. histogramData' = h /\ ls = h.sets[id][f1]
        BY <1>0, <1>1, <1>8
      <4> HIDE DEF key, found, list
      <4> QED
        BY <2>1, <3>2, <4>1, <4>2 DEF Learning
    <3> HIDE DEF key, found
    <3> QED
      BY <1>9, <2>2, <3>1, <3>2 DEF Put
  <2>3. Grown(h, h) /\ histogramData' = h
    BY <1>0, <1>1, <1>5 DEF GoodStore, Grown
  <2>4. ModelsRight'
    BY <1>1, <1>5, <2>1, <2>2, <2>3, ModelsStayRight
  <2> QED
    BY <2>1, <2>4
<1>15. AnswerInv'
  <2>1. CASE ~learns(changed)
    <3>1. answer' = answer
      BY <1>4, <2>1
    <3> QED
      BY <1>0, <1>5, <3>1 DEF AnswerInv
  <2>2. CASE learns(changed) /\ ~raced /\ ~cleared
    <3>1. PICK w, l : w = StartAndEnd(h, id) /\ l = svmModels'[key]
      OBVIOUS
    <3>2. answer' = [window |-> w, category |-> f1, train |-> ls, learned |-> l]
      BY <1>4, <1>8, <2>2, <3>1
    <3>3. answer'.window = w /\ answer'.category = f1 /\ answer'.learned = l
      BY <3>2
    <3>4. key \in DOMAIN svmModels'
      <4>1. svmModels' = Learned(kept(changed), key, list)
        BY <1>4, <2>2
      <4> QED
        BY <4>1 DEF Learned, Put
    <3>5. HasCategory(h, id, f1) /\ histogramData' = h
      BY <1>0, <1>1, <2>2
    <3>6. l = h.sets[id][f1]
      <4>1. ModelsRight'
        BY <1>14, <2>2
      <4> HIDE DEF key
      <4> QED
        BY <1>13, <3>1, <3>4, <3>5, <4>1 DEF ModelsRight
    <3>7. \A x \in h.sets[id][f1] :
             x.time \in StartAndEnd(h, id) /\ \A s \in x.sources : <<f1, s[2]>> \in Below
      BY <1>5, <3>5 DEF GoodStore, GoodSet, StartAndEnd, HasCategory
    <3> HIDE DEF key, learns
    <3> QED
      BY <3>1, <3>3, <3>6, <3>7 DEF AnswerInv
  <2>3. CASE raced \/ cleared
    BY <1>0, <2>3 DEF AnswerInv
  <2> QED
    BY <2>1, <2>2, <2>3
<1> HIDE DEF key, found, list, learns, kept, fails, more
<1> QED
  BY <1>0, <1>1, <1>11, <1>12, <1>14, <1>15, LookingKeeps

-----------------------------------------------------------------------------
LEMMA InitDaemon == Init => DaemonInv
<1> SUFFICES ASSUME Init PROVE DaemonInv
  OBVIOUS
<1>1. thread = [t \in Threads |-> Idle] /\ histogramData = NewStore /\ svmModels = <<>>
  BY DEF Init
<1>2. thread \in [Threads -> ThreadRec] /\ \A t \in Threads : thread[t].pc = "idle"
  BY <1>1, IdleRecord
<1>3. BaseInv
  <2>1. lock = [writer |-> NoThread, readers |-> {}] /\ requests = 0
    BY DEF Init
  <2>2. lock \in [writer : Threads \cup {NoThread}, readers : SUBSET Threads] /\ lock.writer = NoThread
    BY <2>1
  <2>3. requests \in 0 .. MaxRequests
    BY <2>1, DaemonAssumption
  <2> QED
    BY <1>2, <2>2, <2>3 DEF BaseInv, Ready
<1>4. DOMAIN svmModels = {}
  BY <1>1
<1>5. StoreInv /\ AskedInv
  BY <1>1, <1>2, <1>4, NewGood DEF StoreInv, AskedInv
<1>6. AnswerInv
  <2>1. answer.learned = {}
    BY DEF Init, NoAnswer
  <2> QED
    BY <2>1 DEF AnswerInv
<1>7. OrderInv
  <2>1. Vacant(histogramData) /\ Mapped(histogramData) /\ Bounded(histogramData)
    BY <1>1, NewGood DEF Vacant
  <2>2. \A t \in Threads : ~Adding(t) /\ InPlace(thread[t], histogramData)
    BY <1>2 DEF Adding, Computing, Putting, InPlace
  <2>3. ModelsRight
    BY <1>4 DEF ModelsRight
  <2> QED
    BY <1>2, <2>1, <2>2, <2>3 DEF OrderInv
<1> QED
  BY <1>3, <1>5, <1>6, <1>7 DEF DaemonInv

LEMMA NextDaemon == DaemonInv /\ [Next]_vars => DaemonInv'
<1> SUFFICES ASSUME DaemonInv, [Next]_vars PROVE DaemonInv'
  OBVIOUS
<1>1. ASSUME NEW t \in Threads, WriterStep(t)
      PROVE  DaemonInv'
  <2>1. BaseInv'
    BY <1>1, WriterFacts DEF DaemonInv
  <2> QED
    BY <1>1, <2>1, WriterKeeps DEF DaemonInv
<1>2. ASSUME NEW t \in Threads, GoesOn(t)
      PROVE  DaemonInv'
  <2>1. CASE ListEnds(t) \/ Answer(t)
    BY <2>1, LookersEnd
  <2>2. CASE CreateSet(t) \/ CreateValue(t) \/ CreateCategory(t) \/ SumCategories(t)
    BY <2>2, CreateSetKeeps, CreateValueKeeps, CreateCategoryKeeps, SumCategoriesKeeps
  <2>3. CASE \/ TakeID(t) \/ ReadNextID(t, "read", "write") \/ ReadNextID(t, "reread", "rewrite")
             \/ WriteNextID(t, "write", "remap") \/ WriteNextID(t, "rewrite", "next")
             \/ RememberID(t)
    BY <2>3, TakeKeeps, MoveOnKeeps, RememberKeeps
  <2>4. CASE NextID(t) \/ PutSet(t) \/ LastID(t) \/ RunOneTest(t)
    BY <2>4, NextIDKeeps, PutSetKeeps, LastIDKeeps, RunOneTestKeeps
  <2> QED
    BY <1>2, <2>1, <2>2, <2>3, <2>4 DEF GoesOn
<1>3. CASE UNCHANGED vars
  <2>1. /\ histogramData' = histogramData /\ svmModels' = svmModels /\ lock' = lock
        /\ thread' = thread /\ answer' = answer /\ requests' = requests
        /\ cleared' = cleared /\ raced' = raced
    BY <1>3 DEF vars
  <2>2. BaseInv'
    BY <2>1 DEF DaemonInv, BaseInv, Reading, Computing
  <2>3. StoreInv' /\ AskedInv' /\ AnswerInv'
    BY <2>1 DEF DaemonInv, StoreInv, AskedInv, AnswerInv
  <2>4. OrderInv'
    BY <2>1 DEF DaemonInv, OrderInv, ModelsRight, Filling, Adding, Computing, Putting
  <2> QED
    BY <2>2, <2>3, <2>4 DEF DaemonInv
<1>4. CASE Next
  BY <1>1, <1>2, <1>4, StartsKeeps DEF Next, WriterStep
<1> QED
  BY <1>3, <1>4

(* As long as no two requests have added sets at the same time, what is    *)
(* remembered is right, what is at the next id belongs to the one request  *)
(* at work or is empty, and until deleteAll models are of the sets at their*)
(* ids, in every behaviour of any number of threads, requests that take no *)
(* lock or leave it locked included.                                       *)
THEOREM InductiveInvariant == Spec => []DaemonInv
<1>1. Init => DaemonInv
  BY InitDaemon
<1>2. DaemonInv /\ [Next]_vars => DaemonInv'
  BY NextDaemon
<1> QED
  BY <1>1, <1>2, PTL DEF Spec

(* The store, the models and the lock have their types whatever races; and *)
(* when no request is adding a set and no two have at the same time, there *)
(* are only empty sets beyond the last id.                                 *)
THEOREM TypeCorrect == Spec => []TypeOK
<1>1. ASSUME DaemonInv PROVE TypeOK
  <2>1. BaseInv /\ StoreInv /\ OrderInv
    BY <1>1 DEF DaemonInv
  <2>2. GoodStore(histogramData)
    BY <2>1 DEF StoreInv
  <2>3. /\ histogramData.next \in Nat
        /\ histogramData.bare \subseteq DOMAIN histogramData.sets
        /\ \A id \in DOMAIN histogramData.sets :
              /\ id \in Nat
              /\ DOMAIN histogramData.sets[id] \subseteq Categories
              /\ \A c \in DOMAIN histogramData.sets[id] :
                    histogramData.sets[id][c] \subseteq Histogram
        /\ \A k \in DOMAIN histogramData.remap : histogramData.remap[k] \in Nat
    BY <2>2 DEF GoodStore, GoodSet
  <2>4. \A t \in Threads : thread[t].pc \in Steps /\ thread[t].category \in Categories
    BY <2>1 DEF BaseInv, ThreadRec
  <2>5. ASSUME ~raced, \A t \in Threads : ~Adding(t), NEW id \in DOMAIN histogramData.sets,
               id >= histogramData.next
        PROVE  \A c \in DOMAIN histogramData.sets[id] : histogramData.sets[id][c] = {}
    <3>1. \A t \in Threads : ~Filling(t)
      BY <2>5 DEF Filling, Adding, Computing, Putting
    <3>2. Vacant(histogramData) /\ Bounded(histogramData)
      BY <2>1, <2>5, <3>1 DEF OrderInv
    <3>3. id = histogramData.next
      BY <2>2, <2>5, <3>2 DEF GoodStore, Bounded
    <3> QED
      BY <3>2, <3>3 DEF Vacant
  <2> QED
    BY <2>1, <2>3, <2>4, <2>5 DEF TypeOK, BaseInv, StoreInv
<1> QED
  BY <1>1, InductiveInvariant, PTL

(* Until deleteAll, and as long as no two requests have added sets at the  *)
(* same time, a model for a set that is there was learned from the         *)
(* histograms the set has.                                                 *)
THEOREM ModelsMatchSets == Spec => []ModelMatchesData
<1>1. DaemonInv => ModelMatchesData
  BY DEF DaemonInv, OrderInv, ModelsRight, ModelMatchesData
<1> QED
  BY <1>1, InductiveInvariant, PTL

(* A remembered set that was not deleted has its category and its window,  *)
(* as long as no two requests have added sets at the same time.            *)
THEOREM RememberedSetsFit == Spec => []RemappedIsThere
<1>1. DaemonInv => RemappedIsThere
  BY DEF DaemonInv, OrderInv, Mapped, RemappedIsThere
<1> QED
  BY <1>1, InductiveInvariant, PTL

(* What a test uses was learned from histograms of the window and the      *)
(* categories it was asked to learn from, if there are any in the set it   *)
(* names, until deleteAll or until two requests have added sets at the     *)
(* same time.                                                              *)
THEOREM TestsLearnWhatIsAsked == Spec => []AnswersFitRequest
<1>1. DaemonInv => AnswersFitRequest
  BY DEF DaemonInv, AnswerInv, AnswersFitRequest
<1> QED
  BY <1>1, InductiveInvariant, PTL
=============================================================================
