------------------------ MODULE HistogramWindows_proofs ------------------------
(***************************************************************************)
(* For any rows in any order and any settings: the lists are in order, a   *)
(* histogram counts what is in its window, and all categories get the same *)
(* windows.  The argument is about the tuples between tail and head: they  *)
(* are the ones that have been counted, everything before the tail is too  *)
(* old and everything from the head on is not, because the slide never     *)
(* goes beyond the window.                                                 *)
(***************************************************************************)
EXTENDS HistogramWindows, FiniteSetTheorems, SequenceTheorems, TLAPS

Merging == pc \in {"pick", "slide"}

(* No tuple is later than the highest date seen in its category.           *)
SeenInv ==
    \A c \in Categories : \A i \in DOMAIN trainMap[c] :
        trainMap[c][i].time <= highestDateSeen[c]

(* Tuples of a type that have been counted.                                *)
Counted(m) == {i \in wasCounted : list[i].type = m}

WindowInv ==
    /\ list # <<>>
    /\ headIndex \in 1 .. Len(list) + 1
    /\ tailIndex \in 1 .. headIndex
    /\ \A i \in 1 .. headIndex - 1 : list[i].time < currentSecs + settings.window
    /\ \A i \in headIndex .. Len(list) : list[i].time >= currentSecs
    /\ \A i \in 1 .. tailIndex - 1 : list[i].time < currentSecs
    /\ wasCounted = tailIndex .. headIndex - 1
    /\ \A m \in Types : histogram[m] = Cardinality(Counted(m))

(* The windows of a category, one slide apart.                             *)
StartOfWindow(k) == Min(TimesSeen) + (k - 1) * settings.slide

RangesInv ==
    /\ \A c \in Categories : \A k \in DOMAIN data[c] :
          /\ data[c][k].time = StartOfWindow(k)
          /\ data[c][k].time + settings.window <= EndTime
    /\ \A c \in merged : ~(StartOfWindow(Len(data[c]) + 1) + settings.window <= EndTime)
    /\ pc = "slide" => mapKey \notin merged /\ currentSecs = StartOfWindow(Len(data[mapKey]) + 1)
    /\ \A c \in Categories \ merged : (pc = "slide" /\ c = mapKey) \/ data[c] = <<>>

IInv ==
    /\ TypeOK
    /\ SeenInv
    /\ ListsInOrder
    /\ Merging => settings.slide <= settings.window
    /\ pc \in {"read", "thrown"} => merged = {} /\ \A c \in Categories : data[c] = <<>>
    /\ pc = "slide" => WindowInv
    /\ HistogramsCount
    /\ OnlySlideThrows
    /\ pc \in {"pick", "slide", "done"} => RangesInv

-----------------------------------------------------------------------------
(* Library facts.                                                          *)

SmallerIn(S, z) == {y \in S : y < z}

(* A set of natural numbers that is not empty has a least element: its     *)
(* initial segments are finite sets, ordered by inclusion.                 *)
LEMMA MinNat ==
    ASSUME NEW S \in SUBSET Nat, S # {}
    PROVE  Min(S) \in S /\ \A y \in S : Min(S) <= y
<1>1. PICK x \in S : x \in Nat
  OBVIOUS
<1> DEFINE T == {SmallerIn(S, z) : z \in {w \in S : w <= x}}
           R == StrictSubsetOrdering(0 .. x)
<1>2. IsWellFoundedOn(R, SUBSET (0 .. x))
  <2>1. IsFiniteSet(0 .. x)
    BY <1>1, FS_Interval
  <2>2. FiniteSubsetsOf(0 .. x) = SUBSET (0 .. x)
    BY <2>1, FS_FiniteSubsetsOfFinite
  <2> QED
    BY <2>2, FS_StrictSubsetOrderingWellFounded
<1>3. T \subseteq SUBSET (0 .. x)
  <2>1. ASSUME NEW w \in S, w <= x, NEW y \in SmallerIn(S, w)
        PROVE  y \in 0 .. x
    BY <1>1, <2>1 DEF SmallerIn
  <2> QED
    BY <2>1
<1>4. SmallerIn(S, x) \in T
  BY <1>1
<1>5. PICK s \in T : \A r \in T : ~ (<<r, s>> \in R)
  <2> HIDE DEF T, R
  <2> QED
    BY <1>2, <1>3, <1>4, WFMin
<1>6. PICK z \in S : z <= x /\ s = SmallerIn(S, z)
  BY <1>5
<1>7. \A y \in S : z <= y
  <2> SUFFICES ASSUME NEW y \in S, y < z PROVE FALSE
    OBVIOUS
  <2>1. y <= x
    BY <1>1, <1>6
  <2>2. SmallerIn(S, y) \in T
    BY <2>1
  <2>3. <<SmallerIn(S, y), SmallerIn(S, z)>> \notin R
    BY <1>5, <1>6, <2>2
  <2>4. SmallerIn(S, y) \subseteq SmallerIn(S, z)
    <3>1. ASSUME NEW v \in S, v < y PROVE v < z
      BY <3>1
    <3> QED
      BY <3>1 DEF SmallerIn
  <2>5. y \in SmallerIn(S, z) /\ y \notin SmallerIn(S, y)
    BY DEF SmallerIn
  <2>6. SmallerIn(S, y) \in SUBSET (0 .. x) /\ SmallerIn(S, z) \in SUBSET (0 .. x)
    BY <1>3, <1>5, <1>6, <2>2
  <2> QED
    BY <2>3, <2>4, <2>5, <2>6 DEF StrictSubsetOrdering
<1> QED
  BY <1>7 DEF Min

(* What InsertAt does, index by index.                                     *)
LEMMA InsertAtIndexes ==
    ASSUME NEW s \in Seq(Tuple), NEW k \in 1 .. Len(s), NEW e \in Tuple
    PROVE  /\ InsertAt(s, k, e) \in Seq(Tuple)
           /\ Len(InsertAt(s, k, e)) = Len(s) + 1
           /\ \A j \in 1 .. Len(s) + 1 :
                 InsertAt(s, k, e)[j] = IF j < k THEN s[j] ELSE IF j = k THEN e ELSE s[j - 1]
<1> DEFINE front == SubSeq(s, 1, k - 1)
           back  == SubSeq(s, k, Len(s))
<1>1. front \in Seq(Tuple) /\ Len(front) = k - 1 /\ \A j \in 1 .. k - 1 : front[j] = s[j]
  OBVIOUS
<1>2. back \in Seq(Tuple) /\ Len(back) = Len(s) - k + 1
      /\ \A j \in 1 .. Len(s) - k + 1 : back[j] = s[k + j - 1]
  OBVIOUS
<1> DEFINE a == front \o <<e>>
<1>3. InsertAt(s, k, e) = a \o back
  BY DEF InsertAt
<1> HIDE DEF front, back
<1>4. a \in Seq(Tuple) /\ Len(a) = k /\ \A j \in 1 .. k : a[j] = IF j < k THEN s[j] ELSE e
  BY <1>1
<1> DEFINE c == a \o back
<1> HIDE DEF a
<1>5. /\ c \in Seq(Tuple)
      /\ Len(c) = Len(s) + 1
      /\ \A j \in 1 .. Len(s) + 1 : c[j] = IF j <= k THEN a[j] ELSE back[j - k]
  <2>1. Len(a \o back) = Len(a) + Len(back)
    BY <1>2, <1>4, ConcatProperties
  <2> QED
    BY <1>2, <1>4, <2>1, ConcatProperties
<1> HIDE DEF c
<1>6. ASSUME NEW j \in 1 .. Len(s) + 1
      PROVE  c[j] = IF j < k THEN s[j] ELSE IF j = k THEN e ELSE s[j - 1]
  <2>1. CASE j <= k
    BY <1>4, <1>5, <2>1
  <2>2. CASE j > k
    <3>1. j - k \in 1 .. Len(s) - k + 1 /\ k + (j - k) - 1 = j - 1
      BY <2>2
    <3>2. c[j] = back[j - k]
      BY <1>5, <2>2
    <3> QED
      BY <1>2, <2>2, <3>1, <3>2
  <2> QED
    BY <2>1, <2>2
<1> QED
  BY <1>3, <1>5, <1>6 DEF c

LEMMA TupleAt ==
    ASSUME NEW s \in Seq(Tuple), NEW i \in DOMAIN s
    PROVE  s[i] \in Tuple /\ s[i].time \in Nat /\ s[i].type \in Types
<1>1. s[i] \in Tuple
  OBVIOUS
<1> QED
  BY <1>1 DEF Tuple

(* A tuple inserted into a list in order leaves it in order, and not later *)
(* than it was.                                                            *)
LEMMA InsertedInOrder ==
    ASSUME NEW s \in Seq(Tuple), NEW e \in Tuple, InOrder(s)
    PROVE  /\ Inserted(s, e) \in Seq(Tuple)
           /\ InOrder(Inserted(s, e))
           /\ \A n \in Int : e.time <= n /\ (\A i \in DOMAIN s : s[i].time <= n)
                 => \A i \in DOMAIN Inserted(s, e) : Inserted(s, e)[i].time <= n
<1>1. CASE NotBefore(s, e.time) = {}
  BY <1>1 DEF Inserted
<1>2. CASE NotBefore(s, e.time) # {}
  <2> DEFINE k == Min(NotBefore(s, e.time))
             n == InsertAt(s, k, e)
  <2>1. Inserted(s, e) = n
    BY <1>2 DEF Inserted
  <2>2. k \in NotBefore(s, e.time) /\ \A i \in NotBefore(s, e.time) : k <= i
    <3>1. NotBefore(s, e.time) \in SUBSET Nat
      BY DEF NotBefore
    <3> QED
      BY <1>2, <3>1, MinNat
  <2> HIDE DEF k
  <2>3. k \in 1 .. Len(s) /\ s[k].time >= e.time
    BY <2>2 DEF NotBefore
  <2>4. \A i \in 1 .. k - 1 : s[i].time < e.time
    <3> SUFFICES ASSUME NEW i \in 1 .. k - 1 PROVE s[i].time < e.time
      OBVIOUS
    <3>1. i \in DOMAIN s /\ e.time \in Nat
      BY <2>3 DEF Tuple
    <3>2. s[i].time \in Nat
      BY <3>1, TupleAt
    <3> QED
      BY <2>2, <3>1, <3>2, <2>3 DEF NotBefore
  <2>5. /\ n \in Seq(Tuple)
        /\ Len(n) = Len(s) + 1
        /\ \A j \in 1 .. Len(s) + 1 :
              n[j] = IF j < k THEN s[j] ELSE IF j = k THEN e ELSE s[j - 1]
    <3> HIDE DEF n
    <3>1. n = InsertAt(s, k, e)
      BY DEF n
    <3> QED
      BY <2>3, <3>1, InsertAtIndexes
  <2> HIDE DEF n
  <2>6. \A i \in 1 .. Len(s) : s[i].time \in Nat
    BY TupleAt
  <2>7. \A i, j \in 1 .. Len(s) : i <= j => s[i].time <= s[j].time
    BY <2>6 DEF InOrder
  <2>8. ASSUME NEW i \in DOMAIN n, NEW j \in DOMAIN n, i < j
        PROVE  n[i].time <= n[j].time
    <3>1. i \in 1 .. Len(s) + 1 /\ j \in 1 .. Len(s) + 1 /\ e.time \in Nat
      BY <2>5 DEF Tuple
    <3>2. CASE j < k
      <4>1. n[i] = s[i] /\ n[j] = s[j] /\ i \in 1 .. Len(s) /\ j \in 1 .. Len(s) /\ i <= j
        BY <3>1, <3>2, <2>3, <2>5, <2>8
      <4> QED
        BY <4>1, <2>7
    <3>3. CASE j = k
      <4>1. n[i] = s[i] /\ n[j] = e /\ i \in 1 .. k - 1
        BY <3>1, <3>3, <2>3, <2>5, <2>8
      <4> QED
        BY <4>1, <3>1, <2>3, <2>4, <2>6
    <3>4. CASE j > k /\ i < k
      <4>1. n[i] = s[i] /\ n[j] = s[j - 1]
            /\ i \in 1 .. Len(s) /\ j - 1 \in 1 .. Len(s) /\ i <= j - 1
        BY <3>1, <3>4, <2>3, <2>5
      <4> QED
        BY <4>1, <2>7
    <3>5. CASE j > k /\ i = k
      <4>1. n[i] = e /\ n[j] = s[j - 1] /\ j - 1 \in 1 .. Len(s) /\ k <= j - 1
        BY <3>1, <3>5, <2>3, <2>5
      <4>2. s[k].time <= s[j - 1].time
        BY <4>1, <2>3, <2>7
      <4> QED
        BY <4>1, <4>2, <3>1, <2>3, <2>6
    <3>6. CASE i > k
      <4>1. n[i] = s[i - 1] /\ n[j] = s[j - 1]
            /\ i - 1 \in 1 .. Len(s) /\ j - 1 \in 1 .. Len(s) /\ i - 1 <= j - 1
        BY <3>1, <3>6, <2>3, <2>5, <2>8
      <4> QED
        BY <4>1, <2>7
    <3> QED
      BY <3>1, <3>2, <3>3, <3>4, <3>5, <3>6, <2>3, <2>8
  <2>9. ASSUME NEW m \in Int, e.time <= m, \A i \in DOMAIN s : s[i].time <= m, NEW i \in DOMAIN n
        PROVE  n[i].time <= m
    <3>1. i \in 1 .. Len(s) + 1
      BY <2>5
    <3>2. CASE i < k
      BY <3>1, <3>2, <2>3, <2>5, <2>9, SMTT(30)
    <3>3. CASE i = k
      BY <3>1, <3>3, <2>3, <2>5, <2>9
    <3>4. CASE i > k
      <4>1. n[i] = s[i - 1] /\ i - 1 \in DOMAIN s
        BY <3>1, <3>4, <2>3, <2>5
      <4> QED
        BY <4>1, <2>9
    <3> QED
      BY <3>1, <3>2, <3>3, <3>4, <2>3
  <2> QED
    BY <2>1, <2>5, <2>8, <2>9 DEF InOrder
<1> QED
  BY <1>1, <1>2

(* A later tuple at the end.                                               *)
LEMMA AppendedInOrder ==
    ASSUME NEW s \in Seq(Tuple), NEW e \in Tuple, InOrder(s), NEW h \in Int,
           \A i \in DOMAIN s : s[i].time <= h, e.time > h
    PROVE  /\ Append(s, e) \in Seq(Tuple)
           /\ InOrder(Append(s, e))
           /\ \A i \in DOMAIN Append(s, e) : Append(s, e)[i].time <= e.time
<1>1. /\ Append(s, e) \in Seq(Tuple)
      /\ DOMAIN Append(s, e) = 1 .. Len(s) + 1
      /\ \A i \in 1 .. Len(s) : Append(s, e)[i] = s[i]
      /\ Append(s, e)[Len(s) + 1] = e
  OBVIOUS
<1>2. e.time \in Nat
  BY DEF Tuple
<1>3. \A i \in 1 .. Len(s) : s[i].time \in Nat /\ s[i].time < e.time
  BY <1>2, TupleAt
<1> QED
  BY <1>1, <1>2, <1>3 DEF InOrder

-----------------------------------------------------------------------------
(* The steps.                                                              *)

LEMMA ListTypes ==
    ASSUME TypeOK, NEW c \in Categories
    PROVE  trainMap[c] \in Seq(Tuple) /\ Len(trainMap[c]) \in Nat
BY DEF TypeOK

LEMMA Numbers ==
    ASSUME TypeOK
    PROVE  /\ settings.window \in Nat /\ settings.slide \in Nat /\ currentSecs \in Nat
           /\ headIndex \in Nat /\ tailIndex \in Nat
           /\ mapKey \in Categories /\ list \in Seq(Tuple) /\ Len(list) \in Nat
           /\ \A i \in 1 .. Len(list) : list[i].time \in Nat /\ list[i].type \in Types
<1>1. mapKey \in Categories /\ list \in Seq(Tuple)
  BY DEF TypeOK, list
<1>2. \A i \in 1 .. Len(list) : list[i].time \in Nat /\ list[i].type \in Types
  BY <1>1, TupleAt
<1> QED
  BY <1>1, <1>2 DEF TypeOK

LEMMA TimesAreNumbers ==
    ASSUME TypeOK
    PROVE  TimesSeen \in SUBSET Nat
<1>1. ASSUME NEW c \in Categories, NEW i \in DOMAIN trainMap[c]
      PROVE  trainMap[c][i].time \in Nat
  BY ListTypes, TupleAt
<1> QED
  BY <1>1 DEF TimesSeen

(* The merge changes no list.                                              *)
LEMMA SameLists ==
    ASSUME IInv, UNCHANGED <<input, lists>>
    PROVE  /\ TimesSeen' = TimesSeen /\ EndTime' = EndTime
           /\ \A k \in Nat : StartOfWindow(k)' = StartOfWindow(k)
           /\ SeenInv' /\ ListsInOrder'
           /\ UNCHANGED <<selection, settings, read, trainMap, highestDateSeen>>
<1>1. UNCHANGED <<selection, settings, read, trainMap, highestDateSeen>>
  BY DEF input, lists
<1>2. TimesSeen' = TimesSeen
  BY <1>1 DEF TimesSeen
<1> QED
  BY <1>1, <1>2 DEF EndTime, StartOfWindow, IInv, SeenInv, ListsInOrder

LEMMA SameCounts ==
    ASSUME HistogramsCount, UNCHANGED <<settings, trainMap, data>>
    PROVE  HistogramsCount'
BY DEF HistogramsCount, InWindow

LEMMA InitInv ==
    ASSUME Init
    PROVE  IInv
<1>1. TypeOK
  <2>1. selection \in Seq(Row) /\ settings \in [window : Nat, slide : Nat]
    BY WindowsAssumption DEF Init
  <2>2. trainMap \in [Categories -> Seq(Tuple)]
    BY DEF Init
  <2>3. data \in [Categories -> Seq([time : Nat, histogram : [Types -> Int]])]
    BY DEF Init
  <2> QED
    BY <2>1, <2>2, <2>3 DEF Init, TypeOK, Empty
<1>2. SeenInv /\ ListsInOrder
  BY DEF Init, SeenInv, ListsInOrder, InOrder
<1>3. HistogramsCount
  BY DEF Init, HistogramsCount
<1> QED
  BY <1>1, <1>2, <1>3 DEF Init, IInv, Merging, OnlySlideThrows

LEMMA ReadRowInv ==
    ASSUME IInv, ReadRow
    PROVE  IInv'
<1> DEFINE row   == selection[read + 1]
           c     == row.category
           tuple == [time |-> row.time, type |-> row.type]
<1>1. row \in Row /\ c \in Categories /\ tuple \in Tuple
  <2>1. row \in Row
    BY ElementOfSeq DEF ReadRow, IInv, TypeOK
  <2> QED
    BY <2>1 DEF Row, Tuple
<1>2. trainMap[c] \in Seq(Tuple) /\ InOrder(trainMap[c]) /\ highestDateSeen[c] \in Int
      /\ \A i \in DOMAIN trainMap[c] : trainMap[c][i].time <= highestDateSeen[c]
  BY <1>1 DEF IInv, TypeOK, ListsInOrder, SeenInv
<1>3. tuple.time = row.time /\ row.time \in Nat
  BY <1>1 DEF Row
<1> HIDE DEF row, c, tuple
<1>4. /\ trainMap' \in [Categories -> Seq(Tuple)] /\ highestDateSeen' \in [Categories -> Int]
      /\ SeenInv' /\ ListsInOrder'
  <2>1. CASE row.time > highestDateSeen[c]
    <3>1. /\ trainMap' = [trainMap EXCEPT ![c] = Append(@, tuple)]
          /\ highestDateSeen' = [highestDateSeen EXCEPT ![c] = row.time]
      BY <2>1 DEF ReadRow, Seen, row, c, tuple
    <3>2. /\ Append(trainMap[c], tuple) \in Seq(Tuple)
          /\ InOrder(Append(trainMap[c], tuple))
          /\ \A i \in DOMAIN Append(trainMap[c], tuple) :
                Append(trainMap[c], tuple)[i].time <= tuple.time
      BY <1>1, <1>2, <1>3, <2>1, AppendedInOrder
    <3> DEFINE new == Append(trainMap[c], tuple)
    <3> HIDE DEF new
    <3>3. /\ trainMap' = [trainMap EXCEPT ![c] = new]
          /\ new \in Seq(Tuple) /\ InOrder(new)
          /\ \A i \in DOMAIN new : new[i].time <= row.time
      BY <1>1, <1>3, <3>1, <3>2 DEF new, IInv, TypeOK
    <3>4. /\ trainMap' \in [Categories -> Seq(Tuple)]
          /\ highestDateSeen' \in [Categories -> Int]
          /\ trainMap'[c] = new /\ highestDateSeen'[c] = row.time
          /\ \A d \in Categories \ {c} :
                trainMap'[d] = trainMap[d] /\ highestDateSeen'[d] = highestDateSeen[d]
      BY <1>1, <1>3, <3>1, <3>3, SMTT(30) DEF IInv, TypeOK
    <3>5. ASSUME NEW d \in Categories
          PROVE  InOrder(trainMap'[d]) /\ \A i \in DOMAIN trainMap'[d] :
                    trainMap'[d][i].time <= highestDateSeen'[d]
      <4>1. CASE d = c
        BY <4>1, <3>3, <3>4
      <4>2. CASE d # c
        BY <4>2, <3>4 DEF IInv, SeenInv, ListsInOrder
      <4> QED
        BY <4>1, <4>2
    <3> QED
      BY <3>4, <3>5 DEF SeenInv, ListsInOrder, InOrder
  <2>2. CASE ~(row.time > highestDateSeen[c])
    <3>1. /\ trainMap' = [trainMap EXCEPT ![c] = Inserted(@, tuple)]
          /\ highestDateSeen' = highestDateSeen
      BY <2>2 DEF ReadRow, row, c, tuple
    <3> DEFINE new == Inserted(trainMap[c], tuple)
    <3> HIDE DEF new
    <3>2. new \in Seq(Tuple) /\ InOrder(new)
      BY <1>1, <1>2, InsertedInOrder DEF new
    <3>3. \A i \in DOMAIN new : new[i].time <= highestDateSeen[c]
      <4>1. tuple.time <= highestDateSeen[c]
        BY <1>2, <1>3, <2>2
      <4> QED
        BY <1>1, <1>2, <4>1, InsertedInOrder DEF new
    <3>4. trainMap' = [trainMap EXCEPT ![c] = new]
      BY <1>1, <3>1 DEF new, IInv, TypeOK
    <3> QED
      BY <1>1, <3>1, <3>2, <3>3, <3>4 DEF IInv, TypeOK, SeenInv, ListsInOrder
  <2> QED
    BY <2>1, <2>2
<1>5. UNCHANGED <<selection, settings, pc, mapKey, merged, currentSecs, headIndex, tailIndex,
                  wasCounted, histogram, data>> /\ pc = "read" /\ read' \in 0 .. Len(selection)
  BY DEF ReadRow, input, window, IInv, TypeOK
<1>6. TypeOK'
  BY <1>4, <1>5 DEF IInv, TypeOK
<1>7. HistogramsCount'
  BY <1>5 DEF IInv, HistogramsCount
<1> QED
  BY <1>4, <1>5, <1>6, <1>7 DEF IInv, Merging, OnlySlideThrows

LEMMA BeginMergeInv ==
    ASSUME IInv, BeginMerge
    PROVE  IInv'
<1>1. /\ UNCHANGED <<input, lists>>
      /\ UNCHANGED <<selection, settings, mapKey, merged, currentSecs, headIndex, tailIndex,
                     wasCounted, histogram, data>>
      /\ pc = "read" /\ pc' \in {"done", "thrown", "pick"}
      /\ pc' = "thrown" => settings.slide > settings.window
      /\ pc' = "pick" => ~(settings.slide > settings.window)
  BY DEF BeginMerge, input, window
<1>2. TypeOK' /\ SeenInv' /\ ListsInOrder' /\ HistogramsCount'
  BY <1>1, SameLists, SameCounts DEF IInv, TypeOK
<1>3. pc' = "pick" => settings.slide <= settings.window
  BY <1>1 DEF IInv, TypeOK
<1>4. RangesInv'
  <2>1. merged' = {} /\ \A c \in Categories : data'[c] = <<>>
    BY <1>1 DEF IInv
  <2> QED
    BY <1>1, <2>1 DEF RangesInv
<1> QED
  BY <1>1, <1>2, <1>3, <1>4 DEF IInv, Merging, OnlySlideThrows

LEMMA PickCategoryInv ==
    ASSUME IInv, PickCategory
    PROVE  IInv'
<1>1. PICK c \in Categories \ merged :
         trainMap[c] # <<>> /\ mapKey' = c /\ currentSecs' = Min(TimesSeen)
  BY DEF PickCategory, StartTime
<1>2. /\ UNCHANGED <<input, lists>> /\ pc = "pick" /\ pc' = "slide"
      /\ headIndex' = 1 /\ tailIndex' = 1 /\ wasCounted' = {} /\ histogram' = Empty
      /\ UNCHANGED <<selection, settings, read, trainMap, highestDateSeen, merged, data>>
  BY DEF PickCategory, input, lists
<1>3. list' = trainMap[c] /\ list' \in Seq(Tuple) /\ Len(list') \in Nat /\ Len(list') > 0
  BY <1>1, <1>2, ListTypes DEF IInv, list
<1>4. \A i \in 1 .. Len(list') : list'[i].time \in TimesSeen
  BY <1>3 DEF TimesSeen
<1>5. Min(TimesSeen) \in Nat /\ \A y \in TimesSeen : Min(TimesSeen) <= y
  <2>1. TimesSeen # {}
    BY <1>3, <1>4
  <2> QED
    BY <2>1, TimesAreNumbers, MinNat DEF IInv
<1>6. TypeOK' /\ SeenInv' /\ ListsInOrder' /\ HistogramsCount'
  <2>1. TypeOK'
    <3>1. currentSecs' \in Nat /\ mapKey' \in Categories
      BY <1>1, <1>5
    <3>2. histogram' \in [Types -> Int] /\ headIndex' \in Nat \ {0} /\ tailIndex' \in Nat \ {0}
      BY <1>2 DEF Empty
    <3> QED
      BY <1>2, <3>1, <3>2, SameLists DEF IInv, TypeOK
  <2> QED
    BY <1>2, <2>1, SameLists, SameCounts DEF IInv
<1>7. WindowInv'
  <2>1. \A i \in 1 .. Len(list') : list'[i].time >= currentSecs'
    BY <1>1, <1>4, <1>5, TimesAreNumbers DEF IInv
  <2>2. ASSUME NEW m \in Types PROVE histogram'[m] = Cardinality(Counted(m)')
    <3>1. Counted(m)' = {}
      BY <1>2 DEF Counted
    <3> QED
      BY <1>2, <3>1, FS_EmptySet DEF Empty
  <2> QED
    BY <1>2, <1>3, <2>1, <2>2 DEF WindowInv
<1>8. RangesInv'
  <2>1. data[c] = <<>> /\ RangesInv
    BY <1>1, <1>2 DEF IInv, RangesInv
  <2>2. currentSecs' = StartOfWindow(Len(data[c]) + 1)
    BY <1>1, <1>2, <1>5, <2>1 DEF StartOfWindow, IInv, TypeOK
  <2>3. TimesSeen' = TimesSeen /\ EndTime' = EndTime
    BY <1>2, SameLists
  <2> QED
    BY <1>1, <1>2, <2>1, <2>2, <2>3 DEF RangesInv, StartOfWindow
<1> QED
  BY <1>2, <1>6, <1>7, <1>8 DEF IInv, Merging, OnlySlideThrows

LEMMA EndMergeInv ==
    ASSUME IInv, EndMerge
    PROVE  IInv'
<1>1. /\ UNCHANGED <<input, lists>> /\ pc = "pick" /\ pc' = "done"
      /\ UNCHANGED <<selection, settings, read, trainMap, highestDateSeen, mapKey, merged,
                     currentSecs, headIndex, tailIndex, wasCounted, histogram, data>>
  BY DEF EndMerge, input, lists, window
<1>2. TypeOK' /\ SeenInv' /\ ListsInOrder' /\ HistogramsCount'
  BY <1>1, SameLists, SameCounts DEF IInv, TypeOK
<1>3. RangesInv'
  <2>1. TimesSeen' = TimesSeen /\ EndTime' = EndTime /\ RangesInv
    BY <1>1, SameLists DEF IInv
  <2> QED
    BY <1>1, <2>1 DEF RangesInv, StartOfWindow
<1> QED
  BY <1>1, <1>2, <1>3 DEF IInv, Merging, OnlySlideThrows

LEMMA EndCategoryInv ==
    ASSUME IInv, EndCategory
    PROVE  IInv'
<1>1. /\ UNCHANGED <<input, lists>> /\ pc = "slide" /\ pc' = "pick" /\ ~Fits
      /\ merged' = merged \cup {mapKey}
      /\ UNCHANGED <<selection, settings, read, trainMap, highestDateSeen, mapKey,
                     currentSecs, headIndex, tailIndex, wasCounted, histogram, data>>
  BY DEF EndCategory, input, lists, window
<1>2. TypeOK' /\ SeenInv' /\ ListsInOrder' /\ HistogramsCount'
  BY <1>1, SameLists, SameCounts DEF IInv, TypeOK
<1>3. RangesInv'
  <2>1. TimesSeen' = TimesSeen /\ EndTime' = EndTime /\ RangesInv
    BY <1>1, SameLists DEF IInv
  <2>2. ~(StartOfWindow(Len(data[mapKey]) + 1) + settings.window <= EndTime)
    BY <1>1, <2>1 DEF RangesInv, Fits
  <2> QED
    BY <1>1, <2>1, <2>2 DEF RangesInv, StartOfWindow
<1> QED
  BY <1>1, <1>2, <1>3 DEF IInv, Merging, OnlySlideThrows

(* Steps of the head and the tail change no histogram that was added.      *)
LEMMA SlideStep ==
    ASSUME IInv, pc = "slide", UNCHANGED <<input, lists, pc, mapKey, merged, currentSecs, data>>,
           headIndex' \in Nat \ {0}, tailIndex' \in Nat \ {0},
           wasCounted' \subseteq Nat, histogram' \in [Types -> Int], WindowInv'
    PROVE  IInv'
<1>1. UNCHANGED <<selection, settings, read, trainMap, highestDateSeen, pc, mapKey, merged,
                  currentSecs, data>>
  BY DEF input, lists
<1>2. TypeOK' /\ SeenInv' /\ ListsInOrder' /\ HistogramsCount'
  BY <1>1, SameLists, SameCounts DEF IInv, TypeOK
<1>3. RangesInv'
  <2>1. TimesSeen' = TimesSeen /\ EndTime' = EndTime /\ RangesInv
    BY <1>1, SameLists DEF IInv
  <2> QED
    BY <1>1, <2>1 DEF RangesInv, StartOfWindow
<1> QED
  BY <1>1, <1>2, <1>3 DEF IInv, Merging, OnlySlideThrows

LEMMA AddHeadInv ==
    ASSUME IInv, AddHead
    PROVE  IInv'
<1>1. WindowInv /\ pc = "slide" /\ headIndex <= Len(list)
  BY DEF AddHead, HeadEnters, IInv
<1>2. /\ list[headIndex].time < currentSecs + settings.window
      /\ list[headIndex].time >= currentSecs
  BY <1>1, Numbers DEF AddHead, HeadEnters, WindowInv, IInv
<1> DEFINE type == list[headIndex].type
<1>3. /\ UNCHANGED <<input, lists, pc, mapKey, merged, currentSecs, tailIndex, data>>
      /\ histogram' = [histogram EXCEPT ![type] = @ + 1]
      /\ wasCounted' = wasCounted \cup {headIndex}
      /\ headIndex' = headIndex + 1
  BY <1>2 DEF AddHead
<1>4. UNCHANGED settings /\ list' = list
  BY <1>3 DEF input, lists, list
<1>5. type \in Types /\ histogram \in [Types -> Int] /\ headIndex \in Nat \ {0}
  <2>1. histogram \in [Types -> Int] /\ headIndex \in Nat \ {0}
    BY DEF IInv, TypeOK
  <2>2. headIndex \in 1 .. Len(list)
    BY <1>1, <2>1, Numbers DEF IInv
  <2> QED
    BY <2>1, <2>2, Numbers DEF IInv
<1>6. /\ headIndex' \in 1 .. Len(list) + 1 /\ tailIndex \in 1 .. headIndex'
      /\ \A i \in 1 .. headIndex' - 1 : list[i].time < currentSecs + settings.window
      /\ \A i \in headIndex' .. Len(list) : list[i].time >= currentSecs
      /\ \A i \in 1 .. tailIndex - 1 : list[i].time < currentSecs
      /\ wasCounted' = tailIndex .. headIndex' - 1
  <2>1. Len(list) \in Nat /\ headIndex \in 1 .. Len(list) /\ tailIndex \in 1 .. headIndex
    BY <1>1, Numbers DEF WindowInv, IInv
  <2>2. wasCounted = tailIndex .. headIndex - 1
    BY <1>1 DEF WindowInv
  <2>3. \A i \in 1 .. headIndex : list[i].time < currentSecs + settings.window
    <3>1. \A i \in 1 .. headIndex : i \in 1 .. headIndex - 1 \/ i = headIndex
      BY <2>1
    <3> QED
      BY <1>1, <1>2, <3>1 DEF WindowInv
  <2>4. \A i \in headIndex + 1 .. Len(list) : list[i].time >= currentSecs
    <3>1. \A i \in headIndex + 1 .. Len(list) : i \in headIndex .. Len(list)
      BY <2>1
    <3> QED
      BY <1>1, <3>1 DEF WindowInv
  <2>5. headIndex' - 1 = headIndex
    BY <1>3, <2>1
  <2>6. \A i \in 1 .. tailIndex - 1 : list[i].time < currentSecs
    BY <1>1 DEF WindowInv
  <2> QED
    BY <1>3, <2>1, <2>2, <2>3, <2>4, <2>5, <2>6
<1>7. ASSUME NEW m \in Types PROVE histogram'[m] = Cardinality(Counted(m)')
  <2>1. IsFiniteSet(Counted(m)) /\ headIndex \notin Counted(m)
    <3>1. IsFiniteSet(tailIndex .. headIndex - 1) /\ headIndex \notin tailIndex .. headIndex - 1
      BY <1>5, Numbers, FS_Interval DEF IInv
    <3>2. Counted(m) \subseteq tailIndex .. headIndex - 1
      BY <1>1 DEF Counted, WindowInv
    <3> QED
      BY <3>1, <3>2, FS_Subset
  <2>2. histogram[m] = Cardinality(Counted(m))
    BY <1>1 DEF WindowInv
  <2>3. CASE m = type
    <3>1. Counted(m)' = Counted(m) \cup {headIndex}
      BY <1>3, <1>4, <2>3 DEF Counted
    <3>2. histogram'[m] = histogram[m] + 1
      BY <1>3, <1>5, <2>3
    <3>3. Cardinality(Counted(m) \cup {headIndex}) = Cardinality(Counted(m)) + 1
      BY <2>1, FS_AddElement
    <3> QED
      BY <2>2, <3>1, <3>2, <3>3
  <2>4. CASE m # type
    <3>1. Counted(m)' = Counted(m)
      BY <1>3, <1>4, <2>4 DEF Counted
    <3>2. histogram'[m] = histogram[m]
      BY <1>3, <1>5, <2>4
    <3> QED
      BY <2>2, <3>1, <3>2
  <2> QED
    BY <2>3, <2>4
<1>8. WindowInv'
  BY <1>1, <1>3, <1>4, <1>6, <1>7 DEF WindowInv
<1>9. histogram' \in [Types -> Int] /\ headIndex' \in Nat \ {0} /\ wasCounted' \subseteq Nat
      /\ tailIndex' \in Nat \ {0}
  BY <1>3, <1>5 DEF IInv, TypeOK
<1> QED
  BY <1>1, <1>3, <1>8, <1>9, SlideStep

LEMMA DropTailInv ==
    ASSUME IInv, DropTail
    PROVE  IInv'
<1>1. /\ WindowInv /\ pc = "slide"
      /\ tailIndex \in 1 .. Len(list) /\ list[tailIndex].time < currentSecs
  BY Numbers DEF DropTail, TailLeaves, IInv, TypeOK
<1>2. Len(list) \in Nat /\ headIndex \in 1 .. Len(list) + 1 /\ tailIndex \in 1 .. headIndex
      /\ wasCounted = tailIndex .. headIndex - 1
  BY <1>1, Numbers DEF WindowInv, IInv
<1>3. tailIndex < headIndex /\ tailIndex \in wasCounted
  <2>1. CASE tailIndex >= headIndex
    <3>1. tailIndex \in headIndex .. Len(list)
      BY <1>1, <1>2, <2>1
    <3>2. list[tailIndex].time >= currentSecs
      BY <1>1, <3>1 DEF WindowInv
    <3> QED
      BY <1>1, <3>2, Numbers DEF IInv
  <2> QED
    BY <1>2, <2>1
<1> DEFINE type == list[tailIndex].type
<1>4. /\ UNCHANGED <<input, lists, pc, mapKey, merged, currentSecs, headIndex, data>>
      /\ histogram' = [histogram EXCEPT ![type] = @ - 1]
      /\ wasCounted' = wasCounted \ {tailIndex}
      /\ tailIndex' = tailIndex + 1
  BY <1>3 DEF DropTail
<1>5. UNCHANGED settings /\ list' = list
  BY <1>4 DEF input, lists, list
<1>6. type \in Types /\ histogram \in [Types -> Int]
  BY <1>1, Numbers DEF IInv, TypeOK
<1>7. /\ tailIndex' \in 1 .. headIndex
      /\ wasCounted' = tailIndex' .. headIndex - 1
  BY <1>2, <1>3, <1>4
<1>8. \A i \in 1 .. tailIndex' - 1 : list[i].time < currentSecs
  <2>1. \A i \in 1 .. tailIndex' - 1 : i \in 1 .. tailIndex - 1 \/ i = tailIndex
    BY <1>2, <1>4
  <2> QED
    BY <1>1, <2>1 DEF WindowInv
<1>9. ASSUME NEW m \in Types PROVE histogram'[m] = Cardinality(Counted(m)')
  <2>1. IsFiniteSet(Counted(m))
    <3>1. IsFiniteSet(tailIndex .. headIndex - 1)
      BY <1>2, FS_Interval
    <3>2. Counted(m) \subseteq tailIndex .. headIndex - 1
      BY <1>2 DEF Counted
    <3> QED
      BY <3>1, <3>2, FS_Subset
  <2>2. CASE m = type
    <3>1. Counted(m)' = Counted(m) \ {tailIndex} /\ tailIndex \in Counted(m)
      BY <1>3, <1>4, <1>5, <2>2 DEF Counted
    <3> QED
      BY <1>1, <1>4, <1>6, <2>1, <2>2, <3>1, FS_RemoveElement DEF WindowInv
  <2>3. CASE m # type
    <3>1. Counted(m)' = Counted(m)
      BY <1>4, <1>5, <2>3 DEF Counted
    <3> QED
      BY <1>1, <1>4, <1>6, <2>3, <3>1 DEF WindowInv
  <2> QED
    BY <2>2, <2>3
<1>10. WindowInv'
  BY <1>1, <1>2, <1>4, <1>5, <1>7, <1>8, <1>9 DEF WindowInv
<1>11. histogram' \in [Types -> Int] /\ headIndex' \in Nat \ {0} /\ wasCounted' \subseteq Nat
       /\ tailIndex' \in Nat \ {0}
  <2>1. histogram' \in [Types -> Int]
    BY <1>4, <1>6
  <2>2. headIndex' \in Nat \ {0} /\ wasCounted' \subseteq Nat
    BY <1>4 DEF IInv, TypeOK
  <2>3. tailIndex' \in Nat \ {0}
    BY <1>2, <1>4
  <2> QED
    BY <2>1, <2>2, <2>3
<1> QED
  BY <1>1, <1>4, <1>10, <1>11, SlideStep

(* Between tail and head is what is in the window.                         *)
LEMMA CountedInWindow ==
    ASSUME IInv, pc = "slide", ~HeadEnters, ~TailLeaves, NEW m \in Types
    PROVE  Counted(m) = InWindow(list, m, currentSecs)
<1>1. WindowInv /\ InOrder(list)
  BY Numbers DEF IInv, ListsInOrder, list
<1> DEFINE w == currentSecs + settings.window
<1>2. /\ Len(list) \in Nat /\ headIndex \in 1 .. Len(list) + 1 /\ tailIndex \in 1 .. headIndex
      /\ currentSecs \in Nat /\ w \in Nat
      /\ \A i \in 1 .. Len(list) : list[i].time \in Nat
      /\ DOMAIN list = 1 .. Len(list)
  BY <1>1, Numbers DEF WindowInv, IInv
<1>3. ASSUME NEW i \in headIndex .. Len(list) PROVE ~(list[i].time < w)
  <2>1. headIndex \in 1 .. Len(list) /\ i \in 1 .. Len(list)
    BY <1>2
  <2>2. ~(list[headIndex].time < w)
    BY <2>1 DEF HeadEnters
  <2>3. list[headIndex].time <= list[i].time
    BY <1>1, <1>2, <2>1 DEF InOrder
  <2> QED
    BY <1>2, <2>1, <2>2, <2>3
<1>4. ASSUME NEW i \in tailIndex .. headIndex - 1 PROVE currentSecs <= list[i].time
  <2>1. tailIndex \in 1 .. Len(list) /\ i \in 1 .. Len(list)
    BY <1>2
  <2>2. ~(list[tailIndex].time < currentSecs)
    BY <2>1 DEF TailLeaves
  <2>3. list[tailIndex].time <= list[i].time
    BY <1>1, <1>2, <2>1, SMTT(30) DEF InOrder
  <2> QED
    BY <1>2, <2>1, <2>2, <2>3
<1>5. \A i \in tailIndex .. headIndex - 1 : i \in 1 .. Len(list) /\ list[i].time < w
  <2>1. \A i \in tailIndex .. headIndex - 1 : i \in 1 .. Len(list) /\ i \in 1 .. headIndex - 1
    BY <1>2
  <2> QED
    BY <1>1, <2>1 DEF WindowInv
<1>6. \A i \in 1 .. Len(list) :
         i \in tailIndex .. headIndex - 1 \/ i \in 1 .. tailIndex - 1 \/ i \in headIndex .. Len(list)
  BY <1>2
<1>7. \A i \in 1 .. tailIndex - 1 : i \in 1 .. Len(list) /\ ~(currentSecs <= list[i].time)
  <2>1. \A i \in 1 .. tailIndex - 1 : i \in 1 .. Len(list)
    BY <1>2
  <2> QED
    BY <1>1, <1>2, <2>1 DEF WindowInv
<1>8. wasCounted = tailIndex .. headIndex - 1
  BY <1>1 DEF WindowInv
<1> HIDE DEF w
<1>9. \A i : i \in wasCounted <=>
              i \in DOMAIN list /\ currentSecs <= list[i].time /\ list[i].time < w
  BY <1>2, <1>3, <1>4, <1>5, <1>6, <1>7, <1>8
<1> QED
  BY <1>9 DEF Counted, InWindow, w

LEMMA NextWindow ==
    ASSUME TypeOK, TimesSeen # {}, NEW k \in Nat
    PROVE  StartOfWindow(k + 1) = StartOfWindow(k) + settings.slide
<1> DEFINE first == Min(TimesSeen)
           slide == settings.slide
<1>1. first \in Int
  BY TimesAreNumbers, MinNat
<1>2. slide \in Int
  BY DEF TypeOK
<1>3. StartOfWindow(k + 1) = first + (k + 1 - 1) * slide /\ StartOfWindow(k) = first + (k - 1) * slide
  BY DEF StartOfWindow
<1> HIDE DEF first, slide
<1>4. k + 1 - 1 = (k - 1) + 1
  OBVIOUS
<1>5. \A n, m \in Int : (n + 1) * m = n * m + m
  OBVIOUS
<1>6. k - 1 \in Int
  OBVIOUS
<1>7. ((k - 1) + 1) * slide = (k - 1) * slide + slide
  BY <1>2, <1>5, <1>6
<1>8. (k - 1) * slide \in Int
  BY <1>2, <1>6
<1>9. first + ((k - 1) * slide + slide) = (first + (k - 1) * slide) + slide
  BY <1>1, <1>2, <1>8
<1> QED
  BY <1>3, <1>4, <1>7, <1>9 DEF slide

LEMMA AddHistogramInv ==
    ASSUME IInv, AddHistogram
    PROVE  IInv'
<1>1. /\ WindowInv /\ RangesInv /\ pc = "slide" /\ Fits /\ ~HeadEnters /\ ~TailLeaves
      /\ settings.slide <= settings.window
  BY DEF AddHistogram, IInv, Merging
<1>2. ~(tailIndex > headIndex)
  BY <1>1, Numbers DEF WindowInv, IInv
<1> DEFINE entry == [time |-> currentSecs, histogram |-> histogram]
           old   == data[mapKey]
           new   == Append(old, entry)
<1>3. /\ UNCHANGED <<input, lists, pc, mapKey, merged, headIndex, tailIndex, wasCounted, histogram>>
      /\ data' = [data EXCEPT ![mapKey] = new]
      /\ currentSecs' = currentSecs + settings.slide
  BY <1>2 DEF AddHistogram, IInv, TypeOK
<1>4. UNCHANGED <<selection, settings, read, trainMap, highestDateSeen>> /\ list' = list
  BY <1>3 DEF input, lists, list
<1>5. /\ old \in Seq([time : Nat, histogram : [Types -> Int]])
      /\ entry \in [time : Nat, histogram : [Types -> Int]]
  BY DEF IInv, TypeOK
<1> HIDE DEF entry, old, new
<1>6. /\ new \in Seq([time : Nat, histogram : [Types -> Int]])
      /\ Len(old) \in Nat /\ Len(new) = Len(old) + 1
      /\ DOMAIN new = 1 .. Len(old) + 1 /\ DOMAIN old = 1 .. Len(old)
      /\ \A k \in 1 .. Len(old) : new[k] = old[k]
      /\ new[Len(old) + 1] = entry
  BY <1>5, AppendProperties DEF new
<1>7. /\ data' \in [Categories -> Seq([time : Nat, histogram : [Types -> Int]])]
      /\ data'[mapKey] = new
      /\ \A c \in Categories \ {mapKey} : data'[c] = data[c]
  BY <1>3, <1>6 DEF IInv, TypeOK
<1>8. TypeOK'
  <2>1. currentSecs' \in Nat
    BY <1>3, Numbers DEF IInv
  <2> QED
    BY <1>3, <1>4, <1>7, <2>1 DEF IInv, TypeOK
<1>9. SeenInv' /\ ListsInOrder'
  BY <1>3, SameLists
<1>10. WindowInv'
  <2>1. currentSecs \in Nat /\ settings.slide \in Nat /\ settings.window \in Nat
        /\ headIndex \in Nat /\ tailIndex \in Nat /\ Len(list) \in Nat
        /\ \A i \in 1 .. Len(list) : list[i].time \in Nat
    BY Numbers DEF IInv
  <2>2. /\ headIndex \in 1 .. Len(list) + 1 /\ tailIndex \in 1 .. headIndex
        /\ \A i \in 1 .. headIndex - 1 : list[i].time < currentSecs + settings.window
        /\ \A i \in 1 .. tailIndex - 1 : list[i].time < currentSecs
    BY <1>1 DEF WindowInv
  <2>3. \A i \in 1 .. headIndex - 1 : i \in 1 .. Len(list)
    BY <2>1, <2>2
  <2>4. ASSUME NEW i \in 1 .. headIndex - 1 PROVE list[i].time < currentSecs' + settings.window
    <3>1. list[i].time \in Nat /\ list[i].time < currentSecs + settings.window
      BY <2>1, <2>2, <2>3
    <3> QED
      BY <1>3, <2>1, <3>1, SMTT(30)
  <2>5. \A i \in 1 .. tailIndex - 1 : list[i].time < currentSecs'
    <3>1. \A i \in 1 .. tailIndex - 1 : i \in 1 .. Len(list)
      BY <2>1, <2>2
    <3> QED
      BY <1>3, <2>1, <2>2, <3>1, SMTT(30)
  <2>6. ASSUME NEW i \in headIndex .. Len(list) PROVE list[i].time >= currentSecs'
    <3>1. headIndex \in 1 .. Len(list) /\ i \in 1 .. Len(list)
      BY <2>1, <2>2
    <3>2. ~(list[headIndex].time < currentSecs + settings.window)
      BY <1>1, <3>1 DEF HeadEnters
    <3>3. list[headIndex].time <= list[i].time
      <4>1. InOrder(list) /\ DOMAIN list = 1 .. Len(list)
        BY Numbers DEF IInv, ListsInOrder, list
      <4> QED
        BY <2>1, <3>1, <4>1 DEF InOrder
    <3>4. settings.slide <= settings.window /\ currentSecs' = currentSecs + settings.slide
      BY <1>1, <1>3
    <3>5. /\ list[headIndex].time \in Nat /\ list[i].time \in Nat
          /\ currentSecs \in Nat /\ settings.slide \in Nat /\ settings.window \in Nat
      BY <2>1, <3>1
    <3>6. list[i].time >= currentSecs + settings.slide
      BY <3>2, <3>3, <3>4, <3>5, SMTT(30)
    <3> QED
      BY <3>4, <3>6
  <2>7. \A m \in Types : Counted(m)' = Counted(m)
    BY <1>3, <1>4 DEF Counted
  <2> QED
    BY <1>1, <1>3, <1>4, <2>2, <2>4, <2>5, <2>6, <2>7 DEF WindowInv
<1>11. HistogramsCount'
  <2>1. \A c \in Categories, m \in Types : \A t :
            InWindow(trainMap[c], m, t)' = InWindow(trainMap[c], m, t)
    BY <1>4 DEF InWindow
  <2> SUFFICES ASSUME NEW c \in Categories, NEW k \in DOMAIN data'[c], NEW m \in Types
               PROVE  data'[c][k].histogram[m] =
                      Cardinality(InWindow(trainMap[c], m, data'[c][k].time))
    BY <1>4 DEF HistogramsCount, InWindow
  <2>2. CASE c # mapKey
    <3>1. data'[c] = data[c]
      BY <1>7, <2>2
    <3>2. k \in DOMAIN data[c] /\ data'[c][k] = data[c][k]
      BY <3>1
    <3> QED
      BY <3>2 DEF IInv, HistogramsCount
  <2>3. CASE c = mapKey /\ k \in 1 .. Len(old)
    <3>1. data'[c][k] = data[c][k] /\ k \in DOMAIN data[c]
      BY <1>6, <1>7, <2>3 DEF old
    <3> QED
      BY <3>1 DEF IInv, HistogramsCount
  <2>4. CASE c = mapKey /\ k = Len(old) + 1
    <3>1. data'[c][k] = entry /\ trainMap[c] = list
      <4>1. data'[c] = new /\ new[k] = entry
        BY <1>6, <1>7, <2>4
      <4> QED
        BY <2>4, <4>1 DEF list
    <3>2. Counted(m) = InWindow(list, m, currentSecs)
      BY <1>1, CountedInWindow
    <3>3. histogram[m] = Cardinality(Counted(m))
      BY <1>1 DEF WindowInv
    <3>4. entry.time = currentSecs /\ entry.histogram = histogram
      BY DEF entry
    <3>5. data'[c][k].time = currentSecs /\ data'[c][k].histogram = histogram
      BY <3>1, <3>4
    <3>6. InWindow(trainMap[c], m, data'[c][k].time) = InWindow(list, m, currentSecs)
      BY <3>1, <3>5
    <3> QED
      BY <3>2, <3>3, <3>5, <3>6
  <2> QED
    BY <1>6, <1>7, <2>2, <2>3, <2>4
<1>12. RangesInv'
  <2>1. TimesSeen' = TimesSeen /\ EndTime' = EndTime
    BY <1>3, SameLists
  <2>2. \A k \in Nat : StartOfWindow(k)' = StartOfWindow(k)
    BY <1>3, SameLists
  <2>3. /\ mapKey \notin merged /\ currentSecs = StartOfWindow(Len(old) + 1)
        /\ currentSecs + settings.window <= EndTime
    BY <1>1 DEF RangesInv, Fits, old
  <2>4. currentSecs' = StartOfWindow(Len(new) + 1)
    <3>1. TimesSeen # {}
      <4>1. 1 \in DOMAIN list
        BY <1>1, Numbers DEF WindowInv, IInv
      <4>2. list[1].time \in TimesSeen
        BY <4>1, Numbers DEF TimesSeen, list, IInv
      <4> QED
        BY <4>2
    <3>2. StartOfWindow(Len(old) + 1 + 1) = StartOfWindow(Len(old) + 1) + settings.slide
      <4>1. Len(old) + 1 \in Nat
        BY <1>6
      <4> QED
        BY <3>1, <4>1, NextWindow DEF IInv
    <3> QED
      BY <1>3, <1>6, <2>3, <3>2
  <2>5. \A c \in Categories : \A k \in DOMAIN data'[c] :
          /\ data'[c][k].time = StartOfWindow(k)
          /\ data'[c][k].time + settings.window <= EndTime
    <3> SUFFICES ASSUME NEW c \in Categories, NEW k \in DOMAIN data'[c]
                 PROVE  /\ data'[c][k].time = StartOfWindow(k)
                        /\ data'[c][k].time + settings.window <= EndTime
      OBVIOUS
    <3>1. CASE c # mapKey
      BY <1>1, <1>7, <3>1 DEF RangesInv
    <3>2. CASE c = mapKey /\ k \in 1 .. Len(old)
      <4>1. data'[c][k] = data[c][k] /\ k \in DOMAIN data[c]
        BY <1>6, <1>7, <3>2 DEF old
      <4> QED
        BY <1>1, <4>1 DEF RangesInv
    <3>3. CASE c = mapKey /\ k = Len(old) + 1
      <4>1. data'[c][k] = entry
        BY <1>6, <1>7, <3>3
      <4> QED
        BY <2>3, <3>3, <4>1 DEF entry
    <3> QED
      BY <1>6, <1>7, <3>1, <3>2, <3>3
  <2>6. \A c \in merged : c \in Categories /\ data'[c] = data[c] /\ Len(data[c]) + 1 \in Nat
    BY <1>7, <2>3, SMTT(30) DEF IInv, TypeOK
  <2>7. \A c \in Categories : \A k \in DOMAIN data'[c] : k \in Nat
    BY <1>7
  <2>8. \A c \in Categories : \A k \in DOMAIN data'[c] :
          /\ data'[c][k].time = StartOfWindow(k)'
          /\ data'[c][k].time + settings'.window <= EndTime'
    BY <1>4, <2>1, <2>2, <2>5, <2>7
  <2>9. (\A c \in merged : ~(StartOfWindow(Len(data[c]) + 1) + settings.window <= EndTime))'
    <3> SUFFICES ASSUME NEW c \in merged
                 PROVE  ~(StartOfWindow(Len(data[c]) + 1)' + settings.window <= EndTime)
      BY <1>3, <1>4, <2>1
    <3>1. StartOfWindow(Len(data[c]) + 1)' = StartOfWindow(Len(data[c]) + 1)
      BY <1>4, <2>1, <2>6 DEF StartOfWindow
    <3> QED
      BY <1>1, <3>1 DEF RangesInv
  <2>10. (mapKey \notin merged /\ currentSecs = StartOfWindow(Len(data[mapKey]) + 1))'
    <3>1. StartOfWindow(Len(data[mapKey]) + 1)' = StartOfWindow(Len(new) + 1)
      BY <1>3, <1>4, <1>7, <2>1 DEF StartOfWindow
    <3> QED
      BY <1>3, <2>3, <2>4, <3>1
  <2>11. \A c \in Categories \ merged' : (pc' = "slide" /\ c = mapKey') \/ data'[c] = <<>>
    BY <1>1, <1>3, <1>7 DEF RangesInv
  <2> QED
    BY <2>8, <2>9, <2>10, <2>11 DEF RangesInv
<1> QED
  BY <1>1, <1>3, <1>4, <1>8, <1>9, <1>10, <1>11, <1>12 DEF IInv, Merging, OnlySlideThrows

-----------------------------------------------------------------------------
LEMMA NextInv ==
    ASSUME IInv, [Next]_vars
    PROVE  IInv'
<1>1. CASE ReadRow
  BY <1>1, ReadRowInv
<1>2. CASE BeginMerge
  BY <1>2, BeginMergeInv
<1>3. CASE PickCategory
  BY <1>3, PickCategoryInv
<1>4. CASE EndMerge
  BY <1>4, EndMergeInv
<1>5. CASE AddHead
  BY <1>5, AddHeadInv
<1>6. CASE DropTail
  BY <1>6, DropTailInv
<1>7. CASE AddHistogram
  BY <1>7, AddHistogramInv
<1>8. CASE EndCategory
  BY <1>8, EndCategoryInv
<1>9. CASE UNCHANGED vars
  <2>1. UNCHANGED <<selection, settings, read, trainMap, highestDateSeen, pc, mapKey, merged,
                    currentSecs, headIndex, tailIndex, wasCounted, histogram, data>>
    BY <1>9 DEF vars, input, lists, window
  <2>2. UNCHANGED <<input, lists>>
    BY <1>9 DEF vars
  <2>3. SeenInv' /\ ListsInOrder' /\ HistogramsCount' /\ TypeOK'
    BY <2>1, <2>2, SameLists, SameCounts DEF IInv, TypeOK
  <2>4. WindowInv' <=> WindowInv
    BY <2>1 DEF WindowInv, Counted, list
  <2>5. RangesInv' <=> RangesInv
    BY <2>1 DEF RangesInv, StartOfWindow, TimesSeen, EndTime
  <2> QED
    BY <2>1, <2>3, <2>4, <2>5 DEF IInv, Merging, OnlySlideThrows
<1> QED
  BY <1>1, <1>2, <1>3, <1>4, <1>5, <1>6, <1>7, <1>8, <1>9 DEF Next

(* The inductive invariant: TypeOK, and what the other theorems follow     *)
(* from.                                                                   *)
THEOREM InductiveInvariant == Spec => []IInv
<1>1. Init => IInv
  BY InitInv
<1>2. IInv /\ [Next]_vars => IInv'
  BY NextInv
<1> QED
  BY <1>1, <1>2, PTL DEF Spec

(* The list of each category is in the order of time, in whatever order    *)
(* getData reads the rows.                                                 *)
THEOREM ListsStayInOrder == Spec => []ListsInOrder
<1>1. IInv => ListsInOrder
  BY DEF IInv
<1> QED
  BY <1>1, InductiveInvariant, PTL

(* Each histogram counts what is in its window, for any window and any     *)
(* slide that mergeWindows accepts.                                        *)
THEOREM HistogramsAreCounts == Spec => []HistogramsCount
<1>1. IInv => HistogramsCount
  BY DEF IInv
<1> QED
  BY <1>1, InductiveInvariant, PTL

(* The exception for a tail beyond the head is never thrown.               *)
THEOREM TailStaysBehindHead == Spec => []OnlySlideThrows
<1>1. IInv => OnlySlideThrows
  BY DEF IInv
<1> QED
  BY <1>1, InductiveInvariant, PTL

(* The windows of a merged category that has no more of them than another. *)
LEMMA NotFewer ==
    ASSUME IInv, pc \in {"pick", "slide", "done"}, NEW c \in merged, NEW d \in merged
    PROVE  Len(data[d]) <= Len(data[c])
<1>1. RangesInv /\ c \in Categories /\ d \in Categories
      /\ Len(data[c]) \in Nat /\ Len(data[d]) \in Nat /\ DOMAIN data[d] = 1 .. Len(data[d])
  BY DEF IInv, TypeOK
<1>2. CASE Len(data[d]) > Len(data[c])
  <2> DEFINE k == Len(data[c]) + 1
  <2>1. k \in DOMAIN data[d]
    BY <1>1, <1>2
  <2>2. ~(StartOfWindow(k) + settings.window <= EndTime)
    BY <1>1 DEF RangesInv
  <2>3. data[d][k].time = StartOfWindow(k) /\ data[d][k].time + settings.window <= EndTime
    <3> HIDE DEF k
    <3> QED
      BY <1>1, <2>1 DEF RangesInv
  <2> QED
    BY <2>2, <2>3
<1> QED
  BY <1>1, <1>2

(* All categories that have been merged have the same windows.             *)
THEOREM RangesAreTheSame == Spec => []SameRanges
<1>1. IInv => SameRanges
  <2> SUFFICES ASSUME IInv, NEW c \in merged, NEW d \in merged
               PROVE  /\ Len(data[c]) = Len(data[d])
                      /\ \A k \in DOMAIN data[c] : data[c][k].time = data[d][k].time
    BY DEF SameRanges
  <2>1. c \in Categories /\ d \in Categories
        /\ data[c] \in Seq([time : Nat, histogram : [Types -> Int]])
        /\ data[d] \in Seq([time : Nat, histogram : [Types -> Int]])
    BY DEF IInv, TypeOK
  <2>2. CASE pc \in {"pick", "slide", "done"}
    <3>1. Len(data[c]) = Len(data[d])
      BY <2>1, <2>2, NotFewer
    <3>2. \A k \in DOMAIN data[c] : data[c][k].time = StartOfWindow(k)
      BY <2>1, <2>2 DEF IInv, RangesInv
    <3>3. \A k \in DOMAIN data[d] : data[d][k].time = StartOfWindow(k)
      BY <2>1, <2>2 DEF IInv, RangesInv
    <3>4. DOMAIN data[c] = DOMAIN data[d]
      BY <2>1, <3>1
    <3> QED
      BY <3>1, <3>2, <3>3, <3>4
  <2>3. CASE pc \in {"read", "thrown"}
    BY <2>3 DEF IInv
  <2> QED
    BY <2>2, <2>3 DEF IInv, TypeOK
<1> QED
  BY <1>1, InductiveInvariant, PTL

-----------------------------------------------------------------------------
(* No row is lost.                                                         *)

(* Indexes at which a list holds a tuple.                                  *)
Held(s, e) == {i \in DOMAIN s : s[i] = e}

(* The rows read of a category that have become such a tuple.              *)
RowsRead(c, e) ==
    {k \in 1 .. read :
        selection[k] = [time |-> e.time, category |-> c, type |-> e.type]}

(* The highest date seen is that of a tuple, so a tuple that is not later  *)
(* finds a place before one.                                               *)
HighInv ==
    \A c \in Categories : highestDateSeen[c] >= 0 =>
        \E i \in DOMAIN trainMap[c] : trainMap[c][i].time >= highestDateSeen[c]

HeldInv ==
    \A c \in Categories : \A e \in Tuple :
        Cardinality(Held(trainMap[c], e)) = Cardinality(RowsRead(c, e))

KeptInv == IInv /\ HighInv /\ HeldInv

LEMMA HeldFinite ==
    ASSUME NEW s \in Seq(Tuple), NEW x
    PROVE  IsFiniteSet(Held(s, x)) /\ Cardinality(Held(s, x)) \in Nat
<1>1. IsFiniteSet(1 .. Len(s)) /\ Held(s, x) \in SUBSET (1 .. Len(s))
  BY FS_Interval DEF Held
<1> QED
  BY <1>1, FS_Subset, FS_CardinalityType

(* A list that grew by e at index k holds one e more, and of all others as *)
(* many as before: those from k on have moved up by one.                   *)
LEMMA OneMore ==
    ASSUME NEW s \in Seq(Tuple), NEW n \in Seq(Tuple), NEW e \in Tuple,
           NEW k \in 1 .. Len(s) + 1,
           Len(n) = Len(s) + 1,
           \A j \in 1 .. Len(s) + 1 :
              n[j] = IF j < k THEN s[j] ELSE IF j = k THEN e ELSE s[j - 1],
           NEW x
    PROVE  Cardinality(Held(n, x)) =
              Cardinality(Held(s, x)) + (IF x = e THEN 1 ELSE 0)
<1> DEFINE A == Held(s, x)
           B == Held(n, x) \ {k}
           f == [i \in A |-> IF i < k THEN i ELSE i + 1]
<1>1. Len(s) \in Nat /\ k \in Nat
  OBVIOUS
<1>2. \A i \in A : i \in 1 .. Len(s) /\ s[i] = x
  BY DEF Held
<1>3. \A i : i \in B <=> i \in 1 .. Len(s) + 1 /\ n[i] = x /\ i # k
  BY DEF Held
<1>4. \A i \in 1 .. Len(s) : i \in A <=> s[i] = x
  BY DEF Held
<1>5. IsFiniteSet(A) /\ Cardinality(A) \in Nat
  BY HeldFinite
<1>6. IsFiniteSet(Held(n, x)) /\ Cardinality(Held(n, x)) \in Nat
  BY HeldFinite
<1>7. k \in Held(n, x) <=> x = e
  BY DEF Held
<1> HIDE DEF A, B
<1>8. f \in [A -> B]
  <2> SUFFICES ASSUME NEW i \in A PROVE f[i] \in B
    OBVIOUS
  <2>1. i \in 1 .. Len(s) /\ s[i] = x
    BY <1>2
  <2>2. CASE i < k
    BY <1>1, <1>3, <2>1, <2>2
  <2>3. CASE ~(i < k)
    <3>1. f[i] = i + 1 /\ i + 1 \in 1 .. Len(s) + 1 /\ i + 1 > k /\ i + 1 - 1 = i
      BY <1>1, <2>1, <2>3
    <3> QED
      BY <1>1, <1>3, <2>1, <3>1, SMTT(30)
  <2> QED
    BY <2>2, <2>3
<1>9. f \in Injection(A, B)
  <2>1. \A i, j \in A : f[i] = f[j] => i = j
    <3>1. \A i \in A : i \in Nat
      BY <1>1, <1>2
    <3> QED
      BY <1>1, <3>1
  <2> HIDE DEF f
  <2> QED
    BY <1>8, <2>1 DEF Injection, IsInjective
<1>10. f \in Surjection(A, B)
  <2>1. ASSUME NEW b \in B PROVE \E i \in A : f[i] = b
    <3>1. b \in 1 .. Len(s) + 1 /\ n[b] = x /\ b # k
      BY <1>3
    <3>2. CASE b < k
      <4>1. b \in 1 .. Len(s) /\ s[b] = x
        BY <1>1, <3>1, <3>2
      <4>2. b \in A
        BY <1>4, <4>1
      <4> QED
        BY <3>2, <4>2
    <3>3. CASE b > k
      <4>1. b - 1 \in 1 .. Len(s) /\ s[b - 1] = x /\ ~(b - 1 < k) /\ b - 1 + 1 = b
        BY <1>1, <3>1, <3>3
      <4>2. b - 1 \in A
        BY <1>4, <4>1
      <4> QED
        BY <4>1, <4>2
    <3> QED
      BY <1>1, <3>1, <3>2, <3>3
  <2> HIDE DEF f
  <2> QED
    BY <1>8, <2>1 DEF Surjection
<1>11. Cardinality(B) = Cardinality(A)
  <2>1. f \in Bijection(A, B)
    BY <1>9, <1>10 DEF Bijection
  <2> HIDE DEF f
  <2>2. ExistsBijection(A, B)
    BY <2>1 DEF ExistsBijection
  <2> QED
    BY <1>5, <2>2, FS_Bijection
<1>12. Cardinality(B) =
          IF k \in Held(n, x) THEN Cardinality(Held(n, x)) - 1 ELSE Cardinality(Held(n, x))
  BY <1>6, FS_RemoveElement DEF B
<1>13. Cardinality(Held(n, x)) = Cardinality(A) + (IF x = e THEN 1 ELSE 0)
  BY <1>5, <1>6, <1>7, <1>11, <1>12
<1> QED
  BY <1>13 DEF A

LEMMA AppendedHeld ==
    ASSUME NEW s \in Seq(Tuple), NEW e \in Tuple
    PROVE  /\ Append(s, e) \in Seq(Tuple)
           /\ \E i \in DOMAIN Append(s, e) : Append(s, e)[i] = e
           /\ \A x : Cardinality(Held(Append(s, e), x)) =
                        Cardinality(Held(s, x)) + (IF x = e THEN 1 ELSE 0)
<1> DEFINE n == Append(s, e)
           k == Len(s) + 1
<1>1. /\ n \in Seq(Tuple) /\ Len(n) = Len(s) + 1 /\ DOMAIN n = 1 .. Len(s) + 1
      /\ k \in 1 .. Len(s) + 1
      /\ \A j \in 1 .. Len(s) + 1 :
            n[j] = IF j < k THEN s[j] ELSE IF j = k THEN e ELSE s[j - 1]
  BY AppendProperties
<1>2. n[k] = e
  BY <1>1
<1> HIDE DEF n, k
<1>3. \A x : Cardinality(Held(n, x)) = Cardinality(Held(s, x)) + (IF x = e THEN 1 ELSE 0)
  BY <1>1, OneMore
<1>4. n = Append(s, e)
  BY DEF n
<1> QED
  BY <1>1, <1>2, <1>3, <1>4

(* Where there is a tuple that is not earlier, the new one finds a place   *)
(* and all others keep theirs or move up by one.                           *)
LEMMA InsertedHeld ==
    ASSUME NEW s \in Seq(Tuple), NEW e \in Tuple,
           NEW i \in DOMAIN s, s[i].time >= e.time
    PROVE  /\ Inserted(s, e) \in Seq(Tuple)
           /\ \E j \in DOMAIN Inserted(s, e) : Inserted(s, e)[j] = s[i]
           /\ \A x : Cardinality(Held(Inserted(s, e), x)) =
                        Cardinality(Held(s, x)) + (IF x = e THEN 1 ELSE 0)
<1>1. NotBefore(s, e.time) # {} /\ NotBefore(s, e.time) \in SUBSET Nat
  BY DEF NotBefore
<1>2. PICK k : k = Min(NotBefore(s, e.time))
  OBVIOUS
<1>3. k \in 1 .. Len(s)
  <2>1. k \in NotBefore(s, e.time)
    BY <1>1, <1>2, MinNat
  <2> QED
    BY <2>1 DEF NotBefore
<1>4. PICK n : n = InsertAt(s, k, e)
  OBVIOUS
<1>5. Inserted(s, e) = n
  BY <1>1, <1>2, <1>4 DEF Inserted
<1>6. /\ n \in Seq(Tuple) /\ Len(n) = Len(s) + 1
      /\ \A j \in 1 .. Len(s) + 1 :
            n[j] = IF j < k THEN s[j] ELSE IF j = k THEN e ELSE s[j - 1]
  BY <1>3, <1>4, InsertAtIndexes
<1>7. k \in 1 .. Len(s) + 1
  BY <1>3
<1>8. \A x : Cardinality(Held(n, x)) = Cardinality(Held(s, x)) + (IF x = e THEN 1 ELSE 0)
  BY <1>6, <1>7, OneMore, ZenonT(30)
<1>9. \E j \in DOMAIN n : n[j] = s[i]
  <2>1. CASE i < k
    <3>1. i \in 1 .. Len(s) + 1 /\ n[i] = s[i] /\ i \in DOMAIN n
      BY <1>3, <1>6, <2>1
    <3> QED
      BY <3>1
  <2>2. CASE ~(i < k)
    <3>1. i + 1 \in 1 .. Len(s) + 1 /\ i + 1 > k /\ i + 1 - 1 = i
      BY <1>3, <2>2
    <3>2. n[i + 1] = s[i] /\ i + 1 \in DOMAIN n
      BY <1>3, <1>6, <3>1
    <3> QED
      BY <3>2
  <2> QED
    BY <2>1, <2>2
<1> QED
  BY <1>5, <1>6, <1>8, <1>9

(* One row more has been read, and it counts for its own tuple only.       *)
LEMMA ReadHeld ==
    ASSUME TypeOK, ReadRow, NEW row \in Row, row = selection[read + 1],
           NEW tuple \in Tuple, tuple = [time |-> row.time, type |-> row.type],
           NEW c \in Categories, NEW e \in Tuple
    PROVE  Cardinality(RowsRead(c, e)') =
              Cardinality(RowsRead(c, e)) +
                (IF c = row.category /\ e = tuple THEN 1 ELSE 0)
<1>1. read' = read + 1 /\ selection' = selection /\ read \in Nat
  BY DEF ReadRow, input, TypeOK
<1> DEFINE wanted == [time |-> e.time, category |-> c, type |-> e.type]
<1>2. row = wanted <=> c = row.category /\ e = tuple
  BY DEF Row, Tuple
<1> HIDE DEF wanted
<1>3. /\ RowsRead(c, e) = {k \in 1 .. read : selection[k] = wanted}
      /\ RowsRead(c, e)' = {k \in 1 .. read + 1 : selection[k] = wanted}
  BY <1>1 DEF RowsRead, wanted
<1>4. PICK R : R = {k \in 1 .. read : selection[k] = wanted}
  OBVIOUS
<1>5. {k \in 1 .. read + 1 : selection[k] = wanted} =
          IF row = wanted THEN R \cup {read + 1} ELSE R
  BY <1>1, <1>4
<1>6. IsFiniteSet(R) /\ Cardinality(R) \in Nat /\ read + 1 \notin R
  <2>1. R \in SUBSET (1 .. read) /\ IsFiniteSet(1 .. read)
    BY <1>1, <1>4, FS_Interval
  <2> QED
    BY <1>1, <1>4, <2>1, FS_Subset, FS_CardinalityType
<1>7. Cardinality(R \cup {read + 1}) = Cardinality(R) + 1
  BY <1>6, FS_AddElement
<1>8. CASE row = wanted
  <2>1. RowsRead(c, e)' = R \cup {read + 1}
    BY <1>3, <1>5, <1>8
  <2>2. RowsRead(c, e) = R
    BY <1>3, <1>4
  <2>3. c = row.category /\ e = tuple
    BY <1>2, <1>8
  <2>4. Cardinality(RowsRead(c, e)') = Cardinality(RowsRead(c, e)) + 1
    BY <1>7, <2>1, <2>2
  <2> QED
    BY <2>3, <2>4
<1>9. CASE row # wanted
  <2>1. RowsRead(c, e)' = R /\ RowsRead(c, e) = R
    BY <1>3, <1>4, <1>5, <1>9
  <2>2. ~(c = row.category /\ e = tuple)
    BY <1>2, <1>9
  <2>3. Cardinality(RowsRead(c, e)') = Cardinality(RowsRead(c, e)) + 0
    BY <1>6, <2>1
  <2> QED
    BY <2>2, <2>3
<1> QED
  BY <1>8, <1>9

LEMMA ReadRowKept ==
    ASSUME KeptInv, ReadRow
    PROVE  HighInv' /\ HeldInv'
<1>0. TypeOK
  BY DEF KeptInv, IInv
<1>1. PICK row \in Row : row = selection[read + 1]
  BY <1>0, ElementOfSeq DEF ReadRow, TypeOK
<1>2. PICK c \in Categories : c = row.category
  BY <1>1 DEF Row
<1>3. PICK tuple \in Tuple : tuple = [time |-> row.time, type |-> row.type]
  BY <1>1 DEF Row, Tuple
<1>4. tuple.time = row.time /\ row.time \in Nat
  BY <1>1, <1>3 DEF Row
<1>5. PICK s \in Seq(Tuple), h \in Int : s = trainMap[c] /\ h = highestDateSeen[c]
  BY <1>0 DEF TypeOK
<1>6. PICK n \in Seq(Tuple), m \in Int :
          /\ trainMap' = [trainMap EXCEPT ![c] = n]
          /\ highestDateSeen' = [highestDateSeen EXCEPT ![c] = m]
          /\ \A x : Cardinality(Held(n, x)) =
                       Cardinality(Held(s, x)) + (IF x = tuple THEN 1 ELSE 0)
          /\ m >= 0 => \E i \in DOMAIN n : n[i].time >= m
  <2>1. CASE row.time > h
    <3>1. PICK n : n = Append(s, tuple)
      OBVIOUS
    <3>2. /\ trainMap' = [trainMap EXCEPT ![c] = n]
          /\ highestDateSeen' = [highestDateSeen EXCEPT ![c] = row.time]
      BY <1>0, <1>1, <1>2, <1>3, <1>5, <2>1, <3>1 DEF ReadRow, Seen, TypeOK
    <3>3. /\ n \in Seq(Tuple)
          /\ \E i \in DOMAIN n : n[i] = tuple
          /\ \A x : Cardinality(Held(n, x)) =
                       Cardinality(Held(s, x)) + (IF x = tuple THEN 1 ELSE 0)
      BY <3>1, AppendedHeld
    <3>4. row.time \in Int /\ \E i \in DOMAIN n : n[i].time >= row.time
      BY <1>4, <3>3
    <3> QED
      BY <3>2, <3>3, <3>4
  <2>2. CASE ~(row.time > h)
    <3>1. PICK n : n = Inserted(s, tuple)
      OBVIOUS
    <3>2. /\ trainMap' = [trainMap EXCEPT ![c] = n]
          /\ highestDateSeen' = [highestDateSeen EXCEPT ![c] = h]
      BY <1>0, <1>1, <1>2, <1>3, <1>5, <2>2, <3>1 DEF ReadRow, TypeOK
    <3>3. h >= 0 /\ tuple.time <= h
      BY <1>4, <1>5, <2>2
    <3>4. PICK i \in DOMAIN s : s[i].time >= h
      BY <1>5, <3>3 DEF KeptInv, HighInv
    <3>5. s[i].time >= tuple.time
      <4>1. s[i].time \in Nat
        BY TupleAt
      <4> QED
        BY <1>4, <1>5, <3>3, <3>4, <4>1
    <3>6. /\ n \in Seq(Tuple)
          /\ \E j \in DOMAIN n : n[j] = s[i]
          /\ \A x : Cardinality(Held(n, x)) =
                       Cardinality(Held(s, x)) + (IF x = tuple THEN 1 ELSE 0)
      BY <3>1, <3>5, InsertedHeld
    <3> QED
      BY <1>5, <3>2, <3>4, <3>6
  <2> QED
    BY <1>4, <1>5, <2>1, <2>2
<1>7. /\ trainMap'[c] = n /\ highestDateSeen'[c] = m
      /\ \A d \in Categories \ {c} :
            trainMap'[d] = trainMap[d] /\ highestDateSeen'[d] = highestDateSeen[d]
  BY <1>0, <1>6 DEF TypeOK
<1>8. HighInv'
  BY <1>6, <1>7 DEF KeptInv, HighInv
<1>9. HeldInv'
  <2> SUFFICES ASSUME NEW d \in Categories, NEW e \in Tuple
               PROVE  Cardinality(Held(trainMap'[d], e)) = Cardinality(RowsRead(d, e)')
    BY DEF HeldInv, Held
  <2>1. Cardinality(Held(trainMap[d], e)) = Cardinality(RowsRead(d, e))
    BY DEF KeptInv, HeldInv
  <2>2. Cardinality(Held(trainMap[d], e)) \in Nat
    BY <1>0, HeldFinite DEF TypeOK
  <2>3. Cardinality(RowsRead(d, e)') =
            Cardinality(RowsRead(d, e)) + (IF d = c /\ e = tuple THEN 1 ELSE 0)
    BY <1>0, <1>1, <1>2, <1>3, ReadHeld
  <2>4. CASE d = c
    BY <1>5, <1>6, <1>7, <2>1, <2>3, <2>4
  <2>5. CASE d # c
    BY <1>7, <2>1, <2>2, <2>3, <2>5
  <2> QED
    BY <2>4, <2>5
<1> QED
  BY <1>8, <1>9

LEMMA NextKept == KeptInv /\ [Next]_vars => KeptInv'
<1> SUFFICES ASSUME KeptInv, [Next]_vars PROVE HighInv' /\ HeldInv'
  BY NextInv DEF KeptInv
<1>1. CASE ReadRow
  BY <1>1, ReadRowKept
<1>2. CASE UNCHANGED <<input, lists>>
  BY <1>2 DEF KeptInv, HighInv, HeldInv, Held, RowsRead, input, lists
<1> QED
  BY <1>1, <1>2 DEF Next, vars, BeginMerge, PickCategory, EndMerge, AddHead, DropTail,
                    AddHistogram, EndCategory

LEMMA InitKept == Init => KeptInv
<1> SUFFICES ASSUME Init PROVE HighInv /\ HeldInv
  BY InitInv DEF KeptInv
<1>1. HighInv
  BY DEF Init, HighInv
<1>2. \A c \in Categories : \A e : Held(trainMap[c], e) = {} /\ RowsRead(c, e) = {}
  BY DEF Init, Held, RowsRead
<1> QED
  BY <1>1, <1>2 DEF HeldInv

(* getData loses no row and doubles none, in whatever order they come: a   *)
(* row that is not later than the highest date finds a place in its list.  *)
THEOREM RowsAreKept == Spec => []RowsKept
<1>1. KeptInv => RowsKept
  <2> SUFFICES ASSUME KeptInv, NEW c \in Categories, NEW k \in DOMAIN selection,
                      NEW e, e = [time |-> selection[k].time, type |-> selection[k].type]
               PROVE  Cardinality(Held(trainMap[c], e)) = Cardinality(RowsRead(c, e))
    BY DEF RowsKept, Held, RowsRead
  <2>1. selection[k] \in Row
    BY ElementOfSeq DEF KeptInv, IInv, TypeOK
  <2>2. e \in Tuple
    BY <2>1 DEF Row, Tuple
  <2> QED
    BY <2>2 DEF KeptInv, HeldInv
<1>2. Spec => []KeptInv
  BY InitKept, NextKept, PTL DEF Spec
<1> QED
  BY <1>1, <1>2, PTL
=============================================================================
