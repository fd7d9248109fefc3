-------------------------- MODULE HistogramWindows --------------------------
(***************************************************************************)
(* How the rows of a query become histograms: DataIOCassandraDB.getData    *)
(* puts the rows, which come in any order, into a list by time for each    *)
(* category, and HistoTuple.mergeWindows slides a window over each list.   *)
(* A head and a tail go through the list; the histogram is kept up to date *)
(* for the tuples that enter at the head and leave at the tail.            *)
(***************************************************************************)
EXTENDS Integers, Sequences, FiniteSets, FiniteSetsExt, SequencesExt

CONSTANTS
    Categories,     \* values of the category fields
    Types,          \* message types, the dimensions of a histogram
    Selections,     \* what a query may return: sequences of rows
    Settings        \* [window, slide], in seconds, as requests may set them

Row == [time : Nat, category : Categories, type : Types]

Tuple == [time : Nat, type : Types]

ASSUME WindowsAssumption ==
    /\ Selections \subseteq Seq(Row)
    /\ Settings \subseteq [window : Nat, slide : Nat]

VARIABLES
    selection,      \* the rows the query returned
    read,           \* how many of them have been read
    settings,       \* SAMPLE_WINDOW_SECS and SLIDE_WINDOW_SECS
    trainMap,       \* of each category: its tuples
    highestDateSeen,
    pc,             \* "read", "pick", "slide", "done" or "thrown"
    mapKey,         \* the category whose list is being merged
    merged,         \* those that have been
    currentSecs, headIndex, tailIndex,
    wasCounted,     \* indexes of the tuples of mapKey with the flag set
    histogram,
    data            \* of each category: the histograms so far

input  == <<selection, settings>>
lists  == <<read, trainMap, highestDateSeen>>
window == <<currentSecs, headIndex, tailIndex, wasCounted, histogram>>
vars   == <<input, lists, pc, mapKey, merged, window, data>>

Empty == [m \in Types |-> 0]

Init ==
    /\ selection \in Selections
    /\ settings \in Settings
    /\ read = 0
    /\ trainMap = [c \in Categories |-> <<>>]
    /\ highestDateSeen = [c \in Categories |-> -1]
    /\ pc = "read"
    /\ mapKey \in Categories
    /\ merged = {}
    /\ currentSecs = 0
    /\ headIndex = 1
    /\ tailIndex = 1
    /\ wasCounted = {}
    /\ histogram = Empty
    /\ data = [c \in Categories |-> <<>>]

-----------------------------------------------------------------------------
(* getData                                                                 *)

(* Indexes of the tuples at or after a time.                               *)
NotBefore(s, time) == {i \in DOMAIN s : s[i].time >= time}

(* A mutant that puts the tuple behind that one.                           *)
InsertedBehind(s, tuple) == InsertAt(s, Min(NotBefore(s, tuple.time)) + 1, tuple)

(* The tuple goes before the first one that is not earlier; if there were  *)
(* none it would be dropped.                                               *)
Inserted(s, tuple) ==
    IF NotBefore(s, tuple.time) = {}
    THEN s
    ELSE InsertAt(s, Min(NotBefore(s, tuple.time)), tuple)

(* A mutant in which the categories share the highest date.                *)
SeenShared(c, time) == [d \in Categories |-> time]

Seen(c, time) == [highestDateSeen EXCEPT ![c] = time]

ReadRow ==
    /\ pc = "read"
    /\ read < Len(selection)
    /\ LET row   == selection[read + 1]
           c     == row.category
           tuple == [time |-> row.time, type |-> row.type]
       IN  IF row.time > highestDateSeen[c]
           THEN /\ trainMap' = [trainMap EXCEPT ![c] = Append(@, tuple)]
                /\ highestDateSeen' = Seen(c, row.time)
           ELSE /\ trainMap' = [trainMap EXCEPT ![c] = Inserted(@, tuple)]
                /\ UNCHANGED highestDateSeen
    /\ read' = read + 1
    /\ UNCHANGED <<input, pc, mapKey, merged, window, data>>

(* A query without rows has no histograms, and a slide beyond the window   *)
(* is refused.                                                             *)
BeginMerge ==
    /\ pc = "read"
    /\ read = Len(selection)
    /\ pc' = IF selection = <<>> THEN "done"
             ELSE IF settings.slide > settings.window THEN "thrown"
             ELSE "pick"
    /\ UNCHANGED <<input, lists, mapKey, merged, window, data>>

-----------------------------------------------------------------------------
(* mergeWindows                                                            *)

TimesSeen == UNION {{trainMap[c][i].time : i \in DOMAIN trainMap[c]} : c \in Categories}

(* A mutant in which each list has windows of its own.                     *)
StartOf(c) == trainMap[c][1].time

StartTime(c) == Min(TimesSeen)

EndTime == Max(TimesSeen)

(* The categories that have tuples, one after the other in any order.      *)
PickCategory ==
    /\ pc = "pick"
    /\ \E c \in Categories \ merged :
          /\ trainMap[c] # <<>>
          /\ mapKey' = c
          /\ currentSecs' = StartTime(c)
    /\ pc' = "slide"
    /\ headIndex' = 1
    /\ tailIndex' = 1
    /\ wasCounted' = {}
    /\ histogram' = Empty
    /\ UNCHANGED <<input, lists, merged, data>>

EndMerge ==
    /\ pc = "pick"
    /\ \A c \in Categories \ merged : trainMap[c] = <<>>
    /\ pc' = "done"
    /\ UNCHANGED <<input, lists, mapKey, merged, window, data>>

list == trainMap[mapKey]

(* A window that runs off the end is not begun.                            *)
Fits == currentSecs + settings.window <= EndTime

(* A mutant that closes the window on the right.                           *)
HeadEntersClosed ==
    headIndex <= Len(list) /\ list[headIndex].time <= currentSecs + settings.window

HeadEnters ==
    headIndex <= Len(list) /\ list[headIndex].time < currentSecs + settings.window

TailLeaves == tailIndex <= Len(list) /\ list[tailIndex].time < currentSecs

(* The tuple at the head enters the window, unless the slide has passed it.*)
AddHead ==
    /\ pc = "slide" /\ Fits /\ HeadEnters
    /\ IF list[headIndex].time >= currentSecs
       THEN /\ histogram' = [histogram EXCEPT ![list[headIndex].type] = @ + 1]
            /\ wasCounted' = wasCounted \cup {headIndex}
       ELSE UNCHANGED <<histogram, wasCounted>>
    /\ headIndex' = headIndex + 1
    /\ UNCHANGED <<input, lists, pc, mapKey, merged, currentSecs, tailIndex, data>>

(* The tuple at the tail has fallen out of the window.                     *)
DropTail ==
    /\ pc = "slide" /\ Fits /\ ~HeadEnters /\ TailLeaves
    /\ IF tailIndex \in wasCounted
       THEN /\ histogram' = [histogram EXCEPT ![list[tailIndex].type] = @ - 1]
            /\ wasCounted' = wasCounted \ {tailIndex}
       ELSE UNCHANGED <<histogram, wasCounted>>
    /\ tailIndex' = tailIndex + 1
    /\ UNCHANGED <<input, lists, pc, mapKey, merged, currentSecs, headIndex, data>>

(* The histogram of the window is kept, and the window slides on.          *)
AddHistogram ==
    /\ pc = "slide" /\ Fits /\ ~HeadEnters /\ ~TailLeaves
    /\ IF tailIndex > headIndex
       THEN pc' = "thrown" /\ UNCHANGED <<currentSecs, data>>
       ELSE /\ data' = [data EXCEPT ![mapKey] =
                           Append(@, [time |-> currentSecs, histogram |-> histogram])]
            /\ currentSecs' = currentSecs + settings.slide
            /\ UNCHANGED pc
    /\ UNCHANGED <<input, lists, mapKey, merged, headIndex, tailIndex, wasCounted, histogram>>

(* What is in the histogram of the window that did not fit is dropped.     *)
EndCategory ==
    /\ pc = "slide" /\ ~Fits
    /\ merged' = merged \cup {mapKey}
    /\ pc' = "pick"
    /\ UNCHANGED <<input, lists, mapKey, window, data>>

Next ==
    \/ ReadRow \/ BeginMerge
    \/ PickCategory \/ EndMerge
    \/ AddHead \/ DropTail \/ AddHistogram \/ EndCategory

Spec == Init /\ [][Next]_vars

-----------------------------------------------------------------------------
TypeOK ==
    /\ selection \in Seq(Row)
    /\ settings \in [window : Nat, slide : Nat]
    /\ read \in 0 .. Len(selection)
    /\ trainMap \in [Categories -> Seq(Tuple)]
    /\ highestDateSeen \in [Categories -> Int]
    /\ pc \in {"read", "pick", "slide", "done", "thrown"}
    /\ mapKey \in Categories
    /\ merged \subseteq Categories
    /\ currentSecs \in Nat
    /\ headIndex \in Nat \ {0}
    /\ tailIndex \in Nat \ {0}
    /\ wasCounted \subseteq Nat
    /\ histogram \in [Types -> Int]
    /\ data \in [Categories -> Seq([time : Nat, histogram : [Types -> Int]])]

(* The tuples of each category are in the order of time, whatever the      *)
(* order of the rows: mergeWindows "assumes that the input file is ordered *)
(* by time".                                                               *)
InOrder(s) == \A i, j \in DOMAIN s : i < j => s[i].time <= s[j].time

ListsInOrder == \A c \in Categories : InOrder(trainMap[c])

(* No row is lost, doubled or put into another category: of every tuple    *)
(* the list of a category holds as many as rows of it have been read.      *)
RowsKept ==
    \A c \in Categories :
        \A tuple \in {[time |-> selection[k].time, type |-> selection[k].type] : k \in DOMAIN selection} :
            Cardinality({i \in DOMAIN trainMap[c] : trainMap[c][i] = tuple}) =
            Cardinality({k \in 1 .. read :
                selection[k] = [time |-> tuple.time, category |-> c, type |-> tuple.type]})

(* Of a window beginning at time, the tuples of a list and a type in it.   *)
InWindow(s, m, time) ==
    {i \in DOMAIN s : s[i].type = m /\ time <= s[i].time /\ s[i].time < time + settings.window}

(* Each histogram counts, by message type, exactly the tuples of its       *)
(* category from its time until the window ends, although it was computed  *)
(* from the one before it.                                                 *)
HistogramsCount ==
    \A c \in Categories : \A k \in DOMAIN data[c] : \A m \in Types :
        data[c][k].histogram[m] = Cardinality(InWindow(trainMap[c], m, data[c][k].time))

(* The exception for a tail beyond the head is never thrown: the only one  *)
(* is that for a slide beyond the window.                                  *)
OnlySlideThrows == pc = "thrown" => settings.slide > settings.window

(* "Every data subset within a given ID will have the same time ranges     *)
(* even if some of the windows will have all zeros": the times of the      *)
(* histograms are the same for all categories that have been merged.       *)
SameRanges ==
    \A c, d \in merged :
        /\ Len(data[c]) = Len(data[d])
        /\ \A k \in DOMAIN data[c] : data[c][k].time = data[d][k].time

=============================================================================
