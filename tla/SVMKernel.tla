------------------------------ MODULE SVMKernel ------------------------------
(***************************************************************************)
(* The threads that turn histograms into the rows of a kernel matrix.      *)
(* They claim rows under a lock, fill them without it, and remember        *)
(* finished rows by their histogram so that an equal one is cloned.  A     *)
(* section under the lock is one step: the rows and the cache are looked   *)
(* at nowhere else.                                                        *)
(***************************************************************************)
EXTENDS Integers, FiniteSets

CONSTANTS
    Threads,    \* threads the constructor starts for a precomputed kernel
    NRows,      \* number of histograms in _histogramsA
    NColumns,   \* number of histograms in _histogramsB
    Points,     \* histograms, up to equals of GenericPoint
    Blank       \* a cell nothing has been written to

ASSUME KernelAssumption ==
    /\ NRows \in Nat /\ NColumns \in Nat \ {0}
    /\ IsFiniteSet(Threads) /\ Threads # {}
    /\ Blank \notin Points

VARIABLES
    histogramsA,    \* the histograms, by row
    precomputed,    \* the SVM type is PRECOMPUTED
    kernelDefined,  \* the kernel type is one of the two there are
    retNode,        \* rows: claimed (not null), node of column 0, other cells
    serial,         \* the value of the node of column 0 that a row created
    rowCache,       \* the row that holds the kernel of a histogram, or 0
    thread,         \* of each thread: where it is, its row, its next column
    returned        \* getData has returned the matrix

vars == <<histogramsA, precomputed, kernelDefined, retNode, serial, rowCache,
          thread, returned>>

Row    == 1 .. NRows
Column == 1 .. NColumns

(* A cell of row i and column j holds the point whose kernel with the j-th *)
(* histogram of B was computed.                                            *)
RowType == [claimed : BOOLEAN, node : 0 .. NRows, cells : [Column -> Points \cup {Blank}]]

ThreadType == [pc : {"off", "scan", "head", "cells", "done", "dead"},
               index : 1 .. NRows + 1, column : 1 .. NColumns + 1]

EmptyCells == [j \in Column |-> Blank]

TypeOK ==
    /\ histogramsA \in [Row -> Points]
    /\ precomputed \in BOOLEAN
    /\ kernelDefined \in BOOLEAN
    /\ retNode \in [Row -> RowType]
    /\ serial \in [Row -> 0 .. NRows]
    /\ rowCache \in [Points -> 0 .. NRows]
    /\ thread \in [Threads -> ThreadType]
    /\ returned \in BOOLEAN

(* Rows are copied as they are, by one thread, unless the kernel is        *)
(* precomputed.                                                            *)
Init ==
    /\ histogramsA \in [Row -> Points]
    /\ precomputed \in BOOLEAN
    /\ kernelDefined \in BOOLEAN
    /\ retNode = [i \in Row |-> [claimed |-> FALSE, node |-> 0, cells |-> EmptyCells]]
    /\ serial = [i \in Row |-> 0]
    /\ rowCache = [p \in Points |-> 0]
    /\ \E one \in Threads :
          thread = [t \in Threads |->
                       [pc |-> IF precomputed \/ t = one THEN "scan" ELSE "off",
                        index |-> 1, column |-> 1]]
    /\ returned = FALSE

Parameters == <<histogramsA, precomputed, kernelDefined>>

(* Thread t goes to a place in run, at a row and a column.                 *)
At(t, pc, index, column) ==
    [thread EXCEPT ![t] = [pc |-> pc, index |-> index, column |-> column]]

-----------------------------------------------------------------------------
(* A mutant that takes the row it stands at, processed or not.             *)
IsNextRowUnchecked(t, i) == thread[t].index = i

(* The first unprocessed row at or after that of the thread.               *)
IsNextRow(t, i) ==
    /\ thread[t].index <= i
    /\ ~retNode[i].claimed
    /\ \A j \in Row : thread[t].index <= j /\ j < i => retNode[j].claimed

Cached(i) == precomputed /\ rowCache[histogramsA[i]] # 0

NoRowLeft(t) ==
    /\ thread[t].pc = "scan"
    /\ \A i \in Row : thread[t].index <= i => retNode[i].claimed
    /\ thread' = At(t, "done", NRows + 1, 1)
    /\ UNCHANGED <<Parameters, retNode, serial, rowCache, returned>>

(* A mutant that leaves the new row null.                                  *)
CloneRowLost(t) ==
    /\ thread[t].pc = "scan"
    /\ \E i \in Row :
          /\ IsNextRow(t, i)
          /\ Cached(i)
          /\ thread' = At(t, "scan", i, 1)
    /\ UNCHANGED <<Parameters, retNode, serial, rowCache, returned>>

(* clone copies the array and shares its nodes: the serial number of the   *)
(* new row is written to the node of the cached one.  The thread comes     *)
(* back to the row and then finds it processed.                            *)
CloneRow(t) ==
    /\ thread[t].pc = "scan"
    /\ \E i \in Row :
          /\ IsNextRow(t, i)
          /\ Cached(i)
          /\ LET original == retNode[rowCache[histogramsA[i]]]
             IN  /\ retNode' = [retNode EXCEPT ![i] = original]
                 /\ serial' = [serial EXCEPT ![original.node] = i]
          /\ thread' = At(t, "scan", i, 1)
    /\ UNCHANGED <<Parameters, rowCache, returned>>

(* A mutant that sets the row when it has been computed, as the threads of *)
(* SVMRandomGaussian do.                                                   *)
ClaimedLater(i) == retNode

(* The array of a new row, not null any more, keeps other threads away.    *)
NewRow == [claimed |-> TRUE, node |-> 0, cells |-> EmptyCells]

Claimed(i) == [retNode EXCEPT ![i] = NewRow]

ClaimRow(t) ==
    /\ thread[t].pc = "scan"
    /\ \E i \in Row :
          /\ IsNextRow(t, i)
          /\ ~Cached(i)
          /\ retNode' = Claimed(i)
          /\ thread' = At(t, IF precomputed THEN "head" ELSE "cells", i, 1)
    /\ UNCHANGED <<Parameters, serial, rowCache, returned>>

SerialNumber(t) ==
    /\ thread[t].pc = "head"
    /\ LET i == thread[t].index
       IN  /\ retNode' = [retNode EXCEPT ![i].node = i]
           /\ serial' = [serial EXCEPT ![i] = i]
    /\ thread' = At(t, "cells", thread[t].index, 1)
    /\ UNCHANGED <<Parameters, rowCache, returned>>

FillCell(t) ==
    /\ thread[t].pc = "cells"
    /\ thread[t].column <= NColumns
    /\ precomputed => kernelDefined
    /\ retNode' = [retNode EXCEPT ![thread[t].index].cells[thread[t].column] =
                      histogramsA[thread[t].index]]
    /\ thread' = At(t, "cells", thread[t].index, thread[t].column + 1)
    /\ UNCHANGED <<Parameters, serial, rowCache, returned>>

(* A kernel type that is not defined ends the thread.                      *)
ThreadDies(t) ==
    /\ thread[t].pc = "cells"
    /\ precomputed /\ ~kernelDefined
    /\ thread' = At(t, "dead", thread[t].index, thread[t].column)
    /\ UNCHANGED <<Parameters, retNode, serial, rowCache, returned>>

(* A mutant that never remembers a row.                                    *)
CachedNever(i) == rowCache

(* Another thread may have put a row of an equal histogram meanwhile.      *)
CachedAfter(i) ==
    IF precomputed /\ rowCache[histogramsA[i]] = 0
    THEN [rowCache EXCEPT ![histogramsA[i]] = i]
    ELSE rowCache

(* A mutant that goes on with the row after the next.                      *)
SkipRow(t) == At(t, "scan", thread[t].index + 2, 1)

NextRow(t) == At(t, "scan", thread[t].index + 1, 1)

FinishRow(t) ==
    /\ thread[t].pc = "cells"
    /\ thread[t].column = NColumns + 1
    /\ rowCache' = CachedAfter(thread[t].index)
    /\ thread' = NextRow(t)
    /\ UNCHANGED <<Parameters, retNode, serial, returned>>

Ended(t) == thread[t].pc \in {"off", "done", "dead"}

(* join returns for a thread that died too.                                *)
GetData ==
    /\ ~returned
    /\ \A t \in Threads : Ended(t)
    /\ returned' = TRUE
    /\ UNCHANGED <<Parameters, retNode, serial, rowCache, thread>>

ThreadStep(t) ==
    \/ NoRowLeft(t) \/ CloneRow(t) \/ ClaimRow(t)
    \/ SerialNumber(t) \/ FillCell(t) \/ ThreadDies(t) \/ FinishRow(t)

Next == (\E t \in Threads : ThreadStep(t)) \/ GetData

(* A started thread runs, and so does the one that waits in getData.       *)
Fairness == (\A t \in Threads : WF_vars(ThreadStep(t))) /\ WF_vars(GetData)

Spec == Init /\ [][Next]_vars

FairSpec == Spec /\ Fairness

-----------------------------------------------------------------------------
Working(t) == thread[t].pc \in {"head", "cells"}

(* Row i holds the kernel of its own histogram with all of B.              *)
Complete(i) ==
    /\ retNode[i].claimed
    /\ precomputed => retNode[i].node # 0
    /\ \A j \in Column : retNode[i].cells[j] = histogramsA[i]

(* Once a row is not null "no other threads will try to use that": two     *)
(* threads never fill the same row, although they fill it without lock.    *)
OneOwner ==
    \A t, u \in Threads :
        Working(t) /\ Working(u) /\ thread[t].index = thread[u].index => t = u

(* A row found in the cache is the finished row of an equal histogram: no  *)
(* thread clones a row another one is still filling.                       *)
CachedRowsComplete ==
    \A p \in Points : rowCache[p] # 0 =>
        histogramsA[rowCache[p]] = p /\ Complete(rowCache[p])

(* What getData returns has no hole and no row of another histogram,       *)
(* whichever thread claimed, cloned or computed which row.                 *)
ReturnedRowsComplete ==
    returned /\ (precomputed => kernelDefined) => \A i \in Row : Complete(i)

(* A finished row is never written again, by a thread that was slower or   *)
(* by one that clones it, but for the number in its column 0.              *)
CompleteStays ==
    [][\A i \in Row : Complete(i) => retNode'[i] = retNode[i]]_vars

(* The rows that are no clones, of one histogram.                          *)
ComputedRows(p) == {i \in Row : retNode[i].node = i /\ histogramsA[i] = p}

(* However the threads race for the cache, at most as many rows are        *)
(* computed for a histogram as there are threads; the others are clones.   *)
ComputedOncePerThread ==
    \A p \in Points : Cardinality(ComputedRows(p)) <= Cardinality(Threads)

(* Every thread ends and getData returns, even when threads die.           *)
DataReturned == <>returned

-----------------------------------------------------------------------------
(* A thread has passed only rows that are not null, and what it has filled *)
(* of its row is right.                                                    *)
ThreadInv(t) ==
    /\ \A i \in Row : i < thread[t].index => retNode[i].claimed
    /\ thread[t].pc = "done" => thread[t].index = NRows + 1
    /\ thread[t].pc = "off" => ~precomputed
    /\ thread[t].pc = "dead" => precomputed /\ ~kernelDefined
    /\ Working(t) =>
          /\ thread[t].index \in Row
          /\ retNode[thread[t].index].claimed
          /\ \A j \in Column : j < thread[t].column =>
                retNode[thread[t].index].cells[j] = histogramsA[thread[t].index]
    /\ thread[t].pc = "head" =>
          precomputed /\ retNode[thread[t].index].node = 0
    /\ thread[t].pc = "cells" /\ precomputed => retNode[thread[t].index].node # 0

(* A row that is not null is finished, or a thread is filling it, or was   *)
(* when it died.                                                           *)
RowInv(i) ==
    /\ ~retNode[i].claimed => retNode[i].node = 0
    /\ retNode[i].claimed =>
          \/ Complete(i)
          \/ \E t \in Threads : thread[t].index = i /\ (Working(t) \/ thread[t].pc = "dead")

IInv ==
    /\ TypeOK
    /\ OneOwner
    /\ CachedRowsComplete
    /\ \A t \in Threads : ThreadInv(t)
    /\ \A i \in Row : RowInv(i)
    /\ returned => \A t \in Threads : Ended(t)
    /\ \E t \in Threads : thread[t].pc # "off"
=============================================================================
