--------------------------- MODULE SVMKernel_proofs ---------------------------
(***************************************************************************)
(* For any number of threads, histograms and columns: no two threads fill  *)
(* one row, what the cache holds is finished, and the matrix getData       *)
(* returns has no hole.  IInv is inductive; each step of a thread touches  *)
(* at most its own row or one that was null, so what the others know       *)
(* stays true.                                                             *)
(***************************************************************************)
EXTENDS SVMKernel, FiniteSetTheorems, TLAPS

(* What a step of thread t leaves to the others: their locals, rows that   *)
(* are not null, rows others fill and finished rows.                       *)
LeavesOthers(t) ==
    /\ UNCHANGED Parameters
    /\ \A u \in Threads \ {t} : thread'[u] = thread[u]
    /\ \A i \in Row : retNode[i].claimed => retNode'[i].claimed
    /\ \A u \in Threads \ {t} :
          Working(u) => retNode'[thread[u].index] = retNode[thread[u].index]
    /\ \A i \in Row : Complete(i) => retNode'[i] = retNode[i]

(* Row and column numbers are integers.                                    *)
LEMMA Numbers ==
    /\ NRows \in Nat /\ NColumns \in Nat /\ NColumns >= 1
    /\ Row \subseteq Nat /\ Column \subseteq Nat
    /\ 0 \notin Row /\ 1 \in Column
BY KernelAssumption DEF Row, Column

(* The invariant of a thread survives the steps of another.                *)
LEMMA OtherThread ==
    ASSUME IInv, NEW t \in Threads, NEW u \in Threads, u # t, LeavesOthers(t)
    PROVE  ThreadInv(u)'
<1>1. ThreadInv(u)
  BY DEF IInv
<1>2. thread'[u] = thread[u]
  BY DEF LeavesOthers
<1>3. \A i \in Row : retNode[i].claimed => retNode'[i].claimed
  BY DEF LeavesOthers
<1>4. Working(u) => retNode'[thread[u].index] = retNode[thread[u].index]
  BY DEF LeavesOthers
<1>5. UNCHANGED <<histogramsA, precomputed, kernelDefined>>
  BY DEF LeavesOthers, Parameters
<1> QED
  BY <1>1, <1>2, <1>3, <1>4, <1>5 DEF ThreadInv, Working

(* A finished row stays finished.                                          *)
LEMMA CompleteRow ==
    ASSUME NEW t \in Threads, LeavesOthers(t), NEW i \in Row, Complete(i)
    PROVE  Complete(i)'
<1>1. retNode'[i] = retNode[i]
  BY DEF LeavesOthers
<1> QED
  BY <1>1 DEF Complete, LeavesOthers, Parameters

(* Rows that other threads fill, or died on, keep their thread.            *)
LEMMA OtherRows ==
    ASSUME IInv, NEW t \in Threads, LeavesOthers(t), NEW i \in Row,
           retNode[i].claimed,
           Working(t) \/ thread[t].pc = "dead" => thread[t].index # i
    PROVE  RowInv(i)'
<1>1. Complete(i) \/ \E u \in Threads :
          thread[u].index = i /\ (Working(u) \/ thread[u].pc = "dead")
  BY DEF IInv, RowInv
<1>2. CASE Complete(i)
  <2>1. Complete(i)'
    BY <1>2, CompleteRow
  <2> QED
    BY <2>1 DEF RowInv, Complete
<1>3. CASE \E u \in Threads :
          thread[u].index = i /\ (Working(u) \/ thread[u].pc = "dead")
  <2>1. PICK u \in Threads :
          thread[u].index = i /\ (Working(u) \/ thread[u].pc = "dead")
    BY <1>3
  <2>2. u # t
    BY <2>1
  <2>3. thread'[u] = thread[u] /\ retNode'[i].claimed
    BY <2>2 DEF LeavesOthers
  <2> QED
    BY <2>1, <2>3 DEF RowInv, Working
<1> QED
  BY <1>1, <1>2, <1>3

(* The cache, left alone, still names finished rows.                       *)
LEMMA CacheKept ==
    ASSUME IInv, NEW t \in Threads, LeavesOthers(t), rowCache' = rowCache
    PROVE  CachedRowsComplete'
<1> SUFFICES ASSUME NEW p \in Points, rowCache[p] # 0
             PROVE  histogramsA'[rowCache[p]] = p /\ Complete(rowCache[p])'
  BY DEF CachedRowsComplete
<1>1. rowCache[p] \in Row
  BY Numbers DEF IInv, TypeOK, Row
<1>2. histogramsA[rowCache[p]] = p /\ Complete(rowCache[p])
  BY DEF IInv, CachedRowsComplete
<1> QED
  BY <1>1, <1>2, CompleteRow DEF LeavesOthers, Parameters

(* Two threads at one row: not after a step of t that stays at its row or  *)
(* leaves it.                                                              *)
LEMMA OwnersKept ==
    ASSUME IInv, NEW t \in Threads, LeavesOthers(t),
           Working(t)' => Working(t) /\ thread'[t].index = thread[t].index
    PROVE  OneOwner'
<1> SUFFICES ASSUME NEW u \in Threads, NEW v \in Threads,
                    Working(u)', Working(v)', thread'[u].index = thread'[v].index
             PROVE  u = v
  BY DEF OneOwner
<1>1. \A w \in Threads : Working(w)' =>
          Working(w) /\ thread'[w].index = thread[w].index
  BY DEF LeavesOthers, Working
<1> QED
  BY <1>1 DEF IInv, OneOwner

-----------------------------------------------------------------------------
(* The steps of a thread.                                                  *)

(* A change of one thread's locals keeps the type of all.                  *)
LEMMA ThreadTyped ==
    ASSUME IInv, NEW t \in Threads,
           NEW pc \in {"off", "scan", "head", "cells", "done", "dead"},
           NEW i \in 1 .. NRows + 1, NEW j \in 1 .. NColumns + 1,
           thread' = At(t, pc, i, j)
    PROVE  /\ thread' \in [Threads -> ThreadType]
           /\ thread'[t].pc = pc /\ thread'[t].index = i /\ thread'[t].column = j
           /\ \A u \in Threads \ {t} : thread'[u] = thread[u]
BY DEF IInv, TypeOK, ThreadType, At

(* What the invariant says of one thread, in the types of its fields.      *)
LEMMA ThreadFields ==
    ASSUME IInv, NEW t \in Threads
    PROVE  /\ thread[t] \in ThreadType
           /\ thread[t].index \in Nat /\ thread[t].index \in 1 .. NRows + 1
           /\ thread[t].column \in Nat /\ thread[t].column \in 1 .. NColumns + 1
           /\ ThreadInv(t)
           /\ Working(t) => thread[t].index \in Row
BY Numbers DEF IInv, TypeOK, ThreadType, ThreadInv

(* Once every row from the thread's on is claimed, all are.                *)
LEMMA NoRowLeftKeeps ==
    ASSUME IInv, NEW t \in Threads, NoRowLeft(t)
    PROVE  IInv' /\ LeavesOthers(t)
<1> USE Numbers
<1>1. /\ thread[t].pc = "scan"
      /\ \A i \in Row : thread[t].index <= i => retNode[i].claimed
      /\ UNCHANGED <<Parameters, retNode, serial, rowCache, returned>>
      /\ TypeOK
      /\ thread' = At(t, "done", NRows + 1, 1)
  BY DEF NoRowLeft, IInv
<1>3. /\ thread' \in [Threads -> ThreadType]
      /\ thread'[t].pc = "done" /\ thread'[t].index = NRows + 1
      /\ \A u \in Threads \ {t} : thread'[u] = thread[u]
  <2>1. NRows + 1 \in 1 .. NRows + 1 /\ 1 \in 1 .. NColumns + 1
    OBVIOUS
  <2> QED
    BY <1>1, <2>1, ThreadTyped
<1>4. LeavesOthers(t)
  BY <1>1, <1>3 DEF LeavesOthers
<1>5. TypeOK'
  BY <1>1, <1>3 DEF TypeOK, Parameters
<1>6. OneOwner' /\ CachedRowsComplete'
  BY <1>1, <1>3, <1>4, OwnersKept, CacheKept DEF Working
<1>7. \A i \in Row : retNode[i].claimed
  BY <1>1, ThreadFields DEF ThreadInv
<1>8. ThreadInv(t)'
  BY <1>1, <1>3, <1>7 DEF ThreadInv, Working
<1>9. \A u \in Threads : ThreadInv(u)'
  BY <1>4, <1>8, OtherThread
<1>10. \A i \in Row : RowInv(i)'
  BY <1>1, <1>4, <1>7, OtherRows DEF Working
<1>11. /\ returned' => \A u \in Threads : Ended(u)'
       /\ \E u \in Threads : thread'[u].pc # "off"
  BY <1>1, <1>3 DEF IInv, Ended
<1> QED
  BY <1>4, <1>5, <1>6, <1>9, <1>10, <1>11 DEF IInv

(* A clone of a finished row is finished; the row was null, so nobody else *)
(* was at it.                                                              *)
LEMMA CloneRowKeeps ==
    ASSUME IInv, NEW t \in Threads, CloneRow(t)
    PROVE  IInv' /\ LeavesOthers(t)
<1> USE Numbers
<1>1. PICK i \in Row :
          /\ IsNextRow(t, i)
          /\ Cached(i)
          /\ retNode' = [retNode EXCEPT ![i] = retNode[rowCache[histogramsA[i]]]]
          /\ serial' = [serial EXCEPT ![retNode[rowCache[histogramsA[i]]].node] = i]
          /\ thread' = At(t, "scan", i, 1)
  BY DEF CloneRow
<1> DEFINE c == rowCache[histogramsA[i]]
<1>2. /\ thread[t].pc = "scan"
      /\ UNCHANGED <<Parameters, rowCache, returned>>
      /\ TypeOK
      /\ ~retNode[i].claimed
      /\ precomputed
  BY <1>1 DEF CloneRow, IInv, IsNextRow, Cached
<1>3. c \in Row /\ histogramsA[c] = histogramsA[i] /\ Complete(c)
  <2>1. histogramsA[i] \in Points
    BY <1>2 DEF TypeOK
  <2>2. c \in 0 .. NRows /\ c # 0
    BY <1>1, <1>2, <2>1 DEF TypeOK, Cached
  <2> QED
    BY <2>1, <2>2 DEF IInv, CachedRowsComplete, Row
<1>4. /\ thread' \in [Threads -> ThreadType]
      /\ thread'[t].pc = "scan" /\ thread'[t].index = i
      /\ \A u \in Threads \ {t} : thread'[u] = thread[u]
  <2>1. i \in 1 .. NRows + 1 /\ 1 \in 1 .. NColumns + 1
    BY DEF Row
  <2> QED
    BY <1>1, <2>1, ThreadTyped
<1>5. /\ retNode' \in [Row -> RowType]
      /\ retNode'[i] = retNode[c]
      /\ \A k \in Row : k # i => retNode'[k] = retNode[k]
  BY <1>1, <1>2, <1>3 DEF TypeOK
<1>6. Complete(i)'
  BY <1>2, <1>3, <1>5 DEF Complete, Parameters
<1>7. LeavesOthers(t)
  <2>1. \A u \in Threads : Working(u) => thread[u].index \in Row /\ thread[u].index # i
    BY <1>2, ThreadFields DEF ThreadInv
  <2>2. ~Complete(i)
    BY <1>2 DEF Complete
  <2> QED
    BY <1>2, <1>4, <1>5, <2>1, <2>2 DEF LeavesOthers
<1>8. TypeOK'
  <2>1. serial' \in [Row -> 0 .. NRows]
    <3> DEFINE n == retNode[c].node
    <3>1. serial \in [Row -> 0 .. NRows] /\ i \in 0 .. NRows
      BY <1>2 DEF TypeOK, Row
    <3>2. serial' = [serial EXCEPT ![n] = i]
      BY <1>1
    <3> HIDE DEF n
    <3> QED
      BY <3>1, <3>2
  <2> QED
    BY <1>2, <1>4, <1>5, <2>1 DEF TypeOK, Parameters
<1>9. OneOwner' /\ CachedRowsComplete'
  BY <1>2, <1>4, <1>7, OwnersKept, CacheKept DEF Working
<1>10. ThreadInv(t)'
  <2>1. \A k \in Row : k < i => retNode'[k].claimed
    BY <1>1, <1>5, ThreadFields DEF IsNextRow, ThreadInv
  <2> QED
    BY <1>4, <2>1 DEF ThreadInv, Working
<1>11. \A u \in Threads : ThreadInv(u)'
  BY <1>7, <1>10, OtherThread
<1>12. \A k \in Row : RowInv(k)'
  <2>1. \A k \in Row : k # i /\ retNode[k].claimed => RowInv(k)'
    BY <1>2, <1>7, OtherRows DEF Working
  <2>2. \A k \in Row : k # i /\ ~retNode[k].claimed => RowInv(k)'
    BY <1>5 DEF IInv, RowInv
  <2>3. RowInv(i)'
    BY <1>6 DEF RowInv, Complete
  <2> QED
    BY <2>1, <2>2, <2>3
<1>13. /\ returned' => \A u \in Threads : Ended(u)'
       /\ \E u \in Threads : thread'[u].pc # "off"
  BY <1>2, <1>4 DEF IInv, Ended
<1> QED
  BY <1>7, <1>8, <1>9, <1>11, <1>12, <1>13 DEF IInv

(* A claimed row is the thread's own: it was null.                         *)
LEMMA ClaimRowKeeps ==
    ASSUME IInv, NEW t \in Threads, ClaimRow(t)
    PROVE  IInv' /\ LeavesOthers(t)
<1> USE Numbers
<1> DEFINE pc == IF precomputed THEN "head" ELSE "cells"
<1>1. PICK i \in Row :
          /\ IsNextRow(t, i)
          /\ retNode' = [retNode EXCEPT ![i] = NewRow]
          /\ thread' = At(t, pc, i, 1)
  BY DEF ClaimRow, Claimed
<1>2. /\ thread[t].pc = "scan"
      /\ UNCHANGED <<Parameters, serial, rowCache, returned>>
      /\ TypeOK
      /\ ~retNode[i].claimed
  BY <1>1 DEF ClaimRow, IInv, IsNextRow
<1>3. /\ thread' \in [Threads -> ThreadType]
      /\ thread'[t].pc = pc /\ thread'[t].index = i /\ thread'[t].column = 1
      /\ \A u \in Threads \ {t} : thread'[u] = thread[u]
  <2>1. i \in 1 .. NRows + 1 /\ 1 \in 1 .. NColumns + 1
    BY DEF Row
  <2> QED
    BY <1>1, <2>1, ThreadTyped
<1>4. /\ retNode' \in [Row -> RowType]
      /\ retNode'[i].claimed
      /\ retNode'[i].node = 0
      /\ \A k \in Row : k # i => retNode'[k] = retNode[k]
  <2>1. NewRow \in RowType /\ NewRow.claimed /\ NewRow.node = 0
    BY DEF NewRow, RowType, EmptyCells
  <2> QED
    BY <1>1, <1>2, <2>1 DEF TypeOK
<1>5. \A u \in Threads : Working(u) => thread[u].index \in Row /\ thread[u].index # i
  BY <1>2, ThreadFields DEF ThreadInv
<1>6. LeavesOthers(t)
  <2>1. ~Complete(i)
    BY <1>2 DEF Complete
  <2> QED
    BY <1>2, <1>3, <1>4, <1>5, <2>1 DEF LeavesOthers
<1>7. TypeOK'
  BY <1>2, <1>3, <1>4 DEF TypeOK, Parameters
<1>8. OneOwner'
  <2> SUFFICES ASSUME NEW u \in Threads, NEW v \in Threads,
                      Working(u)', Working(v)', thread'[u].index = thread'[v].index
               PROVE  u = v
    BY DEF OneOwner
  <2>1. \A w \in Threads \ {t} : Working(w)' =>
            Working(w) /\ thread'[w].index = thread[w].index /\ thread'[w].index # i
    BY <1>3, <1>5 DEF Working
  <2> QED
    BY <1>3, <2>1 DEF IInv, OneOwner
<1>9. CachedRowsComplete'
  BY <1>2, <1>6, CacheKept
<1>10. ThreadInv(t)'
  <2>1. \A k \in Row : k < i => retNode'[k].claimed
    BY <1>1, <1>4, ThreadFields DEF IsNextRow, ThreadInv
  <2>2. \A j \in Column : ~(j < 1)
    BY DEF Column
  <2> QED
    BY <1>2, <1>3, <1>4, <2>1, <2>2 DEF ThreadInv, Working, Parameters
<1>11. \A u \in Threads : ThreadInv(u)'
  BY <1>6, <1>10, OtherThread
<1>12. \A k \in Row : RowInv(k)'
  <2>1. \A k \in Row : k # i /\ retNode[k].claimed => RowInv(k)'
    BY <1>2, <1>6, OtherRows DEF Working
  <2>2. \A k \in Row : k # i /\ ~retNode[k].claimed => RowInv(k)'
    BY <1>4 DEF IInv, RowInv
  <2>3. RowInv(i)'
    BY <1>3, <1>4 DEF RowInv, Working
  <2> QED
    BY <2>1, <2>2, <2>3
<1>13. /\ returned' => \A u \in Threads : Ended(u)'
       /\ \E u \in Threads : thread'[u].pc # "off"
  BY <1>2, <1>3 DEF IInv, Ended
<1> QED
  BY <1>6, <1>7, <1>8, <1>9, <1>11, <1>12, <1>13 DEF IInv

(* The node of column 0 goes to the thread's own row, which is no finished *)
(* one as long as the node is missing.                                     *)
LEMMA SerialNumberKeeps ==
    ASSUME IInv, NEW t \in Threads, SerialNumber(t)
    PROVE  IInv' /\ LeavesOthers(t)
<1> USE Numbers
<1>0. PICK i : i = thread[t].index
  OBVIOUS
<1>1. /\ thread[t].pc = "head"
      /\ retNode' = [retNode EXCEPT ![i].node = i]
      /\ serial' = [serial EXCEPT ![i] = i]
      /\ thread' = At(t, "cells", i, 1)
      /\ UNCHANGED <<Parameters, rowCache, returned>>
      /\ TypeOK
  BY <1>0 DEF SerialNumber, IInv
<1>2. i \in Row /\ retNode[i].claimed /\ precomputed /\ retNode[i].node = 0
  BY <1>0, <1>1, ThreadFields DEF ThreadInv, Working
<1>3. /\ thread' \in [Threads -> ThreadType]
      /\ thread'[t].pc = "cells" /\ thread'[t].index = i /\ thread'[t].column = 1
      /\ \A u \in Threads \ {t} : thread'[u] = thread[u]
  <2>1. i \in 1 .. NRows + 1 /\ 1 \in 1 .. NColumns + 1
    BY <1>2 DEF Row
  <2> QED
    BY <1>1, <2>1, ThreadTyped
<1>4. /\ retNode' \in [Row -> RowType]
      /\ retNode'[i].claimed
      /\ retNode'[i].node = i
      /\ \A k \in Row : k # i => retNode'[k] = retNode[k]
  <2>1. i \in 0 .. NRows
    BY <1>2 DEF Row
  <2> QED
    BY <1>1, <1>2, <2>1 DEF TypeOK, RowType
<1>5. \A u \in Threads \ {t} : Working(u) => thread[u].index \in Row /\ thread[u].index # i
  BY <1>0, <1>1, ThreadFields DEF IInv, OneOwner, Working
<1>6. LeavesOthers(t)
  <2>1. ~Complete(i)
    BY <1>2 DEF Complete
  <2> QED
    BY <1>1, <1>3, <1>4, <1>5, <2>1 DEF LeavesOthers
<1>7. TypeOK'
  <2>1. serial' \in [Row -> 0 .. NRows]
    BY <1>1, <1>2 DEF TypeOK, Row
  <2> QED
    BY <1>1, <1>3, <1>4, <2>1 DEF TypeOK, Parameters
<1>8. OneOwner' /\ CachedRowsComplete'
  BY <1>0, <1>1, <1>3, <1>6, OwnersKept, CacheKept DEF Working
<1>9. ThreadInv(t)'
  <2>1. \A k \in Row : k < i => retNode'[k].claimed
    BY <1>0, <1>4, ThreadFields DEF ThreadInv
  <2>2. \A j \in Column : ~(j < 1)
    BY DEF Column
  <2>3. retNode'[i].node # 0
    BY <1>2, <1>4
  <2> QED
    BY <1>2, <1>3, <1>4, <2>1, <2>2, <2>3 DEF ThreadInv, Working
<1>10. \A u \in Threads : ThreadInv(u)'
  BY <1>6, <1>9, OtherThread
<1>11. \A k \in Row : RowInv(k)'
  <2>1. \A k \in Row : k # i /\ retNode[k].claimed => RowInv(k)'
    BY <1>0, <1>6, OtherRows
  <2>2. \A k \in Row : k # i /\ ~retNode[k].claimed => RowInv(k)'
    BY <1>4 DEF IInv, RowInv
  <2>3. RowInv(i)'
    BY <1>3, <1>4 DEF RowInv, Working
  <2> QED
    BY <2>1, <2>2, <2>3
<1>12. /\ returned' => \A u \in Threads : Ended(u)'
       /\ \E u \in Threads : thread'[u].pc # "off"
  BY <1>1, <1>3 DEF IInv, Ended
<1> QED
  BY <1>6, <1>7, <1>8, <1>10, <1>11, <1>12 DEF IInv

(* A cell of the thread's own row gets the value it must have; in a row    *)
(* that is finished it had it before.                                      *)
LEMMA FillCellKeeps ==
    ASSUME IInv, NEW t \in Threads, FillCell(t)
    PROVE  IInv' /\ LeavesOthers(t)
<1> USE Numbers
<1>0. PICK i, c : i = thread[t].index /\ c = thread[t].column
  OBVIOUS
<1>1. /\ thread[t].pc = "cells"
      /\ c <= NColumns
      /\ retNode' = [retNode EXCEPT ![i].cells[c] = histogramsA[i]]
      /\ thread' = At(t, "cells", i, c + 1)
      /\ UNCHANGED <<Parameters, serial, rowCache, returned>>
      /\ TypeOK
  BY <1>0 DEF FillCell, IInv
<1>2. /\ i \in Row /\ c \in Column /\ retNode[i].claimed
      /\ precomputed => retNode[i].node # 0
      /\ \A j \in Column : j < c => retNode[i].cells[j] = histogramsA[i]
  BY <1>0, <1>1, ThreadFields DEF ThreadInv, Working, Column
<1>3. /\ thread' \in [Threads -> ThreadType]
      /\ thread'[t].pc = "cells" /\ thread'[t].index = i /\ thread'[t].column = c + 1
      /\ \A u \in Threads \ {t} : thread'[u] = thread[u]
  <2>1. i \in 1 .. NRows + 1 /\ c + 1 \in 1 .. NColumns + 1
    BY <1>2 DEF Row, Column
  <2> QED
    BY <1>1, <2>1, ThreadTyped
<1>4. /\ retNode' \in [Row -> RowType]
      /\ retNode'[i].claimed
      /\ retNode'[i].node = retNode[i].node
      /\ retNode'[i].cells = [retNode[i].cells EXCEPT ![c] = histogramsA[i]]
      /\ \A k \in Row : k # i => retNode'[k] = retNode[k]
  <2>1. retNode[i] \in RowType /\ histogramsA[i] \in Points
    BY <1>1, <1>2 DEF TypeOK
  <2> DEFINE row == [retNode[i] EXCEPT !.cells = [retNode[i].cells EXCEPT ![c] = histogramsA[i]]]
  <2>2. retNode' = [retNode EXCEPT ![i] = row]
    BY <1>1
  <2>3. /\ row \in RowType
        /\ row.claimed = retNode[i].claimed
        /\ row.node = retNode[i].node
        /\ row.cells = [retNode[i].cells EXCEPT ![c] = histogramsA[i]]
    BY <2>1 DEF RowType
  <2> HIDE DEF row
  <2> QED
    BY <1>1, <1>2, <2>2, <2>3 DEF TypeOK
<1>5. \A u \in Threads \ {t} : Working(u) => thread[u].index \in Row /\ thread[u].index # i
  BY <1>0, <1>1, ThreadFields DEF IInv, OneOwner, Working
<1>6. Complete(i) => retNode'[i] = retNode[i]
  <2> SUFFICES ASSUME Complete(i)
               PROVE  retNode'[i] = retNode[i]
    OBVIOUS
  <2>1. retNode[i].cells[c] = histogramsA[i]
    BY <1>2 DEF Complete
  <2>2. retNode[i] \in RowType /\ retNode'[i] \in RowType
    BY <1>1, <1>2, <1>4 DEF TypeOK
  <2>3. retNode'[i].cells = retNode[i].cells
    BY <1>4, <2>1, <2>2 DEF RowType
  <2> QED
    BY <1>2, <1>4, <2>2, <2>3 DEF RowType
<1>7. LeavesOthers(t)
  BY <1>1, <1>3, <1>4, <1>5, <1>6 DEF LeavesOthers
<1>8. TypeOK'
  BY <1>1, <1>3, <1>4 DEF TypeOK, Parameters
<1>9. OneOwner' /\ CachedRowsComplete'
  BY <1>0, <1>1, <1>3, <1>7, OwnersKept, CacheKept DEF Working
<1>10. ThreadInv(t)'
  <2>1. \A k \in Row : k < i => retNode'[k].claimed
    BY <1>0, <1>4, ThreadFields DEF ThreadInv
  <2>2. \A j \in Column : j < c + 1 => retNode'[i].cells[j] = histogramsA[i]
    <3>1. retNode[i].cells \in [Column -> Points \cup {Blank}]
      BY <1>1, <1>2 DEF TypeOK, RowType
    <3>2. \A j \in Column : j < c + 1 => j < c \/ j = c
      BY <1>2 DEF Column
    <3> QED
      BY <1>2, <1>4, <3>1, <3>2
  <2>3. UNCHANGED <<histogramsA, precomputed, kernelDefined>>
    BY <1>1 DEF Parameters
  <2> QED
    BY <1>2, <1>3, <1>4, <2>1, <2>2, <2>3 DEF ThreadInv, Working
<1>11. \A u \in Threads : ThreadInv(u)'
  BY <1>7, <1>10, OtherThread
<1>12. \A k \in Row : RowInv(k)'
  <2>1. \A k \in Row : k # i /\ retNode[k].claimed => RowInv(k)'
    BY <1>0, <1>7, OtherRows
  <2>2. \A k \in Row : k # i /\ ~retNode[k].claimed => RowInv(k)'
    BY <1>4 DEF IInv, RowInv
  <2>3. RowInv(i)'
    BY <1>3, <1>4 DEF RowInv, Working
  <2> QED
    BY <2>1, <2>2, <2>3
<1>13. /\ returned' => \A u \in Threads : Ended(u)'
       /\ \E u \in Threads : thread'[u].pc # "off"
  BY <1>1, <1>3 DEF IInv, Ended
<1> QED
  BY <1>7, <1>8, <1>9, <1>11, <1>12, <1>13 DEF IInv

(* An undefined kernel: the thread leaves its row as it is.                *)
LEMMA ThreadDiesKeeps ==
    ASSUME IInv, NEW t \in Threads, ThreadDies(t)
    PROVE  IInv' /\ LeavesOthers(t)
<1> USE Numbers
<1>0. PICK i, c : i = thread[t].index /\ c = thread[t].column
  OBVIOUS
<1>1. /\ thread[t].pc = "cells"
      /\ precomputed /\ ~kernelDefined
      /\ thread' = At(t, "dead", i, c)
      /\ UNCHANGED <<Parameters, retNode, serial, rowCache, returned>>
      /\ TypeOK
  BY <1>0 DEF ThreadDies, IInv
<1>2. i \in Row /\ retNode[i].claimed
  BY <1>0, <1>1, ThreadFields DEF ThreadInv, Working
<1>3. /\ thread' \in [Threads -> ThreadType]
      /\ thread'[t].pc = "dead" /\ thread'[t].index = i
      /\ \A u \in Threads \ {t} : thread'[u] = thread[u]
  BY <1>0, <1>1, ThreadFields, ThreadTyped, SMTT(30)
<1>4. LeavesOthers(t)
  BY <1>1, <1>3 DEF LeavesOthers
<1>5. TypeOK'
  BY <1>1, <1>3 DEF TypeOK, Parameters
<1>6. OneOwner' /\ CachedRowsComplete'
  BY <1>1, <1>3, <1>4, OwnersKept, CacheKept DEF Working
<1>7. ThreadInv(t)'
  BY <1>0, <1>1, <1>3, ThreadFields DEF ThreadInv, Working, Parameters
<1>8. \A u \in Threads : ThreadInv(u)'
  BY <1>4, <1>7, OtherThread
<1>9. \A k \in Row : RowInv(k)'
  <2>1. \A k \in Row : k # i /\ retNode[k].claimed => RowInv(k)'
    BY <1>0, <1>4, OtherRows
  <2>2. \A k \in Row : k # i /\ ~retNode[k].claimed => RowInv(k)'
    BY <1>1 DEF IInv, RowInv
  <2>3. RowInv(i)'
    BY <1>1, <1>2, <1>3 DEF RowInv
  <2> QED
    BY <2>1, <2>2, <2>3
<1>10. /\ returned' => \A u \in Threads : Ended(u)'
       /\ \E u \in Threads : thread'[u].pc # "off"
  BY <1>1, <1>3 DEF IInv, Ended
<1> QED
  BY <1>4, <1>5, <1>6, <1>8, <1>9, <1>10 DEF IInv

(* All cells are filled, so the row is finished and may be remembered.     *)
LEMMA FinishRowKeeps ==
    ASSUME IInv, NEW t \in Threads, FinishRow(t)
    PROVE  IInv' /\ LeavesOthers(t)
<1> USE Numbers
<1>0. PICK i : i = thread[t].index
  OBVIOUS
<1>1. /\ thread[t].pc = "cells"
      /\ thread[t].column = NColumns + 1
      /\ rowCache' = CachedAfter(i)
      /\ thread' = At(t, "scan", i + 1, 1)
      /\ UNCHANGED <<Parameters, retNode, serial, returned>>
      /\ TypeOK
  BY <1>0 DEF FinishRow, NextRow, IInv
<1>2. i \in Row /\ Complete(i)
  <2>1. \A j \in Column : j < NColumns + 1
    BY DEF Column
  <2> QED
    BY <1>0, <1>1, <2>1, ThreadFields DEF ThreadInv, Working, Complete
<1>3. /\ thread' \in [Threads -> ThreadType]
      /\ thread'[t].pc = "scan" /\ thread'[t].index = i + 1
      /\ \A u \in Threads \ {t} : thread'[u] = thread[u]
  <2>1. i + 1 \in 1 .. NRows + 1 /\ 1 \in 1 .. NColumns + 1
    BY <1>2 DEF Row
  <2> QED
    BY <1>1, <2>1, ThreadTyped
<1>4. LeavesOthers(t)
  BY <1>1, <1>3 DEF LeavesOthers
<1>5. /\ rowCache' \in [Points -> 0 .. NRows]
      /\ \A p \in Points : \/ rowCache'[p] = rowCache[p]
                           \/ p = histogramsA[i] /\ rowCache'[p] = i
  <2>1. i \in 0 .. NRows /\ rowCache \in [Points -> 0 .. NRows]
    BY <1>1, <1>2 DEF Row, TypeOK
  <2>2. \/ rowCache' = rowCache
        \/ rowCache' = [rowCache EXCEPT ![histogramsA[i]] = i]
    BY <1>1 DEF CachedAfter
  <2> QED
    BY <2>1, <2>2
<1>6. TypeOK'
  BY <1>1, <1>3, <1>5 DEF TypeOK, Parameters
<1>7. OneOwner'
  BY <1>3, <1>4, OwnersKept DEF Working
<1>8. CachedRowsComplete'
  <2> SUFFICES ASSUME NEW p \in Points, rowCache'[p] # 0
               PROVE  histogramsA[rowCache'[p]] = p /\ Complete(rowCache'[p])
    BY <1>1 DEF CachedRowsComplete, Complete, Parameters
  <2> QED
    BY <1>2, <1>5 DEF IInv, CachedRowsComplete
<1>9. ThreadInv(t)'
  <2>1. \A k \in Row : k < i + 1 => retNode'[k].claimed
    <3>1. \A k \in Row : k < i + 1 => k < i \/ k = i
      BY <1>2 DEF Row
    <3> QED
      BY <1>0, <1>1, <1>2, <3>1, ThreadFields DEF ThreadInv, Complete
  <2> QED
    BY <1>3, <2>1 DEF ThreadInv, Working
<1>10. \A u \in Threads : ThreadInv(u)'
  BY <1>4, <1>9, OtherThread
<1>11. \A k \in Row : RowInv(k)'
  <2>1. \A k \in Row : k # i /\ retNode[k].claimed => RowInv(k)'
    BY <1>0, <1>4, OtherRows
  <2>2. \A k \in Row : k # i /\ ~retNode[k].claimed => RowInv(k)'
    BY <1>1 DEF IInv, RowInv
  <2>3. RowInv(i)'
    <3>1. Complete(i)'
      BY <1>2, <1>4, CompleteRow
    <3> QED
      BY <3>1 DEF RowInv, Complete
  <2> QED
    BY <2>1, <2>2, <2>3
<1>12. /\ returned' => \A u \in Threads : Ended(u)'
       /\ \E u \in Threads : thread'[u].pc # "off"
  BY <1>1, <1>3 DEF IInv, Ended
<1> QED
  BY <1>4, <1>6, <1>7, <1>8, <1>10, <1>11, <1>12 DEF IInv

-----------------------------------------------------------------------------
(* Nothing is claimed at first, and a thread is started.                   *)
LEMMA InitInv == Init => IInv
<1> SUFFICES ASSUME Init PROVE IInv
  OBVIOUS
<1> USE Numbers
<1>1. PICK one \in Threads :
          thread = [t \in Threads |->
                       [pc |-> IF precomputed \/ t = one THEN "scan" ELSE "off",
                        index |-> 1, column |-> 1]]
  BY DEF Init
<1>2. /\ \A t \in Threads : /\ thread[t].pc \in {"scan", "off"}
                            /\ thread[t].index = 1
                            /\ thread[t].pc = "off" => ~precomputed
      /\ thread[one].pc = "scan"
  BY <1>1
<1>3. \A i \in Row : ~retNode[i].claimed /\ retNode[i].node = 0
  BY DEF Init
<1>4. TypeOK
  <2>1. thread \in [Threads -> ThreadType]
    BY <1>1 DEF ThreadType
  <2>2. retNode \in [Row -> RowType]
    BY DEF Init, RowType, EmptyCells
  <2>3. serial \in [Row -> 0 .. NRows] /\ rowCache \in [Points -> 0 .. NRows]
    BY DEF Init
  <2> QED
    BY <2>1, <2>2, <2>3 DEF Init, TypeOK
<1>5. \A t \in Threads : ThreadInv(t)
  <2>1. \A i \in Row : ~(i < 1)
    BY DEF Row
  <2> QED
    BY <1>2, <2>1 DEF ThreadInv, Working
<1>6. OneOwner
  BY <1>2 DEF OneOwner, Working
<1>7. CachedRowsComplete
  BY DEF Init, CachedRowsComplete
<1>8. \A i \in Row : RowInv(i)
  BY <1>3 DEF RowInv
<1>9. ~returned /\ \E t \in Threads : thread[t].pc # "off"
  BY <1>2 DEF Init
<1> QED
  BY <1>4, <1>5, <1>6, <1>7, <1>8, <1>9 DEF IInv

(* A step of a thread, whichever.                                          *)
LEMMA ThreadStepKeeps ==
    ASSUME IInv, NEW t \in Threads, ThreadStep(t)
    PROVE  IInv' /\ LeavesOthers(t)
BY NoRowLeftKeeps, CloneRowKeeps, ClaimRowKeeps, SerialNumberKeeps,
   FillCellKeeps, ThreadDiesKeeps, FinishRowKeeps DEF ThreadStep

(* getData changes nothing the threads know, nor does a stutter.           *)
LEMMA QuietKeeps ==
    ASSUME IInv, GetData \/ UNCHANGED vars
    PROVE  IInv' /\ retNode' = retNode
<1>1. UNCHANGED <<histogramsA, precomputed, kernelDefined, retNode, serial,
                  rowCache, thread>>
  BY DEF GetData, vars, Parameters
<1>2. returned' \in BOOLEAN /\ (returned' => \A t \in Threads : Ended(t))
  <2>1. CASE GetData
    BY <2>1 DEF GetData
  <2>2. CASE UNCHANGED vars
    BY <2>2 DEF vars, IInv, TypeOK
  <2> QED
    BY <2>1, <2>2
<1>3. TypeOK' /\ OneOwner' /\ CachedRowsComplete'
  BY <1>1, <1>2 DEF IInv, TypeOK, OneOwner, CachedRowsComplete, Complete, Working
<1>4. (\A t \in Threads : ThreadInv(t)') /\ (\A i \in Row : RowInv(i)')
  BY <1>1 DEF IInv, ThreadInv, RowInv, Complete, Working
<1> QED
  BY <1>1, <1>2, <1>3, <1>4 DEF IInv, Ended

(* Every step of the specification keeps the invariant.                    *)
LEMMA NextKeeps == IInv /\ [Next]_vars => IInv'
BY ThreadStepKeeps, QuietKeeps DEF Next

(* The inductive invariant, with the type, one owner of a row that is      *)
(* being filled and finished rows only in the cache.                       *)
THEOREM InductiveInvariant == Spec => []IInv
<1> QED
  BY InitInv, NextKeeps, PTL DEF Spec

(* Two threads never fill the same row, though they do it without lock.    *)
THEOREM RowsHaveOneOwner == Spec => []OneOwner
<1>1. IInv => OneOwner
  BY DEF IInv
<1> QED
  BY InductiveInvariant, <1>1, PTL

(* When all threads have ended, one that was started has seen every row    *)
(* claimed, and a claimed row nobody fills is finished.                    *)
LEMMA ReturnedFromInv == IInv => ReturnedRowsComplete
<1> SUFFICES ASSUME IInv, returned, precomputed => kernelDefined,
                    NEW i \in Row
             PROVE  Complete(i)
  BY DEF ReturnedRowsComplete
<1>1. PICK t \in Threads : thread[t].pc # "off"
  BY DEF IInv
<1>2. \A u \in Threads : Ended(u) /\ ~Working(u) /\ thread[u].pc # "dead"
  BY DEF IInv, Ended, Working, ThreadInv
<1>3. thread[t].pc = "done" /\ thread[t].index = NRows + 1
  BY <1>1, <1>2 DEF IInv, Ended, ThreadInv
<1>4. retNode[i].claimed
  <2>1. i < NRows + 1
    BY Numbers DEF Row
  <2> QED
    BY <1>3, <2>1 DEF IInv, ThreadInv
<1> QED
  BY <1>2, <1>4 DEF IInv, RowInv

(* getData returns a matrix without a hole.                                *)
THEOREM DataIsComplete == Spec => []ReturnedRowsComplete
BY InductiveInvariant, ReturnedFromInv, PTL

(* A finished row is final.                                                *)
THEOREM FinishedRowsStay == Spec => CompleteStays
<1>1. IInv /\ [Next]_vars =>
          [\A i \in Row : Complete(i) => retNode'[i] = retNode[i]]_vars
  <2> SUFFICES ASSUME IInv, [Next]_vars, NEW i \in Row, Complete(i)
               PROVE  retNode'[i] = retNode[i]
    OBVIOUS
  <2>1. CASE \E t \in Threads : ThreadStep(t)
    BY <2>1, ThreadStepKeeps DEF LeavesOthers
  <2>2. CASE GetData \/ UNCHANGED vars
    BY <2>2, QuietKeeps
  <2> QED
    BY <2>1, <2>2 DEF Next
<1> QED
  BY InductiveInvariant, <1>1, PTL DEF Spec, CompleteStays

-----------------------------------------------------------------------------
(* How many rows are computed for a histogram.                             *)

(* The thread that fills row i, or died on it.                             *)
AtRow(t, i) == thread[t].index = i /\ (Working(t) \/ thread[t].pc = "dead")

(* The rows of a histogram that are no clones: computed or claimed for it. *)
Fresh(p) ==
    {i \in Row : /\ retNode[i].claimed
                 /\ histogramsA[i] = p
                 /\ retNode[i].node \in {0, i}}

(* The nodes a row shares are those of a row that is not null; only a      *)
(* precomputed kernel has any.                                             *)
NodesInv ==
    \A i \in Row : retNode[i].node # 0 =>
        precomputed /\ retNode[retNode[i].node].claimed

(* As long as no row of a histogram is remembered, its claimed rows are    *)
(* still being filled.                                                     *)
OwnedInv ==
    precomputed => \A i \in Row :
        retNode[i].claimed /\ rowCache[histogramsA[i]] = 0 =>
            \E t \in Threads : AtRow(t, i)

FewInv ==
    precomputed => \A p \in Points : Cardinality(Fresh(p)) <= Cardinality(Threads)

OnceInv == IInv /\ NodesInv /\ OwnedInv /\ FewInv

(* The sets that are counted are finite.                                   *)
LEMMA FreshFinite == \A p : IsFiniteSet(Fresh(p)) /\ Cardinality(Fresh(p)) \in Nat
<1> TAKE p
<1>1. IsFiniteSet(Row)
  BY KernelAssumption, FS_Interval DEF Row
<1>2. Fresh(p) \in SUBSET Row
  BY DEF Fresh
<1> QED
  BY <1>1, <1>2, FS_Subset, FS_CardinalityType

(* A step that claims no row of its own adds none to them.                 *)
LEMMA FewKept ==
    ASSUME FewInv, precomputed' = precomputed,
           \A p \in Points : Fresh(p)' \subseteq Fresh(p)
    PROVE  FewInv'
<1> SUFFICES ASSUME precomputed, NEW p \in Points
             PROVE  Cardinality(Fresh(p)') <= Cardinality(Threads)
  BY DEF FewInv
<1>0. PICK S, T : S = Fresh(p) /\ T = Fresh(p)'
  OBVIOUS
<1>1. T \in SUBSET S /\ IsFiniteSet(S) /\ Cardinality(S) \in Nat
  BY <1>0, FreshFinite
<1>2. Cardinality(T) <= Cardinality(S) /\ IsFiniteSet(T)
  BY <1>1, FS_Subset
<1>3. Cardinality(T) \in Nat
  BY <1>2, FS_CardinalityType
<1>4. Cardinality(Threads) \in Nat
  BY KernelAssumption, FS_CardinalityType
<1>5. Cardinality(S) <= Cardinality(Threads)
  BY <1>0 DEF FewInv
<1>6. Cardinality(T) <= Cardinality(Threads)
  BY <1>1, <1>2, <1>3, <1>4, <1>5
<1> QED
  BY <1>0, <1>6

(* Rows another thread fills still have it, and those of a histogram that  *)
(* is remembered need none.                                                *)
LEMMA OwnedKept ==
    ASSUME OnceInv, NEW t \in Threads, LeavesOthers(t), precomputed,
           \A p \in Points : rowCache[p] # 0 => rowCache'[p] # 0,
           NEW i \in Row, retNode[i].claimed,
           AtRow(t, i) => AtRow(t, i)' \/ rowCache'[histogramsA[i]] # 0,
           rowCache'[histogramsA'[i]] = 0
    PROVE  \E u \in Threads : AtRow(u, i)'
<1>1. histogramsA' = histogramsA /\ histogramsA[i] \in Points
  BY DEF LeavesOthers, Parameters, OnceInv, IInv, TypeOK
<1>2. PICK u \in Threads : AtRow(u, i)
  BY <1>1 DEF OnceInv, OwnedInv
<1>3. CASE u = t
  BY <1>1, <1>2, <1>3
<1>4. CASE u # t
  <2>1. thread'[u] = thread[u]
    BY <1>4 DEF LeavesOthers
  <2> QED
    BY <1>2, <2>1 DEF AtRow, Working
<1> QED
  BY <1>3, <1>4

(* A step that leaves rows and cache alone and its row in its hands.       *)
LEMMA SameRowsOnce ==
    ASSUME OnceInv, NEW t \in Threads, LeavesOthers(t),
           retNode' = retNode, 
           \A p \in Points : rowCache[p] # 0 => rowCache'[p] # 0,
           \A i \in Row : AtRow(t, i) /\ precomputed =>
                AtRow(t, i)' \/ rowCache'[histogramsA[i]] # 0
    PROVE  NodesInv' /\ OwnedInv' /\ FewInv'
<1>1. histogramsA' = histogramsA /\ precomputed' = precomputed
  BY DEF LeavesOthers, Parameters
<1>2. NodesInv'
  BY <1>1 DEF OnceInv, NodesInv
<1>3. OwnedInv'
  BY <1>1, OwnedKept DEF OwnedInv
<1>4. \A p \in Points : Fresh(p)' \subseteq Fresh(p)
  BY <1>1 DEF Fresh
<1>5. FewInv'
  BY <1>1, <1>4, FewKept DEF OnceInv
<1> QED
  BY <1>2, <1>3, <1>5

(* A clone has the nodes of a row that was not null, so not its own.       *)
LEMMA CloneRowOnce ==
    ASSUME OnceInv, NEW t \in Threads, CloneRow(t)
    PROVE  NodesInv' /\ OwnedInv' /\ FewInv'
<1> USE Numbers
<1>1. LeavesOthers(t)
  BY CloneRowKeeps DEF OnceInv
<1>2. PICK i \in Row : \E c :
          /\ c = rowCache[histogramsA[i]]
          /\ IsNextRow(t, i)
          /\ Cached(i)
          /\ retNode' = [retNode EXCEPT ![i] = retNode[c]]
          /\ thread[t].pc = "scan"
          /\ rowCache' = rowCache
  BY DEF CloneRow
<1>2a. PICK c :
          /\ c = rowCache[histogramsA[i]]
          /\ retNode' = [retNode EXCEPT ![i] = retNode[c]]
  BY <1>2
<1>3. /\ UNCHANGED <<histogramsA, precomputed>>
      /\ precomputed
      /\ c # 0
      /\ ~retNode[i].claimed
      /\ TypeOK
  BY <1>1, <1>2, <1>2a DEF LeavesOthers, Parameters, Cached, IsNextRow, OnceInv, IInv
<1>4. c \in Row /\ Complete(c)
  <2>1. histogramsA[i] \in Points
    BY <1>3 DEF TypeOK
  <2> QED
    BY <1>2a, <1>3, <2>1 DEF OnceInv, IInv, CachedRowsComplete, TypeOK, Row
<1>5. retNode[c].node # 0 /\ retNode[c].node \in Row /\ retNode[retNode[c].node].claimed
  BY <1>3, <1>4 DEF Complete, OnceInv, NodesInv, TypeOK, RowType, Row
<1>6. /\ retNode'[i] = retNode[c]
      /\ \A k \in Row : k # i => retNode'[k] = retNode[k]
  BY <1>2a, <1>3 DEF TypeOK
<1>7. NodesInv'
  <2> SUFFICES ASSUME NEW k \in Row, retNode'[k].node # 0
               PROVE  precomputed /\ retNode'[retNode'[k].node].claimed
    BY <1>3 DEF NodesInv
  <2>1. \A r \in Row : retNode[r].claimed => retNode'[r].claimed
    BY <1>1 DEF LeavesOthers
  <2>2. CASE k = i
    BY <1>3, <1>5, <1>6, <2>1, <2>2
  <2>3. CASE k # i
    <3>0. retNode[k].node # 0
      BY <1>6, <2>3
    <3>1. retNode[k].node \in Row /\ retNode[retNode[k].node].claimed
      <4>1. retNode[retNode[k].node].claimed
        BY <3>0 DEF OnceInv, NodesInv
      <4>2. retNode[k] \in RowType
        BY <1>3 DEF TypeOK
      <4> QED
        BY <3>0, <4>1, <4>2 DEF RowType, Row
    <3> QED
      BY <1>3, <1>6, <2>1, <2>3, <3>1
  <2> QED
    BY <2>2, <2>3
<1>8. OwnedInv'
  <2> SUFFICES ASSUME NEW k \in Row, retNode'[k].claimed, rowCache'[histogramsA'[k]] = 0
               PROVE  \E u \in Threads : AtRow(u, k)'
    BY DEF OwnedInv
  <2>1. k # i
    BY <1>2, <1>3, <1>2a DEF Cached
  <2>2. retNode[k].claimed
    BY <1>6, <2>1
  <2>3. ~AtRow(t, k)
    BY <1>2 DEF AtRow, Working
  <2> QED
    BY <1>1, <1>2, <1>3, <2>2, <2>3, OwnedKept
<1>9. \A p \in Points : Fresh(p)' \subseteq Fresh(p)
  <2> SUFFICES ASSUME NEW p \in Points, NEW k \in Fresh(p)'
               PROVE  k \in Fresh(p)
    OBVIOUS
  <2>1. /\ k \in Row /\ retNode'[k].claimed /\ histogramsA[k] = p
        /\ retNode'[k].node \in {0, k}
    BY <1>3 DEF Fresh
  <2>2. k # i
    BY <1>3, <1>5, <1>6, <2>1
  <2> QED
    BY <1>6, <2>1, <2>2 DEF Fresh
<1> QED
  BY <1>3, <1>7, <1>8, <1>9, FewKept DEF OnceInv

(* A thread claims a row of a histogram none is remembered of: each row    *)
(* claimed for it before is in the hands of another thread.                *)
LEMMA ClaimRowOnce ==
    ASSUME OnceInv, NEW t \in Threads, ClaimRow(t)
    PROVE  NodesInv' /\ OwnedInv' /\ FewInv'
<1> USE Numbers
<1> DEFINE pc == IF precomputed THEN "head" ELSE "cells"
<1>1. LeavesOthers(t)
  BY ClaimRowKeeps DEF OnceInv
<1>2. PICK i \in Row :
          /\ IsNextRow(t, i)
          /\ ~Cached(i)
          /\ retNode' = [retNode EXCEPT ![i] = NewRow]
          /\ thread' = At(t, pc, i, 1)
          /\ thread[t].pc = "scan"
          /\ rowCache' = rowCache
  BY DEF ClaimRow, Claimed
<1>3. /\ UNCHANGED <<histogramsA, precomputed>>
      /\ ~retNode[i].claimed
      /\ TypeOK
  BY <1>1, <1>2 DEF LeavesOthers, Parameters, IsNextRow, OnceInv, IInv
<1>4. /\ retNode'[i].claimed /\ retNode'[i].node = 0
      /\ \A k \in Row : k # i => retNode'[k] = retNode[k]
  BY <1>2, <1>3 DEF TypeOK, NewRow
<1>5. thread'[t].pc = pc /\ thread'[t].index = i
  <2>1. i \in 1 .. NRows + 1 /\ 1 \in 1 .. NColumns + 1
    BY DEF Row
  <2> QED
    BY <1>2, <2>1, ThreadTyped DEF OnceInv
<1>6. NodesInv'
  <2> SUFFICES ASSUME NEW k \in Row, retNode'[k].node # 0
               PROVE  precomputed /\ retNode'[retNode'[k].node].claimed
    BY <1>3 DEF NodesInv
  <2>1. k # i /\ retNode'[k] = retNode[k]
    BY <1>4
  <2>2. precomputed /\ retNode[k].node \in Row /\ retNode[retNode[k].node].claimed
    BY <1>3, <2>1, SMTT(30) DEF OnceInv, NodesInv, TypeOK, RowType, Row
  <2> QED
    BY <1>1, <2>1, <2>2 DEF LeavesOthers
<1>7. OwnedInv'
  <2> SUFFICES ASSUME precomputed, NEW k \in Row, retNode'[k].claimed,
                      rowCache'[histogramsA'[k]] = 0
               PROVE  \E u \in Threads : AtRow(u, k)'
    BY <1>3 DEF OwnedInv
  <2>1. CASE k = i
    BY <1>5, <2>1 DEF AtRow, Working
  <2>2. CASE k # i
    <3>1. retNode[k].claimed
      BY <1>4, <2>2
    <3>2. ~AtRow(t, k)
      BY <1>2 DEF AtRow, Working
    <3> QED
      BY <1>1, <1>2, <1>3, <3>1, <3>2, OwnedKept
  <2> QED
    BY <2>1, <2>2
<1>8. FewInv'
  <2> SUFFICES ASSUME precomputed, NEW p \in Points
               PROVE  Cardinality(Fresh(p)') <= Cardinality(Threads)
    BY <1>3 DEF FewInv
  <2>0. PICK S, T : S = Fresh(p) /\ T = Fresh(p)'
    OBVIOUS
  <2>1. /\ IsFiniteSet(S) /\ Cardinality(S) \in Nat
        /\ Cardinality(S) <= Cardinality(Threads)
        /\ IsFiniteSet(Threads) /\ Cardinality(Threads) \in Nat
    BY <2>0, FreshFinite, KernelAssumption, FS_CardinalityType DEF OnceInv, FewInv
  <2>2. CASE histogramsA[i] # p
    <3>1. T \in SUBSET S
      BY <1>3, <1>4, <2>0, <2>2 DEF Fresh
    <3>2. Cardinality(T) <= Cardinality(S) /\ Cardinality(T) \in Nat
      BY <2>1, <3>1, FS_Subset, FS_CardinalityType
    <3> QED
      BY <2>0, <2>1, <3>2
  <2>3. CASE histogramsA[i] = p
    <3> DEFINE Owners == {u \in Threads : u # t /\ \E k \in S : AtRow(u, k)}
    <3>1. \A k \in S : \E u \in Owners : thread[u].index = k
      <4> TAKE k \in S
      <4>1. k \in Row /\ retNode[k].claimed /\ histogramsA[k] = p
        BY <2>0 DEF Fresh
      <4>2. rowCache[p] = 0
        BY <1>2, <2>3 DEF Cached
      <4>3. PICK u \in Threads : AtRow(u, k)
        BY <4>1, <4>2 DEF OnceInv, OwnedInv
      <4>4. u # t
        BY <1>2, <4>3 DEF AtRow, Working
      <4> QED
        BY <4>3, <4>4 DEF AtRow
    <3>2. Owners \in SUBSET (Threads \ {t})
      OBVIOUS
    <3>3. /\ IsFiniteSet(Threads \ {t})
          /\ Cardinality(Threads \ {t}) = Cardinality(Threads) - 1
      BY <2>1, FS_RemoveElement
    <3>4. /\ IsFiniteSet(Owners) /\ Cardinality(Owners) \in Nat
          /\ Cardinality(Owners) <= Cardinality(Threads) - 1
      BY <3>2, <3>3, FS_Subset, FS_CardinalityType
    <3>5. \A u \in Owners : thread[u].index \in S
      BY DEF AtRow
    <3> HIDE DEF Owners
    <3> DEFINE f == [u \in Owners |-> thread[u].index]
    <3>6. f \in Surjection(Owners, S)
      BY <3>1, <3>5 DEF Surjection
    <3>7. Cardinality(S) <= Cardinality(Owners)
      BY <3>4, <3>6, FS_Surjection
    <3>8. T \in SUBSET (S \cup {i})
      BY <1>3, <1>4, <2>0 DEF Fresh
    <3>9. /\ IsFiniteSet(S \cup {i}) /\ Cardinality(S \cup {i}) \in Nat
          /\ Cardinality(S \cup {i}) <= Cardinality(S) + 1
      <4>1. /\ IsFiniteSet(S \cup {i})
            /\ Cardinality(S \cup {i}) = IF i \in S THEN Cardinality(S) ELSE Cardinality(S) + 1
        BY <2>1, FS_AddElement
      <4> QED
        BY <2>1, <4>1
    <3>10. Cardinality(T) <= Cardinality(S \cup {i}) /\ Cardinality(T) \in Nat
      BY <3>8, <3>9, FS_Subset, FS_CardinalityType
    <3>11. Cardinality(T) <= Cardinality(Threads)
      BY <2>1, <3>4, <3>7, <3>9, <3>10
    <3> QED
      BY <2>0, <3>11
  <2> QED
    BY <2>2, <2>3
<1> QED
  BY <1>6, <1>7, <1>8

(* A row that gets its node, or a cell, is no clone before or after.       *)
LEMMA OwnRowOnce ==
    ASSUME OnceInv, NEW t \in Threads, LeavesOthers(t), rowCache' = rowCache,
           NEW i \in Row, retNode[i].claimed,
           AtRow(t, i), AtRow(t, i)',
           retNode' \in [Row -> RowType],
           retNode'[i].claimed,
           \/ retNode'[i].node = retNode[i].node
           \/ precomputed /\ retNode[i].node = 0 /\ retNode'[i].node = i,
           \A k \in Row : k # i => retNode'[k] = retNode[k]
    PROVE  NodesInv' /\ OwnedInv' /\ FewInv'
<1> USE Numbers
<1>1. UNCHANGED <<histogramsA, precomputed>> /\ TypeOK
  BY DEF LeavesOthers, Parameters, OnceInv, IInv
<1>2. NodesInv'
  <2> SUFFICES ASSUME NEW k \in Row, retNode'[k].node # 0
               PROVE  precomputed /\ retNode'[retNode'[k].node].claimed
    BY <1>1 DEF NodesInv
  <2>1. CASE retNode'[k].node = retNode[k].node
    <3>1. precomputed /\ retNode[k].node \in Row /\ retNode[retNode[k].node].claimed
      BY <1>1, <2>1 DEF OnceInv, NodesInv, TypeOK, RowType, Row
    <3> QED
      BY <2>1, <3>1 DEF LeavesOthers
  <2>2. CASE retNode'[k].node # retNode[k].node
    BY <2>2
  <2> QED
    BY <2>1, <2>2
<1>3. OwnedInv'
  <2> SUFFICES ASSUME precomputed, NEW k \in Row, retNode'[k].claimed,
                      rowCache'[histogramsA'[k]] = 0
               PROVE  \E u \in Threads : AtRow(u, k)'
    BY <1>1 DEF OwnedInv
  <2>1. retNode[k].claimed
    OBVIOUS
  <2>2. AtRow(t, k) => AtRow(t, k)'
    BY DEF AtRow
  <2> QED
    BY <2>1, <2>2, OwnedKept
<1>4. \A p \in Points : Fresh(p)' \subseteq Fresh(p)
  <2> SUFFICES ASSUME NEW p \in Points, NEW k \in Fresh(p)'
               PROVE  k \in Fresh(p)
    OBVIOUS
  <2>1. /\ k \in Row /\ retNode'[k].claimed /\ histogramsA[k] = p
        /\ retNode'[k].node \in {0, k}
    BY <1>1 DEF Fresh
  <2> QED
    BY <2>1 DEF Fresh
<1> QED
  BY <1>1, <1>2, <1>3, <1>4, FewKept DEF OnceInv

LEMMA SerialNumberOnce ==
    ASSUME OnceInv, NEW t \in Threads, SerialNumber(t)
    PROVE  NodesInv' /\ OwnedInv' /\ FewInv'
<1> USE Numbers
<1>0. PICK i : i = thread[t].index
  OBVIOUS
<1>1. /\ LeavesOthers(t) /\ IInv /\ IInv'
  BY SerialNumberKeeps DEF OnceInv
<1>2. /\ thread[t].pc = "head"
      /\ retNode' = [retNode EXCEPT ![i].node = i]
      /\ thread' = At(t, "cells", i, 1)
      /\ rowCache' = rowCache
      /\ TypeOK /\ retNode' \in [Row -> RowType]
  BY <1>0, <1>1 DEF SerialNumber, IInv, TypeOK
<1>3. i \in Row /\ retNode[i].claimed /\ precomputed /\ retNode[i].node = 0
  BY <1>0, <1>1, <1>2, ThreadFields DEF ThreadInv, Working
<1>4. thread'[t].pc = "cells" /\ thread'[t].index = i
  <2>1. i \in 1 .. NRows + 1 /\ 1 \in 1 .. NColumns + 1
    BY <1>3 DEF Row
  <2> QED
    BY <1>1, <1>2, <2>1, ThreadTyped
<1>5. /\ retNode'[i].claimed
      /\ retNode'[i].node = i
      /\ \A k \in Row : k # i => retNode'[k] = retNode[k]
  BY <1>2, <1>3 DEF TypeOK, RowType
<1>6. AtRow(t, i) /\ AtRow(t, i)'
  BY <1>0, <1>2, <1>4 DEF AtRow, Working
<1> QED
  BY <1>1, <1>2, <1>3, <1>5, <1>6, OwnRowOnce

LEMMA FillCellOnce ==
    ASSUME OnceInv, NEW t \in Threads, FillCell(t)
    PROVE  NodesInv' /\ OwnedInv' /\ FewInv'
<1> USE Numbers
<1>0. PICK i, c : i = thread[t].index /\ c = thread[t].column
  OBVIOUS
<1>1. /\ LeavesOthers(t) /\ IInv /\ IInv'
  BY FillCellKeeps DEF OnceInv
<1>2. /\ thread[t].pc = "cells"
      /\ c <= NColumns
      /\ retNode' = [retNode EXCEPT ![i].cells[c] = histogramsA[i]]
      /\ thread' = At(t, "cells", i, c + 1)
      /\ rowCache' = rowCache
      /\ TypeOK /\ retNode' \in [Row -> RowType]
  BY <1>0, <1>1 DEF FillCell, IInv, TypeOK
<1>3. i \in Row /\ c \in Column /\ retNode[i].claimed
  BY <1>0, <1>1, <1>2, ThreadFields DEF ThreadInv, Working, Column
<1>4. thread'[t].pc = "cells" /\ thread'[t].index = i
  <2>1. i \in 1 .. NRows + 1 /\ c + 1 \in 1 .. NColumns + 1
    BY <1>3 DEF Row, Column
  <2> QED
    BY <1>1, <1>2, <2>1, ThreadTyped
<1>5. /\ retNode'[i].claimed
      /\ retNode'[i].node = retNode[i].node
      /\ \A k \in Row : k # i => retNode'[k] = retNode[k]
  <2>1. retNode[i] \in RowType
    BY <1>2, <1>3 DEF TypeOK
  <2> DEFINE row == [retNode[i] EXCEPT !.cells = [retNode[i].cells EXCEPT ![c] = histogramsA[i]]]
  <2>2. retNode' = [retNode EXCEPT ![i] = row]
    BY <1>2
  <2>3. /\ row.claimed = retNode[i].claimed
        /\ row.node = retNode[i].node
    BY <2>1 DEF RowType
  <2> HIDE DEF row
  <2> QED
    BY <1>2, <1>3, <2>2, <2>3 DEF TypeOK
<1>6. AtRow(t, i) /\ AtRow(t, i)'
  BY <1>0, <1>2, <1>4 DEF AtRow, Working
<1> QED
  BY <1>1, <1>2, <1>3, <1>5, <1>6, OwnRowOnce

(* The thread gives its row up when a row of its histogram is remembered.  *)
LEMMA FinishRowOnce ==
    ASSUME OnceInv, NEW t \in Threads, FinishRow(t)
    PROVE  NodesInv' /\ OwnedInv' /\ FewInv'
<1> USE Numbers
<1>0. PICK i : i = thread[t].index
  OBVIOUS
<1>1. LeavesOthers(t) /\ IInv
  BY FinishRowKeeps DEF OnceInv
<1>2. /\ retNode' = retNode
      /\ thread[t].pc = "cells"
      /\ rowCache' = CachedAfter(i)
      /\ TypeOK
  BY <1>0, <1>1 DEF FinishRow, IInv
<1>3. i \in Row /\ histogramsA[i] \in Points
  BY <1>0, <1>1, <1>2, ThreadFields DEF Working, TypeOK
<1>4. /\ \A p \in Points : rowCache[p] # 0 => rowCache'[p] # 0
      /\ precomputed => rowCache'[histogramsA[i]] # 0
  BY <1>2, <1>3 DEF CachedAfter, TypeOK
<1>5. \A k \in Row : AtRow(t, k) /\ precomputed => rowCache'[histogramsA[k]] # 0
  BY <1>0, <1>4 DEF AtRow
<1> QED
  BY <1>1, <1>2, <1>4, <1>5, SameRowsOnce

(* A thread that stops leaves no row behind, or dies on it.                *)
LEMMA ThreadStopsOnce ==
    ASSUME OnceInv, NEW t \in Threads, NoRowLeft(t) \/ ThreadDies(t)
    PROVE  NodesInv' /\ OwnedInv' /\ FewInv'
<1>1. LeavesOthers(t) /\ IInv
  BY NoRowLeftKeeps, ThreadDiesKeeps DEF OnceInv
<1>2. retNode' = retNode /\ rowCache' = rowCache
  BY DEF NoRowLeft, ThreadDies
<1>3. \A k \in Row : AtRow(t, k) => AtRow(t, k)'
  <2>1. CASE NoRowLeft(t)
    BY <2>1 DEF NoRowLeft, AtRow, Working
  <2>2. CASE ThreadDies(t)
    <3>1. thread' = At(t, "dead", thread[t].index, thread[t].column)
      BY <2>2 DEF ThreadDies
    <3>2. thread'[t].pc = "dead" /\ thread'[t].index = thread[t].index
      BY <1>1, <3>1, ThreadFields, ThreadTyped
    <3> QED
      BY <3>2 DEF AtRow
  <2> QED
    BY <2>1, <2>2
<1> QED
  BY <1>1, <1>2, <1>3, SameRowsOnce

LEMMA NextKeepsOnce == OnceInv /\ [Next]_vars => OnceInv'
<1> SUFFICES ASSUME OnceInv, [Next]_vars
             PROVE  NodesInv' /\ OwnedInv' /\ FewInv'
  BY NextKeeps DEF OnceInv
<1>1. ASSUME NEW t \in Threads, ThreadStep(t)
      PROVE  NodesInv' /\ OwnedInv' /\ FewInv'
  BY <1>1, CloneRowOnce, ClaimRowOnce, SerialNumberOnce, FillCellOnce,
     FinishRowOnce, ThreadStopsOnce DEF ThreadStep
<1>2. CASE GetData \/ UNCHANGED vars
  <2>1. UNCHANGED <<histogramsA, precomputed, retNode, rowCache, thread>>
    BY <1>2 DEF GetData, vars, Parameters
  <2>2. NodesInv' /\ OwnedInv'
    BY <2>1 DEF OnceInv, NodesInv, OwnedInv, AtRow, Working
  <2>3. \A p \in Points : Fresh(p)' \subseteq Fresh(p)
    BY <2>1 DEF Fresh
  <2> QED
    BY <2>1, <2>2, <2>3, FewKept DEF OnceInv
<1> QED
  BY <1>1, <1>2 DEF Next

LEMMA InitOnce == Init => OnceInv
<1> SUFFICES ASSUME Init PROVE OnceInv
  OBVIOUS
<1>1. \A i \in Row : ~retNode[i].claimed /\ retNode[i].node = 0
  BY DEF Init
<1>2. NodesInv /\ OwnedInv
  BY <1>1 DEF NodesInv, OwnedInv
<1>3. \A p : Fresh(p) = {}
  BY <1>1 DEF Fresh
<1>4. Cardinality(Threads) \in Nat /\ Cardinality({}) = 0
  BY KernelAssumption, FS_CardinalityType, FS_EmptySet
<1>5. FewInv
  BY <1>3, <1>4 DEF FewInv
<1> QED
  BY <1>2, <1>5, InitInv DEF OnceInv

(* However the threads race, no more rows of a histogram are computed than *)
(* there are threads: who finds none in the cache has none at work.        *)
THEOREM RowsAreReused == Spec => []ComputedOncePerThread
<1>1. OnceInv => ComputedOncePerThread
  <2> SUFFICES ASSUME OnceInv, NEW p \in Points
               PROVE  Cardinality(ComputedRows(p)) <= Cardinality(Threads)
    BY DEF ComputedOncePerThread
  <2>1. Cardinality(Threads) \in Nat
    BY KernelAssumption, FS_CardinalityType
  <2>2. CASE precomputed
    <3>1. ComputedRows(p) \in SUBSET Fresh(p)
      BY Numbers, <2>2 DEF ComputedRows, Fresh, OnceInv, IInv, RowInv
    <3>2. Cardinality(ComputedRows(p)) <= Cardinality(Fresh(p))
      BY <3>1, FreshFinite, FS_Subset
    <3>3. IsFiniteSet(ComputedRows(p))
      BY <3>1, FreshFinite, FS_Subset
    <3>4. Cardinality(ComputedRows(p)) \in Nat
      BY <3>3, FS_CardinalityType
    <3>5. Cardinality(Fresh(p)) <= Cardinality(Threads)
      BY <2>2 DEF OnceInv, FewInv
    <3> QED
      BY <2>1, <3>2, <3>4, <3>5, FreshFinite
  <2>3. CASE ~precomputed
    <3>1. ComputedRows(p) = {}
      BY Numbers, <2>3 DEF ComputedRows, OnceInv, NodesInv
    <3> QED
      BY <2>1, <3>1, FS_EmptySet
  <2> QED
    BY <2>2, <2>3
<1>2. Spec => []OnceInv
  BY InitOnce, NextKeepsOnce, PTL DEF Spec
<1> QED
  BY <1>1, <1>2, PTL
===============================================================================
