------------------------ MODULE MCHistogramWindows ------------------------
(* Up to three rows of two categories and two types in any order, at five  *)
(* times, and four rows of one category and type; windows that overlap and *)
(* adjoin, and a slide beyond the window.  With a slide of 0 the loop adds *)
(* the same histogram for ever: it is left out of the instance.            *)
EXTENDS HistogramWindows

RowsOf(cs, ms) == [time : 0 .. 4, category : cs, type : ms]

SmallSelections ==
    UNION {[1 .. n -> RowsOf(Categories, Types)] : n \in 0 .. 2}
        \cup [1 .. 3 -> RowsOf(Categories, {"m1"})]
        \cup [1 .. 4 -> RowsOf({"c1"}, {"m1"})]
        \cup [1 .. 3 -> RowsOf({"c1"}, Types)]

SmallSettings ==
    {[window |-> 2, slide |-> 1], [window |-> 2, slide |-> 2], [window |-> 3, slide |-> 2],
     [window |-> 1, slide |-> 2]}
============================================================================
