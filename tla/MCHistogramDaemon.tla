------------------------- MODULE MCHistogramDaemon -------------------------
(* A batch of two categories and, of another window, one of one category,  *)
(* from which nothing can be summed for the category that is asked for     *)
(* besides a; the fake data are the one and the anomalies the other.       *)
EXTENDS HistogramDaemon, TLC

CategoryPairs ==
    {<<"a", "a">>, <<"ab", "ab">>, <<"ac", "ac">>, <<"a", "ab">>, <<"a", "ac">>}

BatchCategories == "b1" :> {"ab", "ac"} @@ "b2" :> {"ac"}

BatchWindows == "b1" :> 1 @@ "b2" :> 2

FakeBatches == <<"b2", "b1">>

FakeCategories == <<"ac", "ab", "ac">>
=============================================================================
