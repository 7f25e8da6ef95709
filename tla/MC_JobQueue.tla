---------------------------- MODULE MC_JobQueue ----------------------------
(* Small instances of JobQueue.                                              *)
EXTENDS JobQueue, TLC

(* _history_ranges_for_zoom: a range, with the year of daily points that     *)
(* risk statistics need.                                                     *)
YearAndDay == {<<"year">>, <<"day", "year">>}
YearOnly == {<<"day", "year">>}

(* API threads are interchangeable, and so are workers.                      *)
Threads == Permutations(Requests) \cup Permutations(Workers)
=============================================================================
