---------------------------- MODULE MCMetricDefinitions ----------------------------
(* Small instance of MetricDefinitions: an integer of four bits for int32, an optional *)
(* column and a required one.                                                      *)
EXTENDS MetricDefinitions, TLC

CONSTANTS gauge, counter

MCDay == {-1, 0, 2, 9, 16}
MCInput ==
    [texts : [Field -> {counter, Null}], days : {Null, 2}]
        \cup [texts : {Blank.texts}, days : MCDay]
        \cup [texts : [Field -> {gauge, Null}], days : {Null}]

Symmetry == Permutations(Request)
===================================================================================
