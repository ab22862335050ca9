---- MODULE MCAggregate ----
(* Model checking instance of Aggregate: inputs that vary the values, the  *)
(* times, the words that are compressed and the series that are merged.    *)
EXTENDS Aggregate

Profile(tp, n, points, times, values, steady) ==
    [tp |-> tp, series |-> n, points |-> points, times |-> times, values |-> values,
     steady |-> steady]

MCProfiles == {
    Profile("int", 1, 6, 1..6, {-32, 0, 1, 31}, TRUE),
    Profile("int", 1, 5, 0..8, {1}, FALSE),
    Profile("double", 1, 4, {0, 1, 5, 21}, {0, 33, 61}, FALSE),
    Profile("int", 1, 4, {0, 1, 21}, {-32, 3, 31}, FALSE),
    Profile("int", 2, 4, 0..2, {-1, 20}, FALSE),
    Profile("int", 4, 7, 1..2, {1}, FALSE),
    Profile("int", 4, 6, 0..1, {1}, FALSE) }
====
