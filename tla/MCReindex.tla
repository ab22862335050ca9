----------------------------- MODULE MCReindex -----------------------------
EXTENDS Reindex

\* A pool with two servers and a pool with one.
MCPoolOf == [x \in Servers |-> IF x = "c" THEN 1 ELSE 0]
MCIdOf == [x \in Servers |-> IF x = "b" THEN 1 ELSE 0]
\* The name of a series also gives the server that moves it.
MCSeriesId == [s \in Series |-> IF s = 5 THEN 0 ELSE 1]
=============================================================================
