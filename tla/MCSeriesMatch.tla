--------------------------- MODULE MCSeriesMatch ---------------------------
(* Model checking instances of series expressions.                         *)
EXTENDS SeriesMatch

\* The second query drops all series or one.
const_DropNames == {All, Name(CHOOSE s \in Series : s \notin Where)}
=============================================================================
