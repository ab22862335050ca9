---- MODULE MCSeriesRead ----
(* Model checking instance of SeriesRead. *)
EXTENDS SeriesRead

MCKinds == {<<"int", TRUE, FALSE>>, <<"double", TRUE, TRUE>>,
            <<"int", FALSE, TRUE>>, <<"double", FALSE, FALSE>>,
            <<"string", FALSE, TRUE>>, <<"string", FALSE, FALSE>>}
====
