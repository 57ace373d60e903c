---------------------------- MODULE MCQueryEngine ----------------------------
(* Instances of QueryEngine for TLC. *)
EXTENDS QueryEngine

CONSTANTS k1, k2

Raw(k, start, end, max) ==
  [key |-> k, start_time |-> start, end_time |-> end,
   aggregation |-> Nil, window_size |-> Nil, max_points |-> max]

With(op, size, max) == [Raw(k1, 0, 7, max) EXCEPT !.aggregation = op, !.window_size = size]

Queries ==
  {Raw(k1, 0, 7, max) : max \in {Nil, 0, 2}}
    \cup {With(op, 2, Nil) : op \in Aggregations}
    \cup {With("Sum", 1, 2), With("Last", 3, Nil)}

Pairs ==
  {<<Raw(k1, 0, 7, Nil), q>> :
     q \in {Raw(k1, 2, 5, Nil), Raw(k1, 5, 2, Nil), Raw(k2, 0, 7, Nil),
            With("Avg", 1, Nil), With("Avg", Nil, Nil)}}

\* A query of each kind, and some after another.
ManyBatches == {<<>>} \cup {<<q>> : q \in Queries} \cup Pairs

\* Windows of no size, and windows whose end wraps: from 5 to 1, to 5 again.
EndlessBatches ==
  {<<With("Count", 0, Nil)>>, <<[With("Count", 4, Nil) EXCEPT !.start_time = 5]>>}

MixedValues == {3, -2, 4, NaN}
MixedArrivals == <<{3}, {-2, NaN}, {4}>>
=============================================================================
