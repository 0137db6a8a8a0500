---------------------------- MODULE MC_Optimiser ----------------------------
(* Optimiser over two commands for one target, with corpora of one to three
   cases: one case is both trained and validated on, of three the first two are
   held out for validation, or the second.  The answer to every question is two
   rows, whose order the query of q1 asks for though its answer key does not,
   as with demo/golden/08; that of q2 is asked for by neither, of q3 by both. *)
EXTENDS Optimiser

CONSTANTS a, long, label

SevenEight == <<<<7>>, <<8>>>>

Ran(rows) == [end |-> "ran", rows |-> rows, tokens |-> 10, calls |-> 2]

\* Right in another order, and no query that ran.
SomeRollouts ==
  {Ran(<<<<8>>, <<7>>>>),
   [end |-> "no_sql", rows |-> <<>>, tokens |-> 5, calls |-> 0]}

\* One row of the two missing.
HalfRight == {Ran(SevenEight), Ran(<<<<7>>>>)}

Entry(sound, spoilt) == [recipe |-> TRUE, sound |-> sound, spoilt |-> spoilt]

\* Sound, and one of two spoilt.
SomeReplays ==
  {[failed |-> FALSE, entries |-> <<Entry(TRUE, FALSE)>>],
   [failed |-> FALSE, entries |-> <<Entry(TRUE, FALSE), Entry(TRUE, TRUE)>>]}

Questions2 == {"q1", "q2"}

SomeReference == [q \in {"q1", "q2", "q3"} |-> SevenEight]

SomeKey == [q \in {"q1", "q2", "q3"} |-> q = "q3"]

SomeSeeds == [extract |-> {a, long}, turn |-> {a}]

Held(percent, shuffle) == [percent |-> percent, shuffle |-> shuffle]

SomeSplits == [extract |-> {Held(67, 0)}, turn |-> {Held(67, 0), Held(34, 1)}]

OneSplit == [t \in {"extract", "turn"} |-> {Held(67, 0)}]

Right(q, sql) == [question |-> q, ran |-> sql, verdicts |-> <<TRUE>>,
                  references |-> <<>>]

CallOf(q) == [message |-> q, own |-> FALSE, scoped |-> TRUE]

SomeStores ==
  [turn |-> {<<Right("q2", "own")>>,
             <<Right("q3", "sorted"), Right("q2", "own"), Right("q1", "sorted")>>},
   extract |-> {<<>>, <<CallOf("q1")>>, <<CallOf("q1"), CallOf("q2")>>}]

SomeMinibatch == [extract |-> 1, turn |-> 1]

RowsOf(width) == [1..width -> Cells]

SomeTables ==
  {<<>>} \union UNION {BoundedSeq(RowsOf(width), 2) : width \in 1..2}
         \union {<<row>> : row \in RowsOf(3)}

SomeSpans ==
  [question : Questions2, ran : {Nothing, "own"},
   verdicts : BoundedSeq(BOOLEAN, 2), references : {<<>>, <<"old", "new">>, <<"old", Nothing>>}]

=============================================================================
