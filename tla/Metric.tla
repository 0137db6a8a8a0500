-------------------------------- MODULE Metric --------------------------------
(***************************************************************************)
(* What a candidate's run over one case is worth: tools/gepa/metric_turn.py*)
(* for a whole turn, tools/gepa/metric_extract.py for one extract call.    *)
(* Scores are in hundredths.  The feedback written beside a score is left  *)
(* out: nothing but the reflection model reads it.                         *)
(***************************************************************************)
EXTENDS ResultSet

\* A bug: a term is given more without taking it from another.
WeightOverOne == [correct |-> 60, cost |-> 25, calls |-> 25]

\* metric_turn.WEIGHTS
Weight == [correct |-> 60, cost |-> 25, calls |-> 15]

Cost == [tokens : Nat, calls : Nat]

NoBaseline == [tokens |-> 0, calls |-> 0]

\* At or under the baseline earns everything, over it loses in proportion.
OneSided(spent, base) ==
  IF base = 0 \/ spent <= base THEN 100
  ELSE Max({0, 100 - (100 * (spent - base)) \div base})

(* How far a rollout came: "broke" the harness failed, "no_sql" nothing was
   asked of the database, "never_ran" no query ran, "ran" one did. *)
Outcome == [end : {"broke", "no_sql", "never_ran", "ran"},
            rows : Table, tokens : Nat, calls : Nat]

TurnScore(r, reference, ordered, base) ==
  LET match == Compare(r.rows, reference, ordered)
  IN IF r.end # "ran" \/ (reference # <<>> /\ r.rows = <<>>) THEN 0
     ELSE IF ~match.exact THEN (Weight.correct * match.similarity) \div 100
     ELSE Weight.correct
            + (Weight.cost * OneSided(r.tokens, base.tokens)) \div 100
            + (Weight.calls * OneSided(r.calls, base.calls)) \div 100

Spent(r) == [tokens |-> r.tokens, calls |-> r.calls]

\* Whether a turn may set the baseline of its case.
Answers(r) == r.end # "broke" /\ r.rows # <<>>

(* An entry of a replay: is it a recipe, is its fragment copied from the query
   that ran and more than a bare name, and does it record a count or land
   badly on a filed name? *)
Replay == [failed : BOOLEAN,
           entries : Seq([recipe : BOOLEAN, sound : BOOLEAN, spoilt : BOOLEAN])]

ExtractScore(r) ==
  LET recipes == {i \in DOMAIN r.entries : r.entries[i].recipe}
  IN IF \/ r.failed
        \/ \E i \in DOMAIN r.entries : r.entries[i].spoilt
        \/ recipes = {}
     THEN 0
     ELSE (100 * Cardinality({i \in recipes : r.entries[i].sound}))
            \div Cardinality(recipes)

=============================================================================
