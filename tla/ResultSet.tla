------------------------------ MODULE ResultSet ------------------------------
(***************************************************************************)
(* Is this result set the answer?  The comparison the searches score with  *)
(* (tools/gepa/resultset.py) and the shorter one the corpus runner judges  *)
(* with (cli/sql_agent/corpus.py), which may not import the first.         *)
(*                                                                         *)
(* A result set is a sequence of rows, a row a sequence of cells.  Cells   *)
(* are compared as resultset.normalise leaves them: a number is a number   *)
(* however it was spelled, a label is folded; column names are gone.       *)
(***************************************************************************)
EXTENDS Naturals, Sequences, FiniteSets, SequencesExt, FiniteSetsExt

CONSTANTS
  Cells,                \* what a row may hold
  Numbers               \* the cells that are numbers; the others are labels

Table == Seq(Seq(Cells))

(* The tables a query, or a written-down answer, may come to: their rows have
   one width. *)
Rectangular(rows) ==
  \A i, j \in DOMAIN rows : Len(rows[i]) = Len(rows[j])

Times(rows, row) == Cardinality({i \in DOMAIN rows : rows[i] = row})

\* Duplicate rows are counted, not collapsed.
SameRows(left, right) ==
  \A row \in ToSet(left) \union ToSet(right) :
    Times(left, row) = Times(right, row)

Overlap(left, right) ==
  SumFunction([row \in ToSet(left) \union ToSet(right) |->
                 Min({Times(left, row), Times(right, row)})])

Arity(rows) == Max({0} \union {Len(rows[i]) : i \in DOMAIN rows})

Measure(row) == SelectSeq(row, LAMBDA cell : cell \in Numbers)

Measures(rows) == [i \in DOMAIN rows |-> Measure(rows[i])]

(* Sorted alike with ties free: the sequence of measures is what an ORDER BY
   claims.  Where no row has one, the rows themselves. *)
InOrder(left, right) ==
  IF \A row \in ToSet(left) \union ToSet(right) : Measure(row) = <<>>
  THEN left = right
  ELSE Measures(left) = Measures(right)

(* The similarity is in hundredths; right rows in the wrong order are worth
   half (ORDER_CREDIT). *)
Match(left, right, ordered) ==
  LET same == SameRows(left, right)
      inOrder == (ordered /\ same) => InOrder(left, right)
      total == Max({Len(left), Len(right)})
      share == IF total = 0 THEN 100 ELSE (100 * Overlap(left, right)) \div total
  IN [exact |-> same /\ inOrder,
      similarity |-> IF inOrder THEN share ELSE share \div 2]

Without(rows, column) == [i \in DOMAIN rows |-> RemoveAt(rows[i], column)]

(* One surplus column (MAX_EXTRA_COLUMNS) may be dropped, if the answer has
   two or more and what is left is exactly the answer. *)
Compare(candidate, reference, ordered) ==
  LET width == Arity(candidate)
      wanted == Arity(reference)
  IN CASE width = wanted -> Match(candidate, reference, ordered)
       [] /\ wanted >= 2
          /\ width = wanted + 1
          /\ \E column \in 1..width :
               Match(Without(candidate, column), reference, ordered).exact
            -> [exact |-> TRUE, similarity |-> 100]
       [] OTHER -> [exact |-> FALSE, similarity |-> 0]

-----------------------------------------------------------------------------
(* The corpus runner's own. *)

Same(got, want, ordered) ==
  IF ordered THEN got = want ELSE SameRows(got, want)

\* A bug: a surplus column is forgiven whatever the answer's width.
MatchesAnyWidth(got, want, ordered) ==
  \/ Same(got, want, ordered)
  \/ /\ got # <<>> /\ want # <<>>
     /\ Len(got[1]) = Len(want[1]) + 1
     /\ \E column \in 1..Len(got[1]) :
          Same(Without(got, column), want, ordered)

Matches(got, want, ordered) ==
  \/ Same(got, want, ordered)
  \/ /\ got # <<>> /\ want # <<>>
     /\ Len(want[1]) >= 2
     /\ Len(got[1]) = Len(want[1]) + 1
     /\ \E column \in 1..Len(got[1]) :
          Same(Without(got, column), want, ordered)

-----------------------------------------------------------------------------
(* The runner judges by the flag written in the answer key, a search by the
   one read off the reference query (harvest.py _orders), and the two may
   differ.  What the first certifies the second calls exact, unless only the
   query orders its rows and the answer has them in another order: then it
   keeps half of its similarity, or none beside a surplus column. *)
CertificateHolds(got, want, key, ordered) ==
  Matches(got, want, key) =>
    LET match == Compare(got, want, ordered)
    IN \/ match.exact
       \/ /\ ordered /\ ~key
          /\ ~Matches(got, want, TRUE)
          /\ match.similarity = IF Arity(got) = Arity(want) THEN 50 ELSE 0

=============================================================================
