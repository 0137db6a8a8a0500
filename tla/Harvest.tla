------------------------------- MODULE Harvest -------------------------------
(***************************************************************************)
(* Which recorded turns become cases (tools/gepa/harvest.py).  The trace   *)
(* store is external (Langfuse); what a harvest reads of it is a sequence, *)
(* oldest first.                                                           *)
(*                                                                         *)
(* A turn span is [question, ran, verdicts, references]: the query it ran, *)
(* or Nothing; the verdicts and the reference queries filed on its trace,  *)
(* in the order they were filed.  An extract call is [message, own,        *)
(* scoped]: the message it was sent, or Nothing; was it made by the        *)
(* harness itself; and is there a turn span to say which prompt made it?   *)
(***************************************************************************)
EXTENDS Naturals, Sequences, FiniteSets, SequencesExt

CONSTANTS
  Queries,              \* the SQL a turn may run or be referred to
  Ordering,             \* the SQL with an ORDER BY outside any parenthesis
  Messages,             \* what an extract call may be sent
  Nothing               \* no query, a blank one, or no message

ASSUME NothingAssumption == Nothing \notin Queries \union Messages

ASSUME OrderingAssumption == Ordering \subseteq Queries

Span(questions) ==
  [question : questions, ran : Queries \union {Nothing},
   verdicts : Seq(BOOLEAN), references : Seq(Queries \union {Nothing})]

Call == [message : Messages \union {Nothing}, own : BOOLEAN, scoped : BOOLEAN]

HasReference(span) == span.references # <<>>

\* A bug: any verdict that was ever right will do, also one taken back.
ReferenceOfAny(span) ==
  IF span.ran = Nothing THEN Nothing
  ELSE IF HasReference(span) THEN Last(span.references)
  ELSE IF TRUE \in ToSet(span.verdicts) THEN span.ran ELSE Nothing

(* turn_cases: the query this turn can be scored against, if any.  A
   reference filed on the trace, else the turn's own query if its latest
   verdict is that it was right. *)
ReferenceOf(span) ==
  IF span.ran = Nothing THEN Nothing
  ELSE IF HasReference(span) THEN Last(span.references)
  ELSE IF span.verdicts # <<>> /\ Last(span.verdicts) THEN span.ran ELSE Nothing

(* _orders: is the order of the rows part of the answer?  Read off the query,
   whatever the answer key says of the question. *)
Orders(sql) == sql \in Ordering

(* Turns with a reference first, and the newest first among either: two
   passes over the turns, each of which passes over those of the other. *)
InTurn(store) ==
  LET query(span, referred) ==
        IF HasReference(span) = referred THEN ReferenceOf(span) ELSE Nothing
      offer(span, referred) ==
        [question |-> span.question, sql |-> query(span, referred),
         ordered |-> Orders(query(span, referred))]
      pass(referred) ==
        [i \in 1..Len(store) |-> offer(store[Len(store) - i + 1], referred)]
  IN pass(TRUE) \o pass(FALSE)

\* One case a question: the first to come with a query.
KeepNew(cases, case) ==
  IF \/ case.sql = Nothing
     \/ \E kept \in ToSet(cases) : kept.question = case.question
  THEN cases ELSE Append(cases, case)

TurnCases(store) == FoldLeft(KeepNew, <<>>, InTurn(store))

\* extract_cases: calls of the agent, attributable, with a message, once each.
ExtractCases(store) ==
  FoldLeft(KeepNew, <<>>,
           [i \in 1..Len(store) |->
              [question |-> store[i].message,
               sql |-> IF ~store[i].own /\ store[i].scoped THEN store[i].message
                       ELSE Nothing]])

-----------------------------------------------------------------------------
(* What a harvest of the turns should come to: one case for every question
   somebody vouched for, on its latest reference, or for want of one on the
   latest query whose last verdict is that it was right; in the order of the
   rows if that query has one. *)
FollowsVerdicts(store) ==
  LET cases == TurnCases(store)
      about(q) == {n \in DOMAIN store : /\ store[n].question = q
                                        /\ store[n].ran # Nothing}
      referred(q) == {n \in about(q) : /\ HasReference(store[n])
                                       /\ Last(store[n].references) # Nothing}
      right(q) == {n \in about(q) : /\ ~HasReference(store[n])
                                    /\ store[n].verdicts # <<>>
                                    /\ Last(store[n].verdicts)}
      truth(q) == IF referred(q) # {} THEN Last(store[Max(referred(q))].references)
                  ELSE store[Max(right(q))].ran
  IN /\ \A i, j \in DOMAIN cases :
          cases[i].question = cases[j].question => i = j
     /\ \A n \in DOMAIN store :
          LET q == store[n].question
          IN referred(q) \union right(q) # {} =>
               \E i \in DOMAIN cases : cases[i].question = q
     /\ \A i \in DOMAIN cases :
          LET q == cases[i].question
          IN /\ referred(q) \union right(q) # {}
             /\ cases[i] = [question |-> q, sql |-> truth(q),
                            ordered |-> Orders(truth(q))]

=============================================================================
