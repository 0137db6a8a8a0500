-------------------------------- MODULE Corpus --------------------------------
(***************************************************************************)
(* The corpus runner (cli/sql_agent/corpus.py, turn.py and http.py), a     *)
(* client of the server whose turn log TurnLog describes: it asks each     *)
(* case of the answer key cold, on a session of its own, judges what came  *)
(* back, and files the verdict and the reference query on the turn's trace.*)
(* Other callers ask, reset and file meanwhile.                            *)
(*                                                                         *)
(* Its HTTP calls may fail at any point, and it may be interrupted.  What  *)
(* makes an answer right is ResultSet's Matches; here it is either.        *)
(***************************************************************************)
EXTENDS TurnLog

CONSTANTS
  Cases,                \* in order: [turn, session, expect, reference], the
                        \*   names its turn goes by, and whether the answer
                        \*   key has an answer and a reference query
  Costs,                \* what a turn may cost, 0 where nobody priced it
  Ceiling               \* max_spend, 0 for none

CaseType == [turn : Turns, session : Sessions,
             expect : BOOLEAN, reference : BOOLEAN]

ASSUME CasesAssumption ==
  /\ Cases \in Seq(CaseType)
  /\ \A m, n \in DOMAIN Cases :
       m # n => /\ Cases[m].turn # Cases[n].turn
                /\ Cases[m].session # Cases[n].session
ASSUME CostsAssumption == Costs \subseteq Nat /\ Ceiling \in Nat

CaseTurns == {Cases[n].turn : n \in DOMAIN Cases}
CaseSessions == {Cases[n].session : n \in DOMAIN Cases}

VARIABLES
  runner,               \* "starting", "asking", "listening", "filing", "stopped"
  at,                   \* the cases it has asked
  counts,               \* what its summary says
  spent                 \* what it knows to have been spent

runnerVars == <<runner, at, counts, spent>>
allVars == <<vars, runnerVars>>

RunnerInit ==
  /\ runner = "starting"
  /\ at = 0
  /\ counts = [asked |-> 0, judged |-> 0, approved |-> 0, unscored |-> 0]
  /\ spent = 0

Case == Cases[at]

\* _preflight: with tracing off the run is refused before its first turn.
Preflight ==
  /\ runner = "starting"
  /\ runner' = IF Tracing THEN "asking" ELSE "stopped"
  /\ UNCHANGED <<vars, at, counts, spent>>

AskCase ==
  /\ runner = "asking"
  /\ at < Len(Cases)
  /\ Ask(Cases[at + 1].turn, Cases[at + 1].session)
  /\ at' = at + 1
  /\ runner' = "listening"
  /\ UNCHANGED <<counts, spent>>

(* The stream is over.  A turn that failed, or did not answer, is passed
   over: its cost is not in the answer it did not give.  A case without an
   answer is counted as such before its reference is filed. *)
Taken ==
  /\ runner = "listening"
  /\ stage[Case.turn] = "ended"
  /\ LET answered == outcome[Case.turn] = "answered"
     IN /\ counts' = [counts EXCEPT
                        !.asked = @ + 1,
                        !.unscored = @ + IF answered /\ ~Case.expect THEN 1 ELSE 0]
        /\ IF answered
           THEN runner' = "filing" /\ \E cost \in Costs : spent' = spent + cost
           ELSE runner' = "asking" /\ UNCHANGED spent
  /\ UNCHANGED <<vars, at>>

\* What is filed on a turn of this case.
Body(case, right) ==
  (IF case.expect THEN {IF right THEN "right" ELSE "wrong"} ELSE {})
    \union (IF case.reference THEN {"reference"} ELSE {})

Counted(case, right) ==
  [counts EXCEPT !.judged = @ + IF case.expect THEN 1 ELSE 0,
                 !.approved = @ + IF case.expect /\ right THEN 1 ELSE 0]

\* A bug: a refusal is taken for an answer.
FileUnseen ==
  /\ runner = "filing"
  /\ \E right \in BOOLEAN :
       /\ \/ Feedback(Case.turn, Body(Case, right))
          \/ ~Accepts(Case.turn) /\ UNCHANGED vars
       /\ counts' = Counted(Case, right)
  /\ runner' = IF Ceiling > 0 /\ spent >= Ceiling THEN "stopped" ELSE "asking"
  /\ UNCHANGED <<at, spent>>

(* The verdict is filed, and the run goes on or has spent what it may. *)
FileVerdict ==
  /\ runner = "filing"
  /\ \E right \in BOOLEAN :
       /\ Feedback(Case.turn, Body(Case, right))
       /\ counts' = Counted(Case, right)
  /\ runner' = IF Ceiling > 0 /\ spent >= Ceiling THEN "stopped" ELSE "asking"
  /\ UNCHANGED <<at, spent>>

\* A refusal ends the run: the turn's row is gone, or there is nothing to say.
Refused ==
  /\ runner = "filing"
  /\ ~Accepts(Case.turn) \/ Body(Case, TRUE) = {}
  /\ runner' = "stopped"
  /\ UNCHANGED <<vars, at, counts, spent>>

\* A reply is lost after the server had filed.
ReplyLost ==
  /\ runner = "filing"
  /\ \E right \in BOOLEAN : Feedback(Case.turn, Body(Case, right))
  /\ runner' = "stopped"
  /\ UNCHANGED <<at, counts, spent>>

\* A connection that breaks ends the run, and so does an interruption; a turn
\* under way loses its caller.
GivesUp ==
  /\ runner # "stopped"
  /\ IF runner = "listening" /\ InFlight(Case.turn)
     THEN Leave(Case.turn)
     ELSE UNCHANGED vars
  /\ runner' = "stopped"
  /\ UNCHANGED <<at, counts, spent>>

Done ==
  /\ runner = "asking"
  /\ at = Len(Cases)
  /\ runner' = "stopped"
  /\ UNCHANGED <<vars, at, counts, spent>>

RunnerStep ==
  Preflight \/ AskCase \/ Taken \/ FileVerdict \/ Refused \/ Done

-----------------------------------------------------------------------------
Others == Turns \ CaseTurns

\* Everybody else, and the server; others judge their own turns.
World ==
  \/ \E t \in Others :
       \/ \E s \in Sessions \ CaseSessions : Ask(t, s)
       \/ Leave(t)
       \/ \E body \in Opinions : Feedback(t, body)
  \/ \E t \in Turns :
       \/ TurnStep(t)
       \/ \E logged \in BOOLEAN : Raise(t, logged)
  \/ Reset

\* Every turn asked has ended, and the run too.
Rest ==
  /\ runner = "stopped"
  /\ \A t \in Turns : ~InFlight(t)
  /\ UNCHANGED allVars

CorpusInit == Init /\ RunnerInit

CorpusNext ==
  \/ RunnerStep
  \/ ReplyLost
  \/ GivesUp
  \/ World /\ UNCHANGED runnerVars
  \/ Rest

CorpusSpec == CorpusInit /\ [][CorpusNext]_allVars

\* As in TurnLog: the runner may be interrupted at any point.
CorpusFairSpec == CorpusSpec /\ \A t \in Turns : WF_vars(TurnStep(t))

-----------------------------------------------------------------------------
(* Properties. *)

\* What the runner has filed of a case on the trace of that case's turn, and
\* what of it went to the trace of another.
FiledAbout(case) ==
  {p[3] : p \in {q \in filed : q[1] = case.turn /\ q[2] = case.turn}}
FiledAstray(case) ==
  {p[3] : p \in {q \in filed : q[1] = case.turn /\ q[2] # case.turn}}

Verdicts == {"right", "wrong"}

(* The runner moves past a case only if its turn failed or everything the
   answer key says of it is on that turn's trace; and "judged of asked turns
   certified, approved of them right" are the verdicts on the traces of the
   cases, but for one whose reply was lost with the run.  What is counted and
   on another trace instead is of cases whose row a reset wiped between the
   answer and the filing, or let another turn answer over. *)
SummaryIsFiled ==
  LET astray == {n \in 1..at : FiledAstray(Cases[n]) # {}}
      Says(n, scores) ==
        (FiledAbout(Cases[n]) \union FiledAstray(Cases[n])) \intersect scores # {}
      judged == {n \in 1..at : Says(n, Verdicts)}
      approved == {n \in 1..at : Says(n, {"right"})}
      unheard == IF runner = "stopped" THEN 0..1 ELSE {0}
  IN /\ \A n \in astray : Misled(Cases[n].turn)
     /\ \A n \in (1..(IF runner = "asking" THEN at ELSE at - 1)) \ astray :
          LET turn == Cases[n].turn
          IN \/ outcome[turn] # "answered" /\ FiledAbout(Cases[n]) = {}
             \/ /\ Cases[n].expect => n \in judged
                /\ Cases[n].reference => "reference" \in FiledAbout(Cases[n])
     /\ Cardinality(judged) - counts.judged \in unheard
     /\ Cardinality(approved) - counts.approved \in unheard
     /\ counts.judged + counts.unscored <= counts.asked

=============================================================================
