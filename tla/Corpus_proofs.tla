---------------------------- MODULE Corpus_proofs ----------------------------
(* The corpus runner is one client among the others: whatever it does and     *)
(* however it ends, the turn log sees a behaviour of TurnLog, so what holds   *)
(* of TurnLog holds while a corpus is being built.                            *)
(* And the summary it ends with is what is on the traces of its cases.        *)
EXTENDS Corpus, TurnLog_proofs, FiniteSetTheorems

RunnerShape ==
  /\ at \in 0..Len(Cases)
  /\ runner \in {"listening", "filing"} => at > 0

\* The cases of a run are turns on sessions.
LEMMA CasesAre ==
  /\ Len(Cases) \in Nat
  /\ \A n \in 1..Len(Cases) : Cases[n].turn \in Turns /\ Cases[n].session \in Sessions
  <1>1. Cases \in Seq(CaseType)
    BY CasesAssumption
  <1>2. Len(Cases) \in Nat /\ \A n \in 1..Len(Cases) : Cases[n] \in CaseType
    BY <1>1
  <1>. QED
    BY <1>2 DEF CaseType

\* The runner is at a case it has, in any behaviour.
LEMMA RunnerShapes == CorpusSpec => []RunnerShape
  <1> USE CasesAre DEF RunnerShape
  <1>1. CorpusInit => RunnerShape
    BY DEF CorpusInit, RunnerInit
  <1>2. ASSUME RunnerShape, [CorpusNext]_allVars PROVE RunnerShape'
    <2>1. CASE Preflight \/ Taken \/ FileVerdict \/ Refused \/ Done
      BY <1>2, <2>1 DEF Preflight, Taken, FileVerdict, Refused, Done
    <2>4. CASE AskCase
      BY <1>2, <2>4 DEF AskCase
    <2>2. CASE ReplyLost \/ GivesUp
      BY <1>2, <2>2 DEF ReplyLost, GivesUp
    <2>3. CASE UNCHANGED runnerVars
      BY <1>2, <2>3 DEF runnerVars
    <2>. QED
      BY <1>2, <2>1, <2>2, <2>3, <2>4 DEF CorpusNext, RunnerStep, Rest, allVars, runnerVars
  <1>. QED
    BY <1>1, <1>2, PTL DEF CorpusSpec

(* Every step of the runner, and of everybody beside it, is one the turn log
   allows any caller: a question, a hang-up, a verdict, or nothing. *)
THEOREM RunnerIsAClient == ASSUME Opinions = FeedbackBody PROVE CorpusSpec => Spec
  <1>1. CorpusInit => Init
    BY DEF CorpusInit
  <1>2. ASSUME RunnerShape, [CorpusNext]_allVars PROVE [Next]_vars
    <2> DEFINE Client(t) == \/ \E s \in Sessions : Ask(t, s)
                            \/ TurnStep(t)
                            \/ \E logged \in BOOLEAN : Raise(t, logged)
                            \/ Leave(t)
                            \/ \E body \in Opinions : Feedback(t, body)
    <2>1. ASSUME NEW t \in Turns, Client(t) PROVE Next
      BY <2>1 DEF Next
    <2>2. \A t, body : Feedback(t, body) => body \in Opinions
      BY DEF Feedback
    <2>3. CASE AskCase
      <3>1. at + 1 \in 1..Len(Cases)
        BY <1>2, <2>3, CasesAre DEF AskCase, RunnerShape
      <3>2. Client(Cases[at + 1].turn)
        BY <2>3, <3>1, CasesAre DEF AskCase
      <3>. QED
        BY <2>1, <3>1, <3>2, CasesAre
    <2>4. CASE FileVerdict \/ ReplyLost
      <3>1. Case.turn \in Turns
        BY <1>2, <2>4, CasesAre
           DEF FileVerdict, ReplyLost, RunnerShape, Case
      <3>2. PICK right : Feedback(Case.turn, Body(Case, right))
        BY <2>4 DEF FileVerdict, ReplyLost
      <3>3. Client(Case.turn)
        BY <2>2, <3>2
      <3>. QED
        BY <2>1, <3>1, <3>3
    <2>5. CASE GivesUp
      <3>1. CASE UNCHANGED vars
        BY <3>1
      <3>2. CASE runner = "listening" /\ Leave(Case.turn)
        <4>1. Case.turn \in Turns
          BY <1>2, <3>2, CasesAre DEF RunnerShape, Case
        <4>. QED
          BY <2>1, <3>2, <4>1
      <3>. QED
        BY <2>5, <3>1, <3>2 DEF GivesUp
    <2>6. CASE World
      <3>1. CASE Reset
        BY <3>1 DEF Next
      <3>2. CASE \E t \in Turns : Client(t)
        BY <2>1, <3>2
      <3>. QED
        BY <2>6, <3>1, <3>2 DEF World, Others
    <2>7. CASE UNCHANGED vars
      BY <2>7
    <2>. QED
      BY <1>2, <2>3, <2>4, <2>5, <2>6, <2>7
         DEF CorpusNext, RunnerStep, Preflight, Taken, Refused, Done, Rest, allVars
  <1>. QED
    BY <1>1, <1>2, RunnerShapes, PTL DEF CorpusSpec, Spec

(* What is proved of the log, step by step, holds whichever bodies others send. *)
LEMMA LogHolds == CorpusSpec => []IndInv
  <1>1. CorpusInit => IndInv
    BY InitInv DEF CorpusInit
  <1>2. ASSUME RunnerShape, IndInv, [CorpusNext]_allVars PROVE IndInv'
    <2>1. CASE AskCase
      <3>1. at + 1 \in 1..Len(Cases)
        BY <1>2, <2>1, CasesAre DEF AskCase, RunnerShape
      <3>. QED
        BY <1>2, <2>1, <3>1, CasesAre, AskKeeps DEF AskCase
    <2>2. CASE FileVerdict \/ ReplyLost
      <3>1. Case.turn \in Turns
        BY <1>2, <2>2, CasesAre DEF FileVerdict, ReplyLost, RunnerShape, Case
      <3>2. PICK right : Feedback(Case.turn, Body(Case, right))
        BY <2>2 DEF FileVerdict, ReplyLost
      <3>. QED
        BY <1>2, <3>1, <3>2, FeedbackKeeps
    <2>3. CASE GivesUp
      <3>1. CASE UNCHANGED vars
        BY <1>2, <3>1, StutterKeeps
      <3>2. CASE runner = "listening" /\ Leave(Case.turn)
        <4>1. Case.turn \in Turns
          BY <1>2, <3>2, CasesAre DEF RunnerShape, Case
        <4>. QED
          BY <1>2, <3>2, <4>1, LeaveKeeps
      <3>. QED
        BY <2>3, <3>1, <3>2 DEF GivesUp
    <2>4. CASE World
      <3>1. ASSUME NEW t \in Turns, NEW s \in Sessions, Ask(t, s) PROVE IndInv'
        BY <1>2, <3>1, AskKeeps
      <3>2. ASSUME NEW t \in Turns, Leave(t) PROVE IndInv'
        BY <1>2, <3>2, LeaveKeeps
      <3>3. ASSUME NEW t \in Turns, NEW body, Feedback(t, body) PROVE IndInv'
        BY <1>2, <3>3, FeedbackKeeps
      <3>4. ASSUME NEW t \in Turns, TurnStep(t) PROVE IndInv'
        BY <1>2, <3>4, OpenKeeps, FinishKeeps, EndKeeps DEF TurnStep
      <3>5. ASSUME NEW t \in Turns, NEW logged \in BOOLEAN, Raise(t, logged)
            PROVE  IndInv'
        BY <1>2, <3>5, RaiseKeeps
      <3>6. CASE Reset
        BY <1>2, <3>6, ResetKeeps
      <3>. QED
        BY <2>4, <3>1, <3>2, <3>3, <3>4, <3>5, <3>6 DEF World, Others
    <2>5. CASE UNCHANGED vars
      BY <1>2, <2>5, StutterKeeps
    <2>. QED
      BY <1>2, <2>1, <2>2, <2>3, <2>4, <2>5
         DEF CorpusNext, RunnerStep, Preflight, Taken, Refused, Done, Rest, allVars
  <1>. QED
    BY <1>1, <1>2, RunnerShapes, PTL DEF CorpusSpec

(* So beside a corpus run, too, a verdict of the runner or of anybody else is
   on the trace it is about, until a reset has wiped that turn's row or let
   another turn answer over it. *)
COROLLARY RunVerdictsFindTraces == CorpusSpec => []VerdictFindsItsTrace
  <1>1. IndInv => VerdictFindsItsTrace
    BY DEF IndInv
  <1>. QED
    BY <1>1, LogHolds, PTL

-----------------------------------------------------------------------------
(* The second half: the summary of a run is what it filed. *)

\* What the runner has filed of a case, on whichever trace.
Said(case) == {p[3] : p \in {q \in filed : q[1] = case.turn}}

\* It is on the trace of the case's own turn or astray on another's.
LEMMA SaidSomewhere ==
  ASSUME NEW case PROVE Said(case) = FiledAbout(case) \union FiledAstray(case)
  BY DEF Said, FiledAbout, FiledAstray

\* What the answer key asks of a case has been done, or its turn is past it.
Settled(n) ==
  LET turn == Cases[n].turn
      about == Said(Cases[n])
  IN \/ stage[turn] = "ended" /\ outcome[turn] # "answered" /\ about = {}
     \/ /\ Cases[n].expect => about \intersect Verdicts # {}
        /\ Cases[n].reference => "reference" \in about

JudgedOf == {n \in 1..at : Said(Cases[n]) \intersect Verdicts # {}}
ApprovedOf == {n \in 1..at : "right" \in Said(Cases[n])}

Sums == [asked : Nat, judged : Nat, approved : Nat, unscored : Nat]

Tally ==
  /\ counts \in Sums
  /\ counts.judged + counts.unscored <= counts.asked
  /\ runner = "filing" /\ Case.expect =>
       counts.judged + counts.unscored < counts.asked
  /\ LET unheard == IF runner = "stopped" THEN 0..1 ELSE {0}
     IN /\ Cardinality(JudgedOf) - counts.judged \in unheard
        /\ Cardinality(ApprovedOf) - counts.approved \in unheard

\* Nothing is said of a case before its turn; all of it is, after.
Told ==
  /\ DOMAIN stage = Turns /\ DOMAIN outcome = Turns
  /\ runner \in {"starting", "asking", "listening", "filing", "stopped"}
  /\ runner = "starting" => at = 0
  /\ runner = "filing" => stage[Case.turn] = "ended"
  /\ \A n \in DOMAIN Cases :
       (n > at \/ (n = at /\ runner \in {"listening", "filing"})) =>
         Said(Cases[n]) = {}
  /\ \A n \in 1..(IF runner = "asking" THEN at ELSE at - 1) : Settled(n)

RunInv == RunnerShape /\ Told /\ Tally

\* A turn that is over stays what it was.
Past ==
  /\ DOMAIN stage' = Turns /\ DOMAIN outcome' = Turns
  /\ \A u \in Turns :
       stage[u] = "ended" => stage'[u] = "ended" /\ outcome'[u] = outcome[u]

Same == \A n \in DOMAIN Cases : Said(Cases[n])' = Said(Cases[n])

\* No two cases are one turn.
LEMMA CasesDiffer ==
  /\ DOMAIN Cases = 1..Len(Cases) /\ Len(Cases) \in Nat
  /\ \A n \in DOMAIN Cases : /\ Cases[n].turn \in CaseTurns
                             /\ Cases[n].turn \in Turns
                             /\ Cases[n].expect \in BOOLEAN
                             /\ Cases[n].reference \in BOOLEAN
  /\ \A m, n \in DOMAIN Cases : m # n => Cases[m].turn # Cases[n].turn
  <1>1. Cases \in Seq(CaseType)
    BY CasesAssumption
  <1>2. DOMAIN Cases = 1..Len(Cases) /\ Len(Cases) \in Nat
        /\ \A n \in DOMAIN Cases : Cases[n] \in CaseType
    BY <1>1
  <1>. QED
    BY <1>2, CasesAssumption DEF CaseType, CaseTurns

\* What the log does to a turn does not touch one that is over, and files nothing.
LEMMA StagesMove ==
  ASSUME DOMAIN stage = Turns, DOMAIN outcome = Turns, NEW t \in Turns, NEW s,
         NEW logged,
         Ask(t, s) \/ TurnStep(t) \/ Raise(t, logged) \/ Leave(t) \/ Reset
  PROVE  Past /\ filed' = filed
  <1>1. CASE Ask(t, s)
    BY <1>1 DEF Ask, Past
  <1>2. CASE Open(t)
    BY <1>2 DEF Open, Past
  <1>3. CASE Finish(t)
    BY <1>3 DEF Finish, Past
  <1>4. CASE End(t)
    BY <1>4 DEF End, Past
  <1>5. CASE Raise(t, logged)
    BY <1>5 DEF Raise, InFlight, Past
  <1>6. CASE Leave(t)
    BY <1>6 DEF Leave, InFlight, Past
  <1>7. CASE Reset
    BY <1>7 DEF Reset, Past
  <1>. QED
    BY <1>1, <1>2, <1>3, <1>4, <1>5, <1>6, <1>7 DEF TurnStep

\* While nothing is filed, what is filed about each case stays.
LEMMA UnfiledIsSame == ASSUME filed' = filed PROVE Same
  BY DEF Same, Said

\* What is filed is said of the turn it is about.
LEMMA FilingSays ==
  ASSUME NEW t, NEW body, Feedback(t, body), NEW case
  PROVE  Said(case)' = IF case.turn = t THEN Said(case) \union body
                             ELSE Said(case)
  <1>1. filed' = filed \union ({t} \X {rows[turnId[t]].trace} \X body)
    BY DEF Feedback
  <1> DEFINE x == rows[turnId[t]].trace
  <1>. HIDE DEF x
  <1>2. \A p : p \in {t} \X {x} \X body <=> \E b \in body : p = <<t, x, b>>
    OBVIOUS
  <1>3. filed' = filed \union ({t} \X {x} \X body)
    BY <1>1 DEF x
  <1>4. \A b : /\ b \in Said(case) <=>
                    \E p \in filed : p[1] = case.turn /\ p[3] = b
               /\ b \in Said(case)' <=>
                    \E p \in filed' : p[1] = case.turn /\ p[3] = b
    BY DEF Said
  <1>5. ASSUME NEW b
        PROVE  b \in Said(case)' <=>
                 b \in Said(case) \/ (case.turn = t /\ b \in body)
    <2>1. <<t, x, b>>[1] = t /\ <<t, x, b>>[3] = b
      OBVIOUS
    <2>2. (\E p \in {t} \X {x} \X body : p[1] = case.turn /\ p[3] = b)
            <=> case.turn = t /\ b \in body
      <3>1. ASSUME NEW p \in {t} \X {x} \X body PROVE p[1] = t /\ p[3] \in body
        BY <1>2
      <3>2. b \in body => <<t, x, b>> \in {t} \X {x} \X body
        BY <1>2
      <3>. QED
        BY <2>1, <3>1, <3>2
    <2>3. (\E p \in filed' : p[1] = case.turn /\ p[3] = b)
            <=> \/ \E p \in filed : p[1] = case.turn /\ p[3] = b
                \/ \E p \in {t} \X {x} \X body : p[1] = case.turn /\ p[3] = b
      BY <1>3, Zenon
    <2>. QED
      BY <1>4, <2>2, <2>3, Zenon
  <1>. QED
    BY <1>5

\* A case that is settled stays so.
LEMMA SettledStays ==
  ASSUME NEW n \in DOMAIN Cases, Settled(n), Past, Same PROVE Settled(n)'
  <1>1. Cases[n].turn \in Turns
    BY CasesDiffer
  <1>. QED
    BY <1>1 DEF Settled, Past, Same

\* Cases counted over a prefix of the answer key.
LEMMA TalliesAre ==
  ASSUME RunnerShape
  PROVE  /\ IsFiniteSet(JudgedOf) /\ Cardinality(JudgedOf) \in Nat
         /\ IsFiniteSet(ApprovedOf) /\ Cardinality(ApprovedOf) \in Nat
  <1>1. at \in Nat /\ IsFiniteSet(1..at)
    BY CasesDiffer, FS_Interval DEF RunnerShape
  <1>. QED
    BY <1>1, FS_Subset, FS_CardinalityType DEF JudgedOf, ApprovedOf

\* While nothing is filed about the cases there were, the same are judged and approved.
LEMMA TalliesStay ==
  ASSUME RunnerShape, Same,
         \/ at' = at
         \/ \E n \in DOMAIN Cases : /\ at' = at + 1 /\ n = at + 1
                                    /\ Said(Cases[n]) = {}
  PROVE  JudgedOf' = JudgedOf /\ ApprovedOf' = ApprovedOf
  <1>1. at \in Nat /\ \A n \in 1..at : n \in DOMAIN Cases
    BY CasesDiffer DEF RunnerShape
  <1>2. CASE at' = at
    BY <1>1, <1>2 DEF JudgedOf, ApprovedOf, Same
  <1>3. ASSUME NEW next \in DOMAIN Cases, at' = at + 1, next = at + 1,
               Said(Cases[next]) = {}
        PROVE  JudgedOf' = JudgedOf /\ ApprovedOf' = ApprovedOf
    <2>1. Said(Cases[next])' = {}
      BY <1>3 DEF Same
    <2>2. \A n : n \in 1..next <=> n \in 1..at \/ n = next
      BY <1>1, <1>3
    <2>3. \A n \in 1..at : Said(Cases[n])' = Said(Cases[n])
      BY <1>1 DEF Same
    <2>4. /\ JudgedOf' = {n \in 1..next : Said(Cases[n])' \intersect Verdicts # {}}
          /\ ApprovedOf' = {n \in 1..next : "right" \in Said(Cases[n])'}
      BY <1>3 DEF JudgedOf, ApprovedOf, Verdicts
    <2>. QED
      BY <2>1, <2>2, <2>3, <2>4 DEF JudgedOf, ApprovedOf
  <1>. QED
    BY <1>2, <1>3

\* A case that was not counted makes the count one more.
LEMMA OneMore ==
  ASSUME NEW S, IsFiniteSet(S), NEW x, x \notin S, NEW e \in 0..1, NEW T,
         T = IF e = 1 THEN S \union {x} ELSE S
  PROVE  Cardinality(T) = Cardinality(S) + e
  <1>1. CASE e = 1
    BY <1>1, FS_AddElement
  <1>2. CASE e = 0
    BY <1>2, FS_CardinalityType
  <1>. QED
    BY <1>1, <1>2

\* A verdict of the runner is about the case at hand and no other.
LEMMA VerdictCounts ==
  ASSUME RunInv, runner = "filing", NEW right \in BOOLEAN,
         Feedback(Case.turn, Body(Case, right)), at' = at
  PROVE  /\ Past
         /\ \A n \in DOMAIN Cases : n # at => Said(Cases[n])' = Said(Cases[n])
         /\ Settled(at)'
         /\ \E e, r \in 0..1 :
              /\ e = 1 <=> Case.expect
              /\ Counted(Case, right) =
                   [counts EXCEPT !.judged = @ + e, !.approved = @ + r]
              /\ Cardinality(JudgedOf)' = Cardinality(JudgedOf) + e
              /\ Cardinality(ApprovedOf)' = Cardinality(ApprovedOf) + r
  <1>1. /\ at \in DOMAIN Cases /\ at \in Nat /\ at > 0
        /\ \A n \in 1..at : n \in DOMAIN Cases
        /\ Case = Cases[at] /\ Case.expect \in BOOLEAN
    BY CasesDiffer DEF RunInv, RunnerShape, Case
  <1>2. Past
    BY DEF RunInv, Told, Feedback, Past
  <1> DEFINE body == Body(Case, right)
  <1>3. \A n \in DOMAIN Cases :
          Said(Cases[n])' = IF n = at THEN Said(Cases[n]) \union body
                                  ELSE Said(Cases[n])
    <2> SUFFICES ASSUME NEW n \in DOMAIN Cases
                 PROVE  Said(Cases[n])' =
                          IF n = at THEN Said(Cases[n]) \union body
                          ELSE Said(Cases[n])
      OBVIOUS
    <2>1. Cases[n].turn = Case.turn <=> n = at
      BY <1>1, CasesDiffer
    <2>2. Said(Cases[n])' = IF Cases[n].turn = Case.turn
                                  THEN Said(Cases[n]) \union body
                                  ELSE Said(Cases[n])
      BY FilingSays
    <2>. HIDE DEF body
    <2>. QED
      BY <2>1, <2>2
  <1>4. Said(Cases[at]) = {}
    BY <1>1 DEF RunInv, Told
  <1>5. /\ Case.expect <=> body \intersect Verdicts # {}
        /\ (Case.expect /\ right) <=> "right" \in body
        /\ Case.reference => "reference" \in body
    BY <1>1 DEF Body, Verdicts
  <1>. HIDE DEF body
  <1>6. PICK n \in DOMAIN Cases : n = at
    BY <1>1
  <1>7. Said(Cases[n])' = body
    BY <1>3, <1>4, <1>6
  <1>8. Settled(n)'
    BY <1>1, <1>5, <1>6, <1>7 DEF Settled, Verdicts
  <1>9. Settled(at)'
    BY <1>6, <1>8 DEF Settled
  <1>10. \A m \in 1..at : m # at => Said(Cases[m])' = Said(Cases[m])
    BY <1>1, <1>3
  <1>11. /\ JudgedOf' = {m \in 1..at : Said(Cases[m])' \intersect Verdicts # {}}
         /\ ApprovedOf' = {m \in 1..at : "right" \in Said(Cases[m])'}
    BY DEF JudgedOf, ApprovedOf, Verdicts
  <1> DEFINE e == IF Case.expect THEN 1 ELSE 0
             r == IF Case.expect /\ right THEN 1 ELSE 0
  <1>12. /\ e \in 0..1 /\ r \in 0..1
         /\ e = 1 <=> Case.expect
         /\ r = 1 <=> Case.expect /\ right
         /\ Counted(Case, right) = [counts EXCEPT !.judged = @ + e, !.approved = @ + r]
    BY DEF Counted
  <1>. HIDE DEF e, r
  <1>13. /\ at \notin JudgedOf /\ at \notin ApprovedOf
         /\ JudgedOf' = IF e = 1 THEN JudgedOf \union {at} ELSE JudgedOf
         /\ ApprovedOf' = IF r = 1 THEN ApprovedOf \union {at} ELSE ApprovedOf
    BY <1>1, <1>4, <1>5, <1>6, <1>7, <1>10, <1>11, <1>12 DEF JudgedOf, ApprovedOf
  <1>14. IsFiniteSet(JudgedOf) /\ IsFiniteSet(ApprovedOf)
    BY TalliesAre DEF RunInv
  <1>15. /\ Cardinality(JudgedOf') = Cardinality(JudgedOf) + e
         /\ Cardinality(ApprovedOf') = Cardinality(ApprovedOf) + r
    BY <1>12, <1>13, <1>14, OneMore
  <1>. QED
    BY <1>2, <1>3, <1>9, <1>12, <1>15

\* Before a run nothing is asked, filed or counted.
LEMMA InitRun == CorpusInit => RunInv
  <1> SUFFICES ASSUME CorpusInit PROVE RunInv
    OBVIOUS
  <1>1. RunnerShape
    BY CasesAre DEF CorpusInit, RunnerInit, RunnerShape
  <1>2. Told
    BY CasesDiffer DEF CorpusInit, Init, RunnerInit, Told, Said
  <1>3. JudgedOf = {} /\ ApprovedOf = {}
    BY DEF CorpusInit, RunnerInit, JudgedOf, ApprovedOf
  <1>4. Cardinality(JudgedOf) = 0 /\ Cardinality(ApprovedOf) = 0
    BY <1>3, FS_EmptySet
  <1>5. Tally
    <2>1. /\ counts = [asked |-> 0, judged |-> 0, approved |-> 0, unscored |-> 0]
          /\ runner = "starting"
      BY DEF CorpusInit, RunnerInit
    <2>. QED
      BY <1>4, <2>1 DEF Tally, Sums
  <1>. QED
    BY <1>1, <1>2, <1>5 DEF RunInv

\* While the runner waits, the turns of its cases that are over stay over.
LEMMA WorldKeeps ==
  ASSUME RunInv, Past, Same, UNCHANGED runnerVars PROVE RunInv'
  <1>1. /\ runner' = runner /\ at' = at /\ counts' = counts
        /\ at \in 0..Len(Cases)
        /\ Case' = Case
    BY DEF runnerVars, RunInv, RunnerShape, Case
  <1>2. \A n \in 1..at : n \in DOMAIN Cases
    BY <1>1, CasesDiffer
  <1>3. RunnerShape'
    BY <1>1 DEF RunInv, RunnerShape
  <1>4. Told'
    <2>1. runner = "filing" => stage'[Case.turn] = "ended"
      BY <1>1, <1>2, CasesDiffer DEF RunInv, Told, RunnerShape, Past, Case
    <2>2. \A n \in 1..(IF runner = "asking" THEN at ELSE at - 1) : Settled(n)'
      BY <1>1, <1>2, SettledStays DEF RunInv, Told
    <2>3. /\ \A n \in DOMAIN Cases :
               (n > at' \/ (n = at' /\ runner' \in {"listening", "filing"})) =>
                 Said(Cases[n])' = {}
          /\ DOMAIN stage' = Turns /\ DOMAIN outcome' = Turns
      BY <1>1 DEF RunInv, Told, Same, Past
    <2>. QED
      BY <1>1, <2>1, <2>2, <2>3 DEF RunInv, Told
  <1>5. Tally'
    <2>1. JudgedOf' = JudgedOf /\ ApprovedOf' = ApprovedOf
      BY <1>1, TalliesStay DEF RunInv
    <2>. QED
      BY <1>1, <2>1 DEF RunInv, Tally
  <1>. QED
    BY <1>3, <1>4, <1>5 DEF RunInv

\* The runner's own steps.
LEMMA AskCaseKeeps == ASSUME RunInv, AskCase PROVE RunInv'
  <1>1. /\ runner = "asking" /\ runner' = "listening" /\ at' = at + 1
        /\ counts' = counts /\ at \in Nat /\ at < Len(Cases) /\ Len(Cases) \in Nat
    BY CasesDiffer DEF AskCase, RunInv, RunnerShape
  <1>2. PICK n \in DOMAIN Cases : n = at + 1
    BY <1>1, CasesDiffer
  <1>3. Past /\ Same
    <2>1. Past /\ filed' = filed
      BY <1>2, StagesMove, CasesDiffer DEF AskCase, RunInv, Told
    <2>. QED
      BY <2>1, UnfiledIsSame
  <1>4. \A m \in 1..at : m \in DOMAIN Cases
    BY <1>1, CasesDiffer
  <1>5. RunnerShape'
    BY <1>1 DEF RunnerShape
  <1>6. Told'
    <2>1. \A m \in 1..at : Settled(m)'
      BY <1>1, <1>3, <1>4, SettledStays DEF RunInv, Told
    <2>2. \A m \in DOMAIN Cases : m > at => Said(Cases[m])' = {}
      BY <1>1, <1>3 DEF RunInv, Told, Same
    <2>. QED
      BY <1>1, <1>3, <2>1, <2>2, CasesDiffer DEF Told, Past
  <1>7. Tally'
    <2>1. Said(Cases[n]) = {}
      BY <1>1, <1>2 DEF RunInv, Told
    <2>2. JudgedOf' = JudgedOf /\ ApprovedOf' = ApprovedOf
      BY <1>1, <1>2, <1>3, <2>1, TalliesStay DEF RunInv
    <2>. QED
      BY <1>1, <2>2 DEF RunInv, Tally
  <1>. QED
    BY <1>5, <1>6, <1>7 DEF RunInv

\* The loop after a stream: counted, passed over, or about to be filed.
LEMMA TakenKeeps == ASSUME RunInv, Taken PROVE RunInv'
  <1> DEFINE answered == outcome[Case.turn] = "answered"
  <1>1. /\ runner = "listening" /\ stage[Case.turn] = "ended" /\ at' = at
        /\ UNCHANGED vars
        /\ runner' = IF answered THEN "filing" ELSE "asking"
        /\ counts' = [counts EXCEPT
                        !.asked = @ + 1,
                        !.unscored = @ + IF answered /\ ~Case.expect THEN 1 ELSE 0]
    BY DEF Taken
  <1>2. /\ at \in DOMAIN Cases /\ at \in Nat /\ at > 0 /\ Case = Cases[at]
        /\ Case' = Case /\ Case.expect \in BOOLEAN
        /\ \A n \in 1..at : n \in DOMAIN Cases
    BY <1>1, CasesDiffer DEF RunInv, RunnerShape, Case
  <1>3. Past /\ Same
    <2>1. filed' = filed /\ stage' = stage /\ outcome' = outcome
      BY <1>1 DEF vars
    <2>. QED
      BY <2>1, UnfiledIsSame DEF RunInv, Told, Past
  <1>4. RunnerShape'
    BY <1>1 DEF RunInv, RunnerShape
  <1>5. Told'
    <2>1. \A n \in 1..(at - 1) : Settled(n)'
      BY <1>1, <1>2, <1>3, SettledStays DEF RunInv, Told
    <2>2. \A n \in DOMAIN Cases : n >= at => Said(Cases[n])' = {}
      <3>1. \A n \in DOMAIN Cases : n >= at => n > at \/ n = at
        BY <1>2, CasesDiffer
      <3>. QED
        BY <1>1, <1>3, <3>1 DEF RunInv, Told, Same
    <2>3. ~answered => Settled(at)'
      <3>1. PICK n \in DOMAIN Cases : n = at
        BY <1>2
      <3>2. stage' = stage /\ outcome' = outcome
        BY <1>1 DEF vars
      <3>3. ~answered => Settled(n)'
        BY <1>1, <1>2, <2>2, <3>1, <3>2 DEF Settled
      <3>. QED
        BY <1>1, <3>1, <3>3
    <2>4. stage'[Case.turn] = "ended"
      BY <1>1 DEF vars
    <2>5. \A n \in DOMAIN Cases : n > at \/ n = at => Said(Cases[n])' = {}
      BY <1>2, <2>2, CasesDiffer
    <2>6. \A n \in 1..(IF runner' = "asking" THEN at ELSE at - 1) : Settled(n)'
      <3>1. CASE ~answered
        <4>1. PICK m \in DOMAIN Cases : m = at
          BY <1>2
        <4>2. Settled(m)'
          BY <1>1, <2>3, <3>1, <4>1
        <4>3. \A n \in 1..at : n \in 1..(at - 1) \/ n = m
          BY <1>2, <4>1
        <4>. QED
          BY <1>1, <2>1, <3>1, <4>2, <4>3
      <3>2. CASE answered
        BY <1>1, <2>1, <3>2
      <3>. QED
        BY <3>1, <3>2
    <2>. HIDE DEF answered
    <2>. QED
      BY <1>1, <1>2, <1>3, <2>4, <2>5, <2>6 DEF Told, Past
  <1>6. Tally'
    <2>1. JudgedOf' = JudgedOf /\ ApprovedOf' = ApprovedOf
      BY <1>1, <1>3, TalliesStay DEF RunInv
    <2>2. /\ counts \in Sums
          /\ counts.judged + counts.unscored <= counts.asked
          /\ Cardinality(JudgedOf) - counts.judged = 0
          /\ Cardinality(ApprovedOf) - counts.approved = 0
      BY <1>1 DEF RunInv, Tally
    <2>3. PICK u \in 0..1 :
            /\ counts' = [counts EXCEPT !.asked = @ + 1, !.unscored = @ + u]
            /\ u = 1 => answered /\ ~Case.expect
      <3> DEFINE u == IF answered /\ ~Case.expect THEN 1 ELSE 0
      <3>1. u \in 0..1 /\ (u = 1 => answered /\ ~Case.expect)
        OBVIOUS
      <3>2. counts' = [counts EXCEPT !.asked = @ + 1, !.unscored = @ + u]
        BY <1>1, Zenon
      <3>. HIDE DEF u
      <3>. QED
        BY <3>1, <3>2, Zenon
    <2>. HIDE DEF answered
    <2>4. /\ counts' \in Sums
          /\ counts'.judged = counts.judged /\ counts'.approved = counts.approved
          /\ counts'.asked = counts.asked + 1
          /\ counts'.unscored = counts.unscored + u
          /\ counts.judged \in Nat /\ counts.unscored \in Nat /\ counts.asked \in Nat
      <3>1. /\ counts.asked \in Nat /\ counts.judged \in Nat
            /\ counts.approved \in Nat /\ counts.unscored \in Nat
            /\ counts = [asked |-> counts.asked, judged |-> counts.judged,
                         approved |-> counts.approved, unscored |-> counts.unscored]
        BY <2>2 DEF Sums
      <3>2. counts' = [asked |-> counts.asked + 1, judged |-> counts.judged,
                       approved |-> counts.approved, unscored |-> counts.unscored + u]
        BY <2>3, <3>1
      <3>. QED
        BY <3>1, <3>2 DEF Sums
    <2>5. /\ counts'.judged + counts'.unscored <= counts'.asked
          /\ Case.expect => counts'.judged + counts'.unscored < counts'.asked
      BY <2>2, <2>3, <2>4
    <2>6. /\ Cardinality(JudgedOf') - counts'.judged = 0
          /\ Cardinality(ApprovedOf') - counts'.approved = 0
      BY <2>1, <2>2, <2>4
    <2>. QED
      BY <1>1, <1>2, <2>4, <2>5, <2>6 DEF Tally
  <1>. QED
    BY <1>4, <1>5, <1>6 DEF RunInv

\* A verdict more is counted, unless the reply is lost and the run with it.
CountsGrow(e, r) ==
  /\ e = 1 <=> Case.expect
  /\ \/ counts' = counts /\ runner' = "stopped"
     \/ /\ counts' = [counts EXCEPT !.judged = @ + e, !.approved = @ + r]
        /\ runner' \in {"stopped", "asking"}
  /\ Cardinality(JudgedOf)' = Cardinality(JudgedOf) + e
  /\ Cardinality(ApprovedOf)' = Cardinality(ApprovedOf) + r

\* Counting what was just filed keeps the counts true.
LEMMA TallyGrows ==
  ASSUME RunInv, runner = "filing", NEW e \in 0..1, NEW r \in 0..1, CountsGrow(e, r)
  PROVE  Tally'
  <1>1. /\ counts \in Sums
        /\ counts.judged + counts.unscored <= counts.asked
        /\ Case.expect => counts.judged + counts.unscored < counts.asked
    BY DEF RunInv, Tally
  <1>2. /\ counts.judged \in Nat /\ counts.approved \in Nat
        /\ counts.asked \in Nat /\ counts.unscored \in Nat
        /\ counts = [asked |-> counts.asked, judged |-> counts.judged,
                     approved |-> counts.approved, unscored |-> counts.unscored]
    BY <1>1 DEF Sums
  <1>3. Cardinality(JudgedOf) = counts.judged /\ Cardinality(ApprovedOf) = counts.approved
    <2>1. /\ Cardinality(JudgedOf) - counts.judged = 0
          /\ Cardinality(ApprovedOf) - counts.approved = 0
      BY DEF RunInv, Tally
    <2>2. Cardinality(JudgedOf) \in Nat /\ Cardinality(ApprovedOf) \in Nat
      BY TalliesAre DEF RunInv
    <2>. QED
      BY <1>2, <2>1, <2>2
  <1>4. /\ Cardinality(JudgedOf)' = counts.judged + e
        /\ Cardinality(ApprovedOf)' = counts.approved + r
    BY <1>3, Zenon DEF CountsGrow
  <1>5. CASE counts' = counts /\ runner' = "stopped"
    <2>1. /\ Cardinality(JudgedOf)' - counts'.judged \in 0..1
          /\ Cardinality(ApprovedOf)' - counts'.approved \in 0..1
      BY <1>2, <1>4, <1>5
    <2>. QED
      BY <1>1, <1>5, <2>1 DEF Tally
  <1>6. CASE /\ counts' = [counts EXCEPT !.judged = @ + e, !.approved = @ + r]
             /\ runner' \in {"stopped", "asking"}
    <2>1. counts' = [asked |-> counts.asked, judged |-> counts.judged + e,
                     approved |-> counts.approved + r, unscored |-> counts.unscored]
      BY <1>2, <1>6
    <2>2. /\ counts' \in Sums
          /\ counts'.asked = counts.asked /\ counts'.unscored = counts.unscored
          /\ counts'.judged = counts.judged + e
          /\ counts'.approved = counts.approved + r
      BY <1>2, <2>1 DEF Sums
    <2>3. /\ Cardinality(JudgedOf)' - counts'.judged = 0
          /\ Cardinality(ApprovedOf)' - counts'.approved = 0
      BY <1>2, <1>4, <2>2
    <2>4. counts'.judged + counts'.unscored <= counts'.asked
      <3>1. e = 1 <=> Case.expect
        BY DEF CountsGrow
      <3>2. counts.judged + e + counts.unscored <= counts.asked
        BY <1>1, <1>2, <3>1
      <3>. QED
        BY <1>2, <2>2, <3>2
    <2>. QED
      BY <1>6, <2>2, <2>3, <2>4 DEF Tally
  <1>. QED
    BY <1>5, <1>6 DEF CountsGrow

\* A filing is counted, or its reply is lost and it is the one not counted.
LEMMA FilingKeeps == ASSUME RunInv, FileVerdict \/ ReplyLost PROVE RunInv'
  <1>1. PICK right \in BOOLEAN :
          /\ runner = "filing" /\ at' = at
          /\ Feedback(Case.turn, Body(Case, right))
          /\ \/ /\ counts' = Counted(Case, right)
                /\ runner' \in {"stopped", "asking"}
             \/ counts' = counts /\ runner' = "stopped"
    BY DEF FileVerdict, ReplyLost
  <1>2. /\ at \in DOMAIN Cases /\ at \in Nat /\ at > 0
        /\ \A n \in 1..at : n \in DOMAIN Cases
        /\ Case = Cases[at] /\ Case.expect \in BOOLEAN
    BY <1>1, CasesDiffer DEF RunInv, RunnerShape, Case
  <1>3. /\ Past
        /\ \A n \in DOMAIN Cases : n # at => Said(Cases[n])' = Said(Cases[n])
        /\ Settled(at)'
    BY <1>1, VerdictCounts
  <1>4. RunnerShape'
    BY <1>1 DEF RunInv, RunnerShape
  <1>5. Told'
    <2>1. \A n \in 1..(at - 1) : Settled(n)'
      <3> SUFFICES ASSUME NEW n \in 1..(at - 1) PROVE Settled(n)'
        OBVIOUS
      <3>1. n \in DOMAIN Cases /\ n # at /\ Settled(n) /\ Cases[n].turn \in Turns
        BY <1>1, <1>2, CasesDiffer DEF RunInv, Told
      <3>2. Said(Cases[n])' = Said(Cases[n])
        BY <1>3, <3>1
      <3>. QED
        BY <1>3, <3>1, <3>2 DEF Settled, Past
    <2>2. \A n \in DOMAIN Cases : n > at => Said(Cases[n])' = {}
      BY <1>2, <1>3 DEF RunInv, Told
    <2>3. \A n \in 1..at : Settled(n)'
      <3>1. PICK m \in DOMAIN Cases : m = at
        BY <1>2
      <3>2. Settled(m)'
        BY <1>1, <1>3, <3>1
      <3>3. \A n \in 1..at : n \in 1..(at - 1) \/ n = m
        BY <1>2, <3>1
      <3>. QED
        BY <2>1, <3>2, <3>3
    <2>. QED
      BY <1>1, <1>2, <1>3, <2>1, <2>2, <2>3 DEF Told, Past
  <1>6. Tally'
    <2>1. PICK e \in 0..1, r \in 0..1 :
            /\ e = 1 <=> Case.expect
            /\ Counted(Case, right) =
                 [counts EXCEPT !.judged = @ + e, !.approved = @ + r]
            /\ Cardinality(JudgedOf)' = Cardinality(JudgedOf) + e
            /\ Cardinality(ApprovedOf)' = Cardinality(ApprovedOf) + r
      BY <1>1, VerdictCounts
    <2>2. CountsGrow(e, r)
      BY <1>1, <2>1 DEF CountsGrow
    <2>. QED
      BY <1>1, <2>2, TallyGrows
  <1>. QED
    BY <1>4, <1>5, <1>6 DEF RunInv

(* The run begins, or ends at whatever point: nothing is filed, and what the
   summary says of the verdicts before stays true. *)
LEMMA TurningKeeps ==
  ASSUME RunInv, Past, Same, at' = at, counts' = counts,
         runner' = "stopped" \/ (runner = "starting" /\ runner' = "asking")
  PROVE  RunInv'
  <1>1. /\ at \in 0..Len(Cases) /\ Case' = Case
        /\ \A n \in 1..at : n \in DOMAIN Cases
    BY CasesDiffer DEF RunInv, RunnerShape, Case
  <1>2. RunnerShape'
    BY <1>1 DEF RunnerShape
  <1>3. Told'
    <2>1. \A n \in 1..(IF runner' = "asking" THEN at ELSE at - 1) : Settled(n)'
      <3>1. CASE runner' = "asking"
        <4>1. at = 0
          BY <3>1 DEF RunInv, Told
        <4>. QED
          BY <3>1, <4>1
      <3>2. CASE runner' = "stopped"
        <4>1. \A n \in 1..(at - 1) : n \in DOMAIN Cases /\ Settled(n)
          BY <1>1 DEF RunInv, Told
        <4>. QED
          BY <3>2, <4>1, SettledStays
      <3>. QED
        BY <3>1, <3>2
    <2>2. \A n \in DOMAIN Cases : n > at => Said(Cases[n])' = {}
      BY DEF RunInv, Told, Same
    <2>. QED
      BY <2>1, <2>2 DEF Told, Past
  <1>4. Tally'
    <2>1. JudgedOf' = JudgedOf /\ ApprovedOf' = ApprovedOf
      BY TalliesStay DEF RunInv
    <2>2. /\ Cardinality(JudgedOf) - counts.judged \in 0..1
          /\ Cardinality(ApprovedOf) - counts.approved \in 0..1
          /\ runner # "stopped" =>
               /\ Cardinality(JudgedOf) - counts.judged \in {0}
               /\ Cardinality(ApprovedOf) - counts.approved \in {0}
      BY DEF RunInv, Tally
    <2>. QED
      BY <2>1, <2>2 DEF RunInv, Tally
  <1>. QED
    BY <1>2, <1>3, <1>4 DEF RunInv

\* The others judge turns of their own, and end no turn that has ended.
LEMMA WorldIsApart == ASSUME RunInv, World PROVE Past /\ Same
  <1>1. DOMAIN stage = Turns /\ DOMAIN outcome = Turns
    BY DEF RunInv, Told
  <1>2. ASSUME NEW t \in Turns, NEW s, NEW logged,
               Ask(t, s) \/ TurnStep(t) \/ Raise(t, logged) \/ Leave(t) \/ Reset
        PROVE  Past /\ Same
    BY <1>1, <1>2, StagesMove, UnfiledIsSame
  <1>3. ASSUME NEW t \in Others, NEW body, Feedback(t, body) PROVE Past /\ Same
    <2>1. Past
      BY <1>1, <1>3 DEF Feedback, Past
    <2>2. \A n \in DOMAIN Cases : Cases[n].turn # t
      BY CasesDiffer DEF Others
    <2>3. Same
      BY <1>3, <2>2, FilingSays DEF Same
    <2>. QED
      BY <2>1, <2>3
  <1>4. CASE Reset
    <2>1. Past /\ filed' = filed
      BY <1>1, <1>4 DEF Reset, Past
    <2>. QED
      BY <2>1, UnfiledIsSame
  <1>. QED
    BY <1>2, <1>3, <1>4 DEF World, Others

\* A stutter is apart, too.
LEMMA NothingMoves == ASSUME RunInv, UNCHANGED vars PROVE Past /\ Same
  <1>1. stage' = stage /\ outcome' = outcome /\ filed' = filed
    BY DEF vars
  <1>. QED
    BY <1>1, UnfiledIsSame DEF RunInv, Told, Past

\* Every step, of the runner or of the world, keeps the invariant.
LEMMA RunStepKeeps == ASSUME RunInv, [CorpusNext]_allVars PROVE RunInv'
  <1>1. CASE Preflight \/ Refused \/ Done
    BY <1>1, NothingMoves, TurningKeeps DEF Preflight, Refused, Done
  <1>2. CASE AskCase
    BY <1>2, AskCaseKeeps
  <1>3. CASE Taken
    BY <1>3, TakenKeeps
  <1>4. CASE FileVerdict \/ ReplyLost
    BY <1>4, FilingKeeps
  <1>5. CASE GivesUp
    <2>1. CASE UNCHANGED vars
      BY <1>5, <2>1, NothingMoves, TurningKeeps DEF GivesUp
    <2>2. CASE runner = "listening" /\ Leave(Case.turn)
      <3>1. Case.turn \in Turns
        BY <2>2, CasesDiffer DEF RunInv, RunnerShape, Case
      <3>2. Past /\ Same
        BY <2>2, <3>1, StagesMove, UnfiledIsSame DEF RunInv, Told
      <3>. QED
        BY <1>5, <3>2, TurningKeeps DEF GivesUp
    <2>. QED
      BY <1>5, <2>1, <2>2 DEF GivesUp
  <1>6. CASE World /\ UNCHANGED runnerVars
    BY <1>6, WorldIsApart, WorldKeeps
  <1>7. CASE UNCHANGED allVars
    BY <1>7, NothingMoves, WorldKeeps DEF allVars
  <1>. QED
    BY <1>1, <1>2, <1>3, <1>4, <1>5, <1>6, <1>7 DEF CorpusNext, RunnerStep, Rest

(* Through every failure of a reply, reset, interruption and question of the
   others, a case the runner is past has ended unanswered or has all of its
   answer key filed, and the counts are those of the cases judged. *)
THEOREM RunInvariance == CorpusSpec => []RunInv
  <1>1. CorpusInit => RunInv
    BY InitRun
  <1>2. RunInv /\ [CorpusNext]_allVars => RunInv'
    BY RunStepKeeps
  <1>. QED
    BY <1>1, <1>2, PTL DEF CorpusSpec

(* The summary a run ends with is what is on the traces of its cases, but for
   one verdict whose reply was lost with the run and those of cases whose row
   a reset took away or gave to another; and no case is passed over in
   silence.  For any answer key, any number of other callers and resets at
   any time. *)
THEOREM SummaryIsTrue == CorpusSpec => []SummaryIsFiled
  <1>1. RunInv /\ VerdictFindsItsTrace => SummaryIsFiled
    <2> SUFFICES ASSUME RunInv, VerdictFindsItsTrace PROVE SummaryIsFiled
      OBVIOUS
    <2> DEFINE astray == {n \in 1..at : FiledAstray(Cases[n]) # {}}
               Says(n, scores) ==
                 (FiledAbout(Cases[n]) \union FiledAstray(Cases[n]))
                    \intersect scores # {}
    <2>1. \A n \in 1..(IF runner = "asking" THEN at ELSE at - 1) :
            n \in 1..at /\ Settled(n)
      BY CasesDiffer DEF RunInv, RunnerShape, Told
    <2>2. \A n \in astray : Misled(Cases[n].turn)
      BY DEF FiledAstray, VerdictFindsItsTrace
    <2>3. \A n \in 1..at : n \notin astray => Said(Cases[n]) = FiledAbout(Cases[n])
      BY SaidSomewhere
    <2>4. /\ {n \in 1..at : Says(n, Verdicts)} = JudgedOf
          /\ {n \in 1..at : Says(n, {"right"})} = ApprovedOf
      BY SaidSomewhere DEF JudgedOf, ApprovedOf
    <2>5. \A n \in (1..(IF runner = "asking" THEN at ELSE at - 1)) \ astray :
            \/ outcome[Cases[n].turn] # "answered" /\ FiledAbout(Cases[n]) = {}
            \/ /\ Cases[n].expect => n \in JudgedOf
               /\ Cases[n].reference => "reference" \in FiledAbout(Cases[n])
      BY <2>1, <2>3 DEF Settled, JudgedOf
    <2>6. Tally
      BY DEF RunInv
    <2>. QED
      BY <2>2, <2>4, <2>5, <2>6 DEF SummaryIsFiled, Tally
  <1>. QED
    BY <1>1, RunInvariance, RunVerdictsFindTraces, PTL

=============================================================================
