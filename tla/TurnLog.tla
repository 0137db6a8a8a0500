------------------------------- MODULE TurnLog -------------------------------
(***************************************************************************)
(* The turn table under concurrent turns (app/store.py, the statements     *)
(* app/graph.py and app/api.py make of it).  Any number of turns run at    *)
(* once, on sessions of their own or on shared ones: nothing stops two     *)
(* callers from asking on one session.  A turn opens a row, later writes   *)
(* it by id, and a turn that throws closes the newest open row of its      *)
(* session.  `sql-agent reset` empties the table and restarts its ids, and *)
(* callers file feedback by id.  Every statement commits by itself.        *)
(*                                                                         *)
(* What a turn does between its two statements is TurnGraph's subject.     *)
(***************************************************************************)
EXTENDS Naturals, Sequences, FiniteSets

CONSTANTS
  Turns,                \* the turns asked; also the names of their traces
  Sessions,
  None,                 \* no turn, no session, no trace
  Tracing,              \* do the turns run with tracing on?
  Opinions,             \* bound: the bodies callers send
  MaxAsked,             \* bound: how many of the turns are asked
  MaxResets             \* bound: resets

ASSUME NoneAssumption == None \notin Turns \union Sessions
ASSUME ModesAssumption == Tracing \in BOOLEAN
ASSUME BoundsAssumption == MaxResets \in Nat /\ MaxAsked \in Nat

(* A verdict on the answer, the query it should have come from, or both. *)
Scores == {"right", "wrong", "reference"}

FeedbackBody == {body \in SUBSET Scores : body # {} /\ ~{"right", "wrong"} \subseteq body}

ASSUME OpinionsAssumption == Opinions \subseteq FeedbackBody

VARIABLES
  stage,                \* how far each turn has come
  session,              \* the session it was asked on
  turnId,               \* the id of the row it opened, 0 for none
  rows,                 \* the turn table, in id order: ids start at 1
  filed,                \* the scores filed: <<turn meant, trace scored, score>>
  \* History, to state properties with:
  outcome,              \* how each turn ended
  heard,                \* the turns whose answer event went out
  resets,               \* resets so far
  epoch,                \* how many there had been when the turn opened its row
  strays                \* rows last answered by a turn whose own was wiped

vars == <<stage, session, turnId, rows, filed,
          outcome, heard, resets, epoch, strays>>

Row == [session : Sessions, opener : Turns,
        status : {"open", "answered", "failed"},
        trace : Turns \union {None}]

TypeOK ==
  /\ stage \in [Turns -> {"new", "asked", "open", "told", "ended"}]
  /\ session \in [Turns -> Sessions \union {None}]
  /\ turnId \in [Turns -> Nat]
  /\ rows \in Seq(Row)
  /\ filed \subseteq Turns \X Turns \X Scores
  /\ outcome \in [Turns -> {"none", "answered", "failed", "lost", "left"}]
  /\ heard \subseteq Turns
  /\ resets \in 0..MaxResets
  /\ epoch \in [Turns -> 0..MaxResets]
  /\ strays \subseteq DOMAIN rows

Init ==
  /\ stage = [t \in Turns |-> "new"]
  /\ session = [t \in Turns |-> None]
  /\ turnId = [t \in Turns |-> 0]
  /\ rows = <<>>
  /\ filed = {}
  /\ outcome = [t \in Turns |-> "none"]
  /\ heard = {}
  /\ resets = 0
  /\ epoch = [t \in Turns |-> 0]
  /\ strays = {}

InFlight(t) == stage[t] \in {"asked", "open", "told"}

-----------------------------------------------------------------------------
(* A caller asks, on a session of its own or on one somebody uses. *)
Ask(t, s) ==
  /\ stage[t] = "new"
  /\ Cardinality({u \in Turns : stage[u] # "new"}) < MaxAsked
  /\ stage' = [stage EXCEPT ![t] = "asked"]
  /\ session' = [session EXCEPT ![t] = s]
  /\ UNCHANGED <<turnId, rows, filed, outcome, heard, resets, epoch, strays>>

(* load_cache: start_turn inserts the row and returns its id. *)
Open(t) ==
  /\ stage[t] = "asked"
  /\ stage' = [stage EXCEPT ![t] = "open"]
  /\ rows' = Append(rows, [session |-> session[t], opener |-> t,
                           status |-> "open", trace |-> None])
  /\ turnId' = [turnId EXCEPT ![t] = Len(rows) + 1]
  /\ epoch' = [epoch EXCEPT ![t] = resets]
  /\ UNCHANGED <<session, filed, outcome, heard, resets, strays>>

\* A reset has wiped the turn's row, and another may have its id by now.
Wiped(t) == turnId[t] # 0 /\ epoch[t] # resets

\* Row i was answered by turn t.
Strayed(t, i) ==
  IF i \in DOMAIN rows /\ Wiped(t) THEN strays \union {i} ELSE strays \ {i}

Answered(row, t) ==
  [row EXCEPT !.status = "answered", !.trace = IF Tracing THEN t ELSE None]

\* A bug: the row written is the newest one, as fail_open_turn finds its own.
FinishNewest(t) ==
  /\ stage[t] = "open"
  /\ stage' = [stage EXCEPT ![t] = "told"]
  /\ rows' = [i \in DOMAIN rows |->
                IF i = Len(rows) THEN Answered(rows[i], t) ELSE rows[i]]
  /\ heard' = heard \union {t}
  /\ strays' = Strayed(t, turnId[t])
  /\ UNCHANGED <<session, turnId, filed, outcome, resets, epoch>>

\* A bug: the statement that closes the row does not reach the table.
FinishUnwritten(t) ==
  /\ stage[t] = "open"
  /\ stage' = [stage EXCEPT ![t] = "told"]
  /\ heard' = heard \union {t}
  /\ UNCHANGED <<session, turnId, rows, filed, outcome, resets, epoch, strays>>

(* answer: finish_turn updates whatever row has the id, if there is one, and
   the answer event tells the caller that id. *)
Finish(t) ==
  /\ stage[t] = "open"
  /\ stage' = [stage EXCEPT ![t] = "told"]
  /\ rows' = [i \in DOMAIN rows |->
                IF i = turnId[t] THEN Answered(rows[i], t) ELSE rows[i]]
  /\ heard' = heard \union {t}
  /\ strays' = Strayed(t, turnId[t])
  /\ UNCHANGED <<session, turnId, filed, outcome, resets, epoch>>

(* The graph's last checkpoint is written and the stream is done. *)
End(t) ==
  /\ stage[t] = "told"
  /\ stage' = [stage EXCEPT ![t] = "ended"]
  /\ outcome' = [outcome EXCEPT ![t] = "answered"]
  /\ UNCHANGED <<session, turnId, rows, filed, heard, resets, epoch, strays>>

OpenRows(s) == {i \in DOMAIN rows : rows[i].session = s
                                    /\ rows[i].status = "open"}

\* A bug: the newest row is closed, open or not.
FailNewestRow(s) ==
  [i \in DOMAIN rows |->
     IF /\ rows[i].session = s
        /\ \A j \in DOMAIN rows : rows[j].session = s => j <= i
     THEN [rows[i] EXCEPT !.status = "failed"] ELSE rows[i]]

\* A bug: the newest open row is closed, whichever session it is of.
FailAnySession(s) ==
  [i \in DOMAIN rows |->
     IF /\ rows[i].status = "open"
        /\ \A j \in DOMAIN rows : rows[j].status = "open" => j <= i
     THEN [rows[i] EXCEPT !.status = "failed"] ELSE rows[i]]

FailOpenTurn(s) ==
  [i \in DOMAIN rows |->
     IF i \in OpenRows(s) /\ \A j \in OpenRows(s) : j <= i
     THEN [rows[i] EXCEPT !.status = "failed"] ELSE rows[i]]

(* A node throws and stream_turn closes a row, unless the database is what
   is away. *)
Raise(t, logged) ==
  /\ InFlight(t)
  /\ stage' = [stage EXCEPT ![t] = "ended"]
  /\ outcome' = [outcome EXCEPT ![t] = IF logged THEN "failed" ELSE "lost"]
  /\ rows' = IF logged THEN FailOpenTurn(session[t]) ELSE rows
  /\ UNCHANGED <<session, turnId, filed, heard, resets, epoch, strays>>

(* The caller hangs up: the generator is closed and no handler runs. *)
Leave(t) ==
  /\ InFlight(t)
  /\ stage' = [stage EXCEPT ![t] = "ended"]
  /\ outcome' = [outcome EXCEPT ![t] = "left"]
  /\ UNCHANGED <<session, turnId, rows, filed, heard, resets, epoch, strays>>

(* reset_learned, at the statement that truncates this table: at any time,
   whichever turns are in flight. *)
Reset ==
  /\ resets < MaxResets
  /\ resets' = resets + 1
  /\ rows' = <<>>
  /\ strays' = {}
  /\ UNCHANGED <<stage, session, turnId, filed, outcome, heard, epoch>>

\* A bug: the trace is not looked at before it is scored.
FeedbackAnyway(t, body) ==
  /\ t \in heard
  /\ turnId[t] \in DOMAIN rows
  /\ filed' = filed \union ({t} \X {rows[turnId[t]].trace} \X body)
  /\ UNCHANGED <<stage, session, turnId, rows, outcome, heard, resets, epoch, strays>>

\* There is a row with the id the caller was told, and it has a trace: no
\* such row is a 404, a row without a trace a 409.
Accepts(t) ==
  /\ turnId[t] \in DOMAIN rows
  /\ rows[turnId[t]].trace # None

(* leave_feedback scores the trace of that row, once for each thing the body
   says.  An empty body is a 422. *)
Feedback(t, body) ==
  /\ body \in FeedbackBody
  /\ t \in heard
  /\ Accepts(t)
  /\ filed' = filed \union ({t} \X {rows[turnId[t]].trace} \X body)
  /\ UNCHANGED <<stage, session, turnId, rows, outcome, heard, resets, epoch, strays>>

\* No turn is under way: what is left to do is nobody's duty.
Quiet ==
  /\ \A t \in Turns : ~InFlight(t)
  /\ UNCHANGED vars

TurnStep(t) ==
  \/ Open(t)
  \/ Finish(t)
  \/ End(t)

Next ==
  \/ \E t \in Turns :
       \/ \E s \in Sessions : Ask(t, s)
       \/ TurnStep(t)
       \/ \E logged \in BOOLEAN : Raise(t, logged)
       \/ Leave(t)
       \/ \E body \in Opinions : Feedback(t, body)
  \/ Reset
  \/ Quiet

Spec == Init /\ [][Next]_vars

(* Each turn is a task of the server of its own, and each of its calls has a
   timeout; nobody owes a question, a reset, an error or a verdict. *)
FairSpec == Spec /\ \A t \in Turns : WF_vars(TurnStep(t))

-----------------------------------------------------------------------------
(* Properties. *)

\* Nobody else asked on the turn's session.
Alone(t) == \A u \in Turns \ {t} : session[u] # session[t]

\* The turn's row has not been wiped since it was opened.
Kept(t) == turnId[t] # 0 /\ epoch[t] = resets

\* The id the turn was given is not, or not only, the turn's: its own row is
\* gone, or a turn whose row is gone has answered over it.
Misled(t) == ~Kept(t) \/ turnId[t] \in strays

(* Whatever the other sessions do, the row of a turn alone on its session is
   there and tells what became of it: answered, failed, or still open only
   while it runs, was left, or failed with the database away.  A reset undoes
   this in two ways only: it wipes the row, or it wipes another turn's and that
   turn, still under way, answers under the id it had. *)
LoneRowIsTrue ==
  \A t \in Turns : Alone(t) /\ ~Misled(t) =>
    /\ turnId[t] \in DOMAIN rows
    /\ rows[turnId[t]].opener = t
    /\ rows[turnId[t]].status =
         IF t \in heard THEN "answered"
         ELSE IF outcome[t] = "failed" THEN "failed" ELSE "open"

(* No step but a reset writes an answered row again, neither a failure on its
   session nor another turn's answer, unless a turn whose own row a reset had
   wiped answers it by the same id, in this step or in one before. *)
AnsweredStays ==
  [][\A i \in DOMAIN rows :
       rows[i].status = "answered" /\ resets' = resets
         => rows'[i] = rows[i] \/ i \in strays \union strays']_vars

(* A verdict goes to the trace of the turn it is about, also where turns share
   a session and close each other's rows.  It can miss only once a reset has
   wiped that turn's row, or let another turn answer over it. *)
VerdictFindsItsTrace ==
  \A p \in filed : p[1] = p[2] \/ Misled(p[1])

(* leave_feedback's promise, resets or not: "What a person thought of one
   answer, onto that turn's trace."  Ids restart, so it is false. *)
EveryVerdictFindsItsTrace == \A p \in filed : p[1] = p[2]

(* Once every turn of a session has ended by itself, no row of the session is
   left looking like a turn in flight, which is what fail_open_turn is for.
   Two turns of one session may close each other's rows: false. *)
NoRowLooksInFlight ==
  \A s \in Sessions :
    (\A t \in Turns : session[t] = s =>
       stage[t] = "ended" /\ outcome[t] \in {"answered", "failed"})
      => OpenRows(s) = {}

(* A row a lone turn opened is closed in the end, or wiped, unless the caller
   left, the database was away or somebody joined the session. *)
LoneRowCloses ==
  \A t \in Turns :
    stage[t] = "open" ~>
      \/ outcome[t] \in {"left", "lost"}
      \/ ~Alone(t)
      \/ ~Kept(t)
      \/ rows[turnId[t]].status # "open"

=============================================================================
