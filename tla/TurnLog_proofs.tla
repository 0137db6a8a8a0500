---------------------------- MODULE TurnLog_proofs ----------------------------
(* The proofs about TurnLog, for any number of turns and sessions, shared or  *)
(* not, and resets at any time: a row belongs to the turn that opened it      *)
(* until a reset wipes it, and nobody else writes to it what its own turn     *)
(* would not, but a turn that answers by the id of a row that was wiped.      *)
EXTENDS TurnLog, SequenceTheorems, TLAPS

Stages ==
  \A t \in Turns :
    /\ stage[t] = "new" <=> session[t] = None
    /\ stage[t] \in {"new", "asked"} => turnId[t] = 0
    /\ stage[t] \in {"open", "told"} => turnId[t] # 0
    /\ stage[t] = "told" => t \in heard
    /\ t \in heard => stage[t] \in {"told", "ended"} /\ turnId[t] # 0
    /\ stage[t] # "ended" => outcome[t] = "none"
    /\ epoch[t] <= resets

Owned ==
  \A i \in DOMAIN rows :
    /\ turnId[rows[i].opener] = i
    /\ epoch[rows[i].opener] = resets
    /\ rows[i].session = session[rows[i].opener]
    /\ i \notin strays =>
         /\ rows[i].status = "answered" <=> rows[i].opener \in heard
         /\ rows[i].trace \in {None, rows[i].opener}

Present ==
  \A t \in Turns :
    Kept(t) => turnId[t] \in DOMAIN rows /\ rows[turnId[t]].opener = t

Lone ==
  \A t \in Turns :
    Alone(t) /\ ~Misled(t) /\ t \notin heard =>
      rows[turnId[t]].status = IF outcome[t] = "failed" THEN "failed" ELSE "open"

\* Nobody judges a turn that has not answered.
Heard == \A p \in filed : p[1] \in heard

IndInv ==
  TypeOK /\ Stages /\ Owned /\ Present /\ Lone /\ Heard /\ VerdictFindsItsTrace

LEMMA RowsAre ==
  ASSUME TypeOK
  PROVE  /\ rows \in Seq(Row)
         /\ \A i \in DOMAIN rows :
              /\ i \in Nat \ {0} /\ rows[i] \in Row
              /\ rows[i].opener \in Turns /\ rows[i].trace \in Turns \union {None}
  <1>1. rows \in Seq(Row)
    BY DEF TypeOK
  <1>2. \A i \in DOMAIN rows : i \in Nat \ {0} /\ rows[i] \in Row
    BY <1>1
  <1>3. \A r \in Row : r.opener \in Turns /\ r.trace \in Turns \union {None}
    BY DEF Row
  <1>. QED
    BY <1>1, <1>2, <1>3

LEMMA Writes ==
  ASSUME NEW r \in Row, NEW t \in Turns
  PROVE  /\ Answered(r, t) \in Row
         /\ Answered(r, t).opener = r.opener
         /\ Answered(r, t).session = r.session
         /\ Answered(r, t).status = "answered"
         /\ Answered(r, t).trace \in {None, t}
  BY DEF Answered, Row

\* Rewriting a table row by row leaves a table of the same length.
LEMMA Rewritten ==
  ASSUME NEW S, NEW s \in Seq(S), NEW f, DOMAIN f = DOMAIN s,
         \A i \in DOMAIN s : f[i] \in S, f = [i \in DOMAIN s |-> f[i]]
  PROVE  f \in Seq(S)
  <1>1. f \in [1..Len(s) -> S] /\ Len(s) \in Nat
    OBVIOUS
  <1>. QED
    BY <1>1

\* fail_open_turn may close an open row of the session; it does nothing else.
LEMMA Closes ==
  ASSUME TypeOK, NEW s
  PROVE  /\ FailOpenTurn(s) \in Seq(Row)
         /\ DOMAIN FailOpenTurn(s) = DOMAIN rows
         /\ \A i \in DOMAIN rows :
              \/ FailOpenTurn(s)[i] = rows[i]
              \/ /\ FailOpenTurn(s)[i] = [rows[i] EXCEPT !.status = "failed"]
                 /\ rows[i].status = "open" /\ rows[i].session = s
  <1> DEFINE f == FailOpenTurn(s)
  <1>1. DOMAIN f = DOMAIN rows /\ f = [i \in DOMAIN rows |-> f[i]]
    BY DEF FailOpenTurn
  <1>2. \A i \in DOMAIN rows :
          \/ f[i] = rows[i]
          \/ /\ f[i] = [rows[i] EXCEPT !.status = "failed"]
             /\ rows[i].status = "open" /\ rows[i].session = s
    BY DEF FailOpenTurn, OpenRows
  <1>3. rows \in Seq(Row)
    BY DEF TypeOK
  <1>4. \A i \in DOMAIN rows : rows[i] \in Row
    BY <1>3
  <1>5. \A i \in DOMAIN rows : f[i] \in Row
    BY <1>2, <1>4 DEF Row
  <1>6. f \in Seq(Row)
    BY <1>1, <1>3, <1>5, Rewritten
  <1>. QED
    BY <1>1, <1>2, <1>6

LEMMA InitInv == Init => IndInv
  <1> SUFFICES ASSUME Init PROVE IndInv
    OBVIOUS
  <1> USE NoneAssumption, BoundsAssumption DEF Init
  <1>1. TypeOK
    <2>1. rows \in Seq(Row)
      OBVIOUS
    <2>2. epoch \in [Turns -> 0..MaxResets] /\ resets \in 0..MaxResets
      OBVIOUS
    <2>. QED
      BY <2>1, <2>2 DEF TypeOK
  <1>2. Stages /\ Present /\ Lone
    BY DEF Stages, Present, Lone, Kept, Misled
  <1>3. Owned
    BY DEF Owned
  <1>4. Heard /\ VerdictFindsItsTrace
    BY DEF Heard, VerdictFindsItsTrace
  <1>. QED
    BY <1>1, <1>2, <1>3, <1>4 DEF IndInv

LEMMA AskKeeps ==
  ASSUME IndInv, NEW t \in Turns, NEW s \in Sessions, Ask(t, s)
  PROVE  IndInv'
  <1> USE NoneAssumption, BoundsAssumption DEF IndInv, Ask, TypeOK
  <1>1. TypeOK'
    OBVIOUS
  <1>2. Stages'
    BY DEF Stages
  <1>3. \A i \in DOMAIN rows : rows[i].opener # t /\ rows[i].opener \in Turns
    BY RowsAre DEF Owned, Stages
  <1>4. Owned'
    BY <1>3 DEF Owned
  <1>5. Present'
    BY DEF Present, Kept
  <1>6. Lone'
    <2>1. ~Kept(t)
      BY DEF Stages, Kept
    <2>2. \A u \in Turns : Kept(u)' /\ Alone(u)' => Kept(u) /\ (u # t => Alone(u))
      <3> SUFFICES ASSUME NEW u \in Turns, Kept(u), Alone(u)', u # t
                   PROVE  Alone(u)
        BY DEF Kept
      <3>1. session[u] # None
        BY DEF Stages, Kept
      <3>. QED
        BY <3>1 DEF Alone, Stages
    <2>. QED
      BY <2>1, <2>2 DEF Lone, Kept, Misled
  <1>7. Heard' /\ VerdictFindsItsTrace'
    BY DEF Heard, VerdictFindsItsTrace, Misled, Kept
  <1>. QED
    BY <1>1, <1>2, <1>4, <1>5, <1>6, <1>7

LEMMA OpenKeeps ==
  ASSUME IndInv, NEW t \in Turns, Open(t)
  PROVE  IndInv'
  <1> USE NoneAssumption, BoundsAssumption DEF IndInv, Open
  <1> DEFINE row == [session |-> session[t], opener |-> t,
                     status |-> "open", trace |-> None]
             n == Len(rows) + 1
  <1>1. row \in Row
    BY DEF Row, TypeOK, Stages
  <1>2. /\ rows' \in Seq(Row) /\ n \in Nat \ {0}
        /\ DOMAIN rows' = DOMAIN rows \union {n} /\ n \notin DOMAIN rows
        /\ rows'[n] = row /\ \A i \in DOMAIN rows : rows'[i] = rows[i]
        /\ n \notin strays
    BY <1>1 DEF TypeOK
  <1>3. TypeOK'
    BY <1>2 DEF TypeOK
  <1>4. t \notin heard
    BY DEF Stages
  <1>5. Stages'
    BY <1>2, <1>4 DEF Stages, TypeOK
  <1>6. \A i \in DOMAIN rows : rows[i].opener # t /\ rows[i].opener \in Turns
    BY RowsAre DEF Owned, Stages
  <1>7. Owned'
    <2> SUFFICES ASSUME NEW i \in DOMAIN rows'
                 PROVE  /\ turnId'[rows'[i].opener] = i
                        /\ epoch'[rows'[i].opener] = resets'
                        /\ rows'[i].session = session'[rows'[i].opener]
                        /\ i \notin strays' =>
                             /\ rows'[i].status = "answered" <=> rows'[i].opener \in heard'
                             /\ rows'[i].trace \in {None, rows'[i].opener}
      BY DEF Owned
    <2>1. CASE i = n
      BY <2>1, <1>2, <1>4 DEF TypeOK
    <2>2. CASE i # n
      BY <2>2, <1>2, <1>6 DEF Owned, TypeOK
    <2>. QED
      BY <2>1, <2>2
  <1>8. Present'
    BY <1>2 DEF Present, Kept, TypeOK
  <1>9. Lone'
    <2> SUFFICES ASSUME NEW u \in Turns, (Alone(u) /\ ~Misled(u) /\ u \notin heard)'
                 PROVE  rows'[turnId'[u]].status
                          = IF outcome'[u] = "failed" THEN "failed" ELSE "open"
      BY DEF Lone
    <2>1. CASE u = t
      <3>1. outcome[t] = "none" /\ turnId'[t] = n
        BY DEF Stages, TypeOK
      <3>. QED
        BY <2>1, <3>1, <1>2
    <2>2. CASE u # t
      BY <2>2, <1>2 DEF Lone, Present, Alone, Kept, Misled, TypeOK
    <2>. QED
      BY <2>1, <2>2
  <1>10. Heard' /\ VerdictFindsItsTrace'
    <2>1. \A p \in filed : p[1] \in Turns /\ p[1] # t
      BY <1>4 DEF Heard, TypeOK
    <2>. QED
      BY <2>1 DEF Heard, VerdictFindsItsTrace, Misled, Kept, TypeOK
  <1>. QED
    BY <1>3, <1>5, <1>7, <1>8, <1>9, <1>10

LEMMA FinishKeeps ==
  ASSUME IndInv, NEW t \in Turns, Finish(t)
  PROVE  IndInv'
  <1> DEFINE n == turnId[t]
             written(i) == Answered(rows[i], t)
  <1>1. /\ DOMAIN rows' = DOMAIN rows
        /\ rows' = [i \in DOMAIN rows |-> rows'[i]]
        /\ \A i \in DOMAIN rows :
             rows'[i] = IF i = n THEN written(i) ELSE rows[i]
    BY DEF Finish
  <1>2. \A i \in DOMAIN rows : rows[i] \in Row /\ rows[i].opener \in Turns
    BY RowsAre DEF IndInv
  <1>w. \A i \in DOMAIN rows :
          /\ written(i) \in Row
          /\ written(i).opener = rows[i].opener
          /\ written(i).session = rows[i].session
          /\ written(i).status = "answered"
          /\ written(i).trace \in {None, t}
    BY <1>2, Writes
  <1>. HIDE DEF written
  <1>3. \A i \in DOMAIN rows : /\ rows'[i] \in Row
                               /\ rows'[i].opener = rows[i].opener
                               /\ rows'[i].session = rows[i].session
    BY <1>1, <1>2, <1>w
  <1>4. rows \in Seq(Row)
    BY DEF IndInv, TypeOK
  <1>5. rows' \in Seq(Row)
    BY <1>1, <1>3, <1>4, Rewritten
  <1>s. /\ strays' \subseteq DOMAIN rows
        /\ \A i : i # n => (i \in strays' <=> i \in strays)
    BY DEF IndInv, TypeOK, Finish, Strayed
  <1> USE NoneAssumption, BoundsAssumption DEF IndInv
  <1>6. TypeOK'
    BY <1>1, <1>5, <1>s DEF TypeOK, Finish
  <1>7. Stages'
    BY DEF Stages, TypeOK, Finish
  <1>8. t \notin heard /\ n # 0
    BY DEF Stages, TypeOK, Finish
  <1>9. UNCHANGED <<session, turnId, outcome, filed, resets, epoch>>
        /\ heard' = heard \union {t}
    BY DEF Finish
  <1>k. \/ Kept(t) /\ n \in DOMAIN rows /\ rows[n].opener = t /\ n \notin strays'
        \/ ~Kept(t) /\ (n \in DOMAIN rows => n \in strays')
    BY <1>8 DEF Kept, Present, Finish, Strayed, Wiped
  <1>10. Owned'
    <2> SUFFICES ASSUME NEW i \in DOMAIN rows
                 PROVE  /\ turnId'[rows'[i].opener] = i
                        /\ epoch'[rows'[i].opener] = resets'
                        /\ rows'[i].session = session'[rows'[i].opener]
                        /\ i \notin strays' =>
                             /\ rows'[i].status = "answered" <=> rows'[i].opener \in heard'
                             /\ rows'[i].trace \in {None, rows'[i].opener}
      BY <1>1 DEF Owned
    <2>1. /\ turnId'[rows'[i].opener] = i
          /\ epoch'[rows'[i].opener] = resets'
          /\ rows'[i].session = session'[rows'[i].opener]
      BY <1>3, <1>9 DEF Owned
    <2>2. CASE i = n
      <3>1. i \notin strays' => rows[i].opener = t
        BY <2>2, <1>k
      <3>2. rows'[i].status = "answered" /\ rows'[i].trace \in {None, t}
        BY <2>2, <1>1, <1>w
      <3>. QED
        BY <2>1, <3>1, <3>2, <1>3, <1>9
    <2>3. CASE i # n
      <3>1. rows[i].opener # t
        BY <2>3 DEF Owned
      <3>2. rows'[i] = rows[i]
        BY <2>3, <1>1
      <3>. QED
        BY <2>1, <2>3, <3>1, <3>2, <1>9, <1>s DEF Owned
    <2>. QED
      BY <2>2, <2>3
  <1>11. Present'
    BY <1>1, <1>3, <1>9 DEF Present, Kept
  <1>12. Lone'
    <2> SUFFICES ASSUME NEW u \in Turns, (Alone(u) /\ ~Misled(u) /\ u \notin heard)'
                 PROVE  rows'[turnId[u]].status
                          = IF outcome[u] = "failed" THEN "failed" ELSE "open"
      BY <1>9 DEF Lone
    <2>1. /\ u # t /\ Alone(u) /\ Kept(u) /\ turnId[u] \notin strays'
          /\ u \notin heard
      BY <1>9 DEF Alone, Kept, Misled
    <2>2. turnId[u] \in DOMAIN rows /\ rows[turnId[u]].opener = u
      BY <2>1 DEF Present
    <2>3. turnId[u] # n
      BY <2>1, <2>2, <1>k
    <2>4. rows'[turnId[u]] = rows[turnId[u]] /\ ~Misled(u)
      BY <2>1, <2>2, <2>3, <1>1, <1>s DEF Misled
    <2>. QED
      BY <2>1, <2>4 DEF Lone
  <1>13. Heard'
    BY <1>9 DEF Heard
  <1>14. VerdictFindsItsTrace'
    <2> SUFFICES ASSUME NEW p \in filed, p[1] # p[2], ~Misled(p[1])' PROVE FALSE
      BY <1>9 DEF VerdictFindsItsTrace
    <2> DEFINE u == p[1]
    <2>1. u \in heard /\ u \in Turns /\ Misled(u)
      BY DEF Heard, VerdictFindsItsTrace, TypeOK
    <2>2. Kept(u) /\ turnId[u] \in strays /\ turnId[u] \notin strays'
      BY <2>1, <1>9 DEF Misled, Kept
    <2>3. turnId[u] \in DOMAIN rows /\ rows[turnId[u]].opener = u
      BY <2>1, <2>2 DEF Present
    <2>4. turnId[u] = n
      BY <2>2, <1>s
    <2>. QED
      BY <2>1, <2>2, <2>3, <2>4, <1>k, <1>8
  <1>. QED
    BY <1>6, <1>7, <1>10, <1>11, <1>12, <1>13, <1>14

LEMMA EndKeeps ==
  ASSUME IndInv, NEW t \in Turns, End(t)
  PROVE  IndInv'
  <1> USE NoneAssumption, BoundsAssumption DEF IndInv, End
  <1>1. TypeOK' /\ Heard' /\ VerdictFindsItsTrace'
    BY DEF TypeOK, Heard, VerdictFindsItsTrace, Misled, Kept
  <1>2. Stages'
    BY DEF Stages, TypeOK
  <1>3. Owned' /\ Present'
    BY DEF Owned, Present, Kept
  <1>4. t \in heard
    BY DEF Stages
  <1>5. Lone'
    BY <1>4 DEF Lone, Misled, Kept, Alone, TypeOK
  <1>. QED
    BY <1>1, <1>2, <1>3, <1>5

LEMMA LeaveKeeps ==
  ASSUME IndInv, NEW t \in Turns, Leave(t)
  PROVE  IndInv'
  <1> USE NoneAssumption, BoundsAssumption DEF IndInv, Leave, InFlight
  <1>1. TypeOK' /\ Heard' /\ VerdictFindsItsTrace'
    BY DEF TypeOK, Heard, VerdictFindsItsTrace, Misled, Kept
  <1>2. Stages'
    BY DEF Stages, TypeOK
  <1>3. Owned' /\ Present'
    BY DEF Owned, Present, Kept
  <1>4. outcome[t] = "none"
    BY DEF Stages
  <1>5. Lone'
    BY <1>4 DEF Lone, Misled, Kept, Alone, TypeOK
  <1>. QED
    BY <1>1, <1>2, <1>3, <1>5

\* A lone turn that fails closes its own row: its session has no other.
LEMMA OwnRowFails ==
  ASSUME IndInv, NEW t \in Turns, InFlight(t), Alone(t), ~Misled(t),
         t \notin heard
  PROVE  FailOpenTurn(session[t])[turnId[t]].status = "failed"
  <1> USE DEF IndInv
  <1> DEFINE n == turnId[t]
  <1>1. outcome[t] = "none"
    BY DEF InFlight, Stages
  <1>2. n \in DOMAIN rows /\ rows[n].opener = t /\ rows[n].status = "open"
    BY <1>1 DEF Present, Lone, Misled
  <1>3. rows[n].session = session[t]
    BY <1>2 DEF Owned
  <1>4. \A i \in DOMAIN rows : rows[i].opener \in Turns
    BY RowsAre
  <1>5. \A i \in OpenRows(session[t]) : i = n
    BY <1>4 DEF OpenRows, Owned, Alone
  <1>6. n \in OpenRows(session[t])
    BY <1>2, <1>3 DEF OpenRows
  <1>7. n \in Nat
    BY DEF TypeOK
  <1>8. FailOpenTurn(session[t])[n] = [rows[n] EXCEPT !.status = "failed"]
    BY <1>2, <1>5, <1>6, <1>7 DEF FailOpenTurn
  <1>9. rows[n] \in Row
    BY <1>2 DEF TypeOK
  <1>. QED
    BY <1>8, <1>9 DEF Row

LEMMA RaiseKeeps ==
  ASSUME IndInv, NEW t \in Turns, NEW logged \in BOOLEAN, Raise(t, logged)
  PROVE  IndInv'
  <1> USE NoneAssumption, BoundsAssumption DEF IndInv, Raise
  <1>1. /\ rows' \in Seq(Row) /\ DOMAIN rows' = DOMAIN rows
        /\ \A i \in DOMAIN rows :
             \/ rows'[i] = rows[i]
             \/ /\ rows'[i] = [rows[i] EXCEPT !.status = "failed"]
                /\ rows[i].status = "open" /\ rows[i].session = session[t]
    <2>1. CASE logged
      BY <2>1, Closes
    <2>2. CASE ~logged
      BY <2>2 DEF TypeOK
    <2>. QED
      BY <2>1, <2>2
  <1>2. TypeOK'
    BY <1>1 DEF TypeOK
  <1>3. Stages'
    BY DEF Stages, TypeOK, InFlight
  <1>4. \A r \in Row : LET w == [r EXCEPT !.status = "failed"]
                      IN /\ w.opener = r.opener /\ w.session = r.session
                         /\ w.trace = r.trace /\ w.status = "failed"
    BY DEF Row
  <1>5. \A i \in DOMAIN rows :
          /\ rows'[i].opener = rows[i].opener
          /\ rows'[i].session = rows[i].session
          /\ rows'[i].trace = rows[i].trace
          /\ rows'[i].status = "answered" <=> rows[i].status = "answered"
    BY <1>1, <1>4, RowsAre
  <1>6. Owned'
    BY <1>1, <1>5 DEF Owned
  <1>7. Present'
    BY <1>1, <1>5 DEF Present, Kept
  <1>8. Lone'
    <2> SUFFICES ASSUME NEW u \in Turns, Alone(u), ~Misled(u), u \notin heard
                 PROVE  rows'[turnId[u]].status
                          = IF outcome'[u] = "failed" THEN "failed" ELSE "open"
      BY DEF Lone, Alone, Misled, Kept
    <2>1. turnId[u] \in DOMAIN rows /\ rows[turnId[u]].opener = u
      BY DEF Present, Misled
    <2>2. CASE u = t /\ logged
      BY <2>2, OwnRowFails DEF TypeOK
    <2>3. CASE u = t /\ ~logged
      <3>1. outcome[t] = "none"
        BY DEF Stages, InFlight
      <3>2. rows' = rows /\ outcome'[u] = "lost"
        BY <2>3 DEF TypeOK
      <3>. QED
        BY <2>3, <3>1, <3>2 DEF Lone
    <2>4. CASE u # t
      <3>1. rows[turnId[u]].session # session[t]
        BY <2>1, <2>4 DEF Owned, Alone
      <3>2. rows'[turnId[u]] = rows[turnId[u]]
        BY <2>1, <3>1, <1>1
      <3>3. outcome'[u] = outcome[u]
        BY <2>4 DEF TypeOK
      <3>. QED
        BY <3>2, <3>3 DEF Lone
    <2>. QED
      BY <2>2, <2>3, <2>4
  <1>9. Heard' /\ VerdictFindsItsTrace'
    BY DEF Heard, VerdictFindsItsTrace, Misled, Kept
  <1>. QED
    BY <1>2, <1>3, <1>6, <1>7, <1>8, <1>9

LEMMA ResetKeeps ==
  ASSUME IndInv, Reset
  PROVE  IndInv'
  <1> USE NoneAssumption, BoundsAssumption DEF IndInv, Reset
  <1>1. resets \in Nat /\ resets' = resets + 1 /\ resets' \in 0..MaxResets
    BY DEF TypeOK
  <1>2. TypeOK'
    BY <1>1 DEF TypeOK
  <1>3. \A t \in Turns : epoch[t] \in Nat /\ epoch[t] # resets' /\ epoch[t] <= resets'
    BY <1>1 DEF Stages, TypeOK
  <1>4. Stages'
    BY <1>3 DEF Stages
  <1>5. \A t \in Turns : ~Kept(t)'
    BY <1>3 DEF Kept
  <1>6. Present' /\ Lone'
    BY <1>5 DEF Present, Lone, Misled
  <1>7. Owned'
    BY DEF Owned
  <1>8. Heard' /\ VerdictFindsItsTrace'
    BY <1>5 DEF Heard, VerdictFindsItsTrace, Misled, TypeOK
  <1>. QED
    BY <1>2, <1>4, <1>6, <1>7, <1>8

LEMMA FeedbackKeeps ==
  ASSUME IndInv, NEW t \in Turns, NEW body, Feedback(t, body)
  PROVE  IndInv'
  <1> USE NoneAssumption, BoundsAssumption DEF IndInv, Feedback
  <1> DEFINE trace == rows[turnId[t]].trace
  <1>1. turnId[t] \in DOMAIN rows /\ trace # None
    BY DEF Accepts
  <1>2. trace \in Turns
    BY <1>1, RowsAre
  <1>3. body \subseteq Scores
    BY DEF FeedbackBody
  <1>4. TypeOK'
    BY <1>2, <1>3 DEF TypeOK
  <1>5. Stages' /\ Owned' /\ Present' /\ Lone'
    BY DEF Stages, Owned, Present, Lone, Misled, Kept, Alone
  <1>6. Heard'
    BY DEF Heard
  <1>7. VerdictFindsItsTrace'
    <2>1. \A u : Misled(u)' <=> Misled(u)
      BY DEF Misled, Kept
    <2>2. ~Misled(t) => trace = t
      BY <1>1 DEF Misled, Present, Owned
    <2>. QED
      BY <2>1, <2>2 DEF VerdictFindsItsTrace
  <1>. QED
    BY <1>4, <1>5, <1>6, <1>7

LEMMA StutterKeeps == ASSUME IndInv, UNCHANGED vars PROVE IndInv'
  BY DEF IndInv, TypeOK, Stages, Owned, Present, Lone, Heard,
         VerdictFindsItsTrace, Misled, Kept, Alone, vars

LEMMA StepKeeps == IndInv /\ [Next]_vars => IndInv'
  <1> SUFFICES ASSUME IndInv, [Next]_vars PROVE IndInv'
    OBVIOUS
  <1>1. ASSUME NEW t \in Turns, NEW s \in Sessions, Ask(t, s) PROVE IndInv'
    BY <1>1, AskKeeps
  <1>2. ASSUME NEW t \in Turns, TurnStep(t) PROVE IndInv'
    BY <1>2, OpenKeeps, FinishKeeps, EndKeeps DEF TurnStep
  <1>3. ASSUME NEW t \in Turns, NEW logged \in BOOLEAN, Raise(t, logged) PROVE IndInv'
    BY <1>3, RaiseKeeps
  <1>4. ASSUME NEW t \in Turns, Leave(t) PROVE IndInv'
    BY <1>4, LeaveKeeps
  <1>5. ASSUME NEW t \in Turns, NEW body \in Opinions, Feedback(t, body) PROVE IndInv'
    BY <1>5, FeedbackKeeps
  <1>6. CASE Reset
    BY <1>6, ResetKeeps
  <1>7. CASE Quiet \/ UNCHANGED vars
    BY <1>7, StutterKeeps DEF Quiet
  <1>. QED
    BY <1>1, <1>2, <1>3, <1>4, <1>5, <1>6, <1>7 DEF Next

THEOREM Invariance == Spec => []IndInv
  <1>. QED
    BY InitInv, StepKeeps, PTL DEF Spec

(* The table, the ids and the scores have their types: every verdict filed is
   on the trace of some turn. *)
THEOREM TypeCorrect == Spec => []TypeOK
  <1>1. IndInv => TypeOK
    BY DEF IndInv
  <1>. QED
    BY <1>1, Invariance, PTL

(* The row of a turn alone on its session tells what became of it, among any
   number of turns on other sessions and on shared ones and through resets at
   any time, unless a reset wiped it or made another turn answer over it. *)
THEOREM RowsAreTrue == Spec => []LoneRowIsTrue
  <1>1. IndInv => LoneRowIsTrue
    <2> SUFFICES ASSUME IndInv, NEW t \in Turns, Alone(t), ~Misled(t)
                 PROVE  /\ turnId[t] \in DOMAIN rows
                        /\ rows[turnId[t]].opener = t
                        /\ rows[turnId[t]].status =
                             IF t \in heard THEN "answered"
                             ELSE IF outcome[t] = "failed" THEN "failed" ELSE "open"
      BY DEF LoneRowIsTrue
    <2>1. Kept(t) /\ turnId[t] \notin strays
      BY DEF Misled
    <2>2. turnId[t] \in DOMAIN rows /\ rows[turnId[t]].opener = t
      BY <2>1 DEF IndInv, Present
    <2>3. CASE t \in heard
      BY <2>1, <2>2, <2>3 DEF IndInv, Owned
    <2>4. CASE t \notin heard
      BY <2>2, <2>4 DEF IndInv, Lone
    <2>. QED
      BY <2>3, <2>4
  <1>. QED
    BY <1>1, Invariance, PTL

(* A verdict goes to the trace of the turn it is about, however many turns
   share a session and whoever files it, until a reset has wiped that turn's
   row or let another turn answer over it. *)
THEOREM VerdictsFindTraces == Spec => []VerdictFindsItsTrace
  <1>1. IndInv => VerdictFindsItsTrace
    BY DEF IndInv
  <1>. QED
    BY <1>1, Invariance, PTL

(* No step but a reset changes an answered row, not the failure of another
   turn of its session and not another turn's answer, unless a turn whose own
   row a reset had wiped answers it in that step or did so before. *)
THEOREM AnsweredRowsStay == Spec => AnsweredStays
  <1> DEFINE Stays == \A i \in DOMAIN rows :
                        rows[i].status = "answered" /\ resets' = resets
                          => rows'[i] = rows[i] \/ i \in strays \union strays'
  <1>1. ASSUME IndInv, [Next]_vars PROVE [Stays]_vars
    <2> SUFFICES ASSUME Next, NEW i \in DOMAIN rows, rows[i].status = "answered",
                        resets' = resets, i \notin strays, i \notin strays'
                 PROVE  rows'[i] = rows[i]
      BY <1>1
    <2>1. ASSUME NEW t \in Turns, Finish(t) PROVE rows'[i] = rows[i]
      <3>1. t \notin heard /\ turnId[t] # 0
        BY <1>1, <2>1 DEF IndInv, Stages, Finish
      <3>2. i = turnId[t] => Kept(t)
        BY <2>1, <3>1 DEF Finish, Strayed, Wiped, Kept
      <3>3. i # turnId[t]
        BY <1>1, <3>1, <3>2 DEF IndInv, Present, Owned
      <3>. QED
        BY <2>1, <3>3 DEF Finish
    <2>2. ASSUME NEW t \in Turns, NEW logged \in BOOLEAN, Raise(t, logged)
          PROVE  rows'[i] = rows[i]
      <3>1. TypeOK
        BY <1>1 DEF IndInv
      <3>2. FailOpenTurn(session[t])[i] = rows[i]
        BY <3>1, Closes
      <3>. QED
        BY <2>2, <3>2 DEF Raise
    <2>3. ASSUME NEW t \in Turns, Open(t) PROVE rows'[i] = rows[i]
      BY <1>1, <2>3 DEF Open, IndInv, TypeOK
    <2>4. CASE Reset
      BY <1>1, <2>4 DEF Reset, IndInv, TypeOK
    <2>5. CASE UNCHANGED rows
      BY <2>5
    <2>. QED
      BY <2>1, <2>2, <2>3, <2>4, <2>5
         DEF Next, TurnStep, Ask, End, Leave, Feedback, Quiet, vars
  <1>2. [Stays]_vars <=> [\A i \in DOMAIN rows :
                            rows[i].status = "answered" /\ resets' = resets
                              => rows'[i] = rows[i] \/ i \in strays \union strays']_vars
    OBVIOUS
  <1>. QED
    BY <1>1, <1>2, Invariance, PTL DEF Spec, AnsweredStays

=============================================================================
