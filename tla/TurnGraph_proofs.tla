--------------------------- MODULE TurnGraph_proofs ---------------------------
(* The proofs about TurnGraph. *)
EXTENDS TurnGraph, SequenceTheorems, TLAPS

LEMMA InitIndInv == Init => IndInv
  <1> SUFFICES ASSUME Init PROVE IndInv
    OBVIOUS
  <1>1. src \in [Channels -> 0..MaxTurns]
    BY BoundsAssumption DEF Init, Unwritten
  <1>2. rows \in Seq(Row)
    BY DEF Init
  <1>3. hits \in [Names -> Nat]
    BY DEF Init
  <1>6. sufficient \in BOOLEAN /\ error \in BOOLEAN /\ explored \in BOOLEAN
    BY DEF Init
  <1>7. memory \in BOOLEAN
    BY DEF Init
  <1>8. /\ asked \in 0..MaxTurns
        /\ session \in 0..asked
        /\ fixes \in 0..MaxFix
    BY BoundsAssumption DEF Init
  <1>4. TypeOK
    BY <1>1, <1>2, <1>3, <1>6, <1>7, <1>8 DEF Init, TypeOK
  <1>5. RowIsOwn /\ FlywheelCount /\ OwnChannels /\ UsedIsPicked
    BY BoundsAssumption
       DEF Init, RowIsOwn, FlywheelCount, OwnChannels, UsedIsPicked, Opened,
           Nodes
  <1>9. ColdIsEmpty /\ SumIsOwn /\ ExploredIsOwn /\ ClosedRowIsOwn
    BY DEF Init, ColdIsEmpty, SumIsOwn, ExploredIsOwn, ClosedRowIsOwn
  <1>10. RowsInOrder /\ EndedTurnIsClosed
    BY DEF Init, RowsInOrder, EndedTurnIsClosed
  <1>. QED
    BY <1>4, <1>5, <1>9, <1>10 DEF IndInv

\* Failing one row of the table leaves a table of rows of the same length.
LEMMA FailType ==
  ASSUME TypeOK, NEW s
  PROVE  /\ FailOpenTurn(s) \in Seq(Row)
         /\ Len(FailOpenTurn(s)) = Len(rows)
  <1>a. asked \in Nat
    BY BoundsAssumption DEF TypeOK
  <1>b. \A r \in Row : Failed(r) \in Row
    BY <1>a DEF Failed, Row
  <1>c. \A i \in DOMAIN rows : rows[i] \in Row
    BY DEF TypeOK
  <1>1. \A i \in DOMAIN rows : rows[i] \in Row /\ Failed(rows[i]) \in Row
    BY <1>b, <1>c
  <1>2. FailOpenTurn(s) \in [1..Len(rows) -> Row] /\ Len(rows) \in Nat
    BY <1>1 DEF TypeOK, FailOpenTurn
  <1>. QED
    BY <1>2

\* So does closing the turn's row.
LEMMA FinishType ==
  ASSUME TypeOK, FinishTurn
  PROVE  rows' \in Seq(Row) /\ Len(rows') = Len(rows)
  <1>1. asked \in Nat /\ tokens + OwnCalls \in Nat
    BY BoundsAssumption DEF TypeOK, OwnCalls
  <1>2. explored \in BOOLEAN /\ ClosedAs \in {"gave_up", "answered"}
    BY DEF TypeOK, ClosedAs
  <1>3. \A r \in Row :
          [session |-> r.session, asked |-> r.asked, by |-> asked,
           status |-> ClosedAs, tokens |-> tokens + OwnCalls,
           explored |-> explored] \in Row
    BY <1>1, <1>2 DEF Row
  <1>4. \A i \in DOMAIN rows : rows[i] \in Row
    BY DEF TypeOK
  <1>5. rows' \in [1..Len(rows) -> Row] /\ Len(rows) \in Nat
    BY <1>3, <1>4 DEF TypeOK, FinishTurn
  <1>. QED
    BY <1>5

\* Every step keeps the types.  Only Fix needs more than the types: the route
\* to it says that a fix is left.
LEMMA TypeStep == IndInv /\ [Next]_vars => TypeOK'
  <1> SUFFICES ASSUME TypeOK, pc = "fix" => fixes < MaxFix, [Next]_vars
               PROVE  TypeOK'
    BY DEF IndInv, FlywheelCount
  <1> USE BoundsAssumption, ModesAssumption
      DEF TypeOK, turn, loaded, planned, channels,
          store, turnHistory, Nodes, Channels
  <1>1. ASSUME NEW remember \in MemoryModes, NEW continue \in BOOLEAN,
               Ask(remember, continue)
        PROVE  TypeOK'
    <2>1. asked' \in 0..MaxTurns /\ session' \in 0..asked'
      BY <1>1 DEF Ask
    <2>2. memory' \in BOOLEAN
      BY <1>1 DEF Ask
    <2>3. CASE continue
      BY <1>1, <2>1, <2>2, <2>3 DEF Ask
    <2>4. CASE ~continue
      <3>1. src' \in [Channels -> 0..MaxTurns]
        BY <1>1, <2>4 DEF Ask, NewThread, Unwritten
      <3>2. /\ sufficient' \in BOOLEAN
            /\ error' \in BOOLEAN
            /\ explored' \in BOOLEAN
        BY <1>1, <2>4 DEF Ask, NewThread
      <3>3. turnId' \in Nat /\ fixes' \in 0..MaxFix /\ tokens' \in Nat
        BY <1>1, <2>4 DEF Ask, NewThread
      <3>4. cache' \in SUBSET Names /\ usedIds' \in SUBSET Names
        BY <1>1, <2>4 DEF Ask, NewThread
      <3>. QED
        BY <1>1, <2>1, <2>2, <3>1, <3>2, <3>3, <3>4 DEF Ask
    <2>. QED
      BY <2>3, <2>4
  <1>2. CASE StartTurn
    BY <1>2 DEF StartTurn, Row
  <1>3. CASE LoadCache
    BY <1>3 DEF LoadCache, Wrote
  <1>4. CASE PlanCold
    BY <1>4 DEF PlanCold, Wrote, RouteAfterPlan
  <1>5. ASSUME NEW enough \in BOOLEAN, NEW used \in SUBSET Names,
               PlanAsk(enough, used)
        PROVE  TypeOK'
    BY <1>5 DEF PlanAsk, Wrote, RouteAfterPlan
  <1>6. ASSUME NEW calls \in 1..MaxExploreCalls, Explore(calls)
        PROVE  TypeOK'
    BY <1>6 DEF Explore, Wrote
  <1>7. CASE GenerateSql
    BY <1>7 DEF GenerateSql, Wrote
  <1>8. ASSUME NEW failed \in BOOLEAN, Execute(failed)
        PROVE  TypeOK'
    BY <1>8 DEF Execute, Wrote, RouteAfterExecute
  <1>9. CASE Fix
    <2>1. fixes' \in 0..MaxFix /\ tokens' \in Nat /\ spent' \in Nat
      BY <1>9 DEF Fix
    <2>2. src' \in [Channels -> 0..MaxTurns]
      BY <1>9 DEF Fix, Wrote
    <2>. QED
      BY <1>9, <2>1, <2>2 DEF Fix
  <1>10. CASE ExtractSkip
    BY <1>10 DEF ExtractSkip
  <1>11. ASSUME NEW replied \in BOOLEAN, ExtractFails(replied)
        PROVE  TypeOK'
    BY <1>11 DEF ExtractFails
  <1>12. ASSUME NEW entries \in SUBSET Names,
               ExtractReplies(entries)
        PROVE  TypeOK'
    BY <1>12 DEF ExtractReplies
  <1>13. ASSUME NEW n \in Names, WriteEntry(n)
        PROVE  TypeOK'
    BY <1>13 DEF WriteEntry
  <1>14. CASE ExtractReturns
    BY <1>14 DEF ExtractReturns
  <1>15. CASE AnswerRows
    BY <1>15 DEF AnswerRows, Credit
  <1>16. CASE AnswerGaveUp
    BY <1>16 DEF AnswerGaveUp
  <1>17. CASE FinishTurn
    BY <1>17, FinishType DEF FinishTurn
  <1>18. CASE EndTurn
    BY <1>18 DEF EndTurn, OwnCalls
  <1>19. ASSUME NEW logged \in BOOLEAN, Raise(logged)
        PROVE  TypeOK'
    BY <1>19, FailType DEF Raise
  <1>20. CASE Disconnect
    BY <1>20 DEF Disconnect
  <1>21. CASE UNCHANGED vars
    BY <1>21 DEF vars
  <1>. QED
    BY <1>1, <1>2, <1>3, <1>4, <1>5, <1>6, <1>7, <1>8, <1>9, <1>10, <1>11,
       <1>12, <1>13, <1>14, <1>15, <1>16, <1>17, <1>18, <1>19, <1>20, <1>21
       DEF Next, NodeStep, AllAsked

\* Every step keeps the control part of the invariant.
LEMMA CoreStep ==
  IndInv /\ [Next]_vars =>
    (RowIsOwn /\ FlywheelCount /\ OwnChannels /\ UsedIsPicked /\ ColdIsEmpty)'
  <1> DEFINE Core == /\ RowIsOwn
                     /\ FlywheelCount
                     /\ OwnChannels
                     /\ UsedIsPicked
                     /\ ColdIsEmpty
  <1> SUFFICES ASSUME TypeOK, Core, [Next]_vars PROVE Core'
    BY DEF IndInv
  <1> USE BoundsAssumption, ModesAssumption
      DEF TypeOK, RowIsOwn, FlywheelCount, OwnChannels, UsedIsPicked,
          ColdIsEmpty, Fresh, Opened, turn, loaded, planned, channels,
          store, turnHistory, Nodes, Channels
  <1>1. ASSUME NEW remember \in MemoryModes, NEW continue \in BOOLEAN,
               Ask(remember, continue)
        PROVE  Core'
    BY <1>1 DEF Ask, NewThread, Unwritten
  <1>2. CASE StartTurn
    BY <1>2 DEF StartTurn
  <1>3. CASE LoadCache
    BY <1>3 DEF LoadCache, Wrote
  <1>4. CASE PlanCold
    BY <1>4 DEF PlanCold, Wrote, RouteAfterPlan
  <1>5. ASSUME NEW enough \in BOOLEAN, NEW used \in SUBSET Names,
               PlanAsk(enough, used)
        PROVE  Core'
    BY <1>5 DEF PlanAsk, Wrote, RouteAfterPlan
  <1>6. ASSUME NEW calls \in 1..MaxExploreCalls, Explore(calls)
        PROVE  Core'
    BY <1>6 DEF Explore, Wrote
  <1>7. CASE GenerateSql
    BY <1>7 DEF GenerateSql, Wrote
  <1>8. ASSUME NEW failed \in BOOLEAN, Execute(failed)
        PROVE  Core'
    BY <1>8 DEF Execute, Wrote, RouteAfterExecute
  <1>9. CASE Fix
    BY <1>9 DEF Fix, Wrote
  <1>10. CASE ExtractSkip
    BY <1>10 DEF ExtractSkip
  <1>11. ASSUME NEW replied \in BOOLEAN, ExtractFails(replied)
        PROVE  Core'
    BY <1>11 DEF ExtractFails
  <1>12. ASSUME NEW entries \in SUBSET Names,
               ExtractReplies(entries)
        PROVE  Core'
    BY <1>12 DEF ExtractReplies
  <1>13. ASSUME NEW n \in Names, WriteEntry(n)
        PROVE  Core'
    BY <1>13 DEF WriteEntry
  <1>14. CASE ExtractReturns
    BY <1>14 DEF ExtractReturns
  <1>15. CASE AnswerRows
    BY <1>15 DEF AnswerRows, Credit
  <1>16. CASE AnswerGaveUp
    BY <1>16 DEF AnswerGaveUp
  <1>17. CASE FinishTurn
    BY <1>17 DEF FinishTurn
  <1>18. CASE EndTurn
    BY <1>18 DEF EndTurn, OwnCalls
  <1>19. ASSUME NEW logged \in BOOLEAN, Raise(logged)
        PROVE  Core'
    BY <1>19, FailType DEF Raise
  <1>20. CASE Disconnect
    BY <1>20 DEF Disconnect
  <1>21. CASE UNCHANGED vars
    BY <1>21 DEF vars
  <1>. QED
    BY <1>1, <1>2, <1>3, <1>4, <1>5, <1>6, <1>7, <1>8, <1>9, <1>10, <1>11,
       <1>12, <1>13, <1>14, <1>15, <1>16, <1>17, <1>18, <1>19, <1>20, <1>21
       DEF Next, NodeStep, AllAsked

\* Every step keeps the sum of a first turn its own, but for one extraction.
LEMMA SumStep == IndInv /\ [Next]_vars => SumIsOwn'
  <1> SUFFICES ASSUME TypeOK, SumIsOwn, [Next]_vars
               PROVE  SumIsOwn'
    BY DEF IndInv
  <1> USE BoundsAssumption
      DEF TypeOK, SumIsOwn, Unsummed, Uncounted, OwnCalls,
          Fresh, turn, loaded, planned, channels,
          store, turnHistory, Nodes
  <1>1. ASSUME NEW remember \in MemoryModes, NEW continue \in BOOLEAN,
               Ask(remember, continue)
        PROVE  SumIsOwn'
    BY <1>1 DEF Ask, NewThread, Unwritten
  <1>2. CASE StartTurn
    BY <1>2 DEF StartTurn
  <1>3. CASE LoadCache
    BY <1>3 DEF LoadCache, Wrote
  <1>4. CASE PlanCold
    BY <1>4 DEF PlanCold, Wrote, RouteAfterPlan
  <1>5. ASSUME NEW enough \in BOOLEAN, NEW used \in SUBSET Names,
               PlanAsk(enough, used)
        PROVE  SumIsOwn'
    BY <1>5 DEF PlanAsk, Wrote, RouteAfterPlan
  <1>6. ASSUME NEW calls \in 1..MaxExploreCalls, Explore(calls)
        PROVE  SumIsOwn'
    BY <1>6 DEF Explore, Wrote
  <1>7. CASE GenerateSql
    BY <1>7 DEF GenerateSql, Wrote
  <1>8. ASSUME NEW failed \in BOOLEAN, Execute(failed)
        PROVE  SumIsOwn'
    BY <1>8 DEF Execute, Wrote, RouteAfterExecute
  <1>9. CASE Fix
    BY <1>9 DEF Fix, Wrote
  <1>10. CASE ExtractSkip
    BY <1>10 DEF ExtractSkip
  <1>11. ASSUME NEW replied \in BOOLEAN, ExtractFails(replied)
        PROVE  SumIsOwn'
    BY <1>11 DEF ExtractFails
  <1>12. ASSUME NEW entries \in SUBSET Names,
               ExtractReplies(entries)
        PROVE  SumIsOwn'
    BY <1>12 DEF ExtractReplies
  <1>13. ASSUME NEW n \in Names, WriteEntry(n)
        PROVE  SumIsOwn'
    BY <1>13 DEF WriteEntry
  <1>14. CASE ExtractReturns
    BY <1>14 DEF ExtractReturns
  <1>15. CASE AnswerRows
    BY <1>15 DEF AnswerRows, Credit
  <1>16. CASE AnswerGaveUp
    BY <1>16 DEF AnswerGaveUp
  <1>17. CASE FinishTurn
    BY <1>17 DEF FinishTurn
  <1>18. CASE EndTurn
    BY <1>18 DEF EndTurn, OwnCalls
  <1>19. ASSUME NEW logged \in BOOLEAN, Raise(logged)
        PROVE  SumIsOwn'
    BY <1>19 DEF Raise
  <1>20. CASE Disconnect
    BY <1>20 DEF Disconnect
  <1>21. CASE UNCHANGED vars
    BY <1>21 DEF vars
  <1>. QED
    BY <1>1, <1>2, <1>3, <1>4, <1>5, <1>6, <1>7, <1>8, <1>9, <1>10, <1>11,
       <1>12, <1>13, <1>14, <1>15, <1>16, <1>17, <1>18, <1>19, <1>20, <1>21
       DEF Next, NodeStep, AllAsked

\* Every step keeps what a first turn says of exploring its own.
LEMMA ExploredStep == IndInv /\ [Next]_vars => ExploredIsOwn'
  <1> SUFFICES ASSUME TypeOK, ExploredIsOwn, [Next]_vars
               PROVE  ExploredIsOwn'
    BY DEF IndInv
  <1> USE BoundsAssumption
      DEF TypeOK, ExploredIsOwn, 
          Fresh, turn, loaded, planned, channels,
          store, turnHistory, Channels
  <1>1. ASSUME NEW remember \in MemoryModes, NEW continue \in BOOLEAN,
               Ask(remember, continue)
        PROVE  ExploredIsOwn'
    BY <1>1 DEF Ask, NewThread, Unwritten
  <1>2. CASE StartTurn
    BY <1>2 DEF StartTurn
  <1>3. CASE LoadCache
    BY <1>3 DEF LoadCache, Wrote
  <1>4. CASE PlanCold
    BY <1>4 DEF PlanCold, Wrote, RouteAfterPlan
  <1>5. ASSUME NEW enough \in BOOLEAN, NEW used \in SUBSET Names,
               PlanAsk(enough, used)
        PROVE  ExploredIsOwn'
    BY <1>5 DEF PlanAsk, Wrote, RouteAfterPlan
  <1>6. ASSUME NEW calls \in 1..MaxExploreCalls, Explore(calls)
        PROVE  ExploredIsOwn'
    BY <1>6 DEF Explore, Wrote
  <1>7. CASE GenerateSql
    BY <1>7 DEF GenerateSql, Wrote
  <1>8. ASSUME NEW failed \in BOOLEAN, Execute(failed)
        PROVE  ExploredIsOwn'
    BY <1>8 DEF Execute, Wrote, RouteAfterExecute
  <1>9. CASE Fix
    BY <1>9 DEF Fix, Wrote
  <1>10. CASE ExtractSkip
    BY <1>10 DEF ExtractSkip
  <1>11. ASSUME NEW replied \in BOOLEAN, ExtractFails(replied)
        PROVE  ExploredIsOwn'
    BY <1>11 DEF ExtractFails
  <1>12. ASSUME NEW entries \in SUBSET Names,
               ExtractReplies(entries)
        PROVE  ExploredIsOwn'
    BY <1>12 DEF ExtractReplies
  <1>13. ASSUME NEW n \in Names, WriteEntry(n)
        PROVE  ExploredIsOwn'
    BY <1>13 DEF WriteEntry
  <1>14. CASE ExtractReturns
    BY <1>14 DEF ExtractReturns
  <1>15. CASE AnswerRows
    BY <1>15 DEF AnswerRows, Credit
  <1>16. CASE AnswerGaveUp
    BY <1>16 DEF AnswerGaveUp
  <1>17. CASE FinishTurn
    BY <1>17 DEF FinishTurn
  <1>18. CASE EndTurn
    BY <1>18 DEF EndTurn, OwnCalls
  <1>19. ASSUME NEW logged \in BOOLEAN, Raise(logged)
        PROVE  ExploredIsOwn'
    BY <1>19 DEF Raise
  <1>20. CASE Disconnect
    BY <1>20 DEF Disconnect
  <1>21. CASE UNCHANGED vars
    BY <1>21 DEF vars
  <1>. QED
    BY <1>1, <1>2, <1>3, <1>4, <1>5, <1>6, <1>7, <1>8, <1>9, <1>10, <1>11,
       <1>12, <1>13, <1>14, <1>15, <1>16, <1>17, <1>18, <1>19, <1>20, <1>21
       DEF Next, NodeStep, AllAsked

\* A step that opens or closes no row and neither begins nor ends a turn.
LEMMA QuietStep ==
  ASSUME NodeStep, ~StartTurn, ~FinishTurn, ~EndTurn
  PROVE  /\ UNCHANGED <<asked, session, rows, outcome>>
         /\ pc \in Opened
         /\ pc' \in Opened
  BY DEF NodeStep, LoadCache, PlanCold, PlanAsk, Explore, GenerateSql, Execute,
         Fix, ExtractSkip, ExtractFails, ExtractReplies, WriteEntry,
         ExtractReturns, AnswerRows, AnswerGaveUp, turn, store, turnHistory,
         Opened, Nodes, RouteAfterPlan, RouteAfterExecute

\* The row closed by FinishTurn is the last one and takes the channels.
LEMMA FinishCloses ==
  ASSUME IndInv, FinishTurn
  PROVE  /\ turnId = Len(rows)
         /\ turnId \in DOMAIN rows
         /\ DOMAIN rows' = DOMAIN rows
         /\ rows'[turnId].status = ClosedAs
         /\ rows'[turnId].tokens = tokens + OwnCalls
         /\ rows'[turnId].explored = explored
         /\ \A i \in DOMAIN rows :
              /\ rows'[i].asked = rows[i].asked
              /\ rows'[i].session = rows[i].session
              /\ i # turnId => rows'[i] = rows[i]
  <1>1. turnId = Len(rows) /\ Len(rows) > 0
    BY DEF IndInv, RowIsOwn, FinishTurn, Opened, Nodes
  <1>2. Len(rows) \in Nat /\ DOMAIN rows = 1..Len(rows)
    BY DEF IndInv, TypeOK
  <1>3. turnId \in DOMAIN rows
    BY <1>1, <1>2
  <1>4. DOMAIN rows' = DOMAIN rows
    BY DEF FinishTurn
  <1>. QED
    BY <1>1, <1>3, <1>4 DEF FinishTurn

\* Failing a row changes its status only, and fails the last row if that is
\* an open one of the session.
LEMMA FailCloses ==
  ASSUME IndInv, NEW s
  PROVE  /\ DOMAIN FailOpenTurn(s) = DOMAIN rows
         /\ \A i \in DOMAIN rows :
              /\ FailOpenTurn(s)[i].asked = rows[i].asked
              /\ FailOpenTurn(s)[i].session = rows[i].session
              /\ FailOpenTurn(s)[i].status \in {rows[i].status, "failed"}
         /\ \A i \in DOMAIN rows :
              i = Len(rows) /\ rows[i].session = s
                => FailOpenTurn(s)[i].status # "open"
  <1>1. DOMAIN FailOpenTurn(s) = DOMAIN rows
    BY DEF FailOpenTurn
  <1>2. \A i \in DOMAIN rows :
          FailOpenTurn(s)[i] \in {rows[i], Failed(rows[i])}
    BY DEF FailOpenTurn
  <1>3. \A i \in DOMAIN rows :
          /\ FailOpenTurn(s)[i].asked = rows[i].asked
          /\ FailOpenTurn(s)[i].session = rows[i].session
          /\ FailOpenTurn(s)[i].status \in {rows[i].status, "failed"}
    BY <1>2 DEF Failed
  <1>4. ASSUME NEW i \in DOMAIN rows, i = Len(rows), rows[i].session = s
        PROVE  FailOpenTurn(s)[i].status # "open"
    <2>1. CASE rows[i].status # "open"
      BY <1>3, <2>1
    <2>2. CASE rows[i].status = "open"
      <3>1. i \in OpenRows(s)
        BY <1>4, <2>2 DEF OpenRows
      <3>2. \A j \in OpenRows(s) : j <= i
        BY <1>4 DEF OpenRows, IndInv, TypeOK
      <3>3. FailOpenTurn(s)[i] = Failed(rows[i])
        BY <3>1, <3>2 DEF FailOpenTurn
      <3>. QED
        BY <3>3 DEF Failed
    <2>. QED
      BY <2>1, <2>2
  <1>. QED
    BY <1>1, <1>3, <1>4

\* Every step keeps the sum in the row a first turn has closed.
LEMMA ClosedRowStep == IndInv /\ [Next]_vars => ClosedRowIsOwn'
  <1> SUFFICES ASSUME IndInv, [Next]_vars PROVE ClosedRowIsOwn'
    OBVIOUS
  <1>1. CASE FinishTurn
    <2>1. /\ turnId' = turnId
          /\ turnId' \in DOMAIN rows'
          /\ rows'[turnId'].tokens = tokens + OwnCalls
          /\ rows'[turnId'].explored = explored
      BY <1>1, FinishCloses DEF FinishTurn, channels, loaded
    <2>2. UNCHANGED <<asked, session, unparsed, spent, explored>>
      BY <1>1 DEF FinishTurn, channels, turn, turnHistory
    <2>3. Fresh => tokens + OwnCalls + Uncounted = spent
      BY <1>1 DEF FinishTurn, IndInv, SumIsOwn, Unsummed
    <2>. QED
      BY <2>1, <2>2, <2>3 DEF ClosedRowIsOwn, Fresh, Uncounted
  <1>2. CASE UNCHANGED vars
    BY <1>2
       DEF IndInv, ClosedRowIsOwn, Fresh, Uncounted, vars, turn, store, turnHistory,
           channels, loaded
  <1>3. CASE pc' # "end"
    BY <1>3 DEF ClosedRowIsOwn
  <1>4. [Next]_vars => FinishTurn \/ UNCHANGED vars \/ pc' # "end"
    <2>1. NodeStep => FinishTurn \/ pc' # "end"
      BY QuietStep DEF StartTurn, EndTurn, Opened
    <2>. QED
      BY <2>1 DEF Next, Ask, Raise, Disconnect, AllAsked
  <1>. QED
    BY <1>1, <1>2, <1>3, <1>4

\* Every step keeps the rows in order and an ended turn's row closed.
LEMMA RowsStep ==
  IndInv /\ [Next]_vars => RowsInOrder' /\ EndedTurnIsClosed'
  <1> SUFFICES ASSUME IndInv, [Next]_vars
               PROVE  RowsInOrder' /\ EndedTurnIsClosed'
    OBVIOUS
  <1>0. /\ asked \in Nat
        /\ Len(rows) \in Nat
        /\ DOMAIN rows = 1..Len(rows)
        /\ \A i \in DOMAIN rows : rows[i].asked \in Nat
    <2>1. \A i \in DOMAIN rows : rows[i] \in Row
      BY DEF IndInv, TypeOK
    <2>. QED
      BY <2>1, BoundsAssumption DEF IndInv, TypeOK, Row
  <1>1. ASSUME NEW remember \in MemoryModes, NEW continue \in BOOLEAN,
               Ask(remember, continue)
        PROVE  RowsInOrder' /\ EndedTurnIsClosed'
    <2>1. /\ asked' = asked + 1
          /\ rows' = rows
          /\ pc' = "load_cache"
          /\ outcome' = "none"
      BY <1>1 DEF Ask, store
    <2>2. \A i \in DOMAIN rows' : rows'[i].asked < asked'
      BY <1>0, <2>1 DEF IndInv, RowsInOrder
    <2>. QED
      BY <1>0, <2>1, <2>2 DEF RowsInOrder, EndedTurnIsClosed
  <1>2. CASE StartTurn
    <2>1. /\ pc = "load_cache"
          /\ pc' = "load_entries"
          /\ asked' = asked /\ session' = session /\ outcome' = outcome
      BY <1>2 DEF StartTurn, turn, turnHistory
    <2>2. DOMAIN rows' = 1..(Len(rows) + 1) /\ Len(rows') = Len(rows) + 1
      BY <1>0, <1>2 DEF StartTurn, IndInv, TypeOK
    <2>3. \A i \in DOMAIN rows : rows'[i] = rows[i]
      BY <1>0, <1>2 DEF StartTurn, IndInv, TypeOK
    <2>4. /\ rows'[Len(rows) + 1].asked = asked
          /\ rows'[Len(rows) + 1].session = session
      BY <1>0, <1>2 DEF StartTurn, IndInv, TypeOK
    <2>5. \A i \in DOMAIN rows : rows[i].asked < asked
      BY <2>1 DEF IndInv, RowsInOrder
    <2>6. \A i \in DOMAIN rows' : i \in DOMAIN rows \/ i = Len(rows) + 1
      BY <1>0, <2>2
    <2>7. outcome' = "none"
      BY <1>2, <2>1 DEF StartTurn, IndInv, RowsInOrder
    <2>8. RowsInOrder'
      <3>1. \A i \in DOMAIN rows' :
              rows'[i].asked <= asked'
                /\ (rows'[i].asked = asked' => i = Len(rows'))
        BY <1>0, <2>1, <2>2, <2>3, <2>4, <2>5, <2>6
      <3>2. \A i \in DOMAIN rows' :
              rows'[i].asked = asked' => rows'[i].session = session'
        BY <1>0, <2>1, <2>2, <2>4, <3>1
      <3>. QED
        BY <2>1, <2>7, <3>1, <3>2 DEF RowsInOrder
    <2>. QED
      BY <2>7, <2>8 DEF EndedTurnIsClosed
  <1>3. CASE FinishTurn
    <2>1. /\ pc = "finish" /\ pc' = "end"
          /\ asked' = asked /\ session' = session /\ outcome' = outcome
      BY <1>3 DEF FinishTurn, turn, turnHistory
    <2>2. DOMAIN rows' = DOMAIN rows /\ Len(rows') = Len(rows)
      BY <1>0, <1>3, FinishType DEF IndInv, FinishTurn
    <2>3. \A i \in DOMAIN rows' : rows'[i].asked = asked' => i = turnId
      BY <1>3, <2>1, <2>2, FinishCloses DEF IndInv, RowsInOrder
    <2>4. \A i \in DOMAIN rows' :
            rows'[i].asked = asked' => rows'[i].status # "open"
      BY <1>3, <2>3, FinishCloses DEF ClosedAs
    <2>5. RowsInOrder'
      <3>1. \A i \in DOMAIN rows' :
              /\ rows'[i].asked <= asked'
              /\ rows'[i].asked = asked' => i = Len(rows')
              /\ rows'[i].asked = asked' => rows'[i].session = session'
        BY <1>3, <2>1, <2>2, FinishCloses DEF IndInv, RowsInOrder
      <3>2. outcome' = "none"
        BY <2>1 DEF IndInv, RowsInOrder
      <3>. QED
        BY <2>1, <2>4, <3>1, <3>2 DEF RowsInOrder
    <2>. QED
      BY <2>4, <2>5 DEF EndedTurnIsClosed
  <1>4. CASE EndTurn
    <2>1. /\ pc = "end" /\ pc' = "idle"
          /\ asked' = asked /\ session' = session /\ rows' = rows
      BY <1>4 DEF EndTurn, turn, store
    <2>. QED
      BY <2>1 DEF IndInv, RowsInOrder, EndedTurnIsClosed
  <1>5. ASSUME NodeStep, ~StartTurn, ~FinishTurn, ~EndTurn
        PROVE  RowsInOrder' /\ EndedTurnIsClosed'
    BY <1>5, QuietStep
       DEF IndInv, RowsInOrder, EndedTurnIsClosed, Opened, Nodes
  <1>6. ASSUME NEW logged \in BOOLEAN, Raise(logged)
        PROVE  RowsInOrder' /\ EndedTurnIsClosed'
    <2>1. /\ pc # "idle" /\ pc' = "idle"
          /\ asked' = asked /\ session' = session
      BY <1>6 DEF Raise, turn
    <2>2. CASE logged
      <3>1. rows' = FailOpenTurn(session)
        BY <1>6, <2>2 DEF Raise
      <3>2. DOMAIN rows' = DOMAIN rows /\ Len(rows') = Len(rows)
        BY <1>0, <3>1, FailType DEF IndInv
      <3>3. \A i \in DOMAIN rows' :
              rows'[i].asked = asked' => rows'[i].status # "open"
        BY <2>1, <3>1, <3>2, FailCloses DEF IndInv, RowsInOrder
      <3>4. RowsInOrder'
        BY <2>1, <3>1, <3>2, FailCloses DEF IndInv, RowsInOrder
      <3>. QED
        BY <3>3, <3>4 DEF EndedTurnIsClosed
    <2>3. CASE ~logged
      <3>1. rows' = rows /\ outcome' = "unlogged"
        BY <1>6, <2>3 DEF Raise
      <3>. QED
        BY <2>1, <3>1 DEF IndInv, RowsInOrder, EndedTurnIsClosed
    <2>. QED
      BY <2>2, <2>3
  <1>7. CASE Disconnect
    <2>1. /\ pc' = "idle" /\ outcome' = "left"
          /\ asked' = asked /\ session' = session /\ rows' = rows
      BY <1>7 DEF Disconnect, turn, store
    <2>. QED
      BY <2>1 DEF IndInv, RowsInOrder, EndedTurnIsClosed
  <1>8. CASE UNCHANGED vars
    BY <1>8
       DEF IndInv, RowsInOrder, EndedTurnIsClosed, vars, turn, store,
           turnHistory
  <1>. QED
    BY <1>1, <1>2, <1>3, <1>4, <1>5, <1>6, <1>7, <1>8 DEF Next, AllAsked

LEMMA IndStep == IndInv /\ [Next]_vars => IndInv'
  BY TypeStep, CoreStep, SumStep, ExploredStep, ClosedRowStep, RowsStep
     DEF IndInv

-----------------------------------------------------------------------------
\* The inductive invariant: where the turn stands at each node.
THEOREM Invariance == Spec => []IndInv
  <1>. QED
    BY InitIndInv, IndStep, PTL DEF Spec

\* Every variable keeps its type, for any names, bounds and memory modes.
THEOREM TypeCorrect == Spec => []TypeOK
  <1>1. IndInv => TypeOK
    BY DEF IndInv
  <1>. QED
    BY <1>1, Invariance, PTL

\* A turn never tries more than MaxFix + 1 queries and gives up only once it
\* has: the routes of app/graph.py and what load_cache resets, for any MaxFix.
THEOREM FlywheelIsBounded == Spec => []GivesUpOnlyWhenSpent
  <1>1. IndInv => GivesUpOnlyWhenSpent
    BY BoundsAssumption
       DEF IndInv, TypeOK, FlywheelCount, GivesUpOnlyWhenSpent
  <1>. QED
    BY <1>1, Invariance, PTL

\* The query, the verdict on it and the branch are the current turn's, on any
\* number of turns of one session.
THEOREM DecisionsOfTheTurn == Spec => []DecisionsAreOwn
  <1>1. IndInv => DecisionsAreOwn
    BY DEF IndInv, OwnChannels, DecisionsAreOwn, Nodes
  <1>. QED
    BY <1>1, Invariance, PTL

(* What finish_turn records of a session's first turn: whether it explored,
   and the tokens of every call it made except an extraction whose reply does
   not parse, by whose call the row is short.  For any fixes, explorations and
   names, and with whatever other sessions' turns before it. *)
THEOREM RowIsTold == Spec => []RowTellsTheTurn
  <1>1. IndInv => RowTellsTheTurn
    <2> SUFFICES ASSUME IndInv, pc = "end", Fresh
                 PROVE  /\ spent - rows[turnId].tokens = Uncounted
                        /\ rows[turnId].explored = (src["explored"] = asked)
      BY DEF RowTellsTheTurn
    <2>1. /\ rows[turnId] \in Row
          /\ rows[turnId].tokens + Uncounted = spent
          /\ rows[turnId].explored = explored
      BY DEF IndInv, TypeOK, ClosedRowIsOwn
    <2>2. rows[turnId].tokens \in Nat /\ Uncounted \in Nat /\ spent \in Nat
      BY <2>1 DEF IndInv, TypeOK, Row, Uncounted
    <2>3. explored <=> src["explored"] = asked
      BY DEF IndInv, ExploredIsOwn
    <2>4. explored \in BOOLEAN
      BY DEF IndInv, TypeOK
    <2>5. explored = (src["explored"] = asked)
      BY <2>3, <2>4
    <2>6. spent - rows[turnId].tokens = Uncounted
      BY <2>1, <2>2
    <2>. QED
      BY <2>1, <2>5, <2>6
  <1>. QED
    BY <1>1, Invariance, PTL

\* A turn answered, or failed with the database there, leaves no open row.
THEOREM EndedTurnsAreClosed == Spec => []EndedTurnIsClosed
  <1>1. IndInv => EndedTurnIsClosed
    BY DEF IndInv
  <1>. QED
    BY <1>1, Invariance, PTL

-----------------------------------------------------------------------------
(* What a step may never do. *)

\* Only AnswerRows credits an entry.
LEMMA OnlyAnswerCredits ==
  ASSUME [Next]_vars, hits' # hits
  PROVE  AnswerRows
  <1>1. NodeStep => AnswerRows
    BY DEF NodeStep, StartTurn, LoadCache, PlanCold, PlanAsk, Explore,
           GenerateSql, Execute, Fix, ExtractSkip, ExtractFails,
           ExtractReplies, WriteEntry, ExtractReturns, AnswerGaveUp,
           FinishTurn, EndTurn, store
  <1>. QED
    BY <1>1 DEF Next, Ask, Raise, Disconnect, AllAsked, vars, store

\* An entry the plan did not lean on keeps its hits.
LEMMA CreditsOnly ==
  ASSUME NEW S, IndInv, Credit(S)
  PROVE  /\ \A n \in Names : hits'[n] # hits[n] => n \in S
         /\ S = {} => hits' = hits
  BY DEF IndInv, TypeOK, Credit

\* Hits reward queries that ran, and the entries the plan named.
THEOREM CreditIsEarned == Spec => CreditsAreEarned
  <1> DEFINE Earned == hits' # hits =>
                         /\ runs > 0
                         /\ ~error
                         /\ Fresh => \A n \in Names :
                                       hits'[n] # hits[n] => n \in picked
  <1>1. IndInv /\ [Next]_vars => [Earned]_vars
    <2> SUFFICES ASSUME IndInv, [Next]_vars, hits' # hits
                 PROVE  Earned
      OBVIOUS
    <2>1. AnswerRows
      BY OnlyAnswerCredits
    <2>2. runs > 0 /\ ~error
      BY <2>1 DEF AnswerRows, IndInv, FlywheelCount, TypeOK
    <2>3. \A n \in Names : hits'[n] # hits[n] => n \in usedIds
      BY <2>1, CreditsOnly DEF AnswerRows
    <2>4. Fresh => usedIds \subseteq picked
      BY <2>1 DEF AnswerRows, IndInv, UsedIsPicked
    <2>. QED
      BY <2>2, <2>3, <2>4
  <1>. QED
    BY <1>1, Invariance, PTL DEF Spec, CreditsAreEarned

\* A first turn with `memory: False` neither files nor credits an entry.
THEOREM ColdIsCold == Spec => ColdTurnLeavesMemory
  <1> DEFINE Cold == Fresh /\ ~memory /\ pc # "idle"
                       => UNCHANGED <<known, hits>>
  <1>1. IndInv /\ [Next]_vars => [Cold]_vars
    <2> SUFFICES ASSUME IndInv, [Next]_vars, Fresh, ~memory, pc # "idle"
                 PROVE  UNCHANGED <<known, hits>>
      OBVIOUS
    <2>1. usedIds \intersect known = {}
      BY DEF IndInv, ColdIsEmpty
    <2>2. hits' = hits
      BY <2>1, OnlyAnswerCredits, CreditsOnly DEF AnswerRows
    <2>3. NodeStep => known' = known
      BY DEF NodeStep, StartTurn, LoadCache, PlanCold, PlanAsk, Explore,
             GenerateSql, Execute, Fix, ExtractSkip, ExtractFails,
             ExtractReplies, WriteEntry, ExtractReturns, AnswerRows,
             AnswerGaveUp, FinishTurn, EndTurn, store
    <2>4. known' = known
      BY <2>3 DEF Next, Ask, Raise, Disconnect, AllAsked, vars, store
    <2>. QED
      BY <2>2, <2>4
  <1>. QED
    BY <1>1, Invariance, PTL DEF Spec, ColdTurnLeavesMemory

-----------------------------------------------------------------------------
(* The graph implements the contract: every node is one of its steps. *)

\* Opening a row appends to the log.
LEMMA LogOpens ==
  ASSUME IndInv, StartTurn
  PROVE  Log' = Append(Log, "open")
  <1>1. /\ Len(rows) \in Nat
        /\ DOMAIN rows = 1..Len(rows)
        /\ rows \in Seq(Row)
    BY DEF IndInv, TypeOK
  <1>2. /\ DOMAIN rows' = 1..(Len(rows) + 1)
        /\ \A i \in DOMAIN rows : rows'[i] = rows[i]
        /\ rows'[Len(rows) + 1].status = "open"
    BY <1>1 DEF StartTurn
  <1>3. \A i \in DOMAIN rows : rows[i].status \in Contract!Status
    <2>1. \A i \in DOMAIN rows : rows[i] \in Row
      BY <1>1
    <2>. QED
      BY <2>1 DEF Row, Contract!Status
  <1>4. Log \in Seq(Contract!Status) /\ Len(Log) = Len(rows)
    <2>1. Log \in [1..Len(rows) -> Contract!Status]
      BY <1>1, <1>3 DEF Log
    <2>. QED
      BY <1>1, <2>1
  <1>5. /\ DOMAIN Append(Log, "open") = 1..(Len(rows) + 1)
        /\ \A i \in 1..Len(rows) : Append(Log, "open")[i] = Log[i]
        /\ Append(Log, "open")[Len(rows) + 1] = "open"
        /\ Append(Log, "open") = [i \in 1..(Len(rows) + 1) |->
                                    Append(Log, "open")[i]]
    <2>1. "open" \in Contract!Status
      BY DEF Contract!Status
    <2>2. /\ Append(Log, "open") \in Seq(Contract!Status)
          /\ Len(Append(Log, "open")) = Len(rows) + 1
          /\ \A i \in 1..Len(rows) : Append(Log, "open")[i] = Log[i]
          /\ Append(Log, "open")[Len(rows) + 1] = "open"
      BY <1>4, <2>1, AppendProperties
    <2>3. Append(Log, "open")
            \in [1..Len(Append(Log, "open")) -> Contract!Status]
      BY <2>2, LenProperties
    <2>. QED
      BY <2>2, <2>3
  <1>6. \A i \in 1..(Len(rows) + 1) :
          rows'[i].status = Append(Log, "open")[i]
    <2>1. \A i \in 1..(Len(rows) + 1) :
            i \in 1..Len(rows) \/ i = Len(rows) + 1
      BY <1>1
    <2>. QED
      BY <1>1, <1>2, <1>5, <2>1 DEF Log
  <1>7. Log' = [i \in 1..(Len(rows) + 1) |-> rows'[i].status]
    BY <1>2 DEF Log
  <1>. QED
    BY <1>5, <1>6, <1>7

\* Closing the turn's row changes the last entry of the log.
LEMMA LogCloses ==
  ASSUME IndInv, FinishTurn
  PROVE  Log' = [Log EXCEPT ![Len(Log)] = ClosedAs]
  <1>1. /\ Len(rows) \in Nat
        /\ DOMAIN rows = 1..Len(rows)
        /\ DOMAIN rows' = DOMAIN rows
    BY FinishCloses DEF IndInv, TypeOK
  <1>2. DOMAIN Log = 1..Len(rows) /\ Len(Log) = Len(rows)
    BY <1>1 DEF Log
  <1>3. \A i \in DOMAIN rows :
          rows'[i].status = IF i = Len(rows) THEN ClosedAs ELSE Log[i]
    BY FinishCloses DEF Log
  <1>4. Log' = [i \in DOMAIN rows |-> rows'[i].status]
    BY <1>1 DEF Log
  <1>. QED
    BY <1>1, <1>2, <1>3, <1>4

\* Failing a row leaves the log or fails one open entry of it.
LEMMA LogFails ==
  ASSUME IndInv, rows' = FailOpenTurn(session)
  PROVE  \/ Log' = Log
         \/ \E i \in DOMAIN Log :
              Log[i] = "open" /\ Log' = [Log EXCEPT ![i] = "failed"]
  <1>1. DOMAIN rows' = DOMAIN rows /\ DOMAIN Log = DOMAIN rows
    BY FailCloses DEF Log
  <1>2. Log' = [i \in DOMAIN rows |-> rows'[i].status]
    BY <1>1 DEF Log
  <1>3. CASE \E i \in OpenRows(session) : \A j \in OpenRows(session) : j <= i
    <2>1. PICK i \in OpenRows(session) : \A j \in OpenRows(session) : j <= i
      BY <1>3
    <2>2. i \in DOMAIN rows /\ rows[i].status = "open"
      BY DEF OpenRows
    <2>3. \A j \in DOMAIN rows :
            j \in OpenRows(session) /\ (\A k \in OpenRows(session) : k <= j)
              => j = i
      BY <2>1 DEF OpenRows, IndInv, TypeOK
    <2>4. \A j \in DOMAIN rows :
            rows'[j].status = IF j = i THEN "failed" ELSE rows[j].status
      BY <2>1, <2>2, <2>3 DEF FailOpenTurn, Failed
    <2>5. Log' = [Log EXCEPT ![i] = "failed"]
      BY <1>1, <1>2, <2>4 DEF Log
    <2>. QED
      BY <1>1, <2>2, <2>5 DEF Log
  <1>4. CASE ~\E i \in OpenRows(session) : \A j \in OpenRows(session) : j <= i
    <2>1. \A i \in DOMAIN rows : rows'[i] = rows[i]
      BY <1>4 DEF FailOpenTurn
    <2>. QED
      BY <1>2, <2>1 DEF Log
  <1>. QED
    BY <1>3, <1>4

\* A node that leaves the log, the memory and the stage alone is a stutter.
LEMMA Stutter ==
  ASSUME UNCHANGED <<rows, memory, known, hits>>, Stage' = Stage
  PROVE  UNCHANGED Contract!vars
  BY DEF Contract!vars, Log

\* Every step of the graph is a step of the contract or none.
LEMMA ContractStep == IndInv /\ [Next]_vars => [Contract!Next]_(Contract!vars)
  <1> SUFFICES ASSUME IndInv, [Next]_vars
               PROVE  Contract!Next \/ UNCHANGED Contract!vars
    OBVIOUS
  <1> USE DEF turn, store
  <1>1. ASSUME NEW remember \in MemoryModes, NEW continue \in BOOLEAN,
               Ask(remember, continue)
        PROVE  Contract!Next
    <2>1. Contract!Ask
      BY <1>1, ModesAssumption DEF Ask, Contract!Ask, Stage, Log
    <2>. QED
      BY <2>1 DEF Contract!Next
  <1>2. CASE StartTurn
    <2>1. Contract!Open
      BY <1>2, LogOpens DEF StartTurn, Contract!Open, Stage
    <2>. QED
      BY <2>1 DEF Contract!Next
  <1>3. CASE LoadCache
    BY <1>3, Stutter DEF LoadCache, Stage
  <1>4. CASE PlanCold
    BY <1>4, Stutter DEF PlanCold, RouteAfterPlan, Stage
  <1>5. ASSUME NEW enough \in BOOLEAN, NEW used \in SUBSET Names,
               PlanAsk(enough, used)
        PROVE  UNCHANGED Contract!vars
    BY <1>5, Stutter DEF PlanAsk, RouteAfterPlan, Stage
  <1>6. ASSUME NEW calls \in 1..MaxExploreCalls, Explore(calls)
        PROVE  UNCHANGED Contract!vars
    BY <1>6, Stutter DEF Explore, Stage
  <1>7. CASE GenerateSql
    BY <1>7, Stutter DEF GenerateSql, Stage
  <1>8. ASSUME NEW failed \in BOOLEAN, Execute(failed)
        PROVE  Contract!Next \/ UNCHANGED Contract!vars
    <2>1. Stage = "working" /\ UNCHANGED <<rows, memory, known, hits>>
      BY <1>8 DEF Execute, Stage
    <2>2. Stage' \in {"working", "ran", "dead"}
      BY <1>8 DEF Execute, RouteAfterExecute, Stage
    <2>3. CASE Stage' = "working"
      BY <2>1, <2>3, Stutter
    <2>4. CASE Stage' \in {"ran", "dead"}
      <3>1. Contract!Resolve
        BY <2>1, <2>4 DEF Contract!Resolve, Log
      <3>. QED
        BY <3>1 DEF Contract!Next
    <2>. QED
      BY <2>2, <2>3, <2>4
  <1>9. CASE Fix
    BY <1>9, Stutter DEF Fix, Stage
  <1>10. CASE ExtractSkip
    BY <1>10, Stutter DEF ExtractSkip, Stage, IndInv, FlywheelCount, channels
  <1>11. ASSUME NEW replied \in BOOLEAN, ExtractFails(replied)
        PROVE  UNCHANGED Contract!vars
    BY <1>11, Stutter
       DEF ExtractFails, Stage, IndInv, FlywheelCount, channels
  <1>12. ASSUME NEW entries \in SUBSET Names, ExtractReplies(entries)
         PROVE  UNCHANGED Contract!vars
    BY <1>12, Stutter DEF ExtractReplies, Stage
  <1>13. ASSUME NEW n \in Names, WriteEntry(n)
         PROVE  Contract!Next
    <2>1. Contract!Learn(n)
      BY <1>13 DEF WriteEntry, Contract!Learn, Stage, Log
    <2>. QED
      BY <2>1 DEF Contract!Next
  <1>14. CASE ExtractReturns
    BY <1>14, Stutter DEF ExtractReturns, Stage, IndInv, FlywheelCount
  <1>15. CASE AnswerRows
    <2>1. Contract!Credit(usedIds \intersect known)
      BY <1>15 DEF AnswerRows, Credit, Contract!Credit, Stage, Log, channels
    <2>2. usedIds \intersect known \in SUBSET Names
      BY DEF IndInv, TypeOK
    <2>. QED
      BY <2>1, <2>2 DEF Contract!Next
  <1>16. CASE AnswerGaveUp
    BY <1>16, Stutter DEF AnswerGaveUp, Stage, channels
  <1>17. CASE FinishTurn
    <2>1. Contract!Close
      BY <1>17, LogCloses
         DEF FinishTurn, ClosedAs, Contract!Close, Stage, channels
    <2>. QED
      BY <2>1 DEF Contract!Next
  <1>18. CASE EndTurn
    <2>1. Contract!Stop
      BY <1>18 DEF EndTurn, Contract!Stop, Stage, Log
    <2>. QED
      BY <2>1 DEF Contract!Next
  <1>19. ASSUME NEW logged \in BOOLEAN, Raise(logged)
         PROVE  Contract!Next
    <2>1. Stage # "idle" /\ Stage' = "idle"
      BY <1>19 DEF Raise, Stage, IndInv, TypeOK, Nodes
    <2>2. CASE Log' = Log
      <3>1. Contract!Stop
        BY <1>19, <2>1, <2>2 DEF Raise, Contract!Stop
      <3>. QED
        BY <3>1 DEF Contract!Next
    <2>3. CASE \E i \in DOMAIN Log :
                 Log[i] = "open" /\ Log' = [Log EXCEPT ![i] = "failed"]
      <3>1. Contract!StopFailed
        BY <1>19, <2>1, <2>3 DEF Raise, Contract!StopFailed
      <3>. QED
        BY <3>1 DEF Contract!Next
    <2>4. rows' = FailOpenTurn(session) \/ Log' = Log
      BY <1>19 DEF Raise, Log
    <2>. QED
      BY <2>2, <2>3, <2>4, LogFails
  <1>20. CASE Disconnect
    <2>1. Stage # "idle" /\ Stage' = "idle"
      BY <1>20 DEF Disconnect, Stage, IndInv, TypeOK, Nodes
    <2>2. Contract!Stop
      BY <1>20, <2>1 DEF Disconnect, Contract!Stop, Log
    <2>. QED
      BY <2>2 DEF Contract!Next
  <1>21. CASE UNCHANGED vars
    BY <1>21, Stutter DEF vars, channels, Stage
  <1>. QED
    BY <1>1, <1>2, <1>3, <1>4, <1>5, <1>6, <1>7, <1>8, <1>9, <1>10, <1>11,
       <1>12, <1>13, <1>14, <1>15, <1>16, <1>17, <1>18, <1>19, <1>20, <1>21
       DEF Next, NodeStep, AllAsked

\* The graph implements TurnContract, for any names, bounds and modes.
THEOREM ContractKept == Spec => KeepsContract
  <1>1. Init => Contract!Init
    <2> SUFFICES ASSUME Init PROVE Contract!Init
      OBVIOUS
    <2>1. Log = <<>>
      BY DEF Init, Log
    <2>2. Stage = "idle"
      BY DEF Init, Stage
    <2>. QED
      BY <2>1, <2>2 DEF Init, Contract!Init
  <1>. QED
    BY <1>1, ContractStep, Invariance, PTL
       DEF Spec, KeepsContract, Contract!Spec
=============================================================================
