-------------------------- MODULE ExploreLoop_proofs --------------------------
(* The proofs about ExploreLoop: its cost and its conversation, for every     *)
(* budget and every size of batch.                                            *)
EXTENDS ExploreLoop, SequenceTheorems, TLAPS

(***************************************************************************)
(* A reply that asks for tools adds at least one call, so the calls (made  *)
(* or to be made) keep ahead of the replies until the budget ends both.    *)
(***************************************************************************)
CostInv ==
  /\ phase \in {"loop", "tools"} => replies <= calls + toRun
  /\ phase = "loop" => toRun = 0
  /\ phase = "tools" => toRun > 0
  /\ phase \in {"loop", "tools", "close", "summary"}
       => replies <= maxToolCalls
  /\ replies <= maxToolCalls + 1
  /\ calls + toRun < maxToolCalls + MaxBatch

\* No call without a reply, and no findings before the end without one.
SumInv ==
  /\ tokens = replies
  /\ asking => replies > 0
  /\ phase \in {"tools", "summary"} => replies > 0
  /\ phase # "done" /\ replies = 0 => calls = 0 /\ findings = "unset"
  /\ phase = "close" /\ replies = 0 => maxToolCalls = 0
  /\ phase = "done" => findings # "unset"
  /\ phase = "done" /\ replies = 0
       => maxToolCalls = 0 /\ findings = "no findings"

Answered(i) ==
  messages[i].who = "assistant" =>
    messages[i + 1] = Says("results", messages[i].reply)

\* Every request but one still being answered has its results behind it.
TalkInv ==
  /\ \A i \in DOMAIN messages : i < Len(messages) => Answered(i)
  /\ Len(messages) > 0
  /\ phase = "tools" => messages[Len(messages)] = Says("assistant", replies)
  /\ phase # "tools" => messages[Len(messages)].who # "assistant"

Inv == TypeOK /\ CostInv /\ SumInv /\ TalkInv

\* What a message says, and that it is one.
LEMMA SaysType ==
  /\ \A who \in {"assistant", "results", "user"}, n \in Nat :
       Says(who, n) \in Message
  /\ \A who, n : Says(who, n).who = who /\ Says(who, n).reply = n
  BY DEF Says, Message

LEMMA InitInv == Init => Inv
  <1> SUFFICES ASSUME Init PROVE Inv
    OBVIOUS
  <1>1. Says("user", 0) \in Message
    BY SaysType
  <1>2. /\ messages \in Seq(Message)
        /\ Len(messages) = 1
        /\ messages[1] = Says("user", 0)
    BY <1>1 DEF Init
  <1>3. asking \in BOOLEAN /\ findings \in Text
    BY DEF Init, Text
  <1>4. TypeOK
    BY BudgetAssumption, <1>2, <1>3 DEF Init, TypeOK
  <1>5. CostInv
    BY BudgetAssumption DEF Init, CostInv
  <1>6. SumInv
    BY DEF Init, SumInv
  <1>7. TalkInv
    BY <1>2, SaysType DEF Init, TalkInv
  <1>. QED
    BY <1>4, <1>5, <1>6, <1>7 DEF Inv

LEMMA TypeStep == TypeOK /\ CostInv /\ [Next]_vars => TypeOK'
  <1> SUFFICES ASSUME TypeOK, CostInv, [Next]_vars PROVE TypeOK'
    OBVIOUS
  <1> USE BudgetAssumption DEF TypeOK
  <1>2. ASSUME NEW k \in 1..MaxBatch, AskForTools(k) PROVE TypeOK'
    BY <1>2, SaysType DEF AskForTools
  <1>3. ASSUME NEW text \in Replies, Conclude(text) PROVE TypeOK'
    <2>1. findings' \in Text /\ asking' \in BOOLEAN
      BY <1>3 DEF Conclude, Replies, Text
    <2>. QED
      BY <1>3, <2>1 DEF Conclude
  <1>4. CASE RunTool
    <2>1. calls' \in Nat /\ toRun' \in 0..MaxBatch
      BY <1>4 DEF RunTool, CostInv
    <2>2. Says("results", replies) \in Message
      BY SaysType
    <2>3. CASE toRun = 1
      BY <1>4, <2>1, <2>2, <2>3 DEF RunTool
    <2>4. CASE toRun # 1
      BY <1>4, <2>1, <2>4 DEF RunTool
    <2>. QED
      BY <2>3, <2>4
  <1>5. CASE BudgetSpent
    BY <1>5 DEF BudgetSpent
  <1>6. CASE AskForSummary
    BY <1>6, SaysType DEF AskForSummary
  <1>7. ASSUME NEW text \in Replies, Summarise(text) PROVE TypeOK'
    <2>1. findings' \in Text
      BY <1>7 DEF Summarise, Replies, Text
    <2>. QED
      BY <1>7, <2>1 DEF Summarise
  <1>8. CASE Return
    BY <1>8 DEF Return, Text
  <1>9. CASE Throw
    BY <1>9 DEF Throw
  <1>10. CASE UNCHANGED vars
    BY <1>10 DEF vars
  <1>. QED
    BY <1>2, <1>3, <1>4, <1>5, <1>6, <1>7, <1>8, <1>9, <1>10
       DEF Next, Step, Finished

LEMMA CostStep == TypeOK /\ CostInv /\ [Next]_vars => CostInv'
  <1> SUFFICES ASSUME TypeOK, CostInv, [Next]_vars PROVE CostInv'
    OBVIOUS
  <1> USE BudgetAssumption DEF TypeOK, CostInv
  <1>2. ASSUME NEW k \in 1..MaxBatch, AskForTools(k) PROVE CostInv'
    BY <1>2 DEF AskForTools
  <1>3. ASSUME NEW text \in Replies, Conclude(text) PROVE CostInv'
    BY <1>3 DEF Conclude
  <1>4. CASE RunTool
    BY <1>4 DEF RunTool
  <1>5. CASE BudgetSpent
    BY <1>5 DEF BudgetSpent
  <1>6. CASE AskForSummary
    BY <1>6 DEF AskForSummary
  <1>7. ASSUME NEW text \in Replies, Summarise(text) PROVE CostInv'
    BY <1>7 DEF Summarise
  <1>8. CASE Return
    BY <1>8 DEF Return
  <1>9. CASE Throw
    BY <1>9 DEF Throw
  <1>10. CASE UNCHANGED vars
    BY <1>10 DEF vars
  <1>. QED
    BY <1>2, <1>3, <1>4, <1>5, <1>6, <1>7, <1>8, <1>9, <1>10
       DEF Next, Step, Finished

LEMMA SumStep ==
  TypeOK /\ CostInv /\ SumInv /\ [Next]_vars => SumInv'
  <1> SUFFICES ASSUME TypeOK, CostInv, SumInv, [Next]_vars PROVE SumInv'
    OBVIOUS
  <1> USE BudgetAssumption DEF TypeOK, CostInv, SumInv
  <1>2. ASSUME NEW k \in 1..MaxBatch, AskForTools(k) PROVE SumInv'
    BY <1>2 DEF AskForTools
  <1>3. ASSUME NEW text \in Replies, Conclude(text) PROVE SumInv'
    <2>1. replies' > 0 /\ tokens' = replies'
      BY <1>3 DEF Conclude
    <2>. QED
      BY <1>3, <2>1 DEF Conclude
  <1>4. CASE RunTool
    <2>1. replies' > 0 /\ tokens' = replies'
      BY <1>4 DEF RunTool
    <2>2. phase' = "tools" \/ phase' = "loop"
      BY <1>4 DEF RunTool
    <2>3. ~(replies' = 0)
      BY <1>4, <2>1 DEF RunTool
    <2>. QED
      BY <2>1, <2>2, <2>3
  <1>5. CASE BudgetSpent
    BY <1>5 DEF BudgetSpent
  <1>6. CASE AskForSummary
    BY <1>6 DEF AskForSummary
  <1>7. ASSUME NEW text \in Replies, Summarise(text) PROVE SumInv'
    <2>1. replies' > 0 /\ tokens' = replies'
      BY <1>7 DEF Summarise
    <2>2. findings' # "unset" /\ phase' = "done"
      BY <1>7 DEF Summarise, Replies
    <2>3. ~(replies' = 0)
      BY <1>7 DEF Summarise
    <2>. QED
      BY <2>1, <2>2, <2>3
  <1>8. CASE Return
    BY <1>8 DEF Return, Text
  <1>9. CASE Throw
    BY <1>9 DEF Throw
  <1>10. CASE UNCHANGED vars
    BY <1>10 DEF vars
  <1>. QED
    BY <1>2, <1>3, <1>4, <1>5, <1>6, <1>7, <1>8, <1>9, <1>10
       DEF Next, Step, Finished

LEMMA TalkStep == TypeOK /\ TalkInv /\ [Next]_vars => TalkInv'
  <1> SUFFICES ASSUME TypeOK, TalkInv, [Next]_vars PROVE TalkInv'
    OBVIOUS
  <1> USE BudgetAssumption DEF TypeOK, TalkInv, Answered
  <1>2. ASSUME NEW k \in 1..MaxBatch, AskForTools(k) PROVE TalkInv'
    <2>1. Says("assistant", replies') \in Message
      BY <1>2, SaysType DEF AskForTools
    <2>2. /\ Len(messages') = Len(messages) + 1
          /\ \A i \in 1..Len(messages) : messages'[i] = messages[i]
          /\ messages'[Len(messages) + 1] = Says("assistant", replies')
      BY <1>2, <2>1, AppendProperties DEF AskForTools
    <2>3. /\ phase = "loop" /\ phase' = "tools"
          /\ messages' \in Seq(Message)
      BY <1>2, <2>1 DEF AskForTools
    <2>. QED
      BY <2>2, <2>3
  <1>3. ASSUME NEW text \in Replies, Conclude(text) PROVE TalkInv'
    BY <1>3 DEF Conclude
  <1>4. CASE RunTool
    <2>1. CASE toRun = 1
      <3>1. Says("results", replies) \in Message
        BY SaysType
      <3>2. messages' = Append(messages, Says("results", replies))
        BY <1>4, <2>1 DEF RunTool
      <3>3. /\ Len(messages') = Len(messages) + 1
            /\ \A i \in 1..Len(messages) : messages'[i] = messages[i]
            /\ messages'[Len(messages) + 1] = Says("results", replies)
            /\ messages' \in Seq(Message)
        BY <3>1, <3>2, AppendProperties
      <3>4. phase = "tools" /\ phase' = "loop"
        BY <1>4, <2>1 DEF RunTool
      <3>5. messages[Len(messages)] = Says("assistant", replies)
        BY <3>4
      <3>6. messages[Len(messages)].reply = replies
        BY <3>5, SaysType
      <3>7. \A i \in 1..Len(messages) :
              messages'[i].who = "assistant" =>
                messages'[i + 1] = Says("results", messages'[i].reply)
        <4>1. ASSUME NEW i \in 1..Len(messages), i < Len(messages),
                     messages'[i].who = "assistant"
              PROVE  messages'[i + 1] = Says("results", messages'[i].reply)
          <5>1. /\ messages'[i] = messages[i]
                /\ messages'[i + 1] = messages[i + 1]
            BY <3>3, <4>1
          <5>2. messages[i + 1] = Says("results", messages[i].reply)
            BY <4>1, <5>1
          <5>. QED
            BY <5>1, <5>2
        <4>2. messages'[Len(messages)] = messages[Len(messages)]
          BY <3>3
        <4>3. messages'[Len(messages) + 1]
                = Says("results", messages'[Len(messages)].reply)
          BY <3>3, <3>6, <4>2
        <4>4. \A i \in 1..Len(messages) :
                i < Len(messages) \/ i = Len(messages)
          OBVIOUS
        <4>. QED
          BY <4>1, <4>3, <4>4
      <3>8. messages'[Len(messages')].who # "assistant"
        BY <3>3, SaysType
      <3>9. \A i \in DOMAIN messages' :
              i < Len(messages') => i \in 1..Len(messages)
        BY <3>3
      <3>. QED
        BY <3>3, <3>4, <3>7, <3>8, <3>9
    <2>2. CASE toRun # 1
      BY <1>4, <2>2 DEF RunTool
    <2>. QED
      BY <2>1, <2>2
  <1>5. CASE BudgetSpent
    BY <1>5 DEF BudgetSpent
  <1>6. CASE AskForSummary
    <2> DEFINE more == <<Says("assistant", replies),
                         Says("results", replies), Says("user", 0)>>
    <2>1. /\ more \in Seq(Message)
          /\ Len(more) = 3
          /\ more[1] = Says("assistant", replies)
          /\ more[2] = Says("results", replies)
          /\ more[3] = Says("user", 0)
      BY SaysType
    <2>2. messages' = messages \o more
      BY <1>6 DEF AskForSummary
    <2> HIDE DEF more
    <2>3. /\ messages' \in Seq(Message)
          /\ Len(messages') = Len(messages) + 3
          /\ \A i \in 1..Len(messages) : messages'[i] = messages[i]
          /\ messages'[Len(messages) + 1] = Says("assistant", replies)
          /\ messages'[Len(messages) + 2] = Says("results", replies)
          /\ messages'[Len(messages) + 3] = Says("user", 0)
      <3>1. /\ messages \o more \in Seq(Message)
            /\ Len(messages \o more) = Len(messages) + 3
            /\ \A i \in 1..(Len(messages) + 3) :
                 (messages \o more)[i] = IF i <= Len(messages)
                                         THEN messages[i]
                                         ELSE more[i - Len(messages)]
        <4>1. /\ messages \o more \in Seq(Message)
              /\ Len(messages \o more) = Len(messages) + Len(more)
              /\ \A i \in 1..(Len(messages) + Len(more)) :
                   (messages \o more)[i] = IF i <= Len(messages)
                                           THEN messages[i]
                                           ELSE more[i - Len(messages)]
          BY <2>1, ConcatProperties DEF TypeOK
        <4>. QED
          BY <2>1, <4>1
      <3>2. /\ (Len(messages) + 1) - Len(messages) = 1
            /\ (Len(messages) + 2) - Len(messages) = 2
            /\ (Len(messages) + 3) - Len(messages) = 3
        OBVIOUS
      <3>. QED
        BY <2>1, <2>2, <3>1, <3>2
    <2>4. phase = "close" /\ phase' = "summary"
      BY <1>6 DEF AskForSummary
    <2>5. \A i \in 1..(Len(messages) + 2) :
            messages'[i].who = "assistant" =>
              messages'[i + 1] = Says("results", messages'[i].reply)
      <3>1. \A i \in 1..(Len(messages) + 2) :
              \/ i \in 1..Len(messages) /\ i < Len(messages)
              \/ i = Len(messages)
              \/ i = Len(messages) + 1
              \/ i = Len(messages) + 2
        OBVIOUS
      <3>2. ASSUME NEW i \in 1..Len(messages), i < Len(messages),
                   messages'[i].who = "assistant"
            PROVE  messages'[i + 1] = Says("results", messages'[i].reply)
        BY <2>3, <3>2
      <3>3. messages'[Len(messages)].who # "assistant"
        BY <2>3, <2>4
      <3>4. messages'[Len(messages) + 1].reply = replies
        BY <2>3, SaysType
      <3>5. (Len(messages) + 1) + 1 = Len(messages) + 2
        OBVIOUS
      <3>6. messages'[Len(messages) + 2].who # "assistant"
        BY <2>3, SaysType
      <3>. QED
        BY <2>3, <3>1, <3>2, <3>3, <3>4, <3>5, <3>6
    <2>6. messages'[Len(messages')].who # "assistant"
      BY <2>3, SaysType
    <2>7. \A i \in DOMAIN messages' :
            i < Len(messages') => i \in 1..(Len(messages) + 2)
      BY <2>3
    <2>. QED
      BY <2>3, <2>4, <2>5, <2>6, <2>7
  <1>7. ASSUME NEW text \in Replies, Summarise(text) PROVE TalkInv'
    BY <1>7 DEF Summarise
  <1>8. CASE Return
    BY <1>8 DEF Return
  <1>9. CASE Throw
    BY <1>9 DEF Throw
  <1>10. CASE UNCHANGED vars
    BY <1>10 DEF vars
  <1>. QED
    BY <1>2, <1>3, <1>4, <1>5, <1>6, <1>7, <1>8, <1>9, <1>10
       DEF Next, Step, Finished

LEMMA Invariance == Spec => []Inv
  <1>1. Inv /\ [Next]_vars => Inv'
    BY TypeStep, CostStep, SumStep, TalkStep DEF Inv
  <1>. QED
    BY InitInv, <1>1, PTL DEF Spec

\* Every variable keeps its type, for any budgets and batches.
THEOREM TypeCorrect == Spec => []TypeOK
  <1>1. Inv => TypeOK
    BY DEF Inv
  <1>. QED
    BY <1>1, Invariance, PTL

\* However many tools a reply asks for at once, the calls of the model and of
\* the tools stay within a bound known beforehand.
THEOREM CostIsBounded == Spec => []CostIsKnown
  <1>1. Inv => CostIsKnown
    BY BudgetAssumption DEF Inv, TypeOK, CostInv, CostIsKnown
  <1>. QED
    BY <1>1, Invariance, PTL

\* The model never sees a request of its own that was left unanswered.
THEOREM EveryRequestAnswered == Spec => []RequestsAreAnswered
  <1>1. Inv => RequestsAreAnswered
    BY DEF Inv, TypeOK, TalkInv, Answered, RequestsAreAnswered
  <1>. QED
    BY <1>1, Invariance, PTL

\* The node returns findings and the whole cost: what TurnGraph assumes of it.
THEOREM WholeCostReturned == Spec => []ReturnsItsCost
  <1>1. Inv => ReturnsItsCost
    BY DEF Inv, SumInv, ReturnsItsCost
  <1>. QED
    BY <1>1, Invariance, PTL
=============================================================================
