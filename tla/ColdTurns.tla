------------------------------ MODULE ColdTurns ------------------------------
(***************************************************************************)
(* Turns between the target database and the model (TargetEngine and       *)
(* ModelCall): the exploration keeps its connection across its model       *)
(* calls, rate limits and all, while other turns wait for theirs.          *)
(***************************************************************************)
EXTENDS TargetEngine, ModelCall

CONSTANTS
  MaxAsks               \* replies of an exploration that ask for tools

ASSUME CallersAssumption == Callers = Turns
ASSUME AsksAssumption == MaxAsks \in Nat \ {0}

VARIABLES
  asks                  \* replies of each that did (bounded: ExploreLoop)

vars == <<engineVars, callVars, asks>>

TypeOK ==
  /\ EngineTypeOK
  /\ CallTypeOK
  /\ asks \in [Turns -> 0..MaxAsks]

Init ==
  /\ EngineInit
  /\ CallInit
  /\ asks = [t \in Turns |-> 0]

-----------------------------------------------------------------------------
\* What a turn does by itself, no model call being in flight.
OnItsWay(t) ==
  /\ \/ Arrive(t) \/ Found(t) \/ Build(t) \/ NoFile(t)
     \/ Dialled(t) \/ DialFails(t)
     \/ Connect(t) \/ PoolTimeout(t) \/ Execute(t)
  /\ UNCHANGED <<callVars, asks>>

\* explore, generate_sql and fix, each at the endpoint of its node's model.
AsksTheModel(t) ==
  /\ at[t] \in {"exploring", "asking"}
  /\ \E url \in Endpoints : Begin(t, url)
  /\ UNCHANGED <<engineVars, asks>>

InCall(t) == CallStep(t) /\ UNCHANGED <<engineVars, asks>>

\* The reply asks for tools: they run, and the connection is kept.
KeepsExploring(t) ==
  /\ call[t].at = "ok"
  /\ at[t] = "exploring"
  /\ asks[t] < MaxAsks
  /\ asks' = [asks EXCEPT ![t] = @ + 1]
  /\ Taken(t)
  /\ UNCHANGED engineVars

\* The last reply is taken: the exploration ends, or the query is written.
Returns(t) ==
  /\ call[t].at = "ok"
  /\ Taken(t)
  /\ Explored(t) \/ Written(t)
  /\ UNCHANGED asks

Raises(t) ==
  /\ call[t].at = "failed"
  /\ Taken(t)
  /\ Thrown(t)
  /\ UNCHANGED asks

TurnStep(t) ==
  \/ OnItsWay(t) \/ AsksTheModel(t) \/ InCall(t)
  \/ KeepsExploring(t) \/ Returns(t) \/ Raises(t)

\* The server restarts, and forgets what the endpoints take.
Restart ==
  /\ Shutdown
  /\ capField' = [url \in Endpoints |-> "max_tokens"]
  /\ UNCHANGED <<knows, call, asks>>

Quiet == (\A t \in Turns : at[t] \in Ended) /\ UNCHANGED vars

Next == (\E t \in Turns : TurnStep(t)) \/ Restart \/ Quiet

Spec == Init /\ [][Next]_vars

\* Dials, pool waits, requests and statements all time out.
FairSpec == Spec /\ \A t \in Turns : WF_vars(TurnStep(t))

-----------------------------------------------------------------------------
(* Properties. *)

\* A turn once asked ends, whoever holds the lock or the connections.
EveryTurnEnds == \A t \in Turns : at[t] # "new" ~> at[t] \in Ended

=============================================================================
