----------------------------- MODULE TargetEngine -----------------------------
(***************************************************************************)
(* The way to the target database (app/db.py): the engine a burst of       *)
(* turns builds between them, double-checked under a lock, and its pool,   *)
(* which lends at most PoolMax connections at once.                        *)
(*                                                                         *)
(* A turn on its way: it arrives, queues for the lock unless there is an   *)
(* engine, dials if there still is none, explores on one connection, lets  *)
(* it go and executes its query on another.  What it asks of the model in  *)
(* between is ModelCall's; ColdTurns puts the two together.                *)
(***************************************************************************)
EXTENDS Naturals, FiniteSets

CONSTANTS
  Turns,                \* the turns asked
  NoTurn,               \* nobody: the lock is free
  PoolMax,              \* config: target_pool_max
  MaxFix                \* config: max_fix_attempts

ASSUME TurnsAssumption == IsFiniteSet(Turns) /\ NoTurn \notin Turns
ASSUME PoolAssumption == PoolMax \in Nat \ {0} /\ MaxFix \in Nat

VARIABLES
  engine,               \* _target, by number; 0 is None
  lock,                 \* _target_lock: the turn that holds it
  built,                \* engines built so far; the last one is dialled
  live,                 \* engines built and not disposed of
  at,                   \* how far each turn has come
  out,                  \* connections the pool has lent
  conn,                 \* the engine each turn's connection is from, or 0
  fixes                 \* fix_attempts of each turn

engineVars == <<engine, lock, built, live, at, out, conn, fixes>>

Ended == {"refused", "failed", "answered"}

EngineTypeOK ==
  /\ engine \in Nat
  /\ lock \in Turns \union {NoTurn}
  /\ built \in Nat
  /\ live \in SUBSET (Nat \ {0})
  /\ at \in [Turns -> {"new", "queued", "dialing", "ready", "exploring",
                       "asking", "written", "executing"} \union Ended]
  /\ out \in Nat
  /\ conn \in [Turns -> Nat]
  /\ fixes \in [Turns -> 0..MaxFix]

EngineInit ==
  /\ engine = 0
  /\ lock = NoTurn
  /\ built = 0
  /\ live = {}
  /\ at = [t \in Turns |-> "new"]
  /\ out = 0
  /\ conn = [t \in Turns |-> 0]
  /\ fixes = [t \in Turns |-> 0]

Goes(t, place) == at' = [at EXCEPT ![t] = place]

-----------------------------------------------------------------------------
(* The engine. *)

\* target_engine: the first check, without the lock.
Arrive(t) ==
  /\ at[t] = "new"
  /\ Goes(t, IF engine # 0 THEN "ready" ELSE "queued")
  /\ UNCHANGED <<engine, lock, built, live, out, conn, fixes>>

\* The second check: somebody else dialled while this turn queued.
Found(t) ==
  /\ at[t] = "queued"
  /\ lock = NoTurn
  /\ engine # 0
  /\ Goes(t, "ready")
  /\ UNCHANGED <<engine, lock, built, live, out, conn, fixes>>

\* A bug: no second check.
BuildAgain(t) ==
  /\ at[t] = "queued"
  /\ lock = NoTurn
  /\ lock' = t
  /\ built' = built + 1
  /\ live' = live \union {built'}
  /\ Goes(t, "dialing")
  /\ UNCHANGED <<engine, out, conn, fixes>>

\* There is none: the turn builds one, and dials before it is handed out.
Build(t) ==
  /\ at[t] = "queued"
  /\ lock = NoTurn
  /\ engine = 0
  /\ lock' = t
  /\ built' = built + 1
  /\ live' = live \union {built'}
  /\ Goes(t, "dialing")
  /\ UNCHANGED <<engine, out, conn, fixes>>

\* _guard_sqlite_path: no such file, and no engine is built.
NoFile(t) ==
  /\ at[t] = "queued"
  /\ lock = NoTurn
  /\ engine = 0
  /\ Goes(t, "refused")
  /\ UNCHANGED <<engine, lock, built, live, out, conn, fixes>>

Dialled(t) ==
  /\ at[t] = "dialing"
  /\ engine' = built
  /\ lock' = NoTurn
  /\ Goes(t, "ready")
  /\ UNCHANGED <<built, live, out, conn, fixes>>

\* A bug: the lock is not given back when the dial fails.
DialFailsLocked(t) ==
  /\ at[t] = "dialing"
  /\ live' = live \ {built}
  /\ Goes(t, "refused")
  /\ UNCHANGED <<engine, lock, built, out, conn, fixes>>

\* The connection is refused or times out: a 502, for this turn only.
DialFails(t) ==
  /\ at[t] = "dialing"
  /\ live' = live \ {built}
  /\ lock' = NoTurn
  /\ Goes(t, "refused")
  /\ UNCHANGED <<engine, built, out, conn, fixes>>

\* close_pools: the server stops when no turn is left, and starts anew.
Shutdown ==
  /\ \A t \in Turns : at[t] \in Ended \union {"new"}
  /\ engine # 0
  /\ live' = live \ {engine}
  /\ engine' = 0
  /\ UNCHANGED <<lock, built, at, out, conn, fixes>>

-----------------------------------------------------------------------------
(* Its pool. *)

\* target() in explore, target_readonly() in execute: each asks for the engine
\* again, and finds it without the lock.
Connect(t) ==
  /\ at[t] \in {"ready", "written"}
  /\ engine # 0
  /\ out < PoolMax
  /\ out' = out + 1
  /\ conn' = [conn EXCEPT ![t] = engine]
  /\ Goes(t, IF at[t] = "ready" THEN "exploring" ELSE "executing")
  /\ UNCHANGED <<engine, lock, built, live, fixes>>

\* A query that did not run: back to the model while there is a fix left.
Rejected(t) ==
  IF fixes[t] < MaxFix
  THEN /\ fixes' = [fixes EXCEPT ![t] = @ + 1]
       /\ Goes(t, "asking")
  ELSE /\ Goes(t, "answered")
       /\ UNCHANGED fixes

\* Everyone else kept theirs too long.  explore raises; execute takes it for
\* the query's fault.
PoolTimeout(t) ==
  /\ out = PoolMax
  /\ \/ /\ at[t] = "ready"
        /\ Goes(t, "failed")
        /\ UNCHANGED fixes
     \/ /\ at[t] = "written"
        /\ Rejected(t)
  /\ UNCHANGED <<engine, lock, built, live, out, conn>>

GivesBack(t) ==
  /\ out' = out - 1
  /\ conn' = [conn EXCEPT ![t] = 0]

\* explore is done with its tools: the connection goes, the turn goes on.
Explored(t) ==
  /\ at[t] = "exploring"
  /\ GivesBack(t)
  /\ Goes(t, "asking")
  /\ UNCHANGED <<engine, lock, built, live, fixes>>

\* A bug: the connection of an exploration that throws stays out.
KeepsWhenThrown(t) ==
  /\ at[t] \in {"exploring", "asking"}
  /\ conn' = [conn EXCEPT ![t] = 0]
  /\ UNCHANGED out
  /\ Goes(t, "failed")
  /\ UNCHANGED <<engine, lock, built, live, fixes>>

\* A model call throws, in the exploration or after it.
Thrown(t) ==
  /\ at[t] \in {"exploring", "asking"}
  /\ IF at[t] = "exploring" THEN GivesBack(t) ELSE UNCHANGED <<out, conn>>
  /\ Goes(t, "failed")
  /\ UNCHANGED <<engine, lock, built, live, fixes>>

\* generate_sql, or a fix: the model wrote a query.
Written(t) ==
  /\ at[t] = "asking"
  /\ Goes(t, "written")
  /\ UNCHANGED <<engine, lock, built, live, out, conn, fixes>>

\* The query runs, or the database rejects it; the connection goes first.
Execute(t) ==
  /\ at[t] = "executing"
  /\ GivesBack(t)
  /\ \/ Goes(t, "answered") /\ UNCHANGED fixes
     \/ Rejected(t)
  /\ UNCHANGED <<engine, lock, built, live>>

-----------------------------------------------------------------------------
(* Properties. *)

\* "A burst of concurrent turns against a cold start builds one engine between
\* them": never two alive, and one that could not dial leaves none behind.
OneEngine ==
  /\ Cardinality(live) <= 1
  /\ engine # 0 => live = {engine}
  /\ engine = 0 /\ lock = NoTurn => live = {}

Holders == {t \in Turns : conn[t] # 0}

\* Every connection lent is held by one turn, comes from the engine in use,
\* and is back once its turn has ended: no path of a turn loses one.
PoolIsWhole ==
  /\ out = Cardinality(Holders)
  /\ out <= PoolMax
  /\ \A t \in Holders :
       conn[t] = engine /\ at[t] \in {"exploring", "executing"}

=============================================================================
