------------------------------ MODULE TurnGraph ------------------------------
(***************************************************************************)
(* The agent's graph (app/graph.py): the turns a caller takes, one after   *)
(* another, through load_cache, plan, explore, generate_sql, execute, fix, *)
(* extract and answer.  A caller starts a session or continues its last.   *)
(*                                                                         *)
(* The channels of the state graph are checkpointed per session.  A turn   *)
(* asked on a session that already had one starts from the channels the    *)
(* last turn left there, overwritten by its input and by what its nodes    *)
(* return; `src` records which turn last wrote each channel.               *)
(*                                                                         *)
(* A node is one step, except where it talks to a database twice: each     *)
(* statement commits by itself, so load_cache, extract and answer are      *)
(* split at the statements.  A model call costs one token.                 *)
(***************************************************************************)
EXTENDS Naturals, Sequences

CONSTANTS
  Names,                \* the names the extractor may file entries under
  MemoryModes,          \* the values of `memory` callers send
  MaxFix,               \* config: max_fix_attempts
  MaxExploreCalls,      \* bound: model calls of one exploration
  MaxTurns              \* bound: turns asked

ASSUME ModesAssumption == MemoryModes \subseteq BOOLEAN
ASSUME BoundsAssumption ==
  /\ MaxFix \in Nat
  /\ MaxExploreCalls \in Nat \ {0}
  /\ MaxTurns \in Nat

VARIABLES
  pc,                   \* the node about to run
  asked,                \* how many turns have been asked; the current turn
  session,              \* its session, named by the turn that began it
  \* The session's channels:
  memory,               \* may the turn read and write memory?
  turnId,               \* turn_id: the row the turn opened
  cache,                \* the entries loaded
  sufficient,           \* plan: the cache answers the question
  usedIds,              \* plan: the entries it leaned on
  error,                \* execute: did the query fail?
  fixes,                \* fix_attempts
  explored,
  tokens,               \* tokens_in and tokens_out, summed over nodes
  src,                  \* the turn that last wrote each channel, 0 for none
  \* The store:
  batch,                \* entries of the extraction still to be written
  known,                \* cache_entry: the names filed
  hits,                 \* cache_entry.hits
  rows,                 \* the turn table
  \* What the current turn did, kept to state properties with:
  spent,                \* model calls that replied
  unparsed,             \* did a reply to extract not parse?
  runs,                 \* queries tried
  picked,               \* entries this turn's plan said it leaned on
  outcome               \* how the current or last turn ended

turn == <<asked, session, memory>>
loaded == <<turnId, cache>>
planned == <<sufficient, usedIds>>
store == <<known, hits, rows>>
turnHistory == <<spent, unparsed, runs, picked, outcome>>
channels == <<loaded, planned, error, fixes, explored, tokens, src>>
vars == <<pc, turn, channels, batch, store, turnHistory>>

Nodes == {"load_cache", "load_entries", "plan", "explore", "generate_sql",
          "execute", "fix", "extract", "keep", "answer", "finish", "end"}

Channels == {"cache", "sufficient", "used_ids", "missing", "findings", "sql",
             "error", "fix_attempts", "explored"}

Unwritten == [c \in Channels |-> 0]

Row == [session : Nat, asked : Nat, by : Nat,
        status : {"open", "answered", "gave_up", "failed"},
        tokens : Nat, explored : BOOLEAN]

TypeOK ==
  /\ pc \in Nodes \union {"idle"}
  /\ asked \in 0..MaxTurns
  /\ session \in 0..asked
  /\ memory \in BOOLEAN
  /\ turnId \in Nat
  /\ cache \in SUBSET Names
  /\ sufficient \in BOOLEAN
  /\ usedIds \in SUBSET Names
  /\ error \in BOOLEAN
  /\ fixes \in 0..MaxFix
  /\ explored \in BOOLEAN
  /\ tokens \in Nat
  /\ src \in [Channels -> 0..MaxTurns]
  /\ batch \in SUBSET Names
  /\ known \in SUBSET Names
  /\ hits \in [Names -> Nat]
  /\ rows \in Seq(Row)
  /\ spent \in Nat
  /\ unparsed \in BOOLEAN
  /\ runs \in Nat
  /\ picked \in SUBSET Names
  /\ outcome \in {"none", "answered", "failed", "unlogged", "left"}

Init ==
  /\ pc = "idle"
  /\ asked = 0
  /\ session = 0
  /\ memory = TRUE
  /\ turnId = 0
  /\ cache = {}
  /\ sufficient = FALSE
  /\ usedIds = {}
  /\ error = FALSE
  /\ fixes = 0
  /\ explored = FALSE
  /\ tokens = 0
  /\ src = Unwritten
  /\ batch = {}
  /\ known = {}
  /\ hits = [n \in Names |-> 0]
  /\ rows = <<>>
  /\ spent = 0
  /\ unparsed = FALSE
  /\ runs = 0
  /\ picked = {}
  /\ outcome = "none"

-----------------------------------------------------------------------------
(* A node writes channels of the current turn. *)

Wrote(S) == src' = [c \in Channels |-> IF c \in S THEN asked ELSE src[c]]

\* A session's first turn starts from no channels.
NewThread ==
  /\ turnId' = 0
  /\ cache' = {}
  /\ sufficient' = FALSE
  /\ usedIds' = {}
  /\ error' = FALSE
  /\ fixes' = 0
  /\ explored' = FALSE
  /\ tokens' = 0
  /\ src' = Unwritten

(***************************************************************************)
(* A caller asks.  AskBody mints a session unless one is sent, and a       *)
(* session's thread restarts at START with the channels it was left with.  *)
(***************************************************************************)
Ask(remember, continue) ==
  /\ pc = "idle"
  /\ asked < MaxTurns
  /\ asked' = asked + 1
  /\ continue => asked > 0
  /\ session' = IF continue THEN session ELSE asked + 1
  /\ pc' = "load_cache"
  /\ memory' = remember
  /\ IF continue THEN UNCHANGED channels ELSE NewThread
  /\ spent' = 0
  /\ unparsed' = FALSE
  /\ runs' = 0
  /\ picked' = {}
  /\ outcome' = "none"
  /\ UNCHANGED <<batch, store>>

(* load_cache, its first statement: start_turn inserts the row. *)
StartTurn ==
  /\ pc = "load_cache"
  /\ rows' = Append(rows, [session |-> session, asked |-> asked,
                           by |-> 0, status |-> "open", tokens |-> 0,
                           explored |-> FALSE])
  /\ pc' = "load_entries"
  /\ UNCHANGED <<turn, channels, batch, known, hits, turnHistory>>

\* A bug: load_cache does not reset fix_attempts.
LoadCacheKeepsFixes ==
  /\ pc = "load_entries"
  /\ turnId' = Len(rows)
  /\ cache' = IF memory THEN known ELSE {}
  /\ Wrote({"cache"})
  /\ pc' = "plan"
  /\ UNCHANGED <<turn, planned, error, fixes, explored, tokens, batch, store,
                 turnHistory>>

(* load_cache, the rest: the entries, unless the turn goes without memory,
   and what the node returns.  Only these channels are reset. *)
LoadCache ==
  /\ pc = "load_entries"
  /\ turnId' = Len(rows)
  /\ cache' = IF memory THEN known ELSE {}
  /\ fixes' = 0
  /\ Wrote({"cache", "fix_attempts"})
  /\ pc' = "plan"
  /\ UNCHANGED <<turn, planned, error, explored, tokens, batch, store,
                 turnHistory>>

RouteAfterPlan(enough) == IF enough THEN "execute" ELSE "explore"

\* A bug: plan over an empty cache returns nothing at all.
PlanColdSilent ==
  /\ pc = "plan"
  /\ cache = {}
  /\ pc' = RouteAfterPlan(sufficient)
  /\ UNCHANGED <<turn, channels, batch, store, turnHistory>>

(* plan over an empty cache returns `sufficient` and nothing else. *)
PlanCold ==
  /\ pc = "plan"
  /\ cache = {}
  /\ sufficient' = FALSE
  /\ Wrote({"sufficient"})
  /\ pc' = RouteAfterPlan(FALSE)
  /\ UNCHANGED <<turn, loaded, usedIds, error, fixes, explored, tokens, batch,
                 store, turnHistory>>

(* plan asks the model, which may answer at once and names what it used. *)
PlanAsk(enough, used) ==
  /\ pc = "plan"
  /\ cache # {}
  /\ used \subseteq cache
  /\ sufficient' = enough
  /\ usedIds' = used
  /\ tokens' = tokens + 1
  /\ Wrote({"sufficient", "used_ids", "missing"}
           \union (IF enough THEN {"sql"} ELSE {}))
  /\ pc' = RouteAfterPlan(enough)
  /\ spent' = spent + 1
  /\ picked' = used
  /\ UNCHANGED <<turn, loaded, error, fixes, explored, batch, store, unparsed,
                 runs, outcome>>

(* explore, as a whole: ExploreLoop has the loop. *)
Explore(calls) ==
  /\ pc = "explore"
  /\ explored' = TRUE
  /\ tokens' = tokens + calls
  /\ Wrote({"findings", "explored"})
  /\ pc' = "generate_sql"
  /\ spent' = spent + calls
  /\ UNCHANGED <<turn, loaded, planned, error, fixes, batch, store, unparsed,
                 runs, picked, outcome>>

GenerateSql ==
  /\ pc = "generate_sql"
  /\ tokens' = tokens + 1
  /\ Wrote({"sql"})
  /\ pc' = "execute"
  /\ spent' = spent + 1
  /\ UNCHANGED <<turn, loaded, planned, error, fixes, explored, batch, store,
                 unparsed, runs, picked, outcome>>

\* A bug: a turn that gives up goes through extract.
RouteGaveUpToExtract(failed) ==
  IF failed /\ fixes < MaxFix THEN "fix" ELSE "extract"

\* A bug: one fix too many.
RouteOneMoreFix(failed) ==
  IF failed
  THEN IF fixes <= MaxFix THEN "fix" ELSE "answer"
  ELSE "extract"

RouteAfterExecute(failed) ==
  IF failed
  THEN IF fixes < MaxFix THEN "fix" ELSE "answer"
  ELSE "extract"

(* execute turns whatever the driver raises into `error`: the driver's text,
   taken never to be empty, for an empty one reads as success. *)
Execute(failed) ==
  /\ pc = "execute"
  /\ error' = failed
  /\ Wrote({"error"})
  /\ pc' = RouteAfterExecute(failed)
  /\ runs' = runs + 1
  /\ UNCHANGED <<turn, loaded, planned, fixes, explored, tokens, batch, store,
                 spent, unparsed, picked, outcome>>

Fix ==
  /\ pc = "fix"
  /\ fixes' = fixes + 1
  /\ error' = FALSE
  /\ tokens' = tokens + 1
  /\ Wrote({"sql", "fix_attempts", "error"})
  /\ pc' = "execute"
  /\ spent' = spent + 1
  /\ UNCHANGED <<turn, loaded, planned, explored, batch, store, unparsed, runs,
                 picked, outcome>>

(* extract's early returns: a query that never ran, and a plan that answered
   from the cache and needed no fix. *)
NothingToLearn == error \/ (sufficient /\ fixes = 0)

ExtractSkip ==
  /\ pc = "extract"
  /\ NothingToLearn
  /\ pc' = "answer"
  /\ UNCHANGED <<turn, channels, batch, store, turnHistory>>

(* extract's own failure is swallowed: no reply, or one that does not parse.
   That reply was paid for, and the node returns nothing of it.  An empty query, which extract skips as well,
   leaves the state a missing reply leaves. *)
ExtractFails(replied) ==
  /\ pc = "extract"
  /\ ~NothingToLearn
  /\ pc' = "answer"
  /\ spent' = spent + (IF replied THEN 1 ELSE 0)
  /\ unparsed' = replied
  /\ UNCHANGED <<turn, channels, batch, store, runs, picked, outcome>>

ExtractReplies(entries) ==
  /\ pc = "extract"
  /\ ~NothingToLearn
  /\ batch' = entries
  /\ pc' = "keep"
  /\ spent' = spent + 1
  /\ UNCHANGED <<turn, channels, store, unparsed, runs, picked, outcome>>

\* A bug: `memory: False` writes all the same.
WriteEntryAnyway(n) ==
  /\ pc = "keep"
  /\ n \in batch
  /\ known' = known \union {n}
  /\ batch' = batch \ {n}
  /\ UNCHANGED <<pc, turn, channels, hits, rows, turnHistory>>

(* write_entries commits one entry at a time. *)
WriteEntry(n) ==
  /\ pc = "keep"
  /\ memory
  /\ n \in batch
  /\ known' = known \union {n}
  /\ batch' = batch \ {n}
  /\ UNCHANGED <<pc, turn, channels, hits, rows, turnHistory>>

\* A bug: `memory: False` waits for writes nobody makes.
ExtractReturnsWhenWritten ==
  /\ pc = "keep"
  /\ batch = {}
  /\ tokens' = tokens + 1
  /\ pc' = "answer"
  /\ UNCHANGED <<turn, loaded, planned, error, fixes, explored, src, batch,
                 store, turnHistory>>

(* Nothing left to write, or `memory: False` stopped before writing. *)
ExtractReturns ==
  /\ pc = "keep"
  /\ memory => batch = {}
  /\ batch' = {}
  /\ tokens' = tokens + 1
  /\ pc' = "answer"
  /\ UNCHANGED <<turn, loaded, planned, error, fixes, explored, src, store,
                 turnHistory>>

Credit(S) == hits' = [n \in Names |-> hits[n] + (IF n \in S THEN 1 ELSE 0)]

\* A bug: everything loaded is credited, used or not.
AnswerCreditsCache ==
  /\ pc = "answer"
  /\ ~error
  /\ Credit(cache)
  /\ spent' = spent + 1
  /\ pc' = "finish"
  /\ UNCHANGED <<turn, channels, batch, known, rows, unparsed, runs, picked,
                 outcome>>

(* answer: the model words the rows, and the entries the turn leaned on are
   credited.  A turn that gave up gets a fixed text and credits nothing. *)
AnswerRows ==
  /\ pc = "answer"
  /\ ~error
  /\ Credit(usedIds \intersect known)
  /\ spent' = spent + 1
  /\ pc' = "finish"
  /\ UNCHANGED <<turn, channels, batch, known, rows, unparsed, runs, picked,
                 outcome>>

AnswerGaveUp ==
  /\ pc = "answer"
  /\ error
  /\ pc' = "finish"
  /\ UNCHANGED <<turn, channels, batch, store, turnHistory>>

\* A bug: the totals are taken from the channels alone.
NoOwnCalls == 0

OwnCalls == IF error THEN 0 ELSE 1

ClosedAs == IF error THEN "gave_up" ELSE "answered"

FinishTurn ==
  /\ pc = "finish"
  /\ rows' = [i \in DOMAIN rows |->
                IF i = turnId
                THEN [session |-> rows[i].session, asked |-> rows[i].asked,
                      by |-> asked, status |-> ClosedAs,
                      tokens |-> tokens + OwnCalls, explored |-> explored]
                ELSE rows[i]]
  /\ pc' = "end"
  /\ UNCHANGED <<turn, channels, batch, known, hits, turnHistory>>

(* The last checkpoint takes answer's own delta, and the stream is done. *)
EndTurn ==
  /\ pc = "end"
  /\ tokens' = tokens + OwnCalls
  /\ pc' = "idle"
  /\ outcome' = "answered"
  /\ UNCHANGED <<turn, loaded, planned, error, fixes, explored, src, batch,
                 store, spent, unparsed, runs, picked>>

-----------------------------------------------------------------------------
(***************************************************************************)
(* How a turn stops early.  A node may raise wherever it is (a model that  *)
(* times out, a database that is away, a checkpoint that cannot be         *)
(* written); stream_turn closes the newest open row of the session, if the *)
(* database lets it.  A caller may also hang up, which runs no handler.    *)
(***************************************************************************)
OpenRows(s) == {i \in DOMAIN rows : rows[i].session = s
                                    /\ rows[i].status = "open"}

Failed(r) == [session |-> r.session, asked |-> r.asked, by |-> asked,
              status |-> "failed", tokens |-> r.tokens,
              explored |-> r.explored]

FailOpenTurn(s) ==
  [i \in DOMAIN rows |->
     IF i \in OpenRows(s) /\ \A j \in OpenRows(s) : j <= i
     THEN Failed(rows[i]) ELSE rows[i]]

Raise(logged) ==
  /\ pc # "idle"
  /\ rows' = IF logged THEN FailOpenTurn(session) ELSE rows
  /\ batch' = {}
  /\ pc' = "idle"
  /\ outcome' = IF logged THEN "failed" ELSE "unlogged"
  /\ UNCHANGED <<turn, channels, known, hits, spent, unparsed, runs, picked>>

Disconnect ==
  /\ pc # "idle"
  /\ batch' = {}
  /\ pc' = "idle"
  /\ outcome' = "left"
  /\ UNCHANGED <<turn, channels, store, spent, unparsed, runs, picked>>

NodeStep ==
  \/ StartTurn
  \/ LoadCache
  \/ PlanCold
  \/ \E enough \in BOOLEAN, used \in SUBSET Names : PlanAsk(enough, used)
  \/ \E calls \in 1..MaxExploreCalls : Explore(calls)
  \/ GenerateSql
  \/ \E failed \in BOOLEAN : Execute(failed)
  \/ Fix
  \/ ExtractSkip
  \/ \E replied \in BOOLEAN : ExtractFails(replied)
  \/ \E entries \in SUBSET Names : ExtractReplies(entries)
  \/ \E n \in Names : WriteEntry(n)
  \/ ExtractReturns
  \/ AnswerRows
  \/ AnswerGaveUp
  \/ FinishTurn
  \/ EndTurn

\* The bound on turns is reached: nobody asks again.
AllAsked ==
  /\ pc = "idle"
  /\ asked = MaxTurns
  /\ UNCHANGED vars

Next ==
  \/ \E remember \in MemoryModes, continue \in BOOLEAN :
       Ask(remember, continue)
  \/ NodeStep
  \/ \E logged \in BOOLEAN : Raise(logged)
  \/ Disconnect
  \/ AllAsked

Spec == Init /\ [][Next]_vars

(* The server keeps pulling the stream, and every model and database call
   has a timeout, so a node that has begun ends. *)
FairSpec == Spec /\ WF_vars(NodeStep)

-----------------------------------------------------------------------------
(* Properties. *)

\* Is this the first turn of its session?  (Every turn of the repository's
\* own client is: cli/sql_agent/turn.py sends no session_id.)
Fresh == session = asked

(* Credit is earned: a hit is added only once this turn's own query ran, and
   a first turn credits only what its own plan said it leaned on. *)
CreditsAreEarned ==
  [][hits' # hits =>
       /\ runs > 0
       /\ ~error
       /\ Fresh => \A n \in Names : hits'[n] # hits[n] => n \in picked]_vars

(* A first turn asked with `memory: False` leaves the memory as it was, at
   whichever node it stops. *)
ColdTurnLeavesMemory ==
  [][Fresh /\ ~memory /\ pc # "idle" => UNCHANGED <<known, hits>>]_vars

(* The same of every turn, first of its session or not, as the documentation
   promises it.  `used_ids` outlives the turn that wrote it, so it is false. *)
EveryColdTurnLeavesMemory ==
  [][~memory /\ pc # "idle" => UNCHANGED <<known, hits>>]_vars

(* Whatever an earlier turn of the session left in the channels, the query
   that runs, the verdict on it and the branch taken are this turn's own. *)
DecisionsAreOwn ==
  /\ pc \in {"explore", "generate_sql", "execute", "fix", "extract", "answer"}
       => src["sufficient"] = asked /\ src["cache"] = asked
  /\ pc = "generate_sql" => src["findings"] = asked
  /\ pc \in {"execute", "fix", "extract", "keep", "answer"}
       => src["sql"] = asked
  /\ pc \in {"fix", "extract", "keep", "answer", "finish"}
       => src["error"] = asked

(* The flywheel is bounded and every turn has the whole bound: a turn gives
   up only after MaxFix fixes of its own, and never tries again after that. *)
GivesUpOnlyWhenSpent ==
  /\ runs <= MaxFix + 1
  /\ pc = "answer" /\ error => runs = MaxFix + 1

\* Calls that were paid for and that no node returned.
Uncounted == IF unparsed THEN 1 ELSE 0

(* What the row of a session's first turn tells, through every fix, early
   return and failure of extract.  It says whether the turn explored, and its
   tokens are those of all the calls of the turn but one: an extraction whose
   reply does not parse is paid for and in no row, although the counter is to
   sum "every API call the turn made" (graph.py:76).  No other call is missed,
   and none is counted twice. *)
RowTellsTheTurn ==
  pc = "end" /\ Fresh =>
    /\ spent - rows[turnId].tokens = Uncounted
    /\ rows[turnId].explored = (src["explored"] = asked)

(* No row counts a call its turn did not make.  The sums are channels of the
   session and are not reset, so a later turn's row counts the earlier turns
   too: false. *)
EveryRowTellsItsTurn ==
  pc = "end" => rows[turnId].tokens <= spent

(* A turn that was answered, or failed while the database was there, does not
   leave its row looking like a turn in flight. *)
EndedTurnIsClosed ==
  outcome \in {"answered", "failed"} =>
    \A i \in DOMAIN rows : rows[i].asked = asked => rows[i].status # "open"

(* Every turn ends: answered, given up, failed or left. *)
TurnEnds == pc # "idle" ~> pc = "idle"

-----------------------------------------------------------------------------
(* The inductive invariant: where the turn stands at each node. *)

\* Nodes at which the turn's row is the newest one and open.
Opened == Nodes \ {"load_cache", "end"}

\* The row the turn closes is its own: nobody else inserts between.
RowIsOwn ==
  /\ pc \in Opened => Len(rows) > 0 /\ rows[Len(rows)].status = "open"
  /\ pc \in Opened \ {"load_entries"} => turnId = Len(rows)

\* Queries tried against fixes made.
FlywheelCount ==
  /\ runs <= MaxFix + 1
  /\ pc \in {"load_cache", "load_entries", "plan", "explore", "generate_sql"}
       => runs = 0
  /\ pc \in {"plan", "explore", "generate_sql"} => fixes = 0
  /\ pc = "execute" => runs = fixes
  /\ pc = "fix" => runs = fixes + 1 /\ fixes < MaxFix
  /\ pc \in {"extract", "keep", "answer", "finish", "end"}
       => runs = fixes + 1
  /\ pc \in {"extract", "keep"} => ~error
  /\ pc \in {"answer", "finish"} /\ error => fixes = MaxFix

\* What the next node reads was written in this turn.
OwnChannels ==
  /\ pc \in Nodes \ {"load_cache", "load_entries"} => src["cache"] = asked
  /\ pc \in Nodes \ {"load_cache", "load_entries", "plan"}
       => src["sufficient"] = asked
  /\ pc = "generate_sql" => src["findings"] = asked
  /\ pc \in {"execute", "fix", "extract", "keep", "answer"}
       => src["sql"] = asked
  /\ pc \in {"fix", "extract", "keep", "answer", "finish"}
       => src["error"] = asked

\* The names a first turn will credit are names its own plan gave.
UsedIsPicked == pc # "idle" /\ Fresh => usedIds \subseteq picked

\* A first turn without memory loads nothing and so leans on nothing.
ColdIsEmpty ==
  pc # "idle" /\ Fresh /\ ~memory => cache = {} /\ usedIds = {}

\* What the channels of a first turn still miss of what the turn spent.
Unsummed == CASE pc = "keep" -> 1
              [] pc = "finish" -> OwnCalls
              [] OTHER -> 0

\* The sum a first turn's channels hold is of its own calls, and only extract
\* leaves one out.
SumIsOwn ==
  /\ pc \in Nodes \ {"answer", "finish", "end"} => ~unparsed
  /\ Fresh /\ pc \notin {"idle", "end"} => tokens + Unsummed + Uncounted = spent

\* `explored` of a first turn says whether this turn explored.
ExploredIsOwn ==
  Fresh /\ pc # "idle" => (explored <=> src["explored"] = asked)

\* The row a first turn has just closed holds its own sum.
ClosedRowIsOwn ==
  Fresh /\ pc = "end" =>
    /\ turnId \in DOMAIN rows
    /\ rows[turnId].tokens + Uncounted = spent
    /\ rows[turnId].explored = explored

\* Rows are opened in the order of the turns, at most one for each turn, and
\* the current turn's row, once there is one, is the last.
RowsInOrder ==
  /\ pc # "idle" => outcome = "none"
  /\ \A i \in DOMAIN rows : rows[i].asked <= asked
  /\ pc = "load_cache" => \A i \in DOMAIN rows : rows[i].asked < asked
  /\ \A i \in DOMAIN rows : rows[i].asked = asked => i = Len(rows)
  /\ pc # "idle" => \A i \in DOMAIN rows :
                       rows[i].asked = asked => rows[i].session = session
  /\ pc = "end" => \A i \in DOMAIN rows :
                      rows[i].asked = asked => rows[i].status # "open"

IndInv ==
  /\ TypeOK
  /\ RowIsOwn
  /\ FlywheelCount
  /\ OwnChannels
  /\ UsedIsPicked
  /\ ColdIsEmpty
  /\ SumIsOwn
  /\ ExploredIsOwn
  /\ ClosedRowIsOwn
  /\ RowsInOrder
  /\ EndedTurnIsClosed

-----------------------------------------------------------------------------
(* The graph implements the contract. *)

\* The stage of the contract each node is in.
Stage ==
  CASE pc = "idle" -> "idle"
    [] pc = "load_cache" -> "asked"
    [] pc \in {"load_entries", "plan", "explore", "generate_sql", "execute",
               "fix"} -> "working"
    [] pc \in {"extract", "keep"} -> "ran"
    [] pc \in {"answer", "finish"} -> IF error THEN "dead" ELSE "ran"
    [] pc = "end" -> "closed"

Log == [i \in DOMAIN rows |-> rows[i].status]

Contract == INSTANCE TurnContract
              WITH stage <- Stage, keeps <- memory, log <- Log

(* The graph keeps the contract: rows are closed once and never reopened, and
   memory moves only between a query that ran and the closing of its row. *)
KeepsContract == Contract!Spec

=============================================================================
