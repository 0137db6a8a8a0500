# A verification project for sql-agent

TLA+ models of the agent in `app/`, of the corpus runner in `cli/` and of the
prompt optimiser in `tools/gepa/`, the TLC runs that check them on small
instances, and proofs, checked by TLAPS, of what they promise for every value
of their constants. Source references are `path:line` in this repository.

## The system

sql-agent answers questions about a database with SQL, and remembers what it
learned so that the next question costs less. It has two databases: the
**target** the questions are about, read-only, and the **agent's own**, with the
memory (`cache_entry`), the turn log (`turn`) and LangGraph's checkpoints.

| Part | State it keeps | Operations | Talks to |
|---|---|---|---|
| Turn graph (`app/graph.py`) | channels of one session, checkpointed after every node | `load_cache`, `plan`, `explore`, `generate_sql`, `execute`, `fix`, `extract`, `answer`, two routers, `stream_turn` | model, store, target |
| Exploration loop (`explore`) | the conversation, calls and tokens so far | ask, run tools, summarise | model, tools |
| Memory (`app/store.py`) | `cache_entry`: name, author, pin, ban, hits, fingerprint | load, fingerprint, upsert, credit, reset; `make migrate`; edits by hand | both databases |
| Turn log (`app/store.py`, `app/api.py`) | `turn`: session, answer, totals, trace | open, finish, fail, read, feedback, reset | tracing |
| HTTP API (`app/api.py`) | none | `/ask`, `/cache`, `/turns`, feedback, reset, probes | graph, store |
| Database access (`app/db.py`) | the engine, the pools | build once, lend connections | both databases |
| Model client (`app/llm.py`) | cap field per endpoint | one call, retried on 429, two wire formats | the endpoint |
| Tools (`app/tools.py`) | none | four introspection tools, `run_tool` | target |
| Tracing (`app/tracing.py`) | a client | trace, span, score | Langfuse |
| Configuration (`app/config.py`, `settings.py`, `overrides.py`, `prompts.py`) | values read once | validate | - |
| Command line (`cli/sql_agent`) | none | ask, reset, list | the API |
| Corpus runner (`cli/sql_agent/corpus.py`) | what it asked, judged and spent | preflight, ask a case, compare, file | the API |
| Prompt optimiser (`tools/gepa`) | corpus file, run directory, the search in memory | harvest, split, evaluate, search, gate, promote | GEPA, models, traces |

How they interact, and what is hard about it:

- One `POST /ask` is one run of the graph, a task of the server. Nothing keeps
  two asks on one session apart, and nothing makes a reset wait for turns in
  flight. The agent's database is on autocommit: **every statement commits by
  itself**, and a node that makes two can be interrupted between them.
- A session's channels survive the turn. A turn that continues a session starts
  from what the last turn left; each node overwrites some of it.
- A turn may stop anywhere: a node raises (the handler then closes "the most
  recent unfinished" row of the session, if the database is there), or the
  caller hangs up (no handler runs).
- Ids are handed out of the system (answer events, checkpoints) and used much
  later. `reset` restarts them.
- The corpus runner makes two calls a case, and either may fail or lose its
  reply while other callers ask, judge and reset.
- A search takes hours, is interrupted, and is resumed by another process from
  what the first one left: a record of its seed, GEPA's state, which refers to
  cases by position, and a corpus file other commands overwrite.

## Modules

| Module | Models | Extends or composes |
|---|---|---|
| `TurnContract` | what one caller of `/ask` is promised | - |
| `TurnGraph` | the graph: turns one after another, with sessions continued | implements `TurnContract` (`KeepsContract`) |
| `ExploreLoop` | the loop that `TurnGraph` has as one step | proves what that step takes for granted (`ReturnsItsCost`) |
| `TurnLog` | the turn table under concurrent turns, resets and feedback | `TurnGraph` has what a turn does in between |
| `Memory` | the memory under concurrent turns, people, drift, migrations and resets | same |
| `TargetEngine` | the engine a burst of turns builds, and its pool | - |
| `ModelCall` | an OpenAI-shaped call: retries, the cap field | - |
| `ColdTurns` | turns between the two: explorations keep a connection across model calls | extends `TargetEngine` and `ModelCall` |
| `Corpus` | the corpus runner and what it summarises, beside other callers | extends `TurnLog`; proved to be a client of it |
| `ResultSet` | when rows are the answer: the metric's comparison and the runner's own copy | - |
| `Metric` | what one run over one case is worth, to the hundredth | extends `ResultSet` |
| `Harvest` | which recorded turns become cases, with which query | - |
| `Optimiser` | commands of the optimiser over one run directory | extends `Metric` and `Harvest` |
| `TurnGraph_proofs`, `ExploreLoop_proofs`, `Memory_proofs`, `ColdTurns_proofs`, `TurnLog_proofs`, `Corpus_proofs`, `Optimiser_proofs` | theorems | the module named |
| `Scoring_proofs` | theorems about the pure algorithms | `Metric` and `Harvest`; `Optimiser_proofs` extends it |
| `MC_*` | instances for TLC, with symmetry where no liveness is checked | the module named |

**TurnGraph.** `pc` is the node about to run, `asked` the number of the current
turn and `session` the first turn of its session. The channels of `TurnState`
the properties depend on are variables; the others are represented by `src`,
which says for each channel which turn wrote it last. One node is one action,
except that `load_cache`, `extract` and `answer` are split where they make
several statements: `StartTurn`/`LoadCache`,
`ExtractReplies`/`WriteEntry`/`ExtractReturns`,
`AnswerRows`/`FinishTurn`/`EndTurn`. Model calls cost one token each, so a sum
of tokens is a count of calls. `Raise` is `stream_turn`'s handler, `Disconnect`
the generator being closed. The text an exception gives is taken never to be
empty, because `execute` tells failure from success by that text.

**ExploreLoop.** `messages` is the conversation as what was appended, each
request and each batch of results numbered by its reply; texts are `findings`
or nothing.

**TurnLog.** `rows` is the table, an id its position. A turn is opening,
finishing, ending, raising or leaving; what it computes is left out. `heard` are
the answer events sent, `filed` the scores as the turn meant, the trace scored
and the score. `Reset` waits for nobody, as in the code (`store.py:286`). Two history
variables say whom it misleads: `epoch`, how many resets there had been when a
turn opened its row, and `strays`, the rows last answered by a turn whose own
had been wiped (`finish_turn` updates by id). A turn is `Misled` when its row is
gone or astray, and everything the log promises is promised to the others. One
feedback may bring a verdict, a reference query or both (`FeedbackBody`);
tracing is on or off for all turns, so either all of it is filed or the whole is
refused (`Accepts`).

**Corpus.** The loop of `_record` with its HTTP calls, joined to the server of
`TurnLog` by that module's own actions: `AskCase` is `Ask`, `FileVerdict` is
`Feedback`, an interrupted stream is `Leave`. `Taken` is what the loop does
between the end of a stream and the second call; a case with no written answer
is counted there, before its reference is filed, as in the code. `ReplyLost` is
a filing whose answer never came back: the exception ends the run, and the
counts are one short. Whether the rows were right is either; which rows are is
`ResultSet.Matches`. `World` is everybody else.

**ResultSet, Metric, Harvest.** Pure. A table is a sequence of rows, a row a
sequence of cells, and a cell a number or a label, already in the spelling the
comparison reduces it to. The metric's spelling is the coarser one (cents,
dates, numbers in strings), so cells the runner finds equal are equal there too.
Scores are hundredths, rounded down. What a harvest reads is a sequence of
spans, oldest first; `InTurn` is the code's two sorts, as one pass over the
turns with a reference and one over the others, and `KeepNew` its loop. A case
is `ordered` when its query is (`Orders`, which stands for `_orders`: the set
`Ordering` of the queries with an `ORDER BY` outside any parenthesis); the
answer key has a flag of its own. `FollowsVerdicts` says what a harvest should
come to without either pass. `CertificateHolds` relates the two comparisons,
each with its own flag.

**Optimiser.** `pc` is where the one process is, `dir` and `corpus` the files
that outlive it, `gepa` the search in memory, its pool indexed from one (GEPA
counts from zero). An action is a stretch between two places where a crash
leaves different files: `Wipe`, `RecordSeed`, `LoadCorpus` (with its write),
`Engine` (GEPA loads or begins), `Iterate` (saved at its end), `Check`,
`Promote`. `WipeDies` is an `rmtree` cut short, `Abort` any other death, a
declined question or a harness error. GEPA is external: it is modelled by what
`cli.py` and its comments rely on (a saved search wins over the seed it is
handed, stoppers are asked between iterations, a child that beats its parent on
a minibatch is validated and kept). A text is either refused or run, and a run
over a case comes to any of `Rollouts` or `Replays`. A command has its own
`--resume`, `--overfit`, `--iterations`, text (`Seeds`) and split (`Splits`: a
`--val-fraction` in hundredths and a `--seed`); `--budget`, `--overfit`'s number
and the target are constants of an instance. Python's shuffle is stood for by a
rotation by the seed: all that matters is that it permutes positions by their
number alone. A mean is taken in parts of a hundredth (`Grain`), fine enough that
none is rounded. `reharvested` is history: was a harvest put in the place of the
corpus a saved search was begun on?

**Memory.** `entries` is the table, an id its position (ids burnt by
conflicting inserts are left out: nothing depends on them). `by` stands for
`origin` and for the claim: whoever wrote it last. The whole target schema has
one shape, so a fingerprint is a shape or `Unknown`. Edits by hand are external:
the code expects them (`origin = 'human'`, `pinned`, `disabled`) and offers no
operation for them.

**TargetEngine, ModelCall, ColdTurns.** `at` is how far a turn has come on its
way to the target: the preflight of `ask` (`Arrive` to `Dialled`), then one
connection for `explore` and one for `execute`; the short reads of `extract` are
the same two steps again and are left out. `lock` is the holder of
`_target_lock`, `live` the engines not disposed of. Taking a connection is
external (SQLAlchemy's pool): it waits, or times out when all are lent. A call
is a record with the cap field it was made with and the one its body has now,
which differ once it was refused. An endpoint knows one name of the field, as
`llm.py:290` has it. How long a retry waits is left out; so is the Anthropic
backend, whose retries are its library's. `ColdTurns` lets a turn move on only
when its call is over, and begin one where the code does.

## Runs

| Run | Module | Shows | Bounds |
|---|---|---|---|
| `turn_graph` | `MC_TurnGraph` | every property of the graph below, and that it implements the contract | 2 turns on one or two sessions, 2 names, 1 fix, 2 exploration calls |
| `turn_log` | `MC_Corpus` | unless a reset has misled it: the row of a turn alone on its session is true and is closed; answered rows stay; verdicts find their trace; the runner's summary is on the traces | a corpus of 2 cases, one without an answer, 2 other callers on one session, 3 of the 4 turns asked (`MaxAsked`), 1 reset at any time, a ceiling one turn may reach |
| `explore_loop` | `MC_ExploreLoop` | cost, pairing of requests and results, termination | budgets 0, 1, 4; batches up to 3 |
| `memory` | `MC_Memory` | keys, pins, bans, credits, fingerprints | 2 turns of up to 2 entries, 1 name and unnamed entries, 2 shapes, 1 edit, 1 of drift, migration or reset |
| `engine_and_calls` | `MC_ColdTurns` | one engine, a whole pool, bounded retries, capped answers, no turn stuck | 2 turns, pool of 1, 2 endpoints of either kind, 2 tries, 1 fix, explorations of up to 2 calls |
| `optimiser` | `MC_Optimiser` | a resumed search is its seed's and, where its corpus and split are, on its own cases; `--iterations` and the budget count from where it stands; what is printed earned it; harvests and certificates are sound; the search ends | 2 commands, either target, 3 texts of which one is refused, harvests of 0 to 3 cases, 2 splits for a turn target, cases ordered by both, one or neither, 1 case a minibatch, up to 2 iterations, `--iterations` 1 or not given, budget 3; tables of up to 2 rows of 2 cells or 1 of 3, stores of 2 spans |
| `turn_totals` | `MC_TurnGraph` | **violation**: a continued session's row counts earlier turns | 2 turns |
| `cold_turn` | `MC_TurnGraph` | **violation**: `memory: false` on a continued session credits old entries | 3 turns |
| `orphan_row` | `MC_TurnLog` | **violation**: two turns of one session leave an open row behind | 2 turns |
| `stray_verdict` | `MC_TurnLog` | **violation**: after a reset a verdict lands on another turn's trace | 2 turns, 1 reset |
| `explore_cap` | `MC_ExploreLoop` | **violation**: a parallel batch exceeds `max_tool_calls` | as `explore_loop` |
| `turn_gate` | `MC_Optimiser` | **violation**: a candidate that lost a case with half the right rows passes the gate | 1 command, budget 6 |

Why the bounds are enough: what can go wrong in the graph is between a turn and
the one whose channels it inherits, so two turns suffice (three for a credit:
one learns, one leans, one inherits); one fix already reaches every node with
every verdict, and two names tell an entry the turn leaned on from one it only
loaded. In `turn_log` the runner gives each of its cases a session, as the code
does, and the two other callers share one, so that one's failure may close the
other's row; the runner needs two cases for one to be passed over and the next
asked, and a turn in flight, a reset and a turn asked after it are enough for an
id to be answered by the wrong one. Three turns at once are all of these
(`MaxAsked`). In the loop a budget of 4 with batches of 3
meets the budget exactly, under and over. In the memory each property relates
two writers of one entry, or a writer and a person. Two turns are the fewest
that contend for the lock, for the one connection and for an endpoint's field;
two tries tell the last from the others. A saved search and the command that
resumes it are two commands, and the first of them may find a directory older
than the record, left by a third; the second may harvest over the corpus of
the first, or split it otherwise. The budget ends every search whose seed can be
run within `MaxIterations`, so the bound cuts none of them off and `SearchEnds` is
not due to it. TLC tries `--iterations` 1 only; the theorem is for any number. One
row more or less, one column more, and a duplicate are all the ways two
tables of the comparison differ, and two spans are the fewest that are about
one question. For the properties that are also proved, the bounds do not
matter.

Fairness. `TurnGraph` and `TurnLog` assume weak fairness of the turn's own
steps: a node is an awaited coroutine whose model and database calls all have
timeouts (`config.py:58`, `config.py:116`, `db.py:119`; SQLite's runaway query
has none, `dialects.py:131`, and is outside the assumption), and the server
keeps pulling the stream until it ends or the caller has left. `ExploreLoop`
assumes the same of the loop, and `ColdTurns` of each turn: dials, waits for the
pool, requests, retries and statements all time out (`db.py:184`, `llm.py:274`,
`llm.py:318`). `Optimiser` assumes that a process nobody interrupts goes on: its
rollouts and its reflection are calls of the same client. Nothing is assumed of
callers, people, resets or errors, nor of the corpus runner: a turn ends and its
row closes also when the runner is gone. `Memory` makes no liveness claim.

Deadlock is checked in every run; the bounds' ends are explicit stuttering
actions (`AllAsked`, `Quiet`, `Finished`, `Rest`).

## Properties

Graph: `DecisionsAreOwn` (no decision is taken from an earlier turn's channel),
`CreditsAreEarned`, `ColdTurnLeavesMemory`, `GivesUpOnlyWhenSpent`,
`RowTellsTheTurn` (the row is short of what was spent by an extraction that did
not parse, `Uncounted`, and by nothing else), `TurnEnds`, `KeepsContract`, and as
a theorem only `EndedTurnIsClosed`. Three hold
for the first turn of a session only, which every turn of the repository's own
client is (`cli/sql_agent/turn.py:56` sends no session): the false variants
`EveryRowTellsItsTurn` and `EveryColdTurnLeavesMemory` show why.

Log and corpus: `LoneRowIsTrue`, `AnsweredStays`, `VerdictFindsItsTrace`,
`LoneRowCloses`, `SummaryIsFiled`, and the false `NoRowLooksInFlight` and
`EveryVerdictFindsItsTrace`. Each of the first five says what a reset may do to it
and claims that nothing else does: a row may be wiped, or answered by a turn whose
own row was. `SummaryIsFiled` looks at the trace a verdict is on: what the summary
counts is on the trace of the case's own turn, or that turn was misled.

Loop: `CostIsKnown`, `RequestsAreAnswered`, `ReturnsItsCost`, `LoopEnds`, and
the false `BoundedByMaxToolCalls`.

Memory: `OneEntryPerName`, `CurationHolds` (`PinnedStays` and `DisabledStays`),
`HitsAreCredits`, `FingerprintIsTheAuthors`.

Engine and calls: `OneEngine`, `PoolIsWhole`, `TriesAreSpent`,
`AnswersAreCapped`, `FieldFailsNobody`, `EveryTurnEnds`.

Optimiser: `SearchIsItsSeeds`, `OneCorpusASearch` (unless the corpus was
harvested over or is split otherwise, which the code does not check),
`RunsAsAsked`, `ChargeIsForCalls`, `StdoutIsEarned`, `SearchEnds` (for a seed
that can be run), the false `GateRefusesLosses`, `CertifiedIsRight` (what the
runner's comparison certifies by the answer key's flag, the metric's finds exact
by the case's, for every case a search has and all tables of the bounds, unless
the case orders the rows and the key does not) and `HarvestIsJudged` (a harvest
against its definition as a set, over all stores of the bounds).

## What the code does otherwise than it says

1. `graph.py:75`, `store.py:417`: a row is said to hold what its turn cost. The
   sums are session channels that `load_cache` does not reset (`turn_totals`).
2. `schemas.py:22`, `README.md:169`: a turn without memory is said to leave the
   memory as it was. On a continued session `used_ids` is left over and credited
   (`cold_turn`).
3. `store.py:349`: closing "the most recent unfinished turn" is meant to leave no
   row looking in flight. Concurrent turns of a session close each other's rows
   (`orphan_row`).
4. `api.py:383`: feedback is said to go onto that turn's trace. Ids restart after
   a reset (`stray_verdict`).
5. `graph.py:337`: exploration is said to be bounded by `max_tool_calls`. A batch
   is not cut at the budget (`explore_cap`); the bound that does hold, and is
   proved, is `CostIsKnown`.
6. `gates.py:183`, `gates.py:190`: a candidate that got a case wrong which the
   seed got right is said to be discarded, because a wrong answer scores zero.
   `metric_turn.py:127` gives it up to 0.60 for the rows it has in common
   (`turn_gate`). What holds is `StdoutIsEarned`: it scored on every case the
   seed scored on.
7. `graph.py:76`: the counter is said to sum "every API call the turn made". A
   reply of `extract` that does not parse was paid for, and the node returns
   nothing (`graph.py:729-740`), so the call is in no row, also on a first turn.
   `turn_graph` shows the row to be short by that call and by no other
   (`RowTellsTheTurn`).
8. `corpus.py:157` and `tests/test_cli_corpus.py:421`: the two comparisons are held
   to each other, so that a verdict on a trace and a score in a search mean the
   same. They agree on any one flag, but the runner judges by the golden file's
   (`corpus.py:240`) and a search by `_orders` of the reference query
   (`harvest.py:280`). `demo/golden/08_order_statuses.json` is `ordered: false` with
   a reference that ends in `ORDER BY 1`: an answer in another order is certified,
   then scored 0.30, or 0 beside a surplus column. (`05` differs likewise, but its
   equal counts tie.) `optimiser` shows that to be the only way they part
   (`CertifiedIsRight`).
9. `targets.py:151-153`, `README.md:308`: a search is never to be of two
   populations, and `--resume` keeps its corpus. A resume splits it by its own
   `--seed` and `--val-fraction` (`cli.py:127-128`, `cli.py:307`), unchecked; and an
   `--overfit` run or a turn target's `--probe-only`, without `--resume`, harvests
   into the corpus file of a saved search (`targets.py:187`, `targets.py:329`),
   which the next `--resume` continues on other cases. `optimiser` shows the
   validation cases to be the search's own otherwise (`OneCorpusASearch`).

Read in the code, and not the subject of a run: a reset while turns are in
flight (`api.py:344`, `store.py:286`) makes `finish_turn` answer whichever row
has the id by then, which the properties of the log except by name (`Misled`); a
failure of `infer_tables` or of the fingerprint after a good extraction fails
the turn, although `graph.py:708` calls extraction "a bonus, not the
deliverable"; a disconnect leaves the row open for good; `make migrate`
re-applies `003_drivers.sql:71`, so every run of it forgets all fingerprints,
and `store.py:4` says every entry records one; `GET /turns` without
`finished=false` shows failed turns too, since a failure is an answer (against
`store.py:375` and `api.py:363`); calls that meet an endpoint's refusal at once
are each refused, so it does not happen once per endpoint and process
(`llm.py:456`), which costs a request and nothing else (`FieldFailsNobody`); an
`execute` that gets no connection from the pool is answered by a `fix`, as if
the query were wrong (`PoolTimeout`).

Of the corpus runner: `max_spend` is said to stop a run "once it has spent that
much" (`README.md:103`), but a turn that failed or was not priced counts nothing
(`corpus.py:211`, `corpus.py:228`); a case without a written answer is counted
before its reference is filed (`corpus.py:234`), so a refusal leaves the summary
one ahead; a 202 says the score is buffered, not stored.

Of the optimiser: a candidate refused by `TurnAdapter` is said to cost nothing
(`adapter.py:337`) and is charged its whole batch, since only the extract
adapter tells GEPA otherwise (`adapter.py:170`), so `ChargeIsForCalls` is an
equality for one target and a bound for the other. The baseline is said to be
what the seed spent (`metric_turn.py:84`), and is what the first answer spent,
whoever gave it; a resumed run begins without any. A fresh run wipes the saved
search before it knows that there is anything to harvest. A candidate with
exactly the seed's score is printed. A second copy of the seed's text in the
pool is not skipped by `turn_gate`. A search for extract whose seed is itself
refused is never charged and, without `--iterations`, ends only when a proposal
runs.

## Proofs

All theorems are about the specifications as the runs check them, for any finite
or infinite sets and any bounds, under the assumptions named in the modules
(`ModesAssumption`, `BoundsAssumption`, `BudgetAssumption`, `TurnsAssumption`,
`NamesAssumption`, `ShapesAssumption`, `PoolAssumption`, `TriesAssumption`,
`EndpointsAssumption`, `CallersAssumption`, `AsksAssumption`, `NoneAssumption`,
`OpinionsAssumption`, `CasesAssumption`, `CostsAssumption`,
`ConstantsAssumption`,
`NothingAssumption`, `OrderingAssumption`, `OutcomesAssumption`, `GrainAssumption`,
`InputsAssumption`): bounds are natural numbers, the markers
are not members of the sets they stand beside, and the turns of `Memory` and
`TargetEngine` are a finite set, which counting them needs, no two cases of
a corpus run share a turn or a session, what a run or a harvest comes to has the
type of what the code reads of it, and the rows of a table that a query returned
have one width. TLC evaluates them in the passing runs.

Every safety invariant and every action property of a passing run is stated by a
theorem.

**TurnGraph_proofs.** None of the properties is inductive. `IndInv` says where
a turn stands at each node: the row it opened is the last and open
(`RowIsOwn`), queries tried against fixes made (`FlywheelCount`), which
channels this turn has written by then (`OwnChannels`), and, for a session's
first turn, that the names it will credit are its plan's (`UsedIsPicked`), that
without memory there are none (`ColdIsEmpty`), and that the running sum is its
own calls but for the one of the current node (`SumIsOwn`, `ExploredIsOwn`,
`ClosedRowIsOwn`); `RowsInOrder` keeps rows and turns in step. `TypeStep`,
`CoreStep`, `SumStep`, `ExploredStep`, `ClosedRowStep` and `RowsStep` show each
part kept by each action. From `IndInv` follow all the safety and action
properties, and `ContractKept`: every step of the graph is a step of
`TurnContract` under the mapping `Stage`, `Log`, or stutters. What is hard
there is the log: a failure rewrites the table by a search, and `LogFails`
shows it is the contract's closing of one open row.

**ExploreLoop_proofs.** The invariants bound replies by tool calls (each turn of
the loop makes at least one) and pair the messages.

**Memory_proofs.** `WriteCases` says what a write can do to the table: one new
row of a name nobody has, or one unprotected row rewritten. The invariant adds
to the properties that a batch carries its turn's stamp (`BatchIsStamped`), that
authors stamp no more (`AuthorsHaveLearned`), and that a turn credits once, rows
that are there (`NotYetCredited`, `CreditsAreOfRows`); without the last a new
row could be born with credits. `HitsStep` counts creditors. `PinsHold` and
`BansHold` are action properties from the types alone; `CurationStands` is both.

**TurnLog_proofs.** What a turn's row says depends on nobody else having written
it, and that on ids meaning what they meant: `Sound`. `Owned` says each row is
the row of the turn that opened it, and answered exactly if that turn's answer
went out, unless it is a stray; `Present` that a turn's row is there until a
reset; `Lone` that a row nobody shares a session with is open until its own turn
fails. `Closes` shows what a failure can do to the table, and `OwnRowFails` that
on a session of its own a turn closes its own row. `RowsAreTrue`,
`AnsweredRowsStay` and `VerdictsFindTraces` assume nothing of resets: they
happen whenever they like, and what they spoil is what `epoch` and `strays`
record, no more.

**Corpus_proofs.** `RunnerIsAClient` is the refinement from `Corpus` to
`TurnLog`: all that has to be carried is that the runner listens to and files on
a case it has asked. `LogHolds` carries the invariant of the log over, whichever
opinions the others send, and `RunVerdictsFindTraces` says so of the verdicts.

`SummaryIsTrue` relates the runner's counts to what was filed. `RunInv` says that
nothing is filed about a case before its turn is over and everything its key asks
for after (`Told`, `Settled`), and that the counts are the sizes of the sets of
cases judged and approved (`Tally`), but for the one whose reply a run stopped on.
`WorldIsApart` shows that, whatever the others do, a turn that is over stays what
it was and what was filed about a case stays. Then each step of the runner either
files about the case it is at, which is no other case since their turns differ
(`CasesDiffer`), and `TallyGrows` counts it; or it files nothing.

**Scoring_proofs.** The algorithms are folds and sums over sequences of any
length. The library's induction theorems take an operator and cannot be used, but
well-foundedness of the natural numbers is a fact about a set: `LeastNumber` gives
the least place where a claim fails, which is induction, and `SubsetInduction` the
same over the subsets of a finite set. The folds of the community modules are
recursive functions on subsets; `FoldExists` shows there are such functions
over any finite set, so that `SumUnfolds` and `CasesUnfold` may say what they
compute: the empty case, and one more element. With these,

- `CertifiedIsExact`: whatever the runner's comparison certifies the metric finds
  exact. Rows alike, counted, have one width (`SameRowsSameArity`), so the metric
  compares them as the runner did; a dropped column is one it tries too.
- `CertificatesAreHeld`: with a flag each, what is certified is exact, or only the
  search wants an order and the answer has another: rows alike share all of them
  (`SameRowsOverlap`), so out of order they keep half of their similarity
  (`OutOfOrderIsHalf`), and no dropped column makes them exact.
- `CasesFollowVerdicts`: a harvest is its definition. `KeepsOne` is the invariant of
  the loop (the cases are the first offers of their questions), `OffersAre` says
  which turn is at which place of the two passes, so that the first offer of a
  question is its newest vouched-for turn, one with a reference before any other.
- `TurnScoreIsAShare`, `ExtractScoreIsAShare`: a score is between 0 and 100, because
  two tables share no more rows than the longer one has (`OverlapIsBounded`).

**Optimiser_proofs.** Two invariants. `IndInv` is about identity: a process may
die anywhere, so what matters is what holds of the files in every state (`Disk`)
and what the process has learned of them by each place (`Before`, `During`): a
record is either absent, this run's, or about to be compared with the loaded
search. `ExitKeeps` disposes of all deaths at once. `IterationAdds` and
`FirstStays` show that an iteration counts itself once and never touches candidate
0. `SearchIsItsSeedsHolds`, `RunsAsAskedHolds` and `OneCorpusASearchHolds` follow,
and none of them needs to know what a score is.

`WorkInv` is about work, and rests on `IndInv`: every score is a share, every
baseline what some turn cost (`Typed`), the charge of a search covers its calls
(`Counted`), and no text that cannot be run is in a pool, but for the one a search
began with (`Scored`). The last is what `StdoutIsEarned` needs and what is not
obvious: nothing refuses such a text when it is proposed. It is kept out because
its row is all zeros, so that it never beats its parent on the minibatch, whose
scores are shares; that is why the bounds of the scores had to be proved first.
`EvaluatedIs` says what one evaluation may come to, `IterationIs` what an iteration
adds, `BestIs` and `SeedIsFirst` that what the two choices describe is there to be
chosen, and `SurvivorsAre` what each gate lets through. From `WorkInv`:
`TypeCorrect`, `ChargeIsForCallsHolds`, `StdoutIsEarnedHolds`.
`HarvestIsJudgedHolds` is the theorem of `Scoring_proofs` at the command that relies
on it. `CertifiedIsRightHolds` takes `CertificatesAreHeld` to the cases a search
has, whose flags, `WorkInv` says, are Booleans however they were harvested,
shuffled (`ShufflesAre`) and split (`SplitsAre`).

`OneCorpusASearchHolds` needs an account of the corpus file: as long as
`reharvested` is false the file is what the saved search was begun on
(`HarvestKeeps` shows each harvest to say so when it is not), so that the same
split gives the same cases. It holds whatever commands are given, in any order,
and wherever they die.

The model is written for these proofs where it matters. What a reference that is
filed and blank, or a run that broke and returned rows, comes to is decided by
conditionals in the code's order, since two arms of a `CASE` would both apply. A
`--val-fraction` above one cuts at the end of the cases, as a Python slice does
(`Split`). The `OverfitN` worst cases are said to be the first places in the order
of the scores (`Worst`), which a sort could only compute. Nothing claims that a
search has a score for each of its cases: it may be resumed on a longer or shorter
validation set, and then holds rows of different lengths, which is why candidates
are compared by `Mean` and the gate asks whether a case has a score at all
(`Earns`).

**ColdTurns_proofs.** Every action of `ModelCall` changes one record:
`BeginGood`, `RateLimitedGood` and the like show the new one good
(`NameGood`, `TriesGood`), `CallStepGood` that the others stay so. `LockInv`
ties the lock to the one dialling turn and to there being no engine;
`PoolInv` ties each connection to the place of its turn, and `OneMore` and
`OneLess` count the holders. `NextInv` puts the two halves together: a step of
one leaves the other's variables alone, or is a step of both.

Only model-checked: the liveness properties (`TurnEnds`, `LoneRowCloses`,
`LoopEnds`, `EveryTurnEnds`, `SearchEnds`), which are out of the prover's reach:
fairness needs `ENABLED`. The false properties of the six violation runs are
refuted by TLC.

## Not modelled

The wording of prompts, events, feedback and errors; what SQL means; the HTTP
layer's tokens, probes and listings; the tools' reflection queries; Langfuse,
LangGraph and GEPA themselves (a checkpoint is the channels after a node; a
checkpoint that cannot be written is a `Raise`); the optimiser's reports, its
held-out evaluation and the replay of one rollout, which is `TurnGraph` with an
override in place of a prompt; the gate on entries' evidence (`grounded_in`,
`infer_tables`), which is string matching; deployment and demo data. A dial
that is cancelled half way (`db.py:187` disposes of the engine on an `Exception`
only) is not an outcome of `Dialled` or `DialFails`.

## What comes next

In this order; each entry names the properties it is for.

1. The safety half of what the liveness properties say: a measure that every step
   of a turn, of the loop and of a search lowers, and that no place but the last
   is without a step.
2. `ColdTurns` as an implementation of the step `TurnGraph` takes for a model call,
   and `ExploreLoop` of the one it takes for `explore`.
3. `Grounding` (`grounded_in`, `infer_tables`, `fingerprint`): the verification
   gate against a reference definition of subsequence.
4. In the existing modules: the shape a turn explored (an entry is fingerprinted
   at extraction, which may be a later shape), and the five commits of
   `reset_learned` one by one.
