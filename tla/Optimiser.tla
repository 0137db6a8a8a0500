------------------------------ MODULE Optimiser ------------------------------
(***************************************************************************)
(* The prompt optimiser's command (tools/gepa/cli.py) for one target:      *)
(* "extract", scored one replayed call a case, or a turn target ("tools",  *)
(* "config"), scored one whole cold turn a case.                           *)
(*                                                                         *)
(* One process is one command.  What outlives it is the corpus file and    *)
(* the run directory: the record of the seed beside GEPA's saved search.   *)
(* A command may die between any two steps.  GEPA and the models are       *)
(* external: GEPA is what cli.py relies on it to do, a model may propose   *)
(* any text and a run over a case may come to any outcome.                 *)
(*                                                                         *)
(* Left out: the report and the transcript, the evaluations nothing but    *)
(* they read (the held-out cases, the working text of --from), and GEPA's  *)
(* own stopper, a file gepa.stop somebody puts into the run directory.  An *)
(* overfit run has a directory of its own, which each one wipes before it  *)
(* begins and nothing else reads, so it is not kept here.                  *)
(***************************************************************************)
EXTENDS Metric, Harvest

CONSTANTS
  Texts,                \* the candidates there are
  NoText,
  Seeds,                \* by target, those a run may start from: the working
                        \*   text, and where it has one component --from
  Refused,              \* those an adapter will not run: empty, too long,
                        \*   or a block the config schema refuses
  Reference,            \* the rows a case's reference query returns now
  KeyOrdered,           \* by question, what the answer key says of the order
  Rollouts,             \* what one cold turn may come to
  Replays,              \* what one replayed extract call may come to
  Probes,               \* the authored probes of extract
  Stores,               \* by target, what a harvest may find recorded
  Minibatch,            \* by target, the training cases of one iteration
  Splits,               \* by target, how a command may split its corpus:
                        \*   --val-fraction in hundredths, and --seed
  Iterations,           \* --iterations, or 0 where it is not given
  Grain,                \* parts of a hundredth a mean is taken in
  MinSplit,             \* fewer cases than this are not split (4)
  OverfitN,             \* --overfit
  Budget,               \* --budget, in metric calls
  Tables, Spans,        \* the result sets and turn spans the pure algorithms
                        \*   are checked over
  MaxCommands,          \* bound: commands
  MaxIterations         \* bound: iterations of one run

Targets == {"extract", "turn"}

Questions == DOMAIN Reference

ASSUME ConstantsAssumption ==
  /\ NoText \notin Texts
  /\ Refused \subseteq Texts
  /\ Budget \in Nat /\ MinSplit \in Nat /\ OverfitN \in Nat \ {0}
  /\ Iterations \subseteq Nat
  /\ \A t \in Targets : /\ Minibatch[t] \in Nat
                         /\ Seeds[t] \subseteq Texts
                         /\ Splits[t] \subseteq [percent : Nat, shuffle : Nat]
  /\ MaxCommands \in Nat

\* Whatever a case's query is, somebody ran it; what comes of a run has a type.
ASSUME OutcomesAssumption ==
  /\ \A q \in Questions : Reference[q] \in Table /\ KeyOrdered[q] \in BOOLEAN
  /\ Rollouts \subseteq Outcome
  /\ Replays \subseteq Replay
  /\ Stores["turn"] \subseteq Seq(Span(Questions))
  /\ Stores["extract"] \subseteq Seq(Call)

(* Any corpus, and so any validation set, divides Grain: no mean is rounded. *)
ASSUME GrainAssumption ==
  /\ Grain \in Nat
  /\ \A t \in Targets : \A store \in Stores[t] :
       \A n \in 1..Len(store) : Grain % n = 0

ASSUME InputsAssumption ==
  /\ Tables \subseteq Table /\ \A rows \in Tables : Rectangular(rows)
  /\ Spans \subseteq Span(Questions)

VARIABLES
  target,               \* the target these commands are for
  corpus,               \* the corpus file: cases, or none
  dir,                  \* the run directory: [seed, saved]
  reharvested,          \* history: was a harvest put in the place of the
                        \*   corpus since the saved search was begun?
  commands,             \* commands started
  pc, cmd,              \* where the process is, and its options
  checkAfter,           \* the saved search had no record of its seed
  train, val,           \* the split
  gepa,                 \* the search in memory
  run,                  \* [calls, rounds, found]: rollouts and iterations of
                        \*   this process's search, and where it took it up
  baseline,             \* by question: what the first answer to it cost
  passed,               \* by candidate: the probes it passed
  best                  \* the candidate on stdout, or 0

files == <<corpus, dir, reharvested>>
memory == <<train, val, run, baseline>>
vars == <<target, corpus, dir, reharvested, commands, pc, cmd, checkAfter, train, val, gepa,
          run, baseline, passed, best>>

(* A search: its candidates in the order they were found, each with its
   score on every validation case; the iterations and metric calls it has
   had; and, which GEPA does not keep, the validation cases it was begun on
   and how they were split off.  i is GEPA's own counter plus one. *)
NoSplit == [percent |-> 0, shuffle |-> 0]

NoSearch == [pool |-> <<>>, i |-> 0, evals |-> 0, of |-> <<>>, split |-> NoSplit]

NoRun == [calls |-> 0, rounds |-> 0, found |-> [i |-> 0, evals |-> 0]]

(* seed is the text to start from, --from; the number --seed is in split, of
   which an overfit run takes no notice. *)
Commands ==
  [resume : BOOLEAN, overfit : {FALSE}, seed : Seeds[target],
   iterations : Iterations, split : Splits[target]]
  \union
  [resume : BOOLEAN, overfit : {TRUE}, seed : Seeds[target],
   iterations : Iterations, split : {NoSplit}]

NoCommand == [resume |-> FALSE, overfit |-> FALSE, seed |-> NoText,
              iterations |-> 0, split |-> NoSplit]

EmptyDir == [seed |-> NoText, saved |-> NoSearch]

Resuming == cmd.resume /\ ~cmd.overfit

-----------------------------------------------------------------------------
(* The operations the steps are built from. *)

Cases(store) ==
  IF target = "turn" THEN TurnCases(store) ELSE ExtractCases(store)

(* The shuffle by --seed permutes positions, by their number alone: a rotation
   by the seed stands for it. *)
Shuffled(cases, by) ==
  [i \in DOMAIN cases |-> cases[1 + ((i - 1 + by) % Len(cases))]]

\* A cut beyond the end is at the end.
Split(cases, options) ==
  LET cut == Min({Len(cases), Max({1, (Len(cases) * options.percent) \div 100})})
      shuffled == Shuffled(cases, options.shuffle)
  IN IF Len(cases) < MinSplit
     THEN [train |-> cases, val |-> cases]
     ELSE [train |-> SubSeq(shuffled, cut + 1, Len(cases)),
           val |-> SubSeq(shuffled, 1, cut)]

\* A run's score, for each baseline there may be.
Baselines ==
  {NoBaseline} \union {Spent(r) : r \in Rollouts}

TurnScores ==
  [r \in Rollouts |-> [q \in Questions |-> [ordered \in BOOLEAN |->
     [base \in Baselines |-> TurnScore(r, Reference[q], ordered, base)]]]]

ExtractScores == [r \in Replays |-> ExtractScore(r)]

\* A bug: a refused text is run like any other.
ScoresUnrefused(text, cases, runs, base) ==
  [i \in DOMAIN cases |->
     LET q == cases[i].question
     IN IF target = "turn" THEN TurnScores[runs[i]][q][cases[i].ordered][base[q]]
        ELSE ExtractScores[runs[i]]]

(* An evaluation scores a text over a batch, whose runs came out as `runs`.
   A refused text is not run: every case scores zero. *)
Scores(text, cases, runs, base) ==
  [i \in DOMAIN cases |->
     LET q == cases[i].question
     IN IF text \in Refused THEN 0
        ELSE IF target = "turn" THEN TurnScores[runs[i]][q][cases[i].ordered][base[q]]
        ELSE ExtractScores[runs[i]]]

\* A bug: a refused batch is charged at its length, for either target.
ChargeAtLength(text, cases) == Len(cases)

\* GEPA charges a batch at its length unless the adapter says otherwise, and
\* of the two only extract's does, for a text it refused.
Charge(text, cases) ==
  IF text \in Refused /\ target = "extract" THEN 0 ELSE Len(cases)

\* TurnAdapter._remember: the first turn to answer a case sets its baseline.
Learned(cases, runs, base) ==
  LET answers(q) == {i \in DOMAIN cases : cases[i].question = q /\ Answers(runs[i])}
  IN [q \in Questions |-> IF base[q] # NoBaseline \/ answers(q) = {} THEN base[q]
                          ELSE Spent(runs[Min(answers(q))])]

Evaluated(text, cases, runs, base) ==
  [row |-> Scores(text, cases, runs, base),
   charge |-> Charge(text, cases),
   calls |-> IF text \in Refused THEN 0 ELSE Len(cases),
   baseline |-> IF text \in Refused \/ target = "extract" THEN base
                ELSE Learned(cases, runs, base)]

Runs(cases) ==
  [DOMAIN cases -> IF target = "turn" THEN Rollouts ELSE Replays]

Total(row) == SumFunction(row)

(* A candidate's score: rows are of different lengths where a search was taken
   up on a validation set of another length. *)
Mean(row) == (Grain * Total(row)) \div Len(row)

Perfect(row) == \A i \in DOMAIN row : row[i] = 100

\* GEPA's parents: on top of the table at one place of it at least.
Eligible(pool) ==
  {c \in DOMAIN pool :
     \E i \in DOMAIN pool[c].row :
       \A d \in DOMAIN pool :
         i \in DOMAIN pool[d].row => pool[d].row[i] <= pool[c].row[i]}

SeedIndex(pool) == CHOOSE c \in DOMAIN pool :
                     /\ pool[c].text = cmd.seed
                     /\ \A d \in DOMAIN pool : pool[d].text = cmd.seed => c <= d

\* A bug: the stoppers count from the start of the search, as GEPA's own do.
BegunAtZero(found) == [i |-> 0, evals |-> 0]

\* What the two _More stoppers count from: the search as this run found it.
Begun(found) == found

\* A bug: without --iterations nothing counts the calls.
ShouldStopUnbudgeted ==
  \/ \E c \in DOMAIN gepa.pool : Perfect(gepa.pool[c].row)
  \/ /\ cmd.iterations > 0
     /\ \/ gepa.i >= Begun(run.found).i + cmd.iterations
        \/ gepa.evals >= Begun(run.found).evals + Budget

(* Some candidate is perfect; or --iterations was given, and that many more,
   or that many calls more, have been spent; or it was not, and the budget
   has been spent by this search, whoever began it. *)
ShouldStop ==
  \/ \E c \in DOMAIN gepa.pool : Perfect(gepa.pool[c].row)
  \/ IF cmd.iterations > 0
     THEN \/ gepa.i >= Begun(run.found).i + cmd.iterations
          \/ gepa.evals >= Begun(run.found).evals + Budget
     ELSE gepa.evals >= Budget

(* probe_gate: no probe the seed passes may fail.  A candidate that reads
   like the seed is passed over.  passes is what each candidate passed, and
   at 0 what the seed did. *)
ProbeGate(passes) ==
  {c \in DOMAIN gepa.pool : /\ gepa.pool[c].text # cmd.seed
                            /\ passes[0] \subseteq passes[c]}

Earns(row, i) == i \in DOMAIN row /\ row[i] > 0

(* turn_gate: no validation case the seed scored on may score nothing, or have
   no score.  Only the seed's own place in the pool is passed over. *)
TurnGate ==
  LET seed == SeedIndex(gepa.pool)
  IN {c \in DOMAIN gepa.pool \ {seed} :
        \A i \in DOMAIN gepa.pool[seed].row :
          Earns(gepa.pool[seed].row, i) => Earns(gepa.pool[c].row, i)}

\* An overfit run keeps everything but the seed, whatever the gate says.
Survivors(passes) ==
  CASE cmd.overfit -> DOMAIN gepa.pool \ {SeedIndex(gepa.pool)}
    [] ~cmd.overfit /\ target = "turn" -> TurnGate
    [] OTHER -> ProbeGate(passes)

\* The best score, and among equals the first found.
Best(candidates) ==
  LET score(c) == Mean(gepa.pool[c].row)
  IN CHOOSE c \in candidates : \A d \in candidates :
       score(d) < score(c) \/ (score(d) = score(c) /\ c <= d)

-----------------------------------------------------------------------------
\* Back at the shell: all that is left is the files.
Exit ==
  /\ pc' = "idle"
  /\ cmd' = NoCommand
  /\ checkAfter' = FALSE
  /\ train' = <<>> /\ val' = <<>>
  /\ gepa' = NoSearch
  /\ run' = NoRun
  /\ baseline' = [q \in Questions |-> NoBaseline]
  /\ passed' = <<>>
  /\ best' = 0

(* A run directory may be one a search left before seeds were recorded. *)
Init ==
  /\ target \in Targets
  /\ \E store \in Stores[target] : corpus \in {<<>>, Cases(store)}
  /\ \/ dir = EmptyDir
     \/ /\ corpus # <<>>
        /\ \E text \in Seeds[target], split \in Splits[target] :
             LET cases == Split(corpus, split).val
             IN dir = [seed |-> NoText,
                       saved |-> [pool |-> <<[text |-> text,
                                              row |-> [i \in DOMAIN cases |-> 0]]>>,
                                  i |-> 1, evals |-> Len(cases), of |-> cases,
                                  split |-> split]]
  /\ reharvested = FALSE
  /\ commands = 0
  /\ pc = "idle"
  /\ cmd = NoCommand
  /\ checkAfter = FALSE
  /\ train = <<>> /\ val = <<>>
  /\ gepa = NoSearch
  /\ run = NoRun
  /\ baseline = [q \in Questions |-> NoBaseline]
  /\ passed = <<>>
  /\ best = 0

\* A harvest that would leave a saved search with other cases.
Replaces(harvest) == harvest # <<>> /\ dir.saved # NoSearch

\* _check_saved_seed: there is a record, and it is of another text.
DifferentSeed(seed) == dir.seed \notin {NoText, seed}

(* A resume whose seed is not the recorded one is refused here, before
   anything is touched. *)
Start ==
  /\ pc = "idle"
  /\ commands < MaxCommands
  /\ \E c \in Commands :
       /\ ~(c.resume /\ ~c.overfit /\ DifferentSeed(c.seed))
       /\ cmd' = c
  /\ commands' = commands + 1
  /\ pc' = IF cmd'.overfit THEN "corpus"
           ELSE IF cmd'.resume THEN "record" ELSE "wipe"
  /\ UNCHANGED <<target, files, checkAfter, memory, gepa, passed, best>>

(* --probe-only.  For a turn target it takes the corpus as a search would,
   harvest included; extract's probes are authored. *)
ProbeOnly(resume) ==
  /\ pc = "idle"
  /\ commands < MaxCommands
  /\ commands' = commands + 1
  /\ IF target = "extract" \/ (resume /\ corpus # <<>>)
     THEN UNCHANGED <<corpus, reharvested>>
     ELSE \E store \in Stores[target] :
            LET cases == Cases(store)
            IN /\ corpus' = IF cases = <<>> THEN corpus ELSE cases
               /\ reharvested' = (reharvested \/ Replaces(cases))
  /\ UNCHANGED <<target, dir, pc, cmd, checkAfter, memory, gepa, passed, best>>

\* _fresh_run_dir
Wipe ==
  /\ pc = "wipe"
  /\ dir' = EmptyDir
  /\ reharvested' = FALSE
  /\ pc' = "record"
  /\ UNCHANGED <<target, corpus, commands, cmd, checkAfter, memory, gepa,
                 passed, best>>

\* rmtree takes one file at a time, and may be cut short after either.
WipeDies ==
  /\ pc = "wipe"
  /\ dir' \in {[dir EXCEPT !.seed = NoText], [dir EXCEPT !.saved = NoSearch]}
  /\ Exit
  /\ UNCHANGED <<target, corpus, reharvested, commands>>

\* A bug: a search without a record is taken to be this run's own.
UnrecordedNever == FALSE

\* A saved search from before seeds were recorded, or that lost its record.
Unrecorded == cmd.resume /\ dir.seed = NoText /\ dir.saved # NoSearch

(* _record_seed: the record is written where it can be known to be true; a
   saved search without one is checked once GEPA has loaded it. *)
RecordSeed ==
  /\ pc = "record"
  /\ IF Unrecorded
     THEN checkAfter' = TRUE /\ UNCHANGED dir
     ELSE dir' = [dir EXCEPT !.seed = cmd.seed] /\ UNCHANGED checkAfter
  /\ pc' = "corpus"
  /\ UNCHANGED <<target, corpus, reharvested, commands, cmd, memory, gepa, passed, best>>

\* A bug: there is a harvest whenever there is something to harvest.
CorporaFresh == {Cases(store) : store \in Stores[target]}

(* What the target's corpus comes to: the file on --resume, else a harvest. *)
Corpora ==
  IF cmd.resume /\ corpus # <<>> THEN {corpus}
  ELSE {Cases(store) : store \in Stores[target]}

(* A harvest is written to the file unless it is empty, before anything is
   asked of it. *)
LoadCorpus ==
  /\ pc = "corpus"
  /\ \E cases \in Corpora :
       /\ corpus' = IF cases = <<>> THEN corpus ELSE cases
       /\ reharvested' = (reharvested \/ (~cmd.resume /\ Replaces(cases)))
       /\ IF cases = <<>> \/ (cmd.overfit /\ OverfitN >= Len(cases))
          THEN Exit
          ELSE /\ IF cmd.overfit
                  THEN pc' = "sweep" /\ UNCHANGED <<train, val>>
                  ELSE /\ pc' = "engine"
                       /\ train' = Split(cases, cmd.split).train
                       /\ val' = Split(cases, cmd.split).val
               /\ UNCHANGED <<cmd, checkAfter, gepa, run, baseline, passed, best>>
  /\ UNCHANGED <<target, dir, commands>>

\* The first OverfitN places in the order of the scores, ties as they come.
Worst(row) ==
  LET before(i, j) == row[i] < row[j] \/ (row[i] = row[j] /\ i < j)
  IN {worst \in [1..OverfitN -> DOMAIN row] :
        \A n \in 1..OverfitN :
          {i \in DOMAIN row : before(i, worst[n])} = {worst[m] : m \in 1..(n - 1)}}

(* _overfit_split: the seed over every case, and the search on the OverfitN it
   did worst on, which are trained and validated on alike. *)
Sweep ==
  /\ pc = "sweep"
  /\ \E runs \in Runs(corpus) :
       LET seed == Evaluated(cmd.seed, corpus, runs, baseline)
       IN /\ \E worst \in Worst(seed.row) :
               train' = [n \in 1..OverfitN |-> corpus[worst[n]]]
          /\ val' = train'
          /\ baseline' = seed.baseline
  /\ pc' = "engine"
  /\ UNCHANGED <<target, files, commands, cmd, checkAfter, gepa, run, passed,
                 best>>

(* GEPA takes up a saved search, and ignores the seed it is handed, and what
   the validation cases were; or it scores the seed on those there are.  _More
   sees what it found. *)
Engine ==
  /\ pc = "engine"
  /\ IF Resuming /\ dir.saved # NoSearch
     THEN /\ gepa' = dir.saved
          /\ run' = [run EXCEPT !.found = [i |-> dir.saved.i, evals |-> dir.saved.evals]]
          /\ UNCHANGED <<dir, reharvested, baseline>>
     ELSE \E runs \in Runs(val) :
            LET seed == Evaluated(cmd.seed, val, runs, baseline)
            IN /\ gepa' = [pool |-> <<[text |-> cmd.seed, row |-> seed.row]>>,
                           i |-> 0, evals |-> seed.charge, of |-> val,
                           split |-> cmd.split]
               /\ baseline' = seed.baseline
               /\ dir' = IF cmd.overfit THEN dir ELSE [dir EXCEPT !.saved = gepa']
               /\ reharvested' = (cmd.overfit /\ reharvested)
               /\ run' = [run EXCEPT !.found = [i |-> 0, evals |-> seed.charge]]
  /\ pc' = "search"
  /\ UNCHANGED <<target, corpus, commands, cmd, checkAfter, train, val, passed,
                 best>>

\* An iteration's evaluations, summed, and the pool it leaves.
Spend(charge, calls, base, pool) ==
  /\ gepa' = [gepa EXCEPT !.pool = pool, !.i = @ + 1, !.evals = @ + charge]
  /\ run' = [run EXCEPT !.calls = @ + calls, !.rounds = @ + 1]
  /\ baseline' = base

(* A text proposed after reading what became of its parent: run on the same
   cases, and if it did better, on the validation cases, and kept. *)
Propose(parent, text, cases, runs) ==
  LET child == Evaluated(text, cases, runs, parent.baseline)
      charge == parent.charge + child.charge
      calls == parent.calls + child.calls
  IN IF Total(child.row) <= Total(parent.row)
     THEN Spend(charge, calls, child.baseline, gepa.pool)
     ELSE \E onVal \in Runs(val) :
            LET whole == Evaluated(text, val, onVal, child.baseline)
            IN Spend(charge + whole.charge, calls + whole.calls, whole.baseline,
                     Append(gepa.pool, [text |-> text, row |-> whole.row]))

(* One iteration.  A parent is run on some training cases, and unless it was
   perfect on them a text is proposed.  The search is saved between two
   iterations. *)
Iterate ==
  /\ pc = "search"
  /\ ~ShouldStop
  /\ run.rounds < MaxIterations
  /\ \E p \in Eligible(gepa.pool),
        batch \in [1..Minibatch[target] -> DOMAIN train] :
       LET cases == [n \in DOMAIN batch |-> train[batch[n]]]
       IN \E runs \in Runs(cases) :
            LET parent == Evaluated(gepa.pool[p].text, cases, runs, baseline)
            IN IF Perfect(parent.row)
               THEN Spend(parent.charge, parent.calls, parent.baseline, gepa.pool)
               ELSE \E text \in Texts, again \in Runs(cases) :
                      Propose(parent, text, cases, again)
  /\ dir' = IF cmd.overfit THEN dir ELSE [dir EXCEPT !.saved = gepa']
  /\ UNCHANGED <<target, corpus, reharvested, commands, pc, cmd, checkAfter, train, val,
                 passed, best>>

Stop ==
  /\ pc = "search"
  /\ ShouldStop
  /\ pc' = "check"
  /\ UNCHANGED <<target, files, commands, cmd, checkAfter, memory, gepa,
                 passed, best>>

(* Candidate 0 is the seed the saved search began with; only if it is this
   run's may it be recorded.  A pool of one has nothing to offer. *)
Check ==
  /\ pc = "check"
  /\ LET ours == checkAfter => gepa.pool[1].text = cmd.seed
     IN /\ dir' = IF checkAfter /\ ours THEN [dir EXCEPT !.seed = cmd.seed]
                  ELSE dir
        /\ IF ours /\ Len(gepa.pool) > 1
           THEN /\ pc' = "gate"
                /\ UNCHANGED <<cmd, checkAfter, memory, gepa, passed, best>>
           ELSE Exit
  /\ UNCHANGED <<target, corpus, reharvested, commands>>

(* What the probes say of the seed, and of every candidate that does not read
   like it. *)
ProbeResults ==
  {passes \in [0..Len(gepa.pool) -> SUBSET Probes] :
     \A c \in DOMAIN gepa.pool :
       gepa.pool[c].text = cmd.seed => passes[c] = {}}

(* The gate, then the one write to stdout: the best survivor, unless there is
   none or the seed did better. *)
Promote ==
  /\ pc = "gate"
  /\ \E passes \in IF target = "extract" THEN ProbeResults ELSE {<<>>} :
       LET survivors == Survivors(passes)
           seed == SeedIndex(gepa.pool)
       IN IF /\ survivors # {}
             /\ Mean(gepa.pool[Best(survivors)].row) >= Mean(gepa.pool[seed].row)
          THEN /\ best' = Best(survivors)
               /\ passed' = passes
               /\ pc' = "printed"
               /\ UNCHANGED <<cmd, checkAfter, memory, gepa>>
          ELSE Exit
  /\ UNCHANGED <<target, files, commands>>

End == pc = "printed" /\ Exit /\ UNCHANGED <<target, files, commands>>

(* Interrupted, or stopped by an error of the harness: a question before
   spending that is declined, a drifted reference, a broken connection. *)
Abort == pc # "idle" /\ Exit /\ UNCHANGED <<target, files, commands>>

Rest == pc = "idle" /\ commands = MaxCommands /\ UNCHANGED vars

Step ==
  \/ Wipe \/ RecordSeed \/ LoadCorpus \/ Sweep \/ Engine \/ Iterate \/ Stop
  \/ Check \/ Promote \/ End

Next ==
  \/ Start
  \/ \E resume \in BOOLEAN : ProbeOnly(resume)
  \/ WipeDies
  \/ Abort
  \/ Rest
  \/ Step

Spec == Init /\ [][Next]_vars

\* A process that is not interrupted goes on to its next step.
FairSpec == Spec /\ WF_vars(Step)

-----------------------------------------------------------------------------
(* Properties. *)

(* Every score is a share of one hundred, and every counter a count; and a
   candidate in a search has a score on something. *)
TypeOK ==
  /\ target \in Targets
  /\ dir.seed \in Texts \union {NoText}
  /\ \A search \in {gepa, dir.saved} :
       /\ search.i \in Nat /\ search.evals \in Nat
       /\ \A c \in DOMAIN search.pool :
            /\ search.pool[c].text \in Texts
            /\ search.pool[c].row \in Seq(0..100) \ {<<>>}
  /\ commands \in 0..MaxCommands
  /\ cmd \in Commands \union {NoCommand}
  /\ pc \in {"idle", "wipe", "record", "corpus", "sweep", "engine", "search",
             "check", "gate", "printed"}
  /\ run.calls \in Nat /\ run.rounds \in Nat
  /\ best \in 0..Len(gepa.pool)

Searched == pc \in {"check", "gate", "printed"}

Judged == pc \in {"gate", "printed"}

(* GEPA ignores the seed it is handed when it finds a saved search.  Nothing
   is gated, compared or printed that began with another text than this run's
   seed; and a record beside a saved search is the text it began with, also
   after a wipe cut short and in a directory from before there were records. *)
SearchIsItsSeeds ==
  /\ Judged => gepa.pool[1].text = cmd.seed
  /\ (dir.seed # NoText /\ dir.saved # NoSearch) =>
       dir.saved.pool[1].text = dir.seed

(* "--iterations means that many more": a run told to make N iterations makes
   N, on a resumed search too, unless a candidate is perfect or this run has
   itself spent the budget. *)
RunsAsAsked ==
  (Searched /\ cmd.iterations > 0) =>
    /\ run.rounds <= cmd.iterations
    /\ run.rounds < cmd.iterations =>
         \/ \E c \in DOMAIN gepa.pool : Perfect(gepa.pool[c].row)
         \/ gepa.evals >= run.found.evals + Budget

(* The budget counts work: for extract what a search is charged since it was
   taken up is what was run, refused candidates being free; for a turn target
   it is never less than was run. *)
ChargeIsForCalls ==
  LET charged == gepa.evals - run.found.evals
  IN IF target = "extract" THEN charged = run.calls ELSE charged >= run.calls

(* What reaches stdout was run by the search, came out of it no worse than
   the text it began with, and, unless the gate was overruled, failed no
   probe and scored nothing on no case where that text had not.  A text the
   agent would refuse to load never gets there. *)
StdoutIsEarned ==
  pc = "printed" =>
    LET new == gepa.pool[best]
        old == gepa.pool[SeedIndex(gepa.pool)]
    IN /\ new.text \notin Refused
       /\ Mean(new.row) >= Mean(old.row)
       /\ ~cmd.overfit =>
            IF target = "extract" THEN passed[0] \subseteq passed[best]
            ELSE \A i \in DOMAIN old.row : old.row[i] = 0 \/ Earns(new.row, i)

(* "A candidate that got a golden case wrong which the seed got right is
   discarded, whatever it scored": the docstring of turn_gate, which reads an
   answer off a score above zero.  A wrong answer has a share of the 60. *)
GateRefusesLosses ==
  (pc = "printed" /\ target = "turn" /\ ~cmd.overfit) =>
    LET new == gepa.pool[best].row
        old == gepa.pool[SeedIndex(gepa.pool)].row
    IN \A i \in DOMAIN old \intersect DOMAIN new :
         old[i] >= Weight.correct => new[i] >= Weight.correct

(* GEPA keeps scores by position.  The cases at those positions when a search
   is resumed are the ones it was begun on, if nobody has harvested over the
   corpus since, by an overfit or a probe-only command without --resume, and
   --seed and --val-fraction are those it was begun with.  The code checks
   neither: --resume promises to keep the corpus, and does. *)
OneCorpusASearch ==
  (gepa # NoSearch /\ (Resuming => ~reharvested /\ cmd.split = gepa.split)) =>
    gepa.of = val

CertificatesHold ==
  [key \in BOOLEAN |-> [ordered \in BOOLEAN |->
     \A got, want \in Tables : CertificateHolds(got, want, key, ordered)]]

(* The corpus runner may not import the metric's comparison and has its own.
   Of an answer to one of a search's cases the two say the same, the runner by
   the answer key's flag and the search by its case's, except where the case
   orders the rows and the key does not: there an answer the runner certified,
   in another order, keeps half of the score for being right, or none of it
   beside a surplus column. *)
CertifiedIsRight ==
  (target = "turn" /\ pc = "search") =>
    \A case \in ToSet(train) \union ToSet(val) :
      CertificatesHold[KeyOrdered[case.question]][case.ordered]

HarvestFollowsVerdicts == \A store \in BoundedSeq(Spans, 2) : FollowsVerdicts(store)

(* A harvest scores a turn only against what somebody vouched for.  Every
   case's query is the last reference filed on a turn of that question, or,
   for want of one on any of them, the query of a turn whose last verdict is
   that it was right; and every question with such a turn is one case. *)
HarvestIsJudged == (target = "turn" /\ pc = "corpus") => HarvestFollowsVerdicts

(* A search whose seed can be run comes to an end: refused proposals cost
   nothing, but the parent they were made from was run and charged. *)
SearchEnds ==
  (pc = "search" /\ gepa.pool[1].text \notin Refused) ~> (pc = "idle")

=============================================================================
