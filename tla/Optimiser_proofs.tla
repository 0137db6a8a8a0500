--------------------------- MODULE Optimiser_proofs ---------------------------
(* The proofs about Optimiser: a search is its seed's, makes the iterations   *)
(* it was asked for and stays on its corpus; what it is charged covers what   *)
(* it ran, and what it prints has earned it; for every set of texts, stores   *)
(* and outcomes, every budget and any number of commands.                     *)
EXTENDS Optimiser, Scoring_proofs

\* What is in memory or saved is a search.
IsSearch(s) ==
  /\ s = [pool |-> s.pool, i |-> s.i, evals |-> s.evals, of |-> s.of,
          split |-> s.split]
  /\ s.i \in Nat
  /\ \E S : s.pool \in Seq(S)
  /\ s # NoSearch => s.pool # <<>>

First(s) == s.pool[1].text

Shape ==
  /\ cmd \in Commands \union {NoCommand}
  /\ cmd.iterations \in Nat
  /\ checkAfter \in BOOLEAN
  /\ IsSearch(gepa)
  /\ run = [calls |-> run.calls, rounds |-> run.rounds, found |-> run.found]
  /\ run.rounds \in Nat
  /\ run.found.i \in Nat

\* What outlives a process, whatever it dies of.
Disk ==
  dir.saved # NoSearch =>
    /\ dir.seed # NoText => First(dir.saved) = dir.seed
    /\ corpus # <<>>
    /\ ~reharvested => dir.saved.of = Split(corpus, dir.saved.split).val

Files ==
  /\ target \in Targets
  /\ dir = [seed |-> dir.seed, saved |-> dir.saved]
  /\ IsSearch(dir.saved)
  /\ reharvested \in BOOLEAN
  /\ Disk

\* Before the search: the record, unless it is to be checked, is the seed's.
Before ==
  /\ pc \notin {"search", "check", "gate", "printed"} =>
       gepa = NoSearch /\ run = NoRun
  /\ pc \in {"idle", "wipe", "record", "sweep"} => ~checkAfter
  /\ pc # "idle" => cmd \in Commands /\ cmd.seed # NoText
  /\ pc = "wipe" => ~cmd.overfit /\ ~cmd.resume
  /\ pc = "record" =>
       /\ ~cmd.overfit
       /\ IF cmd.resume THEN dir.seed \in {NoText, cmd.seed} ELSE dir = EmptyDir
  /\ pc = "sweep" => cmd.overfit
  /\ cmd.overfit => ~checkAfter
  /\ pc \in {"corpus", "engine"} /\ ~cmd.overfit =>
       /\ ~cmd.resume => dir.saved = NoSearch
       /\ checkAfter => /\ cmd.resume
                        /\ dir.seed = NoText
                        /\ dir.saved # NoSearch
       /\ ~checkAfter => dir.seed = cmd.seed
  /\ pc = "engine" /\ ~cmd.overfit =>
       corpus # <<>> /\ val = Split(corpus, cmd.split).val

\* During and after it: the saved search is the one in memory.
During ==
  /\ pc \in {"search", "check", "gate", "printed"} =>
       /\ gepa.pool # <<>>
       /\ (Resuming => ~reharvested /\ cmd.split = gepa.split) => gepa.of = val
       /\ cmd.iterations > 0 => run.rounds <= cmd.iterations
       /\ gepa.i = run.found.i + run.rounds
  /\ pc \in {"search", "check"} =>
       /\ ~checkAfter => First(gepa) = cmd.seed
       /\ ~cmd.overfit =>
            /\ dir.saved = gepa
            /\ dir.seed = IF checkAfter THEN NoText ELSE cmd.seed
  /\ Judged => First(gepa) = cmd.seed
  /\ Searched /\ cmd.iterations > 0 /\ run.rounds < cmd.iterations =>
       \/ \E c \in DOMAIN gepa.pool : Perfect(gepa.pool[c].row)
       \/ gepa.evals >= run.found.evals + Budget

IndInv == Shape /\ Files /\ Before /\ During

\* A search that is not there has the shape of one.
LEMMA NoSearchIsOne == IsSearch(NoSearch) /\ NoSearch.i = 0
  <1>1. <<>> \in Seq({})
    OBVIOUS
  <1>. QED
    BY <1>1 DEF IsSearch, NoSearch

\* What the options of a command may be.
LEMMA CommandsAre ==
  /\ target \in Targets => \A c \in Commands :
       /\ c.seed # NoText /\ c.seed \in Texts /\ c.iterations \in Nat
       /\ c.split \in [percent : Nat, shuffle : Nat]
  /\ NoCommand.iterations = 0 /\ ~NoCommand.overfit /\ ~NoCommand.resume
  <1>1. ASSUME target \in Targets, NEW c \in Commands
        PROVE  /\ c.seed # NoText /\ c.seed \in Texts /\ c.iterations \in Nat
               /\ c.split \in [percent : Nat, shuffle : Nat]
    <2>1. /\ c.seed \in Seeds[target] /\ c.iterations \in Iterations
          /\ c.split \in Splits[target] \/ c.split = NoSplit
      BY DEF Commands
    <2>2. /\ Seeds[target] \subseteq Texts /\ Iterations \subseteq Nat /\ NoText \notin Texts
          /\ Splits[target] \subseteq [percent : Nat, shuffle : Nat]
      BY <1>1, ConstantsAssumption
    <2>3. c.seed # NoText /\ c.seed \in Texts /\ c.iterations \in Nat
      BY <2>1, <2>2
    <2>4. c.split \in [percent : Nat, shuffle : Nat]
      <3>1. NoSplit \in [percent : Nat, shuffle : Nat]
        BY DEF NoSplit
      <3>. QED
        BY <2>1, <2>2, <3>1, Zenon
    <2>. QED
      BY <2>3, <2>4
  <1>. QED
    BY <1>1 DEF NoCommand

\* They are the same as long as the target is.
LEMMA CommandsStay == ASSUME target' = target PROVE Commands' = Commands
  BY DEF Commands

\* A search of one candidate, as an engine begins it.
LEMMA FreshIsOne ==
  ASSUME NEW text, NEW row, NEW i \in Nat, NEW evals, NEW of, NEW split
  PROVE  LET s == [pool |-> <<[text |-> text, row |-> row]>>, i |-> i,
                   evals |-> evals, of |-> of, split |-> split]
         IN /\ IsSearch(s) /\ s # NoSearch /\ s.split = split
            /\ First(s) = text /\ s.of = of /\ s.pool # <<>> /\ s.i = i
  <1>1. <<[text |-> text, row |-> row]>> \in Seq({[text |-> text, row |-> row]})
    OBVIOUS
  <1>. QED
    BY <1>1 DEF IsSearch, NoSearch, First

\* Back at the shell nothing but the files matters.
LEMMA ExitKeeps ==
  ASSUME Exit, Files'
  PROVE  IndInv'
  <1> USE NoSearchIsOne, CommandsAre DEF Exit
  <1>1. Shape'
    <2>1. IsSearch(gepa)'
      BY NoSearchIsOne
    <2>2. cmd'.iterations \in Nat /\ cmd' \in Commands \union {NoCommand}
      OBVIOUS
    <2>3. run' = [calls |-> 0, rounds |-> 0, found |-> [i |-> 0, evals |-> 0]]
      BY DEF NoRun
    <2>4. checkAfter' \in BOOLEAN
      BY Zenon
    <2>. QED
      BY <2>1, <2>2, <2>3, <2>4 DEF Shape
  <1>2. Before'
    BY DEF Before
  <1>3. During'
    BY DEF During, Judged, Searched
  <1>. QED
    BY <1>1, <1>2, <1>3 DEF IndInv

\* A directory from before there were records satisfies the invariant.
LEMMA InitInv == Init => IndInv
  <1> SUFFICES ASSUME Init PROVE IndInv
    OBVIOUS
  <1> USE NoSearchIsOne, CommandsAre
  <1>1. Files
    <2>. target \in Targets
      BY DEF Init
    <2>1. CASE dir = EmptyDir
      BY <2>1 DEF EmptyDir, Files, Disk, Init
    <2>2. CASE dir # EmptyDir
      <3>1. corpus # <<>> /\ ~reharvested /\ reharvested \in BOOLEAN
        BY <2>2 DEF Init
      <3>2. PICK text \in Seeds[target], split \in Splits[target] :
              LET cases == Split(corpus, split).val
              IN dir = [seed |-> NoText,
                        saved |-> [pool |-> <<[text |-> text,
                                               row |-> [i \in DOMAIN cases |-> 0]]>>,
                                   i |-> 1, evals |-> Len(cases), of |-> cases,
                                   split |-> split]]
        BY <2>2, Zenon DEF Init
      <3> DEFINE cases == Split(corpus, split).val
                 row == [i \in DOMAIN cases |-> 0]
      <3>3. dir = [seed |-> NoText,
                   saved |-> [pool |-> <<[text |-> text, row |-> row]>>,
                              i |-> 1, evals |-> Len(cases), of |-> cases,
                              split |-> split]]
        BY <3>2, Zenon
      <3>. HIDE DEF row
      <3>4. IsSearch(dir.saved) /\ dir.saved.of = cases /\ dir.saved.split = split
        BY <3>3, FreshIsOne
      <3>5. dir.seed = NoText /\ dir = [seed |-> dir.seed, saved |-> dir.saved]
        BY <3>3
      <3>. QED
        BY <3>1, <3>4, <3>5 DEF Files, Disk
    <2>. QED
      BY <2>1, <2>2
  <1>2. Shape
    <2>1. checkAfter \in BOOLEAN
      BY Zenon DEF Init
    <2>. QED
      BY <2>1 DEF Init, Shape, NoRun
  <1>3. Before
    BY DEF Init, Before
  <1>4. During
    BY DEF Init, During, Judged, Searched
  <1>. QED
    BY <1>1, <1>2, <1>3, <1>4 DEF IndInv

\* A refused resume touches nothing, another start only the place.
LEMMA StartKeeps == ASSUME IndInv, Start PROVE IndInv'
  <1> USE CommandsAre DEF IndInv, Start, DifferentSeed, files, memory
  <1>1. /\ cmd' \in Commands /\ pc = "idle" /\ ~checkAfter
        /\ target \in Targets /\ Commands' = Commands
    BY CommandsStay DEF Before, Files
  <1>2. Shape'
    BY <1>1 DEF Shape
  <1>3. Files'
    <2>1. dir' = dir /\ corpus' = corpus /\ reharvested' = reharvested
      OBVIOUS
    <2>. QED
      BY <2>1 DEF Files, Disk
  <1>4. Before'
    <2>1. dir'.seed = dir.seed /\ dir'.saved = dir.saved
      OBVIOUS
    <2>2. CASE cmd'.overfit
      BY <1>1, <2>2 DEF Before
    <2>3. CASE ~cmd'.overfit /\ cmd'.resume
      BY <1>1, <2>3 DEF Before
    <2>4. CASE ~cmd'.overfit /\ ~cmd'.resume
      BY <1>1, <2>4 DEF Before
    <2>. QED
      BY <2>2, <2>3, <2>4
  <1>5. During'
    BY DEF During, Judged, Searched
  <1>. QED
    BY <1>2, <1>3, <1>4, <1>5

\* A harvest changes the corpus only where that is remembered.
LEMMA HarvestKeeps ==
  ASSUME Files, NEW cases, target' = target, dir' = dir,
         corpus' = IF cases = <<>> THEN corpus ELSE cases,
         reharvested' = (reharvested \/ Replaces(cases))
  PROVE  Files'
  <1>1. reharvested' \in BOOLEAN
    BY DEF Files
  <1>2. Disk'
    <2>1. CASE cases = <<>>
      <3>1. ~reharvested' => ~reharvested
        OBVIOUS
      <3>. QED
        BY <2>1, <3>1 DEF Files, Disk
    <2>2. CASE cases # <<>>
      <3>1. dir.saved # NoSearch => reharvested'
        BY <2>2 DEF Replaces
      <3>2. corpus' # <<>>
        BY <2>2
      <3>. QED
        BY <3>1, <3>2 DEF Files, Disk
    <2>. QED
      BY <2>1, <2>2
  <1>. QED
    BY <1>1, <1>2 DEF Files

\* A harvest over the corpus of a saved search is remembered, and not empty.
LEMMA ProbeOnlyKeeps ==
  ASSUME IndInv, NEW resume \in BOOLEAN, ProbeOnly(resume) PROVE IndInv'
  <1> USE CommandsStay DEF IndInv, ProbeOnly, memory
  <1>1. Shape'
    BY DEF Shape
  <1>2. Files'
    <2>1. dir' = dir /\ target' = target
      OBVIOUS
    <2>2. \/ corpus' = corpus /\ reharvested' = reharvested
          \/ \E store \in Stores[target] :
               /\ corpus' = IF Cases(store) = <<>> THEN corpus ELSE Cases(store)
               /\ reharvested' = (reharvested \/ Replaces(Cases(store)))
      BY Zenon
    <2>3. CASE corpus' = corpus /\ reharvested' = reharvested
      BY <2>1, <2>3 DEF Files, Disk
    <2>4. ASSUME NEW store \in Stores[target],
                 corpus' = IF Cases(store) = <<>> THEN corpus ELSE Cases(store),
                 reharvested' = (reharvested \/ Replaces(Cases(store)))
          PROVE  Files'
      BY <2>1, <2>4, HarvestKeeps
    <2>. QED
      BY <2>2, <2>3, <2>4
  <1>3. Before'
    BY DEF Before
  <1>4. During'
    BY DEF During, Judged, Searched
  <1>. QED
    BY <1>1, <1>2, <1>3, <1>4

\* A wiped directory has nothing to be wrong about.
LEMMA WipeKeeps == ASSUME IndInv, Wipe PROVE IndInv'
  <1> USE NoSearchIsOne, CommandsStay DEF IndInv, Wipe, memory
  <1>1. Shape'
    BY DEF Shape
  <1>2. Files'
    BY DEF Files, Disk, EmptyDir
  <1>3. Before'
    BY DEF Before, EmptyDir
  <1>4. During'
    BY DEF During, Judged, Searched
  <1>. QED
    BY <1>1, <1>2, <1>3, <1>4

\* Whichever half of the directory goes first, no wrong record is left.
LEMMA WipeDiesKeeps == ASSUME IndInv, WipeDies PROVE IndInv'
  <1>1. Files'
    BY NoSearchIsOne DEF WipeDies, IndInv, Files, Disk
  <1>. QED
    BY <1>1, ExitKeeps DEF WipeDies

\* A record is written beside no search, its own, or not at all.
LEMMA RecordSeedKeeps == ASSUME IndInv, RecordSeed PROVE IndInv'
  <1> USE CommandsAre DEF IndInv, RecordSeed, memory
  <1>1. /\ pc = "record" /\ ~checkAfter /\ cmd \in Commands /\ ~cmd.overfit
        /\ target \in Targets /\ Commands' = Commands
    BY CommandsStay DEF Before, Files
  <1>2. CASE Unrecorded
    <2>1. checkAfter' /\ checkAfter' \in BOOLEAN /\ dir' = dir
      BY <1>2, Zenon
    <2>2. Shape' /\ Files'
      BY <1>1, <2>1 DEF Shape, Files, Disk
    <2>3. Before'
      BY <1>1, <1>2, <2>1 DEF Before, Unrecorded
    <2>4. During'
      BY DEF During, Judged, Searched
    <2>. QED
      BY <2>2, <2>3, <2>4
  <1>3. CASE ~Unrecorded
    <2>1. /\ checkAfter' = checkAfter
          /\ dir' = [seed |-> cmd.seed, saved |-> dir.saved]
      BY <1>3 DEF Files
    <2>2. dir.saved # NoSearch => cmd.resume /\ dir.seed = cmd.seed
      BY <1>1, <1>3 DEF Before, Unrecorded, EmptyDir
    <2>3. Shape' /\ Files'
      BY <2>1, <2>2, <1>1 DEF Shape, Files, Disk
    <2>4. Before'
      BY <1>1, <2>1, <2>2 DEF Before
    <2>5. During'
      BY DEF During, Judged, Searched
    <2>. QED
      BY <2>3, <2>4, <2>5
  <1>. QED
    BY <1>2, <1>3

\* The split of a resumed search is the one it was begun on.
LEMMA LoadCorpusKeeps == ASSUME IndInv, LoadCorpus PROVE IndInv'
  <1> USE CommandsAre DEF IndInv, LoadCorpus, memory
  <1>1. PICK cases \in Corpora :
          /\ corpus' = IF cases = <<>> THEN corpus ELSE cases
          /\ reharvested' = (reharvested \/ (~cmd.resume /\ Replaces(cases)))
          /\ IF cases = <<>> \/ (cmd.overfit /\ OverfitN >= Len(cases))
             THEN Exit
             ELSE /\ IF cmd.overfit
                     THEN pc' = "sweep" /\ UNCHANGED <<train, val>>
                     ELSE /\ pc' = "engine"
                          /\ train' = Split(cases, cmd.split).train
                          /\ val' = Split(cases, cmd.split).val
                  /\ UNCHANGED <<cmd, checkAfter, gepa, run, baseline, passed, best>>
    OBVIOUS
  <1>2. /\ pc = "corpus" /\ dir' = dir /\ target' = target /\ Commands' = Commands
    BY CommandsStay
  <1>3. Files'
    <2>1. CASE ~cmd.resume
      BY <1>1, <1>2, <2>1, HarvestKeeps
    <2>2. CASE cmd.resume /\ dir.saved # NoSearch
      <3>1. cases = corpus
        BY <1>1, <2>2 DEF Files, Disk, Corpora
      <3>2. corpus' = corpus /\ reharvested' = reharvested
        BY <1>1, <2>2, <3>1 DEF Files
      <3>. QED
        BY <1>2, <3>2 DEF Files, Disk
    <2>3. CASE cmd.resume /\ dir.saved = NoSearch
      <3>1. reharvested' \in BOOLEAN
        BY <1>1 DEF Files
      <3>. QED
        BY <1>2, <2>3, <3>1 DEF Files, Disk
    <2>. QED
      BY <2>1, <2>2, <2>3
  <1>4. CASE cases = <<>> \/ (cmd.overfit /\ OverfitN >= Len(cases))
    <2>1. Exit
      BY <1>1, <1>4
    <2>. QED
      BY <1>3, <2>1, ExitKeeps
  <1>5. CASE cases # <<>> /\ cmd.overfit /\ ~(OverfitN >= Len(cases))
    <2>1. pc' = "sweep" /\ UNCHANGED <<cmd, checkAfter, gepa, run, val>>
      BY <1>1, <1>5
    <2>2. Shape'
      BY <1>2, <2>1 DEF Shape
    <2>3. Before'
      BY <1>2, <1>5, <2>1 DEF Before
    <2>4. During'
      BY <2>1 DEF During, Judged, Searched
    <2>. QED
      BY <1>3, <2>2, <2>3, <2>4
  <1>6. CASE cases # <<>> /\ ~cmd.overfit
    <2>1. /\ corpus' = cases /\ corpus' # <<>> /\ val' = Split(cases, cmd.split).val
          /\ pc' = "engine"
          /\ UNCHANGED <<cmd, checkAfter, gepa, run>>
      BY <1>1, <1>6
    <2>2. Shape'
      BY <1>2, <2>1 DEF Shape
    <2>4. Before'
      BY <1>2, <1>6, <2>1 DEF Before
    <2>5. During'
      BY <2>1 DEF During, Judged, Searched
    <2>. QED
      BY <1>3, <2>2, <2>4, <2>5
  <1>. QED
    BY <1>4, <1>5, <1>6

\* The sweep only chooses cases.
LEMMA SweepKeeps == ASSUME IndInv, Sweep PROVE IndInv'
  <1>1. /\ pc = "sweep" /\ pc' = "engine" /\ UNCHANGED <<target, corpus, dir, reharvested>>
        /\ UNCHANGED <<cmd, checkAfter, gepa, run>> /\ Commands' = Commands
    BY CommandsStay DEF Sweep, files
  <1>2. Shape' /\ Files'
    BY <1>1 DEF IndInv, Shape, Files, Disk
  <1>3. Before'
    BY <1>1 DEF IndInv, Before
  <1>4. During'
    BY <1>1 DEF During, Judged, Searched
  <1>. QED
    BY <1>2, <1>3, <1>4 DEF IndInv

\* A search is taken up as it was saved, or begun with the seed.
LEMMA EngineKeeps == ASSUME IndInv, Engine PROVE IndInv'
  <1> USE CommandsAre DEF IndInv, Engine
  <1>1. /\ pc = "engine" /\ pc' = "search"
        /\ UNCHANGED <<target, corpus, cmd, checkAfter, val>>
        /\ run.rounds = 0 /\ Commands' = Commands
    BY CommandsStay DEF Before, NoRun
  <1>2. CASE Resuming /\ dir.saved # NoSearch
    <2>1. /\ gepa' = dir.saved /\ dir' = dir /\ reharvested' = reharvested
          /\ run' = [run EXCEPT !.found = [i |-> dir.saved.i, evals |-> dir.saved.evals]]
      BY <1>2
    <2>2. /\ run'.rounds = 0 /\ run'.found.i = dir.saved.i
          /\ run' = [calls |-> run'.calls, rounds |-> run'.rounds, found |-> run'.found]
      BY <1>1, <2>1 DEF Shape
    <2>3. IsSearch(dir.saved) /\ dir.saved.i \in Nat /\ dir.saved.pool # <<>>
      BY <1>2 DEF Files, IsSearch
    <2>4. Shape'
      BY <1>1, <2>1, <2>2, <2>3 DEF Shape
    <2>5. Files'
      BY <1>1, <2>1 DEF Files, Disk
    <2>6. Before'
      BY <1>1, <2>1 DEF Before
    <2>7. During'
      BY <1>1, <1>2, <2>1, <2>2, <2>3 DEF During, Judged, Searched, Before, Files,
                                          Disk, Resuming, Shape
    <2>. QED
      BY <2>4, <2>5, <2>6, <2>7
  <1>3. CASE ~(Resuming /\ dir.saved # NoSearch)
    <2>1. PICK runs \in Runs(val) :
            LET seed == Evaluated(cmd.seed, val, runs, baseline)
            IN /\ gepa' = [pool |-> <<[text |-> cmd.seed, row |-> seed.row]>>,
                           i |-> 0, evals |-> seed.charge, of |-> val,
                           split |-> cmd.split]
               /\ baseline' = seed.baseline
               /\ dir' = IF cmd.overfit THEN dir ELSE [dir EXCEPT !.saved = gepa']
               /\ reharvested' = (cmd.overfit /\ reharvested)
               /\ run' = [run EXCEPT !.found = [i |-> 0, evals |-> seed.charge]]
      BY <1>3
    <2>2. /\ IsSearch(gepa') /\ gepa' # NoSearch /\ gepa'.i = 0 /\ gepa'.of = val
          /\ First(gepa') = cmd.seed /\ gepa'.pool # <<>> /\ gepa'.split = cmd.split
      BY <2>1, FreshIsOne
    <2>3. /\ run'.rounds = 0 /\ run'.found.i = 0
          /\ run' = [calls |-> run'.calls, rounds |-> run'.rounds, found |-> run'.found]
      BY <1>1, <2>1 DEF Shape
    <2>4. ~checkAfter
      BY <1>1, <1>3 DEF Before, Resuming
    <2>5. /\ cmd.overfit => dir' = dir /\ reharvested' = reharvested
          /\ ~cmd.overfit => dir' = [seed |-> dir.seed, saved |-> gepa']
          /\ reharvested' \in BOOLEAN
      BY <2>1 DEF Files
    <2>6. Shape'
      BY <1>1, <2>2, <2>3 DEF Shape
    <2>7. Files'
      <3>1. CASE cmd.overfit
        BY <1>1, <2>5, <3>1 DEF Files, Disk
      <3>2. CASE ~cmd.overfit
        BY <1>1, <2>2, <2>4, <2>5, <3>2 DEF Files, Disk, Before
      <3>. QED
        BY <3>1, <3>2
    <2>8. Before'
      BY <1>1, <2>4 DEF Before
    <2>9. During'
      BY <1>1, <2>2, <2>3, <2>4, <2>5 DEF During, Judged, Searched, Before, Shape
    <2>. QED
      BY <2>6, <2>7, <2>8, <2>9
  <1>. QED
    BY <1>2, <1>3

\* A search stops as it stood.
LEMMA StopKeeps == ASSUME IndInv, Stop PROVE IndInv'
  <1> USE DEF IndInv, Stop, files, memory
  <1>1. pc = "search" /\ pc' = "check"
        /\ UNCHANGED <<target, corpus, dir, reharvested, cmd, checkAfter, val, run, gepa>>
        /\ Commands' = Commands
    BY CommandsStay
  <1>2. Shape' /\ Files'
    BY <1>1 DEF Shape, Files, Disk
  <1>3. Before'
    BY <1>1 DEF Before
  <1>4. (cmd.iterations > 0 /\ run.rounds < cmd.iterations) =>
          \/ \E c \in DOMAIN gepa.pool : Perfect(gepa.pool[c].row)
          \/ gepa.evals >= run.found.evals + Budget
    BY <1>1 DEF ShouldStop, Begun, During, Shape
  <1>5. During'
    BY <1>1, <1>4 DEF During, Judged, Searched, Resuming
  <1>. QED
    BY <1>2, <1>3, <1>5

\* Only the search of this seed is recorded and goes on to the gate.
LEMMA CheckKeeps == ASSUME IndInv, Check PROVE IndInv'
  <1> DEFINE ours == checkAfter => gepa.pool[1].text = cmd.seed
  <1> USE DEF IndInv, memory
  <1>1. /\ pc = "check" /\ UNCHANGED <<target, corpus, reharvested>>
        /\ dir' = IF checkAfter /\ ours THEN [dir EXCEPT !.seed = cmd.seed] ELSE dir
        /\ IF ours /\ Len(gepa.pool) > 1
           THEN /\ pc' = "gate"
                /\ UNCHANGED <<cmd, checkAfter, memory, gepa, passed, best>>
           ELSE Exit
    BY DEF Check
  <1>2. Files'
    <2>1. CASE checkAfter /\ ours
      <3>1. dir' = [seed |-> cmd.seed, saved |-> dir.saved]
        BY <1>1, <2>1 DEF Files
      <3>2. ~cmd.overfit /\ dir.saved = gepa
        BY <1>1, <2>1 DEF Before, During
      <3>. QED
        BY <1>1, <2>1, <3>1, <3>2 DEF Files, Disk, First
    <2>2. CASE ~(checkAfter /\ ours)
      BY <1>1, <2>2 DEF Files, Disk
    <2>. QED
      BY <2>1, <2>2
  <1>3. CASE ours /\ Len(gepa.pool) > 1
    <2>1. /\ pc' = "gate" /\ UNCHANGED <<cmd, checkAfter, val, run, gepa>>
          /\ Commands' = Commands
      BY <1>1, <1>3, CommandsStay
    <2>2. Shape'
      BY <2>1 DEF Shape
    <2>3. Before'
      BY <1>1, <2>1 DEF Before
    <2>4. During'
      BY <1>1, <1>3, <2>1 DEF During, Judged, Searched, First, Resuming
    <2>. QED
      BY <1>2, <2>2, <2>3, <2>4
  <1>4. CASE ~(ours /\ Len(gepa.pool) > 1)
    BY <1>1, <1>2, <1>4, ExitKeeps
  <1>. QED
    BY <1>3, <1>4

\* Printing changes no file.
LEMMA PromoteKeeps == ASSUME IndInv, Promote PROVE IndInv'
  <1> USE DEF IndInv, memory, files
  <1>1. /\ pc = "gate" /\ UNCHANGED <<target, corpus, dir, reharvested>>
        /\ \/ Exit
           \/ pc' = "printed" /\ UNCHANGED <<cmd, checkAfter, val, run, gepa>>
        /\ Commands' = Commands
    BY CommandsStay DEF Promote
  <1>2. Files'
    BY <1>1 DEF Files, Disk
  <1>3. CASE Exit
    BY <1>2, <1>3, ExitKeeps
  <1>4. CASE pc' = "printed" /\ UNCHANGED <<cmd, checkAfter, val, run, gepa>>
    <2>1. Shape'
      BY <1>1, <1>4 DEF Shape
    <2>2. Before'
      BY <1>1, <1>4 DEF Before
    <2>3. During'
      BY <1>1, <1>4 DEF During, Judged, Searched, Resuming
    <2>. QED
      BY <1>2, <2>1, <2>2, <2>3
  <1>. QED
    BY <1>1, <1>3, <1>4

\* What an iteration makes of the pool.
Adds(pool) == pool = gepa.pool \/ \E new : pool = Append(gepa.pool, new)

\* An iteration leaves the pool or adds to it, and counts itself.
LEMMA IterationAdds ==
  ASSUME Iterate
  PROVE  \E pool, evals, calls :
           /\ Adds(pool)
           /\ gepa' = [gepa EXCEPT !.pool = pool, !.i = @ + 1, !.evals = evals]
           /\ run' = [run EXCEPT !.calls = calls, !.rounds = @ + 1]
  <1> DEFINE Goal == \E pool, evals, calls :
                       /\ Adds(pool)
                       /\ gepa' = [gepa EXCEPT !.pool = pool, !.i = @ + 1,
                                               !.evals = evals]
                       /\ run' = [run EXCEPT !.calls = calls, !.rounds = @ + 1]
  <1>1. ASSUME NEW charge, NEW calls, NEW base, NEW pool, Adds(pool),
               Spend(charge, calls, base, pool)
        PROVE  Goal
    BY <1>1, Zenon DEF Spend
  <1>2. ASSUME NEW parent, NEW text, NEW cases, NEW runs,
               Propose(parent, text, cases, runs)
        PROVE  Goal
    BY <1>1, <1>2, Zenon DEF Propose, Adds
  <1>3. PICK p \in Eligible(gepa.pool),
             batch \in [1..Minibatch[target] -> DOMAIN train] :
          LET cases == [n \in DOMAIN batch |-> train[batch[n]]]
          IN \E runs \in Runs(cases) :
               LET parent == Evaluated(gepa.pool[p].text, cases, runs, baseline)
               IN IF Perfect(parent.row)
                  THEN Spend(parent.charge, parent.calls, parent.baseline, gepa.pool)
                  ELSE \E text \in Texts, again \in Runs(cases) :
                         Propose(parent, text, cases, again)
    BY Zenon DEF Iterate
  <1>4. Adds(gepa.pool)
    BY DEF Adds
  <1>5. Goal
    <2>. HIDE DEF Goal
    <2>. QED
      BY <1>1, <1>2, <1>3, <1>4, Zenon
  <1>. QED
    BY <1>5, Zenon

\* The first candidate of a pool stays the first when one is added.
LEMMA FirstStays ==
  ASSUME NEW S, NEW s \in Seq(S), s # <<>>, NEW new
  PROVE  LET longer == Append(s, new)
         IN /\ longer # <<>> /\ longer[1] = s[1]
            /\ longer \in Seq(S \union {new})
  <1>1. s \in Seq(S \union {new}) /\ new \in S \union {new}
    OBVIOUS
  <1>2. Len(s) \in Nat /\ Len(s) >= 1
    BY EmptySeq
  <1>. QED
    BY <1>1, <1>2, AppendProperties

\* An iteration adds to a search and counts itself.
LEMMA IterateKeeps == ASSUME IndInv, Iterate PROVE IndInv'
  <1>1. /\ pc = "search" /\ pc' = "search" /\ ~ShouldStop
        /\ dir' = IF cmd.overfit THEN dir ELSE [dir EXCEPT !.saved = gepa']
        /\ UNCHANGED <<target, corpus, reharvested, cmd, checkAfter, val>>
        /\ Commands' = Commands
    BY CommandsStay, Zenon DEF Iterate
  <1>2. PICK pool, evals, calls :
          /\ Adds(pool)
          /\ gepa' = [gepa EXCEPT !.pool = pool, !.i = @ + 1, !.evals = evals]
          /\ run' = [run EXCEPT !.calls = calls, !.rounds = @ + 1]
    BY IterationAdds
  <1>3. /\ gepa' = [pool |-> pool, i |-> gepa.i + 1, evals |-> evals, of |-> gepa.of,
                    split |-> gepa.split]
        /\ gepa.i \in Nat
    BY <1>2 DEF IndInv, Shape, IsSearch
  <1>4. /\ run' = [calls |-> calls, rounds |-> run.rounds + 1, found |-> run.found]
        /\ run.rounds \in Nat /\ run.found.i \in Nat
    BY <1>2 DEF IndInv, Shape
  <1>5. /\ pool # <<>> /\ pool[1] = gepa.pool[1]
        /\ \E S : pool \in Seq(S)
    <2>1. PICK S : gepa.pool \in Seq(S)
      BY DEF IndInv, Shape, IsSearch
    <2>2. gepa.pool # <<>>
      BY <1>1 DEF IndInv, During
    <2>3. CASE pool = gepa.pool
      BY <2>1, <2>2, <2>3
    <2>4. ASSUME NEW new, pool = Append(gepa.pool, new)
          PROVE  /\ pool # <<>> /\ pool[1] = gepa.pool[1]
                 /\ pool \in Seq(S \union {new})
      BY <2>1, <2>2, <2>4, FirstStays
    <2>. QED
      BY <1>2, <2>1, <2>2, <2>3, <2>4, Zenon DEF Adds
  <1>6. IsSearch(gepa') /\ gepa' # NoSearch /\ First(gepa') = First(gepa)
        /\ gepa'.pool # <<>> /\ gepa'.of = gepa.of /\ gepa'.i = gepa.i + 1
        /\ gepa'.split = gepa.split
    BY <1>3, <1>5 DEF IsSearch, First, NoSearch
  <1>7. Shape'
    BY <1>1, <1>4, <1>6 DEF IndInv, Shape
  <1>8. /\ cmd.overfit => dir' = dir
        /\ ~cmd.overfit => dir' = [seed |-> dir.seed, saved |-> gepa']
    BY <1>1 DEF IndInv, Files
  <1>9. gepa # NoSearch
    BY <1>1 DEF IndInv, During, NoSearch
  <1>10. Files'
    <2>1. CASE cmd.overfit
      BY <1>1, <1>8, <2>1 DEF IndInv, Files, Disk
    <2>2. CASE ~cmd.overfit
      <3>1. dir.saved = gepa
        BY <1>1, <2>2 DEF IndInv, During
      <3>2. dir'.seed = dir.seed /\ dir'.saved = gepa'
            /\ dir' = [seed |-> dir'.seed, saved |-> dir'.saved]
        BY <1>8, <2>2
      <3>3. dir.seed # NoText => First(gepa') = dir.seed
        BY <1>6, <1>9, <3>1 DEF IndInv, Files, Disk
      <3>4. /\ corpus # <<>>
            /\ ~reharvested => gepa'.of = Split(corpus, gepa'.split).val
        BY <1>6, <1>9, <3>1 DEF IndInv, Files, Disk
      <3>5. /\ target' \in Targets /\ corpus' = corpus /\ reharvested' = reharvested
            /\ reharvested' \in BOOLEAN
        BY <1>1 DEF IndInv, Files
      <3>6. Disk'
        BY <3>2, <3>3, <3>4, <3>5 DEF Disk
      <3>. QED
        BY <1>6, <3>2, <3>5, <3>6 DEF Files
    <2>. QED
      BY <2>1, <2>2
  <1>11. Before'
    BY <1>1 DEF IndInv, Before
  <1>12. cmd.iterations > 0 => run'.rounds <= cmd.iterations
    BY <1>1, <1>4 DEF IndInv, During, Shape, ShouldStop, Begun
  <1>13. During'
    <2>1. CASE cmd.overfit
      BY <1>1, <1>4, <1>6, <1>12, <2>1 DEF IndInv, During, Judged, Searched, Resuming
    <2>2. CASE ~cmd.overfit
      BY <1>1, <1>4, <1>6, <1>8, <1>12, <2>2 DEF IndInv, During, Judged, Searched, Resuming
    <2>. QED
      BY <2>1, <2>2
  <1>. QED
    BY <1>7, <1>10, <1>11, <1>13 DEF IndInv

\* Leaving for the shell without a word to the files.
LEMMA LeaveKeeps ==
  ASSUME IndInv, Exit, UNCHANGED <<target, files, commands>>
  PROVE  IndInv'
  <1>1. Files'
    BY DEF IndInv, Files, Disk, files
  <1>. QED
    BY <1>1, ExitKeeps

\* A stutter keeps the invariant.
LEMMA StutterKeeps == ASSUME IndInv, UNCHANGED vars PROVE IndInv'
  <1>1. /\ UNCHANGED <<target, corpus, dir, reharvested, pc, cmd, checkAfter, val, gepa, run>>
        /\ Commands' = Commands
    BY CommandsStay DEF vars, files, memory
  <1>2. Shape'
    BY <1>1 DEF IndInv, Shape
  <1>3. Files'
    BY <1>1 DEF IndInv, Files, Disk
  <1>4. Before'
    BY <1>1 DEF IndInv, Before
  <1>5. During'
    BY <1>1 DEF IndInv, During, Judged, Searched, Resuming
  <1>. QED
    BY <1>2, <1>3, <1>4, <1>5 DEF IndInv

(* Every step keeps the record, the saved search, the search in memory and    *)
(* the corpus in agreement.                                                   *)
LEMMA StepKeeps == IndInv /\ [Next]_vars => IndInv'
  <1> SUFFICES ASSUME IndInv, [Next]_vars PROVE IndInv'
    OBVIOUS
  <1>1. CASE Start
    BY <1>1, StartKeeps
  <1>2. CASE \E resume \in BOOLEAN : ProbeOnly(resume)
    BY <1>2, ProbeOnlyKeeps, Zenon
  <1>3. CASE WipeDies
    BY <1>3, WipeDiesKeeps
  <1>4. CASE Abort \/ End
    BY <1>4, LeaveKeeps DEF Abort, End
  <1>5. CASE Rest \/ UNCHANGED vars
    BY <1>5, StutterKeeps DEF Rest
  <1>6. CASE Wipe \/ RecordSeed \/ LoadCorpus \/ Sweep \/ Engine
    BY <1>6, WipeKeeps, RecordSeedKeeps, LoadCorpusKeeps, SweepKeeps, EngineKeeps
  <1>7. CASE Iterate \/ Stop \/ Check \/ Promote
    BY <1>7, IterateKeeps, StopKeeps, CheckKeeps, PromoteKeeps
  <1>. QED
    BY <1>1, <1>2, <1>3, <1>4, <1>5, <1>6, <1>7, Zenon DEF Next, Step

(* In every state the commands can reach.                                     *)
THEOREM Invariance == Spec => []IndInv
  <1>. QED
    BY InitInv, StepKeeps, PTL DEF Spec

(* No search is gated, compared or printed that began with another text than  *)
(* this run's seed, and a record beside a saved search is the text that one   *)
(* began with, whatever died before (cli.py _check_saved_seed, _record_seed). *)
THEOREM SearchIsItsSeedsHolds == Spec => []SearchIsItsSeeds
  <1>1. IndInv => SearchIsItsSeeds
    BY DEF IndInv, SearchIsItsSeeds, Files, Disk, During, First
  <1>. QED
    BY Invariance, <1>1, PTL

(* A run told to make N iterations makes N on a resumed search too, unless a  *)
(* candidate is perfect or the run itself spent the budget (cli.py _More).    *)
THEOREM RunsAsAskedHolds == Spec => []RunsAsAsked
  <1>1. IndInv => RunsAsAsked
    BY DEF IndInv, RunsAsAsked, During, Searched
  <1>. QED
    BY Invariance, <1>1, PTL

(* A resumed search is on the validation cases it was begun on, if nobody has *)
(* harvested over its corpus and it is split as it was then (targets.py's     *)
(* corpora, cli.py's --seed and --val-fraction): over any number of commands, *)
(* with and without --resume, whatever died before.                           *)
THEOREM OneCorpusASearchHolds == Spec => []OneCorpusASearch
  <1>1. IndInv => OneCorpusASearch
    <2> SUFFICES ASSUME IndInv, gepa # NoSearch,
                        Resuming => ~reharvested /\ cmd.split = gepa.split
                 PROVE  gepa.of = val
      BY DEF OneCorpusASearch
    <2>1. pc \in {"search", "check", "gate", "printed"}
      BY DEF IndInv, Before, During
    <2>. QED
      BY <2>1 DEF IndInv, During
  <1>. QED
    BY Invariance, <1>1, PTL

\* The harvest theorem for the stores of an instance.
LEMMA HarvestsDoFollow == HarvestFollowsVerdicts
  <1> SUFFICES ASSUME NEW store \in BoundedSeq(Spans, 2)
               PROVE  FollowsVerdicts(store)
    BY Zenon DEF HarvestFollowsVerdicts
  <1>1. store \in Seq(Spans)
    <2>1. PICK m \in 0..2 : store \in [1..m -> Spans]
      BY Zenon DEF BoundedSeq, SeqOf
    <2>. QED
      BY <2>1
  <1>2. store \in Seq(Span(Questions))
    BY <1>1, InputsAssumption
  <1>. QED
    BY <1>2, CasesFollowVerdicts

(* A harvest scores a turn only against what somebody vouched for, and every  *)
(* question somebody vouched for is one case (harvest.py turn_cases).         *)
THEOREM HarvestIsJudgedHolds == Spec => []HarvestIsJudged
  <1>1. HarvestIsJudged
    BY HarvestsDoFollow, Zenon DEF HarvestIsJudged
  <1>. QED
    BY <1>1, PTL

-----------------------------------------------------------------------------
(* The second half: what a search counts and what it lets through.  The       *)
(* invariant gives everything its type, keeps what cannot be run out of the   *)
(* pool, and compares the charge with the calls.                              *)

CaseType ==
  IF target = "turn"
  THEN [question : Questions, sql : Queries \union {Nothing}, ordered : BOOLEAN]
  ELSE [question : Messages \union {Nothing}, sql : Messages \union {Nothing}]

Places == {"idle", "wipe", "record", "corpus", "sweep", "engine", "search",
           "check", "gate", "printed"}

Share == 0..100

Candidate == [text : Texts, row : Seq(Share) \ {<<>>}]

\* A text that cannot be run is in a pool only as the one the search began with.
Scored(s) ==
  /\ s.i \in Nat /\ s.evals \in Nat
  /\ s.pool \in Seq(Candidate)
  /\ \A c \in DOMAIN s.pool : c > 1 => s.pool[c].text \notin Refused

Typed ==
  /\ corpus \in Seq(CaseType) /\ train \in Seq(CaseType) /\ val \in Seq(CaseType)
  /\ pc \in {"engine", "search"} => val # <<>>
  /\ baseline \in [Questions -> Baselines]
  /\ dir.seed \in Texts \union {NoText}
  /\ Scored(gepa) /\ Scored(dir.saved)
  /\ commands \in 0..MaxCommands
  /\ pc \in Places
  /\ best \in 0..Len(gepa.pool)

Counted ==
  /\ run.calls \in Nat /\ run.found.evals \in Nat
  /\ gepa.evals >= run.found.evals
  /\ ChargeIsForCalls

WorkInv == Typed /\ Counted /\ StdoutIsEarned

\* What a case may be measured against is what some turn cost.
LEMMA BaselinesAreCosts ==
  /\ NoBaseline \in Baselines
  /\ \A base \in Baselines : base \in Cost
  /\ \A r \in Rollouts : Spent(r) \in Baselines
  <1>1. \A r \in Rollouts : r.tokens \in Nat /\ r.calls \in Nat
    BY OutcomesAssumption DEF Outcome
  <1>2. NoBaseline \in Cost
    BY DEF NoBaseline, Cost
  <1>. QED
    BY <1>1, <1>2 DEF Baselines, Cost, Spent

\* A row of scores has a total, and one of zeros has none.
LEMMA RowIs ==
  ASSUME NEW row \in Seq(Share)
  PROVE  /\ Total(row) \in Nat
         /\ (\A i \in DOMAIN row : row[i] = 0) => Total(row) = 0
  <1>1. DOMAIN row = 1..Len(row) /\ Len(row) \in Nat
        /\ \A i \in DOMAIN row : row[i] \in Nat
    <2>1. \A n \in Share : n \in Nat
      BY DEF Share
    <2>2. DOMAIN row = 1..Len(row) /\ Len(row) \in Nat /\ \A i \in DOMAIN row : row[i] \in Share
      OBVIOUS
    <2>. QED
      BY <2>1, <2>2
  <1>2. IsFiniteSet(DOMAIN row)
    BY <1>1, FS_Interval
  <1>. QED
    BY <1>1, <1>2, SumIsANumber, Zenon DEF Total

\* A candidate's score is a number.
LEMMA MeanIs ==
  ASSUME NEW row \in Seq(Share), row # <<>> PROVE Mean(row) \in Nat
  <1>1. Total(row) \in Nat
    BY RowIs
  <1>2. Grain * Total(row) \in Nat
    <2>1. Grain \in Nat
      BY GrainAssumption
    <2>. QED
      BY <1>1, <2>1
  <1>3. Len(row) \in Nat /\ Len(row) # 0
    OBVIOUS
  <1>. QED
    BY <1>2, <1>3, QuotientIsANumber DEF Mean

\* The tables of scores hold shares (metric_turn.score, metric_extract.score).
LEMMA TurnScoresAre ==
  ASSUME NEW r \in Rollouts, NEW q \in Questions, NEW ordered \in BOOLEAN,
         NEW base \in Baselines
  PROVE  TurnScores[r][q][ordered][base] \in 0..100
  <1>1. TurnScores[r][q][ordered][base] = TurnScore(r, Reference[q], ordered, base)
    BY DEF TurnScores
  <1>2. r \in Outcome /\ Reference[q] \in Table /\ base \in Cost /\ ordered \in BOOLEAN
    BY OutcomesAssumption, BaselinesAreCosts
  <1>. QED
    BY <1>1, <1>2, TurnScoreIsAShare, Zenon

\* And so does that of extract calls.
LEMMA ExtractScoresAre ==
  ASSUME NEW r \in Replays PROVE ExtractScores[r] \in 0..100
  <1>1. ExtractScores[r] = ExtractScore(r)
    BY DEF ExtractScores
  <1>2. r.entries \in Seq([recipe : BOOLEAN, sound : BOOLEAN, spoilt : BOOLEAN])
    BY OutcomesAssumption DEF Replay
  <1>. QED
    BY <1>1, <1>2, ExtractScoreIsAShare, Zenon

\* A function on the first n numbers is a list of n.
LEMMA ListIs ==
  ASSUME NEW S, NEW n \in Nat, NEW f, f = [i \in 1..n |-> f[i]],
         \A i \in 1..n : f[i] \in S
  PROVE  f \in Seq(S) /\ Len(f) = n /\ DOMAIN f = 1..n
  OBVIOUS

\* A set of numbers has its minimum in it.
LEMMA FirstOne ==
  ASSUME NEW T, T \subseteq Nat, T # {} PROVE Min(T) \in T
  <1>1. \E n \in T : \A m \in T : n <= m
    BY LeastNumber
  <1>. QED
    BY <1>1, Zenon DEF Min

\* What an evaluation comes to, whoever is evaluated and whatever comes of it.
LEMMA EvaluatedIs ==
  ASSUME target \in Targets, NEW text, NEW cases \in Seq(CaseType),
         NEW runs \in Runs(cases), NEW base \in [Questions -> Baselines]
  PROVE  LET e == Evaluated(text, cases, runs, base)
         IN /\ e.row \in Seq(Share) /\ Len(e.row) = Len(cases)
            /\ Total(e.row) \in Nat
            /\ text \in Refused => Total(e.row) = 0
            /\ e.charge \in Nat /\ e.calls \in Nat /\ e.calls <= e.charge
            /\ target = "extract" => e.charge = e.calls
            /\ e.baseline \in [Questions -> Baselines]
  <1> DEFINE row == Scores(text, cases, runs, base)
             n == Len(cases)
  <1>1. /\ n \in Nat /\ DOMAIN cases = 1..n
        /\ \A i \in 1..n : cases[i] \in CaseType
    OBVIOUS
  <1>2. target \in {"extract", "turn"}
    BY DEF Targets
  <1>3. ASSUME NEW i \in 1..n PROVE row[i] \in 0..100 /\ (text \in Refused => row[i] = 0)
    <2>1. row[i] = IF text \in Refused THEN 0
                   ELSE IF target = "turn"
                   THEN TurnScores[runs[i]][cases[i].question][cases[i].ordered]
                                  [base[cases[i].question]]
                   ELSE ExtractScores[runs[i]]
      BY <1>1 DEF Scores
    <2>4. 0 \in 0..100
      OBVIOUS
    <2>2. CASE target = "turn"
      <3>1. /\ cases[i].question \in Questions /\ cases[i].ordered \in BOOLEAN
            /\ runs[i] \in Rollouts
        BY <1>1, <2>2 DEF CaseType, Runs
      <3>2. base[cases[i].question] \in Baselines
        BY <3>1
      <3>3. TurnScores[runs[i]][cases[i].question][cases[i].ordered]
                      [base[cases[i].question]] \in 0..100
        BY <3>1, <3>2, TurnScoresAre
      <3>. QED
        BY <2>1, <2>2, <2>4, <3>3, Zenon
    <2>3. CASE target = "extract"
      <3>1. runs[i] \in Replays
        BY <1>1, <2>3 DEF Runs
      <3>2. ExtractScores[runs[i]] \in 0..100 /\ target # "turn"
        BY <2>3, <3>1, ExtractScoresAre
      <3>. QED
        BY <2>1, <2>4, <3>2, Zenon
    <2>. QED
      BY <1>2, <2>2, <2>3
  <1>4. /\ row \in Seq(Share) /\ Len(row) = n
        /\ text \in Refused => \A i \in DOMAIN row : row[i] = 0
    <2>1. row = [i \in 1..n |-> row[i]]
      BY <1>1 DEF Scores
    <2>. HIDE DEF row, n
    <2>2. row \in Seq(Share) /\ Len(row) = n /\ DOMAIN row = 1..n
      <3>1. \A i \in 1..n : row[i] \in Share
        BY <1>3 DEF Share
      <3>2. n \in Nat
        BY <1>1
      <3>. QED
        BY <2>1, <3>1, <3>2, ListIs
    <2>. QED
      BY <1>3, <2>2
  <1>5. Learned(cases, runs, base) \in [Questions -> Baselines] \/ target = "extract"
    <2> SUFFICES ASSUME target = "turn", NEW q \in Questions
                 PROVE  Learned(cases, runs, base)[q] \in Baselines
      BY <1>2 DEF Learned
    <2> DEFINE answers == {i \in DOMAIN cases : cases[i].question = q /\ Answers(runs[i])}
    <2>1. \/ Learned(cases, runs, base)[q] = base[q]
          \/ /\ answers # {}
             /\ Learned(cases, runs, base)[q] = Spent(runs[Min(answers)])
      BY DEF Learned
    <2>2. CASE answers # {}
      <3>1. Min(answers) \in answers
        <4>1. answers \subseteq Nat
          BY <1>1
        <4>. HIDE DEF answers
        <4>. QED
          BY <2>2, <4>1, FirstOne
      <3>2. Min(answers) \in DOMAIN cases
        BY <3>1
      <3>3. runs[Min(answers)] \in Rollouts
        <4>. HIDE DEF answers
        <4>. QED
          BY <3>2 DEF Runs
      <3>. QED
        <4>. HIDE DEF answers
        <4>. QED
          BY <2>1, <3>3, BaselinesAreCosts
    <2>. HIDE DEF answers
    <2>. QED
      BY <2>1, <2>2
  <1>6. /\ Evaluated(text, cases, runs, base).row = row
        /\ Evaluated(text, cases, runs, base).charge =
             IF text \in Refused /\ target = "extract" THEN 0 ELSE n
        /\ Evaluated(text, cases, runs, base).calls = IF text \in Refused THEN 0 ELSE n
        /\ Evaluated(text, cases, runs, base).baseline =
             IF text \in Refused \/ target = "extract" THEN base
             ELSE Learned(cases, runs, base)
    BY DEF Evaluated, Charge
  <1>7. Total(row) \in Nat /\ (text \in Refused => Total(row) = 0)
    BY <1>4, RowIs
  <1>. HIDE DEF row, n
  <1>. QED
    BY <1>1, <1>4, <1>5, <1>6, <1>7

\* A harvest is a list of cases for the target it is for.
LEMMA HarvestsAre ==
  ASSUME target \in Targets, NEW store \in Stores[target]
  PROVE  Cases(store) \in Seq(CaseType)
  <1>1. CASE target = "turn"
    <2> DEFINE S == Offers(Questions)
    <2>1. store \in Seq(Span(Questions))
      BY <1>1, OutcomesAssumption
    <2>2. InTurn(store) \in Seq(S)
      BY <2>1, OffersAre, Zenon
    <2>3. TurnCases(store) \in Seq(S)
      <3>. HIDE DEF S
      <3>. QED
        BY <2>2, CasesAreKept, Zenon DEF Kept, TurnCases
    <2>4. S \subseteq CaseType
      <3> SUFFICES ASSUME NEW case \in S PROVE case \in CaseType
        OBVIOUS
      <3>1. PICK q \in Questions, sql \in Queries \union {Nothing} :
              case = [question |-> q, sql |-> sql, ordered |-> Orders(sql)]
        BY DEF Offers
      <3>2. Orders(sql) \in BOOLEAN
        BY DEF Orders
      <3>. QED
        BY <1>1, <3>1, <3>2 DEF CaseType
    <2>. HIDE DEF S
    <2>. QED
      BY <1>1, <2>3, <2>4 DEF Cases
  <1>2. CASE target = "extract"
    <2> DEFINE M == Messages \union {Nothing}
               S == [question : M, sql : M]
               offers == [i \in 1..Len(store) |->
                            [question |-> store[i].message,
                             sql |-> IF ~store[i].own /\ store[i].scoped
                                     THEN store[i].message ELSE Nothing]]
    <2>1. store \in Seq(Call)
      BY <1>2, OutcomesAssumption
    <2>2. offers \in Seq(S)
      <3>1. Len(store) \in Nat /\ \A i \in 1..Len(store) : store[i].message \in M
        <4>1. Len(store) \in Nat /\ \A i \in 1..Len(store) : store[i] \in Call
          BY <2>1
        <4>2. \A c \in Call : c.message \in M
          BY DEF Call
        <4>. QED
          BY <4>1, <4>2
      <3>2. Nothing \in M
        OBVIOUS
      <3>3. \A i \in 1..Len(store) : offers[i] \in S
        <4>. HIDE DEF M
        <4>. QED
          BY <3>1, <3>2
      <3>. HIDE DEF S, M
      <3>. QED
        BY <3>1, <3>3
    <2>3. ExtractCases(store) \in Seq(S)
      <3>1. ExtractCases(store) = FoldLeft(KeepNew, <<>>, offers)
        BY Zenon DEF ExtractCases
      <3>. HIDE DEF S, offers
      <3>2. FoldLeft(KeepNew, <<>>, offers) \in Seq(S)
        BY <2>2, CasesAreKept, Zenon DEF Kept
      <3>. QED
        BY <3>1, <3>2, Zenon
    <2>4. S \subseteq CaseType
      BY <1>2 DEF CaseType
    <2>. HIDE DEF S
    <2>. QED
      BY <1>2, <2>3, <2>4 DEF Cases
  <1>. QED
    BY <1>1, <1>2 DEF Targets

\* A shuffle of some cases is a list of them.
LEMMA ShufflesAre ==
  ASSUME NEW S, NEW cases \in Seq(S), NEW by \in Nat
  PROVE  Shuffled(cases, by) \in Seq(S) /\ Len(Shuffled(cases, by)) = Len(cases)
  <1> DEFINE n == Len(cases)
             f == Shuffled(cases, by)
  <1>1. n \in Nat /\ DOMAIN cases = 1..n
    OBVIOUS
  <1>2. ASSUME NEW i \in 1..n PROVE 1 + ((i - 1 + by) % n) \in 1..n
    <2>1. i - 1 + by \in Nat /\ n > 0
      BY <1>1
    <2>2. \A m \in Nat : m % n \in 0..(n - 1)
      <3>. HIDE DEF n
      <3>. QED
        BY <1>1, <2>1
    <2>. HIDE DEF n
    <2>3. (i - 1 + by) % n \in 0..(n - 1)
      BY <2>1, <2>2
    <2>. QED
      BY <1>1, <2>3
  <1>3. f = [i \in 1..n |-> f[i]] /\ \A i \in 1..n : f[i] \in S
    <2>1. f = [i \in 1..n |-> cases[1 + ((i - 1 + by) % n)]]
      BY <1>1 DEF Shuffled
    <2>. HIDE DEF n, f
    <2>2. \A i \in 1..n : f[i] = cases[1 + ((i - 1 + by) % n)]
      BY <2>1
    <2>3. \A i \in 1..n : cases[i] \in S
      BY <1>1
    <2>. QED
      BY <1>2, <2>1, <2>2, <2>3
  <1>. HIDE DEF n, f
  <1>4. f \in Seq(S) /\ Len(f) = n
    BY <1>1, <1>3, ListIs
  <1>. QED
    BY <1>4 DEF n, f

\* Both halves of a split are lists of the same cases, and there are some to
\* validate on.
LEMMA SplitsAre ==
  ASSUME NEW S, NEW cases \in Seq(S), NEW options \in [percent : Nat, shuffle : Nat]
  PROVE  /\ Split(cases, options).train \in Seq(S) /\ Split(cases, options).val \in Seq(S)
         /\ cases # <<>> => Split(cases, options).val # <<>>
  <1> DEFINE n == Len(cases)
             share == (n * options.percent) \div 100
             cut == Min({n, Max({1, share})})
             shuffled == Shuffled(cases, options.shuffle)
  <1>1. n \in Nat /\ options.percent \in Nat /\ options.shuffle \in Nat
    OBVIOUS
  <1>2. share \in Nat
    <2>1. n * options.percent \in Nat
      BY <1>1
    <2>. QED
      BY <2>1, QuotientIsANumber
  <1>3. Max({1, share}) \in Nat /\ Max({1, share}) >= 1
    BY <1>2, LesserOf
  <1>4. cut \in Nat /\ cut <= n /\ (n >= 1 => cut >= 1)
    <2> DEFINE most == Max({1, share})
    <2>1. most \in Nat /\ most >= 1 /\ n \in Nat /\ cut = Min({n, most})
      BY <1>1, <1>3
    <2>. HIDE DEF cut, n, most
    <2>2. cut \in Nat /\ cut <= n /\ cut \in {n, most}
      BY <2>1, LesserOf
    <2>. QED
      BY <2>1, <2>2
  <1>5. shuffled \in Seq(S) /\ Len(shuffled) = n
    BY <1>1, ShufflesAre
  <1>6. Split(cases, options) =
          IF n < MinSplit THEN [train |-> cases, val |-> cases]
          ELSE [train |-> SubSeq(shuffled, cut + 1, n), val |-> SubSeq(shuffled, 1, cut)]
    BY DEF Split, cut
  <1>7. cases # <<>> <=> n >= 1
    OBVIOUS
  <1>. HIDE DEF cut, shuffled, n
  <1>8. /\ SubSeq(shuffled, cut + 1, n) \in Seq(S) /\ SubSeq(shuffled, 1, cut) \in Seq(S)
        /\ Len(SubSeq(shuffled, 1, cut)) = cut
    BY <1>1, <1>4, <1>5
  <1>9. n >= 1 => SubSeq(shuffled, 1, cut) # <<>>
    <2> SUFFICES ASSUME n >= 1, SubSeq(shuffled, 1, cut) = <<>> PROVE FALSE
      OBVIOUS
    <2>1. cut >= 1 /\ cut \in Nat
      BY <1>4
    <2>2. Len(SubSeq(shuffled, 1, cut)) = Len(<<>>)
      OBVIOUS
    <2>3. Len(<<>>) = 0
      OBVIOUS
    <2>4. cut = 0
      BY <1>8, <2>2, <2>3, Zenon
    <2>. QED
      BY <2>1, <2>4
  <1>. QED
    BY <1>6, <1>7, <1>8, <1>9

\* Of places in a list, one has the greatest number, the first of its equals.
LEMMA OneIsBest ==
  ASSUME NEW total, NEW n \in Nat, \A c \in 1..n : total[c] \in Nat,
         NEW T, T \subseteq 1..n, T # {}
  PROVE  \E c \in T : \A d \in T :
           total[d] < total[c] \/ (total[d] = total[c] /\ c <= d)
  <1> DEFINE Ahead(c, d) == total[d] < total[c] \/ (total[d] = total[c] /\ c <= d)
             HasBest(t) == \E c \in t : \A d \in t : Ahead(c, d)
             K == {k \in Nat : k <= n => \A t \in SUBSET (1..k) : t # {} => HasBest(t)}
  <1>1. 0 \in K
    <2>1. \A t \in SUBSET (1..0) : t = {}
      OBVIOUS
    <2>. QED
      BY <2>1
  <1>2. ASSUME NEW k \in Nat, k \in K PROVE k + 1 \in K
    <2> SUFFICES ASSUME k + 1 <= n, NEW t \in SUBSET (1..(k + 1)), t # {}
                 PROVE  HasBest(t)
      OBVIOUS
    <2> DEFINE rest == t \ {k + 1}
    <2>1. rest \in SUBSET (1..k) /\ k <= n
      OBVIOUS
    <2>2. \A c \in t : c \in Nat /\ c <= k + 1 /\ total[c] \in Nat
      OBVIOUS
    <2>3. CASE rest = {}
      <3>1. t = {k + 1}
        BY <2>3
      <3>2. Ahead(k + 1, k + 1)
        OBVIOUS
      <3>. QED
        BY <3>1, <3>2
    <2>4. CASE rest # {}
      <3>1. PICK c \in rest : \A d \in rest : Ahead(c, d)
        BY <1>2, <2>1, <2>4
      <3>2. CASE k + 1 \notin t
        BY <3>1, <3>2
      <3>3. CASE k + 1 \in t /\ total[k + 1] <= total[c]
        <4>1. Ahead(c, k + 1)
          BY <2>2, <3>3
        <4>. QED
          BY <3>1, <4>1
      <3>4. CASE k + 1 \in t /\ total[c] < total[k + 1]
        <4>1. \A d \in t : Ahead(k + 1, d)
          BY <2>2, <3>1, <3>4
        <4>. QED
          BY <3>4, <4>1
      <3>5. total[c] \in Nat /\ (k + 1 \in t => total[k + 1] \in Nat)
        BY <2>2
      <3>. QED
        BY <3>2, <3>3, <3>4, <3>5
    <2>. QED
      BY <2>3, <2>4
  <1>. HIDE DEF K
  <1>3. \A k \in Nat : k \in K
    BY <1>1, <1>2, NumberInduction
  <1>4. n \in K
    BY <1>3
  <1>. QED
    BY <1>4 DEF K

\* The best of some candidates is one of them.
LEMMA BestIs ==
  ASSUME Scored(gepa), NEW T, T \subseteq DOMAIN gepa.pool, T # {}
  PROVE  Best(T) \in T
  <1> DEFINE score == [c \in DOMAIN gepa.pool |-> Mean(gepa.pool[c].row)]
             n == Len(gepa.pool)
  <1>1. n \in Nat /\ DOMAIN gepa.pool = 1..n
    BY DEF Scored
  <1>2. \A c \in 1..n : gepa.pool[c].row \in Seq(Share) /\ gepa.pool[c].row # <<>>
    <2>1. \A c \in 1..n : gepa.pool[c] \in Candidate
      BY <1>1 DEF Scored
    <2>. QED
      BY <2>1 DEF Candidate
  <1>3. \A c \in 1..n : score[c] \in Nat
    BY <1>1, <1>2, MeanIs
  <1>4. \A c \in T : score[c] = Mean(gepa.pool[c].row)
    OBVIOUS
  <1>. HIDE DEF score, n
  <1>5. \E c \in T : \A d \in T :
          score[d] < score[c] \/ (score[d] = score[c] /\ c <= d)
    BY <1>1, <1>3, OneIsBest
  <1>6. \E c \in T : \A d \in T :
          \/ Mean(gepa.pool[d].row) < Mean(gepa.pool[c].row)
          \/ Mean(gepa.pool[d].row) = Mean(gepa.pool[c].row) /\ c <= d
    BY <1>4, <1>5, Zenon
  <1>. QED
    BY <1>6, Zenon DEF Best

\* What a search began with is the first place of its pool.
LEMMA SeedIsFirst ==
  ASSUME Scored(gepa), gepa.pool # <<>>, First(gepa) = cmd.seed
  PROVE  SeedIndex(gepa.pool) = 1
  <1>1. 1 \in DOMAIN gepa.pool /\ \A d \in DOMAIN gepa.pool : d \in Nat /\ 1 <= d
    BY DEF Scored
  <1> DEFINE P(c) == /\ gepa.pool[c].text = cmd.seed
                     /\ \A d \in DOMAIN gepa.pool : gepa.pool[d].text = cmd.seed => c <= d
  <1>2. P(1)
    BY <1>1 DEF First
  <1>3. \A c \in DOMAIN gepa.pool : P(c) => c = 1
    BY <1>1, <1>2
  <1>. HIDE DEF P
  <1>4. SeedIndex(gepa.pool) = CHOOSE c \in DOMAIN gepa.pool : P(c)
    BY Zenon DEF SeedIndex, P
  <1>. QED
    BY <1>1, <1>2, <1>3, <1>4

\* A step that leaves the search as it is, and prints nothing.
LEMMA AsideWorks ==
  ASSUME WorkInv, target' = target, gepa' = gepa, run' = run, best' = best,
         pc' \in Places, pc' # "printed",
         pc' \in {"engine", "search"} => val' # <<>>,
         corpus' \in Seq(CaseType), train' \in Seq(CaseType), val' \in Seq(CaseType),
         baseline' \in [Questions -> Baselines],
         dir'.seed \in Texts \union {NoText}, dir'.saved = dir.saved \/ Scored(dir'.saved),
         commands' \in 0..MaxCommands
  PROVE  WorkInv'
  <1>1. CaseType' = CaseType
    BY DEF CaseType
  <1>2. Scored(gepa)' /\ Scored(dir.saved)'
    BY DEF WorkInv, Typed, Scored
  <1>3. Typed'
    BY <1>1, <1>2 DEF WorkInv, Typed, Places
  <1>4. Counted'
    BY DEF WorkInv, Counted, ChargeIsForCalls
  <1>5. StdoutIsEarned'
    BY DEF StdoutIsEarned
  <1>. QED
    BY <1>3, <1>4, <1>5 DEF WorkInv

\* A search that is not there has scored nothing.
LEMMA NoSearchIsScored == Scored(NoSearch) /\ NoSearch.evals = 0
  <1>1. <<>> \in Seq(Candidate)
    OBVIOUS
  <1>. QED
    BY <1>1 DEF Scored, NoSearch

Shell ==
  /\ target \in Targets /\ gepa = NoSearch /\ run = NoRun /\ best = 0 /\ pc = "idle"
  /\ corpus \in Seq(CaseType) /\ train = <<>> /\ val = <<>>
  /\ baseline = [q \in Questions |-> NoBaseline]
  /\ dir.seed \in Texts \union {NoText} /\ Scored(dir.saved)
  /\ commands \in 0..MaxCommands

\* With no process there is nothing to be wrong but the files.
LEMMA AtTheShell == Shell => WorkInv
  <1> SUFFICES ASSUME Shell PROVE WorkInv
    OBVIOUS
  <1> USE DEF Shell
  <1>1. train \in Seq(CaseType) /\ val \in Seq(CaseType)
    OBVIOUS
  <1>2. baseline \in [Questions -> Baselines]
    BY BaselinesAreCosts
  <1>3. best \in 0..Len(gepa.pool)
    BY DEF NoSearch
  <1>4. Typed
    BY <1>1, <1>2, <1>3, NoSearchIsScored DEF Typed, Places
  <1>5. Counted
    BY DEF Counted, ChargeIsForCalls, NoSearch, NoRun
  <1>6. StdoutIsEarned
    BY DEF StdoutIsEarned
  <1>. QED
    BY <1>4, <1>5, <1>6 DEF WorkInv

\* So does every way back to the shell.
LEMMA ExitWorks ==
  ASSUME target \in Targets, target' = target, Exit, corpus' \in Seq(CaseType),
         dir'.seed \in Texts \union {NoText}, dir'.saved = dir.saved \/ Scored(dir'.saved),
         WorkInv, commands' \in 0..MaxCommands
  PROVE  WorkInv'
  <1>1. CaseType' = CaseType
    BY DEF CaseType
  <1>2. Scored(dir.saved)'
    BY DEF WorkInv, Typed, Scored
  <1>3. /\ gepa' = NoSearch /\ run' = NoRun /\ best' = 0 /\ pc' = "idle"
        /\ train' = <<>> /\ val' = <<>>
        /\ baseline' = [q \in Questions |-> NoBaseline]
    BY DEF Exit
  <1>4. corpus' \in Seq(CaseType')
    BY <1>1
  <1>5. Shell'
    BY <1>1, <1>2, <1>3, <1>4 DEF Shell
  <1>. QED
    BY <1>5, AtTheShell, PTL

\* And so does the beginning.
LEMMA InitWorks == Init => WorkInv
  <1> SUFFICES ASSUME Init PROVE WorkInv
    OBVIOUS
  <1>1. /\ target \in Targets /\ gepa = NoSearch /\ run = NoRun /\ best = 0
        /\ pc = "idle" /\ train = <<>> /\ val = <<>> /\ commands = 0
        /\ baseline = [q \in Questions |-> NoBaseline]
    BY DEF Init
  <1>2. corpus \in Seq(CaseType)
    <2>1. PICK store \in Stores[target] : corpus \in {<<>>, Cases(store)}
      BY DEF Init
    <2>2. <<>> \in Seq(CaseType)
      OBVIOUS
    <2>. QED
      BY <1>1, <2>1, <2>2, HarvestsAre
  <1>3. dir.seed \in Texts \union {NoText} /\ Scored(dir.saved)
    <2>1. CASE dir = EmptyDir
      BY <2>1, NoSearchIsScored DEF EmptyDir
    <2>2. CASE dir # EmptyDir
      <3>1. PICK text \in Seeds[target], split \in Splits[target] :
              LET cases == Split(corpus, split).val
              IN dir = [seed |-> NoText,
                        saved |-> [pool |-> <<[text |-> text,
                                               row |-> [i \in DOMAIN cases |-> 0]]>>,
                                   i |-> 1, evals |-> Len(cases), of |-> cases,
                                   split |-> split]]
        BY <2>2, Zenon DEF Init
      <3> DEFINE cases == Split(corpus, split).val
                 row == [i \in DOMAIN cases |-> 0]
      <3>2. cases \in Seq(CaseType) /\ cases # <<>> /\ text \in Texts
        <4>1. corpus # <<>>
          BY <2>2 DEF Init
        <4>2. split \in [percent : Nat, shuffle : Nat] /\ text \in Texts
          BY <1>1, ConstantsAssumption
        <4>. QED
          BY <1>2, <4>1, <4>2, SplitsAre
      <3>9. dir = [seed |-> NoText,
                   saved |-> [pool |-> <<[text |-> text, row |-> row]>>,
                              i |-> 1, evals |-> Len(cases), of |-> cases,
                              split |-> split]]
        BY <3>1, Zenon
      <3>. HIDE DEF cases
      <3>3. /\ DOMAIN cases = 1..Len(cases) /\ Len(cases) \in Nat
            /\ row = [i \in 1..Len(cases) |-> row[i]]
            /\ \A i \in 1..Len(cases) : row[i] \in Share
        <4>1. DOMAIN cases = 1..Len(cases) /\ Len(cases) \in Nat
          BY <3>2
        <4>. QED
          BY <4>1 DEF Share
      <3>. HIDE DEF row
      <3>4. row \in Seq(Share) /\ row # <<>>
        <4>1. row \in Seq(Share) /\ Len(row) = Len(cases) /\ Len(cases) # 0
          BY <3>2, <3>3, ListIs
        <4>. QED
          BY <4>1
      <3>5. [text |-> text, row |-> row] \in Candidate
        BY <3>2, <3>4 DEF Candidate
      <3>6. <<[text |-> text, row |-> row]>> \in Seq(Candidate)
        BY <3>5
      <3>7. /\ dir.saved.i = 1 /\ dir.saved.evals = Len(cases)
            /\ dir.saved.pool = <<[text |-> text, row |-> row]>>
            /\ dir.saved.of = cases /\ dir.seed = NoText
        BY <3>9
      <3>8. /\ DOMAIN dir.saved.pool = {1}
            /\ dir.saved.pool[1].row = row
        BY <3>7
      <3>. QED
        BY <3>3, <3>4, <3>6, <3>7, <3>8 DEF Scored
    <2>. QED
      BY <2>1, <2>2
  <1>4. commands \in 0..MaxCommands
    BY <1>1, ConstantsAssumption
  <1>. QED
    BY <1>1, <1>2, <1>3, <1>4, AtTheShell DEF Shell

\* The steps before and after a search.
LEMMA AsideSteps ==
  ASSUME WorkInv, IndInv,
         \/ Start \/ Wipe \/ RecordSeed \/ Stop \/ Sweep \/ WipeDies
         \/ \E resume \in BOOLEAN : ProbeOnly(resume)
  PROVE  WorkInv'
  <1>1. /\ corpus \in Seq(CaseType) /\ train \in Seq(CaseType) /\ val \in Seq(CaseType)
        /\ baseline \in [Questions -> Baselines]
        /\ dir.seed \in Texts \union {NoText} /\ Scored(dir.saved)
        /\ commands \in 0..MaxCommands /\ MaxCommands \in Nat
        /\ target \in Targets /\ dir = [seed |-> dir.seed, saved |-> dir.saved]
    BY ConstantsAssumption DEF WorkInv, Typed, IndInv, Files
  <1>2. CASE Start
    <2>1. /\ UNCHANGED <<target, gepa, run, best, corpus, train, val, baseline, dir>>
          /\ commands' = commands + 1 /\ commands < MaxCommands
          /\ pc' \in {"corpus", "record", "wipe"}
      BY <1>2 DEF Start, files, memory
    <2>2. commands' \in 0..MaxCommands
      BY <1>1, <2>1
    <2>. QED
      BY <1>1, <2>1, <2>2, AsideWorks DEF Places
  <1>3. CASE Wipe
    <2>1. /\ UNCHANGED <<target, gepa, run, best, corpus, train, val, baseline, commands>>
          /\ dir'.seed = NoText /\ dir'.saved = NoSearch /\ pc' = "record"
      BY <1>3 DEF Wipe, memory, EmptyDir
    <2>. QED
      BY <1>1, <2>1, AsideWorks, NoSearchIsScored DEF Places
  <1>4. CASE RecordSeed
    <2>1. /\ UNCHANGED <<target, gepa, run, best, corpus, train, val, baseline, commands>>
          /\ dir' = dir \/ dir' = [dir EXCEPT !.seed = cmd.seed]
          /\ pc' = "corpus" /\ pc = "record"
      BY <1>4, Zenon DEF RecordSeed, memory
    <2>2. cmd.seed \in Texts
      BY <1>1, <2>1, CommandsAre DEF IndInv, Before
    <2>3. dir'.seed \in Texts \union {NoText} /\ dir'.saved = dir.saved
      BY <1>1, <2>1, <2>2
    <2>. QED
      BY <1>1, <2>1, <2>3, AsideWorks DEF Places
  <1>5. CASE Stop
    <2>1. /\ UNCHANGED <<target, gepa, run, best, corpus, train, val, baseline, dir, commands>>
          /\ pc' = "check"
      BY <1>5 DEF Stop, files, memory
    <2>. QED
      BY <1>1, <2>1, AsideWorks DEF Places
  <1>6. CASE WipeDies
    <2>1. /\ UNCHANGED <<target, corpus, commands>> /\ Exit
          /\ dir' \in {[dir EXCEPT !.seed = NoText], [dir EXCEPT !.saved = NoSearch]}
      BY <1>6 DEF WipeDies
    <2>2. /\ dir'.seed \in Texts \union {NoText}
          /\ dir'.saved = dir.saved \/ Scored(dir'.saved)
      BY <1>1, <2>1, NoSearchIsScored
    <2>. QED
      BY <1>1, <2>1, <2>2, ExitWorks
  <1>7. ASSUME NEW resume \in BOOLEAN, ProbeOnly(resume) PROVE WorkInv'
    <2>1. /\ UNCHANGED <<target, gepa, run, best, train, val, baseline, dir, pc>>
          /\ commands' = commands + 1 /\ commands < MaxCommands /\ pc = "idle"
          /\ \/ corpus' = corpus
             \/ \E store \in Stores[target] : corpus' = Cases(store)
      BY <1>7, Zenon DEF ProbeOnly, memory
    <2>2. commands' \in 0..MaxCommands
      BY <1>1, <2>1
    <2>3. corpus' \in Seq(CaseType)
      BY <1>1, <2>1, HarvestsAre
    <2>. QED
      BY <1>1, <2>1, <2>2, <2>3, AsideWorks DEF Places
  <1>8. CASE Sweep
    <2>1. PICK runs \in Runs(corpus) :
            LET seed == Evaluated(cmd.seed, corpus, runs, baseline)
            IN /\ \E worst \in Worst(seed.row) :
                    train' = [n \in 1..OverfitN |-> corpus[worst[n]]]
               /\ val' = train'
               /\ baseline' = seed.baseline
      BY <1>8 DEF Sweep
    <2> DEFINE seed == Evaluated(cmd.seed, corpus, runs, baseline)
    <2>2. /\ seed.row \in Seq(Share) /\ Len(seed.row) = Len(corpus)
          /\ baseline' \in [Questions -> Baselines]
      BY <1>1, <2>1, EvaluatedIs
    <2>3. PICK worst \in Worst(seed.row) :
                 train' = [n \in 1..OverfitN |-> corpus[worst[n]]]
      BY <2>1
    <2>. HIDE DEF seed
    <2>4. OverfitN \in Nat /\ worst \in [1..OverfitN -> DOMAIN corpus]
      BY <1>1, <2>2, ConstantsAssumption DEF Worst
    <2>5. /\ train' = [n \in 1..OverfitN |-> train'[n]]
          /\ \A n \in 1..OverfitN : train'[n] \in CaseType
      BY <1>1, <2>3, <2>4
    <2>6. train' \in Seq(CaseType) /\ val' = train' /\ val' # <<>>
      <3>1. train' \in Seq(CaseType) /\ Len(train') = OverfitN /\ OverfitN # 0
        BY <2>4, <2>5, ListIs, ConstantsAssumption
      <3>2. val' = train'
        BY <2>1
      <3>3. train' # <<>>
        BY <3>1
      <3>. QED
        BY <3>1, <3>2, <3>3
    <2>7. /\ UNCHANGED <<target, gepa, run, best, corpus, dir, commands>>
          /\ pc' = "engine"
      BY <1>8 DEF Sweep, files
    <2>. QED
      BY <1>1, <2>2, <2>6, <2>7, AsideWorks DEF Places
  <1>. QED
    BY <1>2, <1>3, <1>4, <1>5, <1>6, <1>7, <1>8

\* A harvest has cases of the target, and its split too.
LEMMA LoadCorpusWorks == ASSUME WorkInv, IndInv, LoadCorpus PROVE WorkInv'
  <1>1. /\ corpus \in Seq(CaseType) /\ train \in Seq(CaseType) /\ val \in Seq(CaseType)
        /\ baseline \in [Questions -> Baselines]
        /\ dir.seed \in Texts \union {NoText} /\ Scored(dir.saved)
        /\ commands \in 0..MaxCommands /\ target \in Targets
    BY DEF WorkInv, Typed, IndInv, Files
  <1>2. PICK cases \in Corpora :
          /\ corpus' = IF cases = <<>> THEN corpus ELSE cases
          /\ \/ Exit
             \/ /\ cases # <<>>
                /\ \/ pc' = "sweep" /\ UNCHANGED <<train, val>>
                   \/ /\ pc' = "engine" /\ ~cmd.overfit
                      /\ train' = Split(cases, cmd.split).train
                      /\ val' = Split(cases, cmd.split).val
                /\ UNCHANGED <<gepa, run, baseline, best>>
    BY Zenon DEF LoadCorpus
  <1>3. UNCHANGED <<target, dir, commands>>
    BY DEF LoadCorpus
  <1>8. pc = "corpus"
    BY DEF LoadCorpus
  <1>4. cases \in Seq(CaseType)
    BY <1>1, <1>2, HarvestsAre DEF Corpora
  <1>5. corpus' \in Seq(CaseType)
    BY <1>1, <1>2, <1>4
  <1>6. CASE Exit
    BY <1>1, <1>3, <1>5, <1>6, ExitWorks
  <1>7. CASE /\ cases # <<>>
             /\ \/ pc' = "sweep" /\ UNCHANGED <<train, val>>
                \/ /\ pc' = "engine" /\ ~cmd.overfit
                   /\ train' = Split(cases, cmd.split).train
                   /\ val' = Split(cases, cmd.split).val
             /\ UNCHANGED <<gepa, run, baseline, best>>
    <2>1. /\ train' \in Seq(CaseType) /\ val' \in Seq(CaseType)
          /\ pc' \in {"engine", "search"} => val' # <<>>
      <3>1. cmd.split \in [percent : Nat, shuffle : Nat]
        BY <1>1, <1>8, CommandsAre DEF IndInv, Before
      <3>. QED
        BY <1>1, <1>4, <1>7, <3>1, SplitsAre
    <2>2. pc' \in Places /\ pc' # "printed"
      BY <1>7 DEF Places
    <2>. QED
      BY <1>1, <1>3, <1>5, <1>7, <2>1, <2>2, AsideWorks
  <1>. QED
    BY <1>2, <1>6, <1>7

\* The check writes a text, and lets a search through or exits.
LEMMA CheckWorks == ASSUME WorkInv, IndInv, Check PROVE WorkInv'
  <1>1. /\ corpus \in Seq(CaseType) /\ train \in Seq(CaseType) /\ val \in Seq(CaseType)
        /\ baseline \in [Questions -> Baselines]
        /\ dir.seed \in Texts \union {NoText}
        /\ commands \in 0..MaxCommands /\ target \in Targets
        /\ dir = [seed |-> dir.seed, saved |-> dir.saved]
    BY DEF WorkInv, Typed, IndInv, Files
  <1>2. /\ UNCHANGED <<target, corpus, commands>> /\ pc = "check"
        /\ dir' = dir \/ dir' = [dir EXCEPT !.seed = cmd.seed]
        /\ Exit \/ (pc' = "gate" /\ UNCHANGED <<train, val, gepa, run, baseline, best>>)
    BY DEF Check, memory
  <1>3. cmd.seed \in Texts
    BY <1>1, <1>2, CommandsAre DEF IndInv, Before
  <1>4. dir'.seed \in Texts \union {NoText} /\ dir'.saved = dir.saved
    BY <1>1, <1>2, <1>3
  <1>5. CASE Exit
    BY <1>1, <1>2, <1>4, <1>5, ExitWorks
  <1>6. CASE pc' = "gate" /\ UNCHANGED <<train, val, gepa, run, baseline, best>>
    BY <1>1, <1>2, <1>4, <1>6, AsideWorks DEF Places
  <1>. QED
    BY <1>2, <1>5, <1>6

\* Leaving for the shell keeps the second invariant as well.
LEMMA LeaveWorks ==
  ASSUME WorkInv, IndInv, Exit, UNCHANGED <<target, files, commands>>
  PROVE  WorkInv'
  <1>1. /\ corpus' \in Seq(CaseType) /\ target \in Targets /\ target' = target
        /\ dir'.seed \in Texts \union {NoText} /\ dir'.saved = dir.saved
        /\ commands' \in 0..MaxCommands
    BY DEF WorkInv, Typed, IndInv, Files, files
  <1>. QED
    BY <1>1, ExitWorks

\* A search begins with what it found, or with the seed and nothing counted.
LEMMA EngineWorks == ASSUME WorkInv, IndInv, Engine PROVE WorkInv'
  <1>1. /\ val \in Seq(CaseType) /\ baseline \in [Questions -> Baselines]
        /\ Scored(dir.saved) /\ dir = [seed |-> dir.seed, saved |-> dir.saved]
        /\ target \in Targets /\ val # <<>>
    BY DEF WorkInv, Typed, IndInv, Files, Engine
  <1>2. /\ pc = "engine" /\ pc' = "search"
        /\ UNCHANGED <<target, corpus, commands, cmd, train, val, best>>
        /\ run.calls = 0 /\ gepa = NoSearch /\ cmd.seed \in Texts
        /\ run = [calls |-> run.calls, rounds |-> run.rounds, found |-> run.found]
    BY <1>1, CommandsAre DEF Engine, IndInv, Before, NoRun
  <1>3. best \in 0..Len(gepa'.pool) /\ CaseType' = CaseType
    <2>1. best = 0
      BY <1>2 DEF WorkInv, Typed, NoSearch
    <2>. QED
      BY <1>2, <2>1 DEF CaseType
  <1>4. /\ Scored(gepa') /\ Scored(dir'.saved) /\ dir'.seed = dir.seed
        /\ baseline' \in [Questions -> Baselines]
        /\ run'.calls = 0 /\ run'.found.evals = gepa'.evals
    <2>1. CASE Resuming /\ dir.saved # NoSearch
      <3>1. /\ gepa' = dir.saved /\ dir' = dir /\ baseline' = baseline
            /\ run' = [run EXCEPT !.found = [i |-> dir.saved.i, evals |-> dir.saved.evals]]
        BY <2>1 DEF Engine
      <3>. QED
        BY <1>1, <1>2, <3>1
    <2>2. CASE ~(Resuming /\ dir.saved # NoSearch)
      <3>1. PICK runs \in Runs(val) :
              LET seed == Evaluated(cmd.seed, val, runs, baseline)
              IN /\ gepa' = [pool |-> <<[text |-> cmd.seed, row |-> seed.row]>>,
                             i |-> 0, evals |-> seed.charge, of |-> val,
                             split |-> cmd.split]
                 /\ baseline' = seed.baseline
                 /\ dir' = IF cmd.overfit THEN dir ELSE [dir EXCEPT !.saved = gepa']
                 /\ run' = [run EXCEPT !.found = [i |-> 0, evals |-> seed.charge]]
        BY <2>2 DEF Engine
      <3> DEFINE seed == Evaluated(cmd.seed, val, runs, baseline)
      <3>2. /\ seed.row \in Seq(Share) /\ Len(seed.row) = Len(val)
            /\ seed.charge \in Nat /\ seed.baseline \in [Questions -> Baselines]
        BY <1>1, EvaluatedIs
      <3>6. seed.row # <<>>
        <4>. HIDE DEF seed
        <4>. QED
          BY <1>1, <3>2
      <3>. HIDE DEF seed
      <3>3. /\ gepa' = [pool |-> <<[text |-> cmd.seed, row |-> seed.row]>>,
                        i |-> 0, evals |-> seed.charge, of |-> val,
                        split |-> cmd.split]
            /\ baseline' = seed.baseline
            /\ dir' = IF cmd.overfit THEN dir ELSE [dir EXCEPT !.saved = gepa']
            /\ run' = [run EXCEPT !.found = [i |-> 0, evals |-> seed.charge]]
        BY <3>1 DEF seed
      <3>4. <<[text |-> cmd.seed, row |-> seed.row]>> \in Seq(Candidate)
        <4>1. [text |-> cmd.seed, row |-> seed.row] \in Candidate
          BY <1>2, <3>2, <3>6 DEF Candidate
        <4>. QED
          BY <4>1
      <3>5. Scored(gepa')
        <4>1. /\ DOMAIN gepa'.pool = {1} /\ gepa'.pool[1].row = seed.row
              /\ gepa'.of = val /\ gepa'.i = 0 /\ gepa'.evals = seed.charge
              /\ gepa'.pool = <<[text |-> cmd.seed, row |-> seed.row]>>
          BY <3>3
        <4>. QED
          BY <3>2, <3>4, <4>1 DEF Scored
      <3>. QED
        BY <1>1, <1>2, <3>2, <3>3, <3>5
    <2>. QED
      BY <2>1, <2>2
  <1>5. Typed'
    BY <1>1, <1>2, <1>3, <1>4 DEF WorkInv, Typed, Places, Scored
  <1>6. Counted'
    <2>1. gepa'.evals \in Nat
      BY <1>4 DEF Scored
    <2>. QED
      BY <1>2, <1>4, <2>1 DEF Counted, ChargeIsForCalls
  <1>7. StdoutIsEarned'
    BY <1>2 DEF StdoutIsEarned
  <1>. QED
    BY <1>5, <1>6, <1>7 DEF WorkInv

\* What an iteration may come to.
Worked(charge, calls, base, pool) ==
  /\ charge \in Nat /\ calls \in Nat /\ calls <= charge
  /\ target = "extract" => charge = calls
  /\ base \in [Questions -> Baselines]
  /\ \/ pool = gepa.pool
     \/ \E new \in Candidate :
          /\ new.text \notin Refused
          /\ pool = Append(gepa.pool, new)

\* Charges that cover calls still do when both are summed.
LEMMA WorkAdds ==
  ASSUME NEW a \in Nat, NEW b \in Nat, b <= a, NEW c \in Nat, NEW d \in Nat, d <= c
  PROVE  /\ a + c \in Nat /\ b + d \in Nat /\ b + d <= a + c
         /\ a = b /\ c = d => a + c = b + d
  OBVIOUS

\* A refused text scores nothing, so it does no better than any parent.
LEMMA ProposalIs ==
  ASSUME WorkInv, IndInv, pc = "search", NEW parent, NEW text \in Texts, NEW cases \in Seq(CaseType),
         NEW runs \in Runs(cases), Propose(parent, text, cases, runs),
         Total(parent.row) \in Nat, parent.charge \in Nat, parent.calls \in Nat,
         parent.calls <= parent.charge,
         target = "extract" => parent.charge = parent.calls,
         parent.baseline \in [Questions -> Baselines]
  PROVE  \E charge, calls, base, pool :
           Spend(charge, calls, base, pool) /\ Worked(charge, calls, base, pool)
  <1> DEFINE child == Evaluated(text, cases, runs, parent.baseline)
             charge == parent.charge + child.charge
             calls == parent.calls + child.calls
  <1>1. target \in Targets /\ val \in Seq(CaseType) /\ val # <<>>
    BY DEF WorkInv, Typed, IndInv, Files
  <1>2. /\ Total(child.row) \in Nat /\ (text \in Refused => Total(child.row) = 0)
        /\ child.charge \in Nat /\ child.calls \in Nat /\ child.calls <= child.charge
        /\ target = "extract" => child.charge = child.calls
    BY <1>1, EvaluatedIs
  <1>3. child.baseline \in [Questions -> Baselines]
    BY <1>1, EvaluatedIs
  <1>4. IF Total(child.row) <= Total(parent.row)
        THEN Spend(charge, calls, child.baseline, gepa.pool)
        ELSE \E onVal \in Runs(val) :
               LET whole == Evaluated(text, val, onVal, child.baseline)
               IN Spend(charge + whole.charge, calls + whole.calls, whole.baseline,
                        Append(gepa.pool, [text |-> text, row |-> whole.row]))
    BY Zenon DEF Propose
  <1>. HIDE DEF child
  <1>5. CASE Total(child.row) <= Total(parent.row)
    <2>1. Worked(charge, calls, child.baseline, gepa.pool)
      BY <1>2, <1>3 DEF Worked
    <2>. QED
      BY <1>4, <1>5, <2>1, Zenon
  <1>6. CASE ~(Total(child.row) <= Total(parent.row))
    <2>1. text \notin Refused
      BY <1>2, <1>6
    <2>2. PICK onVal \in Runs(val) :
            LET whole == Evaluated(text, val, onVal, child.baseline)
            IN Spend(charge + whole.charge, calls + whole.calls, whole.baseline,
                     Append(gepa.pool, [text |-> text, row |-> whole.row]))
      BY <1>4, <1>6, Zenon
    <2> DEFINE whole == Evaluated(text, val, onVal, child.baseline)
               new == [text |-> text, row |-> whole.row]
    <2>3. /\ whole.row \in Seq(Share) /\ Len(whole.row) = Len(val)
          /\ whole.charge \in Nat /\ whole.calls \in Nat /\ whole.calls <= whole.charge
          /\ target = "extract" => whole.charge = whole.calls
      BY <1>1, <1>3, EvaluatedIs
    <2>4. whole.baseline \in [Questions -> Baselines]
      BY <1>1, <1>3, EvaluatedIs
    <2>5. Spend(charge + whole.charge, calls + whole.calls, whole.baseline,
                Append(gepa.pool, new))
      BY <2>2, Zenon
    <2>. HIDE DEF whole
    <2>6. new \in Candidate /\ new.text \notin Refused
      <3>1. whole.row # <<>>
        BY <1>1, <2>3
      <3>. QED
        BY <2>1, <2>3, <3>1 DEF Candidate
    <2>. HIDE DEF new
    <2>7. /\ charge + whole.charge \in Nat /\ calls + whole.calls \in Nat
          /\ calls + whole.calls <= charge + whole.charge
          /\ target = "extract" => charge + whole.charge = calls + whole.calls
      <3>1. /\ charge \in Nat /\ calls \in Nat /\ calls <= charge
            /\ target = "extract" => charge = calls
        BY <1>2, WorkAdds
      <3>. HIDE DEF charge, calls
      <3>. QED
        BY <2>3, <3>1, WorkAdds
    <2>. HIDE DEF charge, calls
    <2>8. Worked(charge + whole.charge, calls + whole.calls, whole.baseline,
                 Append(gepa.pool, new))
      BY <2>4, <2>6, <2>7, Zenon DEF Worked
    <2>. QED
      BY <2>5, <2>8, Zenon
  <1>. QED
    BY <1>5, <1>6

\* Every iteration is a Spend that has been worked for.
LEMMA IterationIs ==
  ASSUME WorkInv, IndInv, Iterate
  PROVE  \E charge, calls, base, pool :
           Spend(charge, calls, base, pool) /\ Worked(charge, calls, base, pool)
  <1>1. PICK p \in Eligible(gepa.pool),
             batch \in [1..Minibatch[target] -> DOMAIN train] :
          LET cases == [n \in DOMAIN batch |-> train[batch[n]]]
          IN \E runs \in Runs(cases) :
               LET parent == Evaluated(gepa.pool[p].text, cases, runs, baseline)
               IN IF Perfect(parent.row)
                  THEN Spend(parent.charge, parent.calls, parent.baseline, gepa.pool)
                  ELSE \E text \in Texts, again \in Runs(cases) :
                         Propose(parent, text, cases, again)
    BY Zenon DEF Iterate
  <1> DEFINE cases == [n \in DOMAIN batch |-> train[batch[n]]]
  <1>2. PICK runs \in Runs(cases) :
          LET parent == Evaluated(gepa.pool[p].text, cases, runs, baseline)
          IN IF Perfect(parent.row)
             THEN Spend(parent.charge, parent.calls, parent.baseline, gepa.pool)
             ELSE \E text \in Texts, again \in Runs(cases) :
                    Propose(parent, text, cases, again)
    BY <1>1, Zenon
  <1> DEFINE parent == Evaluated(gepa.pool[p].text, cases, runs, baseline)
  <1>3. IF Perfect(parent.row)
        THEN Spend(parent.charge, parent.calls, parent.baseline, gepa.pool)
        ELSE \E text \in Texts, again \in Runs(cases) :
               Propose(parent, text, cases, again)
    BY <1>2, Zenon
  <1>4. /\ target \in Targets /\ train \in Seq(CaseType)
        /\ baseline \in [Questions -> Baselines]
    BY DEF WorkInv, Typed, IndInv, Files
  <1>5. cases \in Seq(CaseType)
    <2> DEFINE m == Minibatch[target]
    <2>1. m \in Nat
      BY <1>4, ConstantsAssumption
    <2>2. /\ cases = [n \in 1..m |-> cases[n]]
          /\ \A n \in 1..m : cases[n] \in CaseType
      BY <1>4
    <2>. HIDE DEF m, cases
    <2>. QED
      BY <2>1, <2>2, ListIs
  <1>. HIDE DEF cases
  <1>6. /\ Total(parent.row) \in Nat /\ parent.charge \in Nat /\ parent.calls \in Nat
        /\ parent.calls <= parent.charge
        /\ target = "extract" => parent.charge = parent.calls
    BY <1>4, <1>5, EvaluatedIs
  <1>7. parent.baseline \in [Questions -> Baselines]
    BY <1>4, <1>5, EvaluatedIs
  <1>. HIDE DEF parent
  <1>8. CASE Perfect(parent.row)
    <2>1. Worked(parent.charge, parent.calls, parent.baseline, gepa.pool)
      BY <1>6, <1>7 DEF Worked
    <2>. QED
      BY <1>3, <1>8, <2>1, Zenon
  <1>9. CASE ~Perfect(parent.row)
    <2>1. PICK text \in Texts, again \in Runs(cases) :
                 Propose(parent, text, cases, again)
      BY <1>3, <1>9, Zenon
    <2>2. pc = "search"
      BY Zenon DEF Iterate
    <2>. QED
      BY <1>5, <1>6, <1>7, <2>1, <2>2, ProposalIs
  <1>. QED
    BY <1>8, <1>9

\* A pool that takes one more.
LEMMA PoolGrows ==
  ASSUME NEW pool \in Seq(Candidate), NEW new \in Candidate
  PROVE  LET longer == Append(pool, new)
         IN /\ longer \in Seq(Candidate) /\ Len(longer) = Len(pool) + 1
            /\ \A c \in DOMAIN longer :
                 IF c \in DOMAIN pool THEN longer[c] = pool[c]
                 ELSE longer[c] = new
  <1>. QED
    BY AppendProperties

\* What an iteration is charged covers what it ran, and its find can be run.
LEMMA IterateWorks == ASSUME WorkInv, IndInv, Iterate PROVE WorkInv'
  <1>1. /\ pc = "search" /\ pc' = "search"
        /\ dir' = IF cmd.overfit THEN dir ELSE [dir EXCEPT !.saved = gepa']
        /\ UNCHANGED <<target, corpus, commands, cmd, train, val, best>>
    BY Zenon DEF Iterate
  <1>2. PICK charge, calls, base, pool :
          Spend(charge, calls, base, pool) /\ Worked(charge, calls, base, pool)
    BY IterationIs
  <1>3. Scored(gepa) /\ Scored(dir.saved)
    BY DEF WorkInv, Typed
  <1>4. /\ gepa' = [pool |-> pool, i |-> gepa.i + 1, evals |-> gepa.evals + charge,
                    of |-> gepa.of, split |-> gepa.split]
        /\ run' = [calls |-> run.calls + calls, rounds |-> run.rounds + 1,
                   found |-> run.found]
        /\ baseline' = base
    BY <1>2 DEF Spend, IndInv, Shape, IsSearch
  <1>11. /\ charge \in Nat /\ calls \in Nat /\ calls <= charge
         /\ target = "extract" => charge = calls
         /\ base \in [Questions -> Baselines]
         /\ \/ pool = gepa.pool
            \/ \E new \in Candidate :
                 /\ new.text \notin Refused
                 /\ pool = Append(gepa.pool, new)
    BY <1>2, Zenon DEF Worked
  <1>12. /\ gepa.i \in Nat /\ gepa.evals \in Nat /\ gepa.pool \in Seq(Candidate)
         /\ \A c \in DOMAIN gepa.pool : c > 1 => gepa.pool[c].text \notin Refused
    BY <1>3, Zenon DEF Scored
  <1>5. /\ pool \in Seq(Candidate) /\ Len(pool) >= Len(gepa.pool)
        /\ Len(gepa.pool) \in Nat /\ Len(pool) \in Nat
        /\ \A c \in DOMAIN pool : c > 1 => pool[c].text \notin Refused
    <2>1. \A c \in DOMAIN gepa.pool : c > 1 => gepa.pool[c].text \notin Refused
      BY <1>12
    <2>2. CASE pool = gepa.pool
      BY <1>12, <2>1, <2>2
    <2>3. ASSUME NEW new \in Candidate, new.text \notin Refused,
                 pool = Append(gepa.pool, new)
          PROVE  /\ pool \in Seq(Candidate) /\ Len(pool) = Len(gepa.pool) + 1
                 /\ \A c \in DOMAIN pool : c > 1 => pool[c].text \notin Refused
      <3>1. /\ pool \in Seq(Candidate) /\ Len(pool) = Len(gepa.pool) + 1
            /\ \A c \in DOMAIN pool :
                 IF c \in DOMAIN gepa.pool THEN pool[c] = gepa.pool[c]
                 ELSE pool[c] = new
        BY <1>12, <2>3, PoolGrows
      <3>. QED
        BY <1>3, <2>1, <2>3, <3>1
    <2>. QED
      BY <1>11, <1>12, <2>2, <2>3
  <1>6. Scored(gepa')
    <2>1. /\ gepa'.i \in Nat /\ gepa'.evals \in Nat /\ gepa'.pool = pool
          /\ gepa'.of = gepa.of
      BY <1>4, <1>11, <1>12
    <2>. QED
      BY <1>5, <2>1 DEF Scored
  <1>7. Scored(dir'.saved) /\ dir'.seed = dir.seed
    <2>1. dir = [seed |-> dir.seed, saved |-> dir.saved]
      BY DEF IndInv, Files
    <2>2. CASE cmd.overfit
      <3>1. dir' = dir
        BY <1>1, <2>2
      <3>. QED
        BY <1>3, <3>1
    <2>3. CASE ~cmd.overfit
      <3>1. dir' = [dir EXCEPT !.saved = gepa']
        BY <1>1, <2>3
      <3>2. dir'.saved = gepa' /\ dir'.seed = dir.seed
        BY <2>1, <3>1
      <3>. QED
        BY <1>6, <3>2, Zenon
    <2>. QED
      BY <2>2, <2>3
  <1>8. Typed'
    <2>1. base \in [Questions -> Baselines]
      BY <1>11
    <2>2. best \in 0..Len(gepa'.pool)
      BY <1>4, <1>5 DEF WorkInv, Typed
    <2>3. CaseType' = CaseType
      BY <1>1 DEF CaseType
    <2>4. Scored(gepa)' /\ Scored(dir.saved)'
      BY <1>6, <1>7 DEF Scored
    <2>. QED
      BY <1>1, <1>4, <1>7, <2>1, <2>2, <2>3, <2>4 DEF WorkInv, Typed
  <1>9. Counted'
    <2>1. /\ charge \in Nat /\ calls \in Nat /\ calls <= charge
          /\ target = "extract" => charge = calls
      BY <1>11
    <2>2. /\ gepa'.evals = gepa.evals + charge /\ run'.calls = run.calls + calls
          /\ run'.found = run.found /\ gepa.evals \in Nat
      BY <1>4, <1>12
    <2>3. Counted
      BY DEF WorkInv
    <2>. QED
      BY <1>1, <2>1, <2>2, <2>3 DEF Counted, ChargeIsForCalls
  <1>10. StdoutIsEarned'
    BY <1>1 DEF StdoutIsEarned
  <1>. QED
    BY <1>8, <1>9, <1>10 DEF WorkInv

\* Whatever passes a gate was found by the search, not handed to it.
LEMMA SurvivorsAre ==
  ASSUME WorkInv, IndInv, pc = "gate", NEW passes, NEW c \in Survivors(passes)
  PROVE  /\ c \in DOMAIN gepa.pool /\ c \in Nat /\ c > 1
         /\ ~cmd.overfit =>
              IF target = "extract" THEN passes[0] \subseteq passes[c]
              ELSE \A i \in DOMAIN gepa.pool[1].row :
                     Earns(gepa.pool[1].row, i) => Earns(gepa.pool[c].row, i)
  <1>1. /\ Scored(gepa) /\ gepa.pool # <<>> /\ First(gepa) = cmd.seed
        /\ target \in {"extract", "turn"}
    BY DEF WorkInv, Typed, IndInv, During, Judged, Files, Targets
  <1>2. SeedIndex(gepa.pool) = 1
    BY <1>1, SeedIsFirst
  <1>3. \A d \in DOMAIN gepa.pool : d \in Nat /\ (d = 1 \/ d > 1)
    BY <1>1 DEF Scored
  <1>4. CASE cmd.overfit
    <2>1. c \in DOMAIN gepa.pool \ {1}
      BY <1>2, <1>4 DEF Survivors
    <2>. QED
      BY <1>3, <1>4, <2>1
  <1>5. CASE ~cmd.overfit /\ target = "turn"
    <2>1. c \in TurnGate
      BY <1>5 DEF Survivors
    <2>. QED
      BY <1>2, <1>3, <1>5, <2>1 DEF TurnGate
  <1>6. CASE ~cmd.overfit /\ target = "extract"
    <2>1. c \in ProbeGate(passes)
      BY <1>6 DEF Survivors
    <2>2. /\ c \in DOMAIN gepa.pool /\ gepa.pool[c].text # cmd.seed
          /\ passes[0] \subseteq passes[c]
      BY <2>1 DEF ProbeGate
    <2>. QED
      BY <1>1, <1>3, <1>6, <2>2 DEF First
  <1>. QED
    BY <1>1, <1>4, <1>5, <1>6

\* The one write to stdout, and the gate before it.
LEMMA PromoteWorks == ASSUME WorkInv, IndInv, Promote PROVE WorkInv'
  <1>1. PICK passes \in IF target = "extract" THEN ProbeResults ELSE {<<>>} :
          LET survivors == Survivors(passes)
              seed == SeedIndex(gepa.pool)
          IN IF /\ survivors # {}
                /\ Mean(gepa.pool[Best(survivors)].row) >= Mean(gepa.pool[seed].row)
             THEN /\ best' = Best(survivors)
                  /\ passed' = passes
                  /\ pc' = "printed"
                  /\ UNCHANGED <<cmd, checkAfter, memory, gepa>>
             ELSE Exit
    BY Zenon DEF Promote
  <1>2. pc = "gate" /\ UNCHANGED <<target, files, commands>>
    BY Zenon DEF Promote
  <1> DEFINE survivors == Survivors(passes)
             seed == SeedIndex(gepa.pool)
  <1>3. CASE Exit
    BY <1>2, <1>3, LeaveWorks
  <1>4. CASE /\ survivors # {}
             /\ Mean(gepa.pool[Best(survivors)].row) >= Mean(gepa.pool[seed].row)
             /\ best' = Best(survivors)
             /\ passed' = passes
             /\ pc' = "printed"
             /\ UNCHANGED <<cmd, checkAfter, memory, gepa>>
    <2>1. Scored(gepa) /\ gepa.pool # <<>> /\ First(gepa) = cmd.seed /\ Typed
      BY <1>2 DEF WorkInv, Typed, IndInv, During, Judged
    <2>2. seed = 1
      BY <2>1, SeedIsFirst
    <2>3. \A c \in survivors : c \in DOMAIN gepa.pool
      BY <1>2, SurvivorsAre
    <2>4. best' \in survivors
      <3>. HIDE DEF survivors
      <3>. QED
        BY <1>4, <2>1, <2>3, BestIs
    <2>5. /\ best' \in DOMAIN gepa.pool /\ best' \in Nat /\ best' > 1
          /\ ~cmd.overfit =>
               IF target = "extract" THEN passes[0] \subseteq passes[best']
               ELSE \A i \in DOMAIN gepa.pool[1].row :
                      Earns(gepa.pool[1].row, i) => Earns(gepa.pool[best'].row, i)
      BY <1>2, <2>4, SurvivorsAre
    <2>6. /\ UNCHANGED <<target, corpus, dir, commands, cmd, train, val, run,
                         baseline, gepa>>
          /\ passed' = passes /\ pc' = "printed"
      BY <1>2, <1>4 DEF files, memory
    <2>7. Typed'
      <3>1. best' \in 0..Len(gepa.pool)
        BY <2>1, <2>5 DEF Scored
      <3>2. CaseType' = CaseType
        BY <2>6 DEF CaseType
      <3>3. Scored(gepa)' /\ Scored(dir.saved)'
        BY <2>1, <2>6 DEF Typed, Scored
      <3>. QED
        BY <2>1, <2>6, <3>1, <3>2, <3>3 DEF Typed, Places
    <2>8. Counted'
      BY <2>6 DEF WorkInv, Counted, ChargeIsForCalls
    <2>9. StdoutIsEarned'
      <3>1. SeedIndex(gepa.pool)' = 1
        <4>1. SeedIndex(gepa.pool)' = SeedIndex(gepa.pool)
          BY <2>6 DEF SeedIndex
        <4>. QED
          BY <2>2, <4>1
      <3>2. gepa.pool[best'].text \notin Refused
        BY <2>1, <2>5 DEF Scored
      <3>3. Mean(gepa.pool[best'].row) >= Mean(gepa.pool[1].row)
        BY <1>4, <2>2
      <3>4. \A i \in DOMAIN gepa.pool[1].row :
              gepa.pool[1].row[i] \in Nat
        <4>1. gepa.pool[1] \in Candidate
          BY <2>1 DEF Scored
        <4>2. gepa.pool[1].row \in Seq(Share)
          BY <4>1 DEF Candidate
        <4>3. \A i \in DOMAIN gepa.pool[1].row : gepa.pool[1].row[i] \in Share
          BY <4>2
        <4>4. \A n \in Share : n \in Nat
          BY DEF Share
        <4>. QED
          BY <4>3, <4>4
      <3>5. (~cmd.overfit /\ target # "extract") =>
              \A i \in DOMAIN gepa.pool[1].row :
                gepa.pool[1].row[i] = 0 \/ Earns(gepa.pool[best'].row, i)
        BY <2>5, <3>4 DEF Earns
      <3>6. (~cmd.overfit /\ target = "extract") => passed'[0] \subseteq passed'[best']
        BY <2>5, <2>6
      <3>. QED
        BY <2>6, <3>1, <3>2, <3>3, <3>5, <3>6 DEF StdoutIsEarned
    <2>. QED
      BY <2>7, <2>8, <2>9 DEF WorkInv
  <1>. QED
    BY <1>1, <1>3, <1>4, Zenon

\* A stutter keeps it.
LEMMA RestWorks == ASSUME WorkInv, UNCHANGED vars PROVE WorkInv'
  <1>1. /\ UNCHANGED <<target, corpus, dir, commands, pc, cmd, train, val, gepa,
                       run, baseline, passed, best>>
    BY DEF vars
  <1>2. Typed'
    BY <1>1 DEF WorkInv, Typed, CaseType, Scored
  <1>3. Counted'
    BY <1>1 DEF WorkInv, Counted, ChargeIsForCalls
  <1>4. StdoutIsEarned'
    BY <1>1 DEF WorkInv, StdoutIsEarned, SeedIndex
  <1>. QED
    BY <1>2, <1>3, <1>4 DEF WorkInv

\* Every step keeps the second invariant, given the first.
LEMMA StepWorks == WorkInv /\ IndInv /\ [Next]_vars => WorkInv'
  <1> SUFFICES ASSUME WorkInv, IndInv, [Next]_vars PROVE WorkInv'
    OBVIOUS
  <1>1. CASE \/ Start \/ Wipe \/ RecordSeed \/ Stop \/ Sweep \/ WipeDies
             \/ \E resume \in BOOLEAN : ProbeOnly(resume)
    BY <1>1, AsideSteps, Zenon
  <1>2. CASE LoadCorpus \/ Engine \/ Iterate \/ Check \/ Promote
    BY <1>2, LoadCorpusWorks, EngineWorks, IterateWorks, CheckWorks, PromoteWorks
  <1>3. CASE Abort \/ End
    BY <1>3, LeaveWorks DEF Abort, End
  <1>4. CASE Rest \/ UNCHANGED vars
    BY <1>4, RestWorks DEF Rest
  <1>. QED
    BY <1>1, <1>2, <1>3, <1>4, Zenon DEF Next, Step

(* What the commands hold and charge, and what they print, in every state     *)
(* they can reach.                                                            *)
THEOREM WorkInvariance == Spec => []WorkInv
  <1>. QED
    BY Invariance, InitWorks, StepWorks, PTL DEF Spec

(* Scores are shares of one hundred, counters count, and every candidate of a *)
(* search has a score on something.                                           *)
THEOREM TypeCorrect == Spec => []TypeOK
  <1>1. WorkInv /\ IndInv => TypeOK
    <2> SUFFICES ASSUME WorkInv, IndInv PROVE TypeOK
      OBVIOUS
    <2>1. ASSUME NEW s, Scored(s), NEW c \in DOMAIN s.pool
          PROVE  /\ s.pool[c].text \in Texts
                 /\ s.pool[c].row \in Seq(0..100) \ {<<>>}
      <3>1. s.pool[c] \in Candidate
        BY <2>1 DEF Scored
      <3>. QED
        BY <2>1, <3>1 DEF Scored, Candidate, Share
    <2>. QED
      BY <2>1 DEF WorkInv, Typed, Places, Counted, IndInv, Files, Shape, Scored, TypeOK
  <1>. QED
    BY <1>1, WorkInvariance, Invariance, PTL

(* What a search is charged covers what it ran; for extract it is that, since *)
(* a refused text costs neither (adapter.py, cli.py _More).                   *)
THEOREM ChargeIsForCallsHolds == Spec => []ChargeIsForCalls
  <1>1. WorkInv => ChargeIsForCalls
    BY DEF WorkInv, Counted
  <1>. QED
    BY <1>1, WorkInvariance, PTL

(* What reaches stdout can be run, is no worse than the seed, and unless the  *)
(* run overfits loses no probe and no case the seed had (gate.py).            *)
THEOREM StdoutIsEarnedHolds == Spec => []StdoutIsEarned
  <1>1. WorkInv => StdoutIsEarned
    BY DEF WorkInv
  <1>. QED
    BY <1>1, WorkInvariance, PTL

(* The table of what the runner's certificates are worth holds only TRUE, for *)
(* any two flags and any set of tables.                                       *)
LEMMA CertificatesDoHold ==
  ASSUME NEW key \in BOOLEAN, NEW ordered \in BOOLEAN
  PROVE  CertificatesHold[key][ordered]
  <1>1. \A got, want \in Tables : CertificateHolds(got, want, key, ordered)
    BY InputsAssumption, CertificatesAreHeld
  <1>. QED
    BY <1>1, Zenon DEF CertificatesHold

(* What the corpus runner certifies, every case of a search calls exact, or   *)
(* the case orders the rows, the answer key does not, and they came in        *)
(* another order (corpus.py matches, harvest.py _orders, resultset.py         *)
(* compare): whichever cases a search has, by whichever flags.                *)
THEOREM CertifiedIsRightHolds == Spec => []CertifiedIsRight
  <1>1. WorkInv => CertifiedIsRight
    <2> SUFFICES ASSUME WorkInv, target = "turn",
                        NEW case \in ToSet(train) \union ToSet(val)
                 PROVE  CertificatesHold[KeyOrdered[case.question]][case.ordered]
      BY DEF CertifiedIsRight
    <2>1. case \in CaseType
      BY DEF WorkInv, Typed, ToSet
    <2>2. case.question \in Questions /\ case.ordered \in BOOLEAN
      BY <2>1 DEF CaseType
    <2>3. KeyOrdered[case.question] \in BOOLEAN
      BY <2>2, OutcomesAssumption
    <2>. QED
      BY <2>2, <2>3, CertificatesDoHold
  <1>. QED
    BY <1>1, WorkInvariance, PTL

=============================================================================
