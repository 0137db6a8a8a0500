-------------------------------- MODULE Memory --------------------------------
(***************************************************************************)
(* The agent's memory (cache_entry, app/store.py) under concurrent turns.  *)
(* A turn reads the table once, and much later files what it learned, one  *)
(* committed statement for each entry, and credits the entries it leaned   *)
(* on by the ids it read.  Between those statements other turns do the     *)
(* same, a person edits the table by hand, the target's schema moves under *)
(* the entries, the migrations are run again, and the table is reset.      *)
(*                                                                         *)
(* An entry is its position: ids that a conflicting insert burns are left  *)
(* out.  A turn asked with `memory: False` never comes here (TurnGraph).   *)
(***************************************************************************)
EXTENDS Naturals, Sequences, FiniteSets

CONSTANTS
  Turns,                \* the turns that read and write the memory
  Names,                \* the names entries are filed under
  None,                 \* no name: there may be many such entries
  Shapes,               \* the shapes the target's schema may have
  Unknown,              \* no fingerprint: schema_fp IS NULL
  Person,               \* whoever edits the table by hand
  MaxBatch,             \* bound: entries one turn learns
  MaxEdits,             \* bound: edits by hand
  MaxMoves              \* bound: schema changes, migrations and resets

ASSUME TurnsAssumption == IsFiniteSet(Turns) /\ Person \notin Turns
ASSUME NamesAssumption == None \notin Names /\ Unknown \notin Shapes
ASSUME ShapesAssumption == Shapes # {}
ASSUME BoundsAssumption == MaxBatch \in Nat

VARIABLES
  schema,               \* the shape of the target's tables
  entries,              \* the table cache_entry
  stage,                \* how far each turn has come
  used,                 \* used_ids: what its plan leaned on
  batch,                \* what it learned and has still to write
  edits, moves,         \* counts, for the bounds
  \* History, to state properties with:
  stamp,                \* the shape each turn fingerprinted its entries with
  credited              \* the ids each turn credited, until a reset

counts == <<edits, moves>>
vars == <<schema, entries, stage, used, batch, counts, stamp, credited>>

\* What a turn learned; `fp` is Unknown for an entry that names no tables.
Draft == [name : Names \union {None}, fp : Shapes \union {Unknown}]

\* `by` is who wrote the claim: origin is 'human' where it is a person.
Entry == [name : Names \union {None}, by : Turns \union {Person},
          pinned : BOOLEAN, disabled : BOOLEAN, hits : Nat,
          fp : Shapes \union {Unknown}]

TypeOK ==
  /\ schema \in Shapes
  /\ entries \in Seq(Entry)
  /\ stage \in [Turns -> {"new", "loaded", "learned", "ended"}]
  /\ used \in [Turns -> SUBSET (Nat \ {0})]
  /\ batch \in [Turns -> Seq(Draft)]
  /\ edits \in Nat
  /\ moves \in Nat
  /\ stamp \in [Turns -> Shapes \union {Unknown}]
  /\ credited \in [Turns -> SUBSET (Nat \ {0})]

Init ==
  /\ schema \in Shapes
  /\ entries = <<>>
  /\ stage = [t \in Turns |-> "new"]
  /\ used = [t \in Turns |-> {}]
  /\ batch = [t \in Turns |-> <<>>]
  /\ edits = 0
  /\ moves = 0
  /\ stamp = [t \in Turns |-> Unknown]
  /\ credited = [t \in Turns |-> {}]

-----------------------------------------------------------------------------
(* A turn. *)

\* Everything not disabled; plan can lean on an entry only by its name.
Citable == {i \in DOMAIN entries : ~entries[i].disabled
                                   /\ entries[i].name # None}

(* load_cache reads the table and plan says which entries it leaned on. *)
Load(t, ids) ==
  /\ stage[t] = "new"
  /\ ids \subseteq Citable
  /\ stage' = [stage EXCEPT ![t] = "loaded"]
  /\ used' = [used EXCEPT ![t] = ids]
  /\ UNCHANGED <<schema, entries, batch, counts, stamp, credited>>

(* extract: the model's entries, stamped in one pass with the shape the
   tables have now.  A turn may also learn nothing. *)
Learn(t, drafts) ==
  /\ stage[t] = "loaded"
  /\ \A k \in DOMAIN drafts : drafts[k].fp \in {schema, Unknown}
  /\ stage' = [stage EXCEPT ![t] = "learned"]
  /\ batch' = [batch EXCEPT ![t] = drafts]
  /\ stamp' = [stamp EXCEPT ![t] = schema]
  /\ UNCHANGED <<schema, entries, used, counts, credited>>

\* The entry the unique index finds for a name.
Twin(name) == {i \in DOMAIN entries : entries[i].name = name /\ name # None}

Protected(e) == e.by = Person /\ e.pinned

\* A bug: the turn's id is not passed on.
InsertedUnowned(t, d) ==
  [name |-> d.name, by |-> None, pinned |-> FALSE, disabled |-> FALSE,
   hits |-> 0, fp |-> d.fp]

Inserted(t, d) ==
  [name |-> d.name, by |-> t, pinned |-> FALSE, disabled |-> FALSE,
   hits |-> 0, fp |-> d.fp]

\* Bugs in the list: a stale fingerprint, a lost count.
RefreshedUnstamped(e, t, d) == [e EXCEPT !.by = t]
RefreshedAnew(e, t, d) == [e EXCEPT !.by = t, !.fp = d.fp, !.hits = 0]

\* What DO UPDATE sets; `pinned`, `disabled` and `hits` are not in its list.
Refreshed(e, t, d) == [e EXCEPT !.by = t, !.fp = d.fp]

\* A bug: the WHERE asks for the pin of a turn's entry, not of a person's.
UpsertOverPins(t, d) ==
  [i \in DOMAIN entries |->
     IF i \in Twin(d.name) /\ ~(entries[i].pinned /\ entries[i].by # Person)
     THEN Refreshed(entries[i], t, d) ELSE entries[i]]

Upsert(t, d) ==
  [i \in DOMAIN entries |->
     IF i \in Twin(d.name) /\ ~Protected(entries[i])
     THEN Refreshed(entries[i], t, d) ELSE entries[i]]

\* A bug: disabled entries are not looked at, like load_cache does.
WriteBlind(t) ==
  /\ stage[t] = "learned"
  /\ batch[t] # <<>>
  /\ LET d == Head(batch[t])
     IN  entries' = IF Twin(d.name) \intersect Citable = {}
                    THEN Append(entries, Inserted(t, d))
                    ELSE Upsert(t, d)
  /\ batch' = [batch EXCEPT ![t] = Tail(batch[t])]
  /\ UNCHANGED <<schema, stage, used, counts, stamp, credited>>

(* write_entries, one statement: INSERT ... ON CONFLICT (name) DO UPDATE. *)
WriteEntry(t) ==
  /\ stage[t] = "learned"
  /\ batch[t] # <<>>
  /\ LET d == Head(batch[t])
     IN  entries' = IF Twin(d.name) = {}
                    THEN Append(entries, Inserted(t, d))
                    ELSE Upsert(t, d)
  /\ batch' = [batch EXCEPT ![t] = Tail(batch[t])]
  /\ UNCHANGED <<schema, stage, used, counts, stamp, credited>>

(* answer: bump_hits adds one to the rows that have the ids, which may no
   longer be the rows the turn read. *)
Credit(t) ==
  /\ stage[t] = "learned"
  /\ batch[t] = <<>>
  /\ stage' = [stage EXCEPT ![t] = "ended"]
  /\ entries' = [i \in DOMAIN entries |->
                   IF i \in used[t]
                   THEN [entries[i] EXCEPT !.hits = @ + 1]
                   ELSE entries[i]]
  /\ credited' = [credited EXCEPT ![t] = used[t] \intersect DOMAIN entries]
  /\ UNCHANGED <<schema, used, batch, counts, stamp>>

(* The turn throws, gives up or is left; what it wrote stays written. *)
Stop(t) ==
  /\ stage[t] # "ended"
  /\ stage' = [stage EXCEPT ![t] = "ended"]
  /\ UNCHANGED <<schema, entries, used, batch, counts, stamp, credited>>

-----------------------------------------------------------------------------
(* What happens around the turns. *)

(* A person edits an entry by hand: rewrites its claim or not, pins or
   unpins it, disables or enables it. *)
Curate(i, rewrites, pin, off) ==
  /\ edits < MaxEdits
  /\ edits' = edits + 1
  /\ i \in DOMAIN entries
  /\ entries' = [entries EXCEPT
                   ![i].by = IF rewrites THEN Person ELSE @,
                   ![i].pinned = pin,
                   ![i].disabled = off]
  /\ UNCHANGED <<schema, stage, used, batch, moves, stamp, credited>>

(* The target's tables change. *)
Drift(shape) ==
  /\ moves < MaxMoves
  /\ moves' = moves + 1
  /\ shape # schema
  /\ schema' = shape
  /\ UNCHANGED <<entries, stage, used, batch, edits, stamp, credited>>

(* `make migrate` applies every file again, and 003 forgets fingerprints. *)
Migrate ==
  /\ moves < MaxMoves
  /\ moves' = moves + 1
  /\ entries' = [i \in DOMAIN entries |-> [entries[i] EXCEPT !.fp = Unknown]]
  /\ UNCHANGED <<schema, stage, used, batch, edits, stamp, credited>>

(* reset_learned, at the statement that truncates this table and restarts
   its ids.  It waits for no turn. *)
Reset ==
  /\ moves < MaxMoves
  /\ moves' = moves + 1
  /\ entries' = <<>>
  /\ credited' = [t \in Turns |-> {}]
  /\ UNCHANGED <<schema, stage, used, batch, edits, stamp>>

\* Batches a turn may learn, within the bound.
Drafts == UNION {[1..k -> [name : Names \union {None},
                           fp : {schema, Unknown}]] : k \in 0..MaxBatch}

TurnStep(t) ==
  \/ \E ids \in SUBSET Citable : Load(t, ids)
  \/ \E drafts \in Drafts : Learn(t, drafts)
  \/ WriteEntry(t)
  \/ Credit(t)
  \/ Stop(t)

\* Every turn has ended and the bounds are reached.
Quiet ==
  /\ \A t \in Turns : stage[t] = "ended"
  /\ UNCHANGED vars

Next ==
  \/ \E t \in Turns : TurnStep(t)
  \/ \E i \in DOMAIN entries, rewrites, pin, off \in BOOLEAN :
       Curate(i, rewrites, pin, off)
  \/ \E shape \in Shapes : Drift(shape)
  \/ Migrate
  \/ Reset
  \/ Quiet

Spec == Init /\ [][Next]_vars

-----------------------------------------------------------------------------
(* Properties. *)

(* Names are keys, whichever turns learn a name at once and whatever a person
   did to its entry: no two entries share one. *)
OneEntryPerName ==
  \A i, j \in DOMAIN entries :
    entries[i].name = entries[j].name /\ entries[i].name # None => i = j

(* No learning turn touches what a person wrote and pinned, also where the
   person pinned it after the turn had read it. *)
PinnedStays ==
  [][\A i \in DOMAIN entries :
       Protected(entries[i]) /\ edits' = edits /\ moves' = moves
         => /\ entries'[i].by = Person
            /\ entries'[i].fp = entries[i].fp]_vars

(* An entry a person disabled stays out of every later prompt, also when a
   turn learns its name again: only a person brings it back. *)
DisabledStays ==
  [][\A i \in DOMAIN entries :
       entries[i].disabled /\ edits' = edits /\ i \in DOMAIN entries'
         => entries'[i].disabled]_vars

(* What a person decided about an entry stands against whatever the turns
   learn: the wording that was pinned, the entry that was taken out. *)
CurationHolds == PinnedStays /\ DisabledStays

(* No credit is lost or given twice: the hits of a row are the turns that
   credited it since the last reset, whoever rewrote it in between. *)
HitsAreCredits ==
  \A i \in DOMAIN entries :
    entries[i].hits = Cardinality({t \in Turns : i \in credited[t]})

(* The fingerprint and the claim are of one turn: an entry is never checked
   for drift against a shape its own author did not stamp it with. *)
FingerprintIsTheAuthors ==
  \A i \in DOMAIN entries :
    entries[i].by \in Turns
      => entries[i].fp \in {stamp[entries[i].by], Unknown}

=============================================================================
