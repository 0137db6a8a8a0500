---------------------------- MODULE Memory_proofs ----------------------------
(* The proofs about Memory. *)
EXTENDS Memory, SequenceTheorems, FiniteSetTheorems, TLAPS

\* What a turn has still to write carries the shape it stamped.
BatchIsStamped ==
  \A t \in Turns : \A k \in DOMAIN batch[t] :
    batch[t][k].fp \in {stamp[t], Unknown}

\* Only a turn that has learned, and stamps no more, is an author.
AuthorsHaveLearned ==
  \A i \in DOMAIN entries :
    entries[i].by \in Turns => stage[entries[i].by] \in {"learned", "ended"}

\* A turn credits at its end and at no other time.
NotYetCredited == \A t \in Turns : stage[t] # "ended" => credited[t] = {}

\* Credits are of rows that are there.
CreditsAreOfRows == \A t \in Turns : credited[t] \subseteq DOMAIN entries

IndInv ==
  /\ TypeOK
  /\ BatchIsStamped
  /\ AuthorsHaveLearned
  /\ NotYetCredited
  /\ CreditsAreOfRows
  /\ OneEntryPerName
  /\ HitsAreCredits
  /\ FingerprintIsTheAuthors

-----------------------------------------------------------------------------
(* The table as a sequence. *)

\* A table rewritten in place is a table of the same ids.
LEMMA Rewritten ==
  ASSUME NEW s \in Seq(Entry), NEW f, DOMAIN f = DOMAIN s,
         f = [i \in DOMAIN f |-> f[i]],
         \A i \in DOMAIN s : f[i] \in Entry
  PROVE  f \in Seq(Entry)
  <1>1. f \in [1..Len(s) -> Entry] /\ Len(s) \in Nat
    OBVIOUS
  <1>. QED
    BY <1>1

\* The ids are 1, 2, and so on, and each has an entry.
LEMMA Ids ==
  ASSUME TypeOK
  PROVE  /\ Len(entries) \in Nat
         /\ DOMAIN entries = 1..Len(entries)
         /\ \A i \in DOMAIN entries : entries[i] \in Entry
  BY LenProperties DEF TypeOK

\* The draft a turn writes next, and what is left of its batch.
LEMMA NextDraft ==
  ASSUME TypeOK, NEW t \in Turns, batch[t] # <<>>
  PROVE  /\ Head(batch[t]) \in Draft
         /\ Head(batch[t]) = batch[t][1]
         /\ 1 \in DOMAIN batch[t]
         /\ Tail(batch[t]) \in Seq(Draft)
         /\ \A k \in DOMAIN Tail(batch[t]) :
              k + 1 \in DOMAIN batch[t] /\ Tail(batch[t])[k] = batch[t][k + 1]
  <1>1. batch[t] \in Seq(Draft)
    BY DEF TypeOK
  <1>2. /\ Head(batch[t]) \in Draft
        /\ Tail(batch[t]) \in Seq(Draft)
        /\ Len(Tail(batch[t])) = Len(batch[t]) - 1
        /\ \A k \in 1..Len(Tail(batch[t])) :
             Tail(batch[t])[k] = batch[t][k + 1]
    BY <1>1, HeadTailProperties
  <1>3. /\ Len(batch[t]) \in Nat
        /\ DOMAIN batch[t] = 1..Len(batch[t])
        /\ DOMAIN Tail(batch[t]) = 1..Len(Tail(batch[t]))
        /\ Len(Tail(batch[t])) \in Nat
    BY <1>1, <1>2, LenProperties
  <1>4. Head(batch[t]) = batch[t][1]
    BY <1>1
  <1>. QED
    BY <1>2, <1>3, <1>4

\* A write either files one new row, of a name nobody has, or rewrites rows
\* in place: the unprotected row of the name, and no other.
LEMMA WriteCases ==
  ASSUME TypeOK, NEW t \in Turns, WriteEntry(t)
  PROVE  \/ /\ Twin(Head(batch[t]).name) = {}
            /\ entries' = Append(entries, Inserted(t, Head(batch[t])))
            /\ entries' \in Seq(Entry)
            /\ DOMAIN entries' = 1..(Len(entries) + 1)
            /\ \A i \in DOMAIN entries : entries'[i] = entries[i]
            /\ entries'[Len(entries) + 1] = Inserted(t, Head(batch[t]))
         \/ /\ entries' \in Seq(Entry)
            /\ DOMAIN entries' = DOMAIN entries
            /\ \A i \in DOMAIN entries :
                 \/ entries'[i] = entries[i]
                 \/ /\ ~Protected(entries[i])
                    /\ entries'[i] = Refreshed(entries[i], t, Head(batch[t]))
  <1> DEFINE d == Head(batch[t])
  <1>1. d \in Draft /\ batch[t] # <<>>
    BY NextDraft DEF WriteEntry
  <1>2. CASE Twin(d.name) = {}
    <2>1. entries' = Append(entries, Inserted(t, d))
      BY <1>2 DEF WriteEntry
    <2>2. Inserted(t, d) \in Entry
      BY <1>1 DEF Inserted, Entry, Draft
    <2>3. entries \in Seq(Entry)
      BY DEF TypeOK
    <2>. HIDE DEF d
    <2>4. /\ entries' \in Seq(Entry)
          /\ Len(entries') = Len(entries) + 1
          /\ \A i \in 1..Len(entries) : entries'[i] = entries[i]
          /\ entries'[Len(entries) + 1] = Inserted(t, d)
      BY <2>1, <2>2, <2>3, AppendProperties
    <2>5. DOMAIN entries' = 1..Len(entries')
      BY <2>4, LenProperties
    <2>6. DOMAIN entries' = 1..(Len(entries) + 1)
      BY <2>4, <2>5
    <2>. QED
      BY <1>2, <2>1, <2>4, <2>6, Ids DEF d
  <1>3. CASE Twin(d.name) # {}
    <2>1. entries' = Upsert(t, d)
      BY <1>3 DEF WriteEntry
    <2>. HIDE DEF d
    <2>2. /\ DOMAIN entries' = DOMAIN entries
          /\ entries' = [i \in DOMAIN entries' |-> entries'[i]]
          /\ \A i \in DOMAIN entries :
               \/ entries'[i] = entries[i]
               \/ /\ ~Protected(entries[i])
                  /\ entries'[i] = Refreshed(entries[i], t, d)
      BY <2>1 DEF Upsert
    <2>3. \A e \in Entry : Refreshed(e, t, d) \in Entry
      BY <1>1 DEF Refreshed, Entry, Draft
    <2>4. \A i \in DOMAIN entries : entries'[i] \in Entry
      BY <2>2, <2>3, Ids
    <2>5. entries' \in Seq(Entry)
      BY <2>2, <2>4, Rewritten DEF TypeOK
    <2>. QED
      BY <2>2, <2>5 DEF d
  <1>. QED
    BY <1>2, <1>3

\* A credit rewrites hits in place and nothing else.
LEMMA CreditCases ==
  ASSUME TypeOK, NEW t \in Turns, Credit(t)
  PROVE  /\ entries' \in Seq(Entry)
         /\ DOMAIN entries' = DOMAIN entries
         /\ \A i \in DOMAIN entries :
              /\ entries'[i].name = entries[i].name
              /\ entries'[i].by = entries[i].by
              /\ entries'[i].fp = entries[i].fp
              /\ entries'[i].disabled = entries[i].disabled
              /\ entries'[i].hits =
                   entries[i].hits + (IF i \in used[t] THEN 1 ELSE 0)
  <1>1. /\ DOMAIN entries' = DOMAIN entries
        /\ entries' = [i \in DOMAIN entries' |-> entries'[i]]
        /\ \A i \in DOMAIN entries :
             entries'[i] = IF i \in used[t]
                           THEN [entries[i] EXCEPT !.hits = @ + 1]
                           ELSE entries[i]
    BY DEF Credit
  <1>2. \A e \in Entry : /\ [e EXCEPT !.hits = @ + 1] \in Entry
                         /\ [e EXCEPT !.hits = @ + 1].name = e.name
                         /\ [e EXCEPT !.hits = @ + 1].by = e.by
                         /\ [e EXCEPT !.hits = @ + 1].fp = e.fp
                         /\ [e EXCEPT !.hits = @ + 1].disabled = e.disabled
                         /\ [e EXCEPT !.hits = @ + 1].hits = e.hits + 1
                         /\ e.hits = e.hits + 0
    BY DEF Entry
  <1>3. \A i \in DOMAIN entries : entries'[i] \in Entry
    BY <1>1, <1>2, Ids
  <1>4. entries' \in Seq(Entry)
    BY <1>1, <1>3, Rewritten DEF TypeOK
  <1>5. \A i \in DOMAIN entries :
          /\ entries'[i].name = entries[i].name
          /\ entries'[i].by = entries[i].by
          /\ entries'[i].fp = entries[i].fp
          /\ entries'[i].disabled = entries[i].disabled
          /\ entries'[i].hits =
               entries[i].hits + (IF i \in used[t] THEN 1 ELSE 0)
    <2> SUFFICES ASSUME NEW i \in DOMAIN entries
                 PROVE  /\ entries'[i].name = entries[i].name
                        /\ entries'[i].by = entries[i].by
                        /\ entries'[i].fp = entries[i].fp
                        /\ entries'[i].disabled = entries[i].disabled
                        /\ entries'[i].hits =
                             entries[i].hits + (IF i \in used[t] THEN 1 ELSE 0)
      BY Zenon
    <2>1. entries[i] \in Entry
      BY Ids
    <2>2. CASE i \in used[t]
      <3>1. entries'[i] = [entries[i] EXCEPT !.hits = @ + 1]
        BY <1>1, <2>2
      <3>. QED
        BY <1>2, <2>1, <2>2, <3>1
    <2>3. CASE i \notin used[t]
      <3>1. entries'[i] = entries[i]
        BY <1>1, <2>3
      <3>. QED
        BY <1>2, <2>1, <2>3, <3>1
    <2>. QED
      BY <2>2, <2>3
  <1>. QED
    BY <1>1, <1>4, <1>5

\* A person changes the author, the pin and the ban of a row, no more.
LEMMA CurateCases ==
  ASSUME TypeOK, NEW k \in DOMAIN entries, NEW rewrites \in BOOLEAN,
         NEW pin \in BOOLEAN, NEW off \in BOOLEAN,
         Curate(k, rewrites, pin, off)
  PROVE  /\ entries' \in Seq(Entry)
         /\ DOMAIN entries' = DOMAIN entries
         /\ \A i \in DOMAIN entries :
              /\ entries'[i].name = entries[i].name
              /\ entries'[i].by \in {entries[i].by, Person}
              /\ entries'[i].fp = entries[i].fp
              /\ entries'[i].hits = entries[i].hits
  <1> DEFINE e == [entries[k] EXCEPT
                     !.by = IF rewrites THEN Person ELSE @,
                     !.pinned = pin, !.disabled = off]
  <1>1. entries' = [entries EXCEPT ![k] = e]
    BY Ids DEF Curate, Entry
  <1>2. /\ e \in Entry
        /\ e.name = entries[k].name
        /\ e.by \in {entries[k].by, Person}
        /\ e.fp = entries[k].fp
        /\ e.hits = entries[k].hits
    <2>1. entries[k] \in Entry
      BY Ids
    <2>. QED
      BY <2>1 DEF Entry
  <1>. HIDE DEF e
  <1>3. /\ entries' \in Seq(Entry)
        /\ DOMAIN entries' = DOMAIN entries
    BY <1>1, <1>2, Ids, ExceptSeq DEF TypeOK
  <1>4. \A i \in DOMAIN entries :
          entries'[i] = IF i = k THEN e ELSE entries[i]
    BY <1>1
  <1>. QED
    BY <1>2, <1>3, <1>4

\* The migrations forget fingerprints and nothing else.
LEMMA MigrateCases ==
  ASSUME TypeOK, Migrate
  PROVE  /\ entries' \in Seq(Entry)
         /\ DOMAIN entries' = DOMAIN entries
         /\ \A i \in DOMAIN entries :
              /\ entries'[i].name = entries[i].name
              /\ entries'[i].by = entries[i].by
              /\ entries'[i].fp = Unknown
              /\ entries'[i].disabled = entries[i].disabled
              /\ entries'[i].hits = entries[i].hits
  <1>1. /\ DOMAIN entries' = DOMAIN entries
        /\ entries' = [i \in DOMAIN entries' |-> entries'[i]]
        /\ \A i \in DOMAIN entries :
             entries'[i] = [entries[i] EXCEPT !.fp = Unknown]
    BY DEF Migrate
  <1>2. \A e \in Entry : /\ [e EXCEPT !.fp = Unknown] \in Entry
                         /\ [e EXCEPT !.fp = Unknown].name = e.name
                         /\ [e EXCEPT !.fp = Unknown].by = e.by
                         /\ [e EXCEPT !.fp = Unknown].fp = Unknown
                         /\ [e EXCEPT !.fp = Unknown].disabled = e.disabled
                         /\ [e EXCEPT !.fp = Unknown].hits = e.hits
    BY DEF Entry
  <1>3. \A i \in DOMAIN entries : entries'[i] \in Entry
    BY <1>1, <1>2, Ids
  <1>4. entries' \in Seq(Entry)
    BY <1>1, <1>3, Rewritten DEF TypeOK
  <1>5. \A i \in DOMAIN entries :
          /\ entries'[i].name = entries[i].name
          /\ entries'[i].by = entries[i].by
          /\ entries'[i].fp = Unknown
          /\ entries'[i].disabled = entries[i].disabled
          /\ entries'[i].hits = entries[i].hits
    <2> TAKE i \in DOMAIN entries
    <2>1. entries[i] \in Entry
      BY Ids
    <2>2. entries'[i] = [entries[i] EXCEPT !.fp = Unknown]
      BY <1>1
    <2>. QED
      BY <1>2, <2>1, <2>2
  <1>. QED
    BY <1>1, <1>4, <1>5

-----------------------------------------------------------------------------
(* The invariant. *)

LEMMA InitIndInv == Init => IndInv
  <1> SUFFICES ASSUME Init PROVE IndInv
    OBVIOUS
  <1>1. entries = <<>> /\ DOMAIN entries = {}
    BY DEF Init
  <1>2. TypeOK
    BY DEF Init, TypeOK
  <1>3. \A t \in Turns : batch[t] = <<>> /\ credited[t] = {}
    BY DEF Init
  <1>4. BatchIsStamped /\ NotYetCredited /\ CreditsAreOfRows
    BY <1>3 DEF BatchIsStamped, NotYetCredited, CreditsAreOfRows
  <1>5. /\ AuthorsHaveLearned
        /\ OneEntryPerName
        /\ HitsAreCredits
        /\ FingerprintIsTheAuthors
    BY <1>1 DEF AuthorsHaveLearned, OneEntryPerName, HitsAreCredits,
                FingerprintIsTheAuthors
  <1>. QED
    BY <1>2, <1>4, <1>5 DEF IndInv

\* Every step keeps the types.
LEMMA TypeStep == TypeOK /\ [Next]_vars => TypeOK'
  <1> SUFFICES ASSUME TypeOK, [Next]_vars PROVE TypeOK'
    OBVIOUS
  <1> USE DEF counts
  <1>1. ASSUME NEW t \in Turns, NEW ids \in SUBSET Citable, Load(t, ids)
        PROVE  TypeOK'
    <2>1. ids \in SUBSET (Nat \ {0})
      BY Ids DEF Citable
    <2>. QED
      BY <1>1, <2>1 DEF Load, TypeOK
  <1>2. ASSUME NEW t \in Turns, NEW drafts \in Drafts, Learn(t, drafts)
        PROVE  TypeOK'
    <2>1. PICK k \in 0..MaxBatch :
            drafts \in [1..k -> [name : Names \union {None},
                                fp : {schema, Unknown}]]
      BY DEF Drafts
    <2>2. k \in Nat /\ drafts \in [1..k -> Draft]
      BY <2>1, BoundsAssumption DEF Draft, TypeOK
    <2>3. drafts \in Seq(Draft)
      BY <2>2
    <2>. QED
      BY <1>2, <2>3 DEF Learn, TypeOK
  <1>3. ASSUME NEW t \in Turns, WriteEntry(t)
        PROVE  TypeOK'
    <2>1. entries' \in Seq(Entry)
      BY <1>3, WriteCases
    <2>2. Tail(batch[t]) \in Seq(Draft)
      BY <1>3, NextDraft DEF WriteEntry
    <2>. QED
      BY <1>3, <2>1, <2>2 DEF WriteEntry, TypeOK
  <1>4. ASSUME NEW t \in Turns, Credit(t)
        PROVE  TypeOK'
    <2>1. entries' \in Seq(Entry)
      BY <1>4, CreditCases
    <2>. QED
      BY <1>4, <2>1 DEF Credit, TypeOK
  <1>5. ASSUME NEW t \in Turns, Stop(t)
        PROVE  TypeOK'
    BY <1>5 DEF Stop, TypeOK
  <1>6. ASSUME NEW i \in DOMAIN entries, NEW rewrites \in BOOLEAN,
               NEW pin \in BOOLEAN, NEW off \in BOOLEAN,
               Curate(i, rewrites, pin, off)
        PROVE  TypeOK'
    <2>1. entries' \in Seq(Entry)
      BY <1>6, CurateCases
    <2>. QED
      BY <1>6, <2>1 DEF Curate, TypeOK
  <1>7. ASSUME NEW shape \in Shapes, Drift(shape)
        PROVE  TypeOK'
    BY <1>7 DEF Drift, TypeOK
  <1>8. CASE Migrate
    <2>1. entries' \in Seq(Entry)
      BY <1>8, MigrateCases
    <2>. QED
      BY <1>8, <2>1 DEF Migrate, TypeOK
  <1>9. CASE Reset
    BY <1>9 DEF Reset, TypeOK
  <1>10. CASE UNCHANGED vars
    BY <1>10 DEF vars, TypeOK
  <1>. QED
    BY <1>1, <1>2, <1>3, <1>4, <1>5, <1>6, <1>7, <1>8, <1>9, <1>10
       DEF Next, TurnStep, Quiet

\* A batch is stamped when it is learned and only shrinks after that.
LEMMA BatchStep ==
  TypeOK /\ BatchIsStamped /\ [Next]_vars => BatchIsStamped'
  <1> SUFFICES ASSUME TypeOK, BatchIsStamped, [Next]_vars
               PROVE  BatchIsStamped'
    OBVIOUS
  <1>1. ASSUME NEW t \in Turns, NEW drafts \in Drafts, Learn(t, drafts)
        PROVE  BatchIsStamped'
    BY <1>1 DEF Learn, TypeOK, BatchIsStamped
  <1>2. ASSUME NEW t \in Turns, WriteEntry(t)
        PROVE  BatchIsStamped'
    <2>1. \A k \in DOMAIN Tail(batch[t]) :
            k + 1 \in DOMAIN batch[t] /\ Tail(batch[t])[k] = batch[t][k + 1]
      BY <1>2, NextDraft DEF WriteEntry
    <2>2. batch' = [batch EXCEPT ![t] = Tail(batch[t])] /\ stamp' = stamp
      BY <1>2 DEF WriteEntry
    <2>. QED
      BY <2>1, <2>2 DEF TypeOK, BatchIsStamped
  <1>3. CASE UNCHANGED <<batch, stamp>>
    BY <1>3 DEF BatchIsStamped
  <1>. QED
    BY <1>1, <1>2, <1>3
       DEF Next, TurnStep, Load, Credit, Stop, Curate, Drift, Migrate, Reset,
           Quiet, vars

\* Where the rows keep their names, each name keeps its one row.
LEMMA SameNames ==
  ASSUME OneEntryPerName, DOMAIN entries' = DOMAIN entries,
         \A i \in DOMAIN entries : entries'[i].name = entries[i].name
  PROVE  OneEntryPerName'
  BY DEF OneEntryPerName

\* A new row has a name nobody has; every other step keeps the names.
LEMMA NameStep ==
  TypeOK /\ OneEntryPerName /\ [Next]_vars => OneEntryPerName'
  <1> SUFFICES ASSUME TypeOK, OneEntryPerName, [Next]_vars
               PROVE  OneEntryPerName'
    OBVIOUS
  <1>1. ASSUME NEW t \in Turns, WriteEntry(t)
        PROVE  OneEntryPerName'
    <2> DEFINE d == Head(batch[t])
    <2>1. CASE /\ Twin(d.name) = {}
               /\ DOMAIN entries' = 1..(Len(entries) + 1)
               /\ \A i \in DOMAIN entries : entries'[i] = entries[i]
               /\ entries'[Len(entries) + 1] = Inserted(t, d)
      <3>1. entries'[Len(entries) + 1].name = d.name
        BY <2>1 DEF Inserted
      <3>2. \A i \in DOMAIN entries :
              entries[i].name # d.name \/ d.name = None
        BY <2>1 DEF Twin
      <3>3. \A i \in DOMAIN entries' :
              i \in DOMAIN entries \/ i = Len(entries) + 1
        BY <2>1, Ids
      <3>. HIDE DEF d
      <3>. QED
        BY <2>1, <3>1, <3>2, <3>3 DEF OneEntryPerName
    <2>2. CASE /\ DOMAIN entries' = DOMAIN entries
               /\ \A i \in DOMAIN entries :
                    \/ entries'[i] = entries[i]
                    \/ entries'[i] = Refreshed(entries[i], t, d)
      <3>1. \A e \in Entry : Refreshed(e, t, d).name = e.name
        BY DEF Refreshed, Entry
      <3>. QED
        BY <2>2, <3>1, Ids, SameNames
    <2>. QED
      BY <1>1, <2>1, <2>2, WriteCases
  <1>2. ASSUME NEW t \in Turns, Credit(t)
        PROVE  OneEntryPerName'
    BY <1>2, CreditCases, SameNames
  <1>3. ASSUME NEW i \in DOMAIN entries, NEW rewrites \in BOOLEAN,
               NEW pin \in BOOLEAN, NEW off \in BOOLEAN,
               Curate(i, rewrites, pin, off)
        PROVE  OneEntryPerName'
    BY <1>3, CurateCases, SameNames
  <1>4. CASE Migrate
    BY <1>4, MigrateCases, SameNames
  <1>5. CASE Reset
    BY <1>5 DEF Reset, OneEntryPerName
  <1>6. CASE UNCHANGED entries
    BY <1>6 DEF OneEntryPerName
  <1>. QED
    BY <1>1, <1>2, <1>3, <1>4, <1>5, <1>6
       DEF Next, TurnStep, Load, Learn, Stop, Drift, Quiet, vars

\* Whoever becomes an author has learned, and nobody learns twice.
LEMMA AuthorStep ==
  TypeOK /\ AuthorsHaveLearned /\ [Next]_vars => AuthorsHaveLearned'
  <1> SUFFICES ASSUME TypeOK, AuthorsHaveLearned, [Next]_vars
               PROVE  AuthorsHaveLearned'
    OBVIOUS
  <1>1. ASSUME \A t \in Turns : stage[t] \in {"learned", "ended"}
                                => stage'[t] \in {"learned", "ended"},
               UNCHANGED entries
        PROVE  AuthorsHaveLearned'
    BY <1>1 DEF AuthorsHaveLearned
  <1>2. ASSUME NEW t \in Turns,
               (\E ids \in SUBSET Citable : Load(t, ids))
                 \/ (\E drafts \in Drafts : Learn(t, drafts)) \/ Stop(t)
        PROVE  AuthorsHaveLearned'
    BY <1>1, <1>2 DEF TypeOK, Load, Learn, Stop
  <1>3. ASSUME NEW t \in Turns, WriteEntry(t)
        PROVE  AuthorsHaveLearned'
    <2> DEFINE d == Head(batch[t])
    <2>1. stage' = stage /\ stage[t] = "learned"
      BY <1>3 DEF WriteEntry
    <2>2. CASE /\ DOMAIN entries' = 1..(Len(entries) + 1)
               /\ \A i \in DOMAIN entries : entries'[i] = entries[i]
               /\ entries'[Len(entries) + 1] = Inserted(t, d)
      <3>1. entries'[Len(entries) + 1].by = t
        BY <2>2 DEF Inserted
      <3>2. \A i \in DOMAIN entries' :
              i \in DOMAIN entries \/ i = Len(entries) + 1
        BY <2>2, Ids
      <3>. HIDE DEF d
      <3>. QED
        BY <2>1, <2>2, <3>1, <3>2 DEF AuthorsHaveLearned
    <2>3. CASE /\ DOMAIN entries' = DOMAIN entries
               /\ \A i \in DOMAIN entries :
                    \/ entries'[i] = entries[i]
                    \/ entries'[i] = Refreshed(entries[i], t, d)
      <3>1. \A e \in Entry : Refreshed(e, t, d).by = t
        BY DEF Refreshed, Entry
      <3>2. \A i \in DOMAIN entries :
              entries'[i].by = entries[i].by \/ entries'[i].by = t
        BY <2>3, <3>1, Ids
      <3>. QED
        BY <2>1, <2>3, <3>2 DEF AuthorsHaveLearned
    <2>. QED
      BY <1>3, <2>2, <2>3, WriteCases
  <1>4. ASSUME NEW t \in Turns, Credit(t)
        PROVE  AuthorsHaveLearned'
    <2>1. \A u \in Turns : stage[u] \in {"learned", "ended"}
                           => stage'[u] \in {"learned", "ended"}
      BY <1>4 DEF Credit, TypeOK
    <2>. QED
      BY <1>4, <2>1, CreditCases DEF AuthorsHaveLearned
  <1>5. ASSUME NEW i \in DOMAIN entries, NEW rewrites \in BOOLEAN,
               NEW pin \in BOOLEAN, NEW off \in BOOLEAN,
               Curate(i, rewrites, pin, off)
        PROVE  AuthorsHaveLearned'
    <2>1. stage' = stage
      BY <1>5 DEF Curate
    <2>. QED
      BY <1>5, <2>1, CurateCases, TurnsAssumption DEF AuthorsHaveLearned
  <1>6. CASE Migrate
    <2>1. stage' = stage
      BY <1>6 DEF Migrate
    <2>. QED
      BY <1>6, <2>1, MigrateCases DEF AuthorsHaveLearned
  <1>7. CASE Reset
    BY <1>7 DEF Reset, AuthorsHaveLearned
  <1>8. CASE UNCHANGED <<entries, stage>>
    BY <1>8 DEF AuthorsHaveLearned
  <1>. QED
    BY <1>2, <1>3, <1>4, <1>5, <1>6, <1>7, <1>8
       DEF Next, TurnStep, Drift, Quiet, vars

\* A turn credits once, rows that are there, and rows only go with credits.
LEMMA CreditedStep ==
  /\ TypeOK /\ NotYetCredited /\ CreditsAreOfRows /\ [Next]_vars
  => NotYetCredited' /\ CreditsAreOfRows'
  <1> SUFFICES ASSUME TypeOK, NotYetCredited, CreditsAreOfRows, [Next]_vars
               PROVE  NotYetCredited' /\ CreditsAreOfRows'
    OBVIOUS
  <1>1. ASSUME NEW t \in Turns,
               (\E ids \in SUBSET Citable : Load(t, ids))
                 \/ (\E drafts \in Drafts : Learn(t, drafts)) \/ Stop(t)
        PROVE  NotYetCredited' /\ CreditsAreOfRows'
    <2>1. UNCHANGED <<entries, credited>>
      BY <1>1 DEF Load, Learn, Stop
    <2>2. \A u \in Turns : stage'[u] # "ended" => stage[u] # "ended"
      BY <1>1 DEF TypeOK, Load, Learn, Stop
    <2>. QED
      BY <2>1, <2>2 DEF NotYetCredited, CreditsAreOfRows
  <1>2. ASSUME NEW t \in Turns, WriteEntry(t)
        PROVE  NotYetCredited' /\ CreditsAreOfRows'
    <2>1. UNCHANGED <<stage, credited>>
      BY <1>2 DEF WriteEntry
    <2>2. DOMAIN entries \subseteq DOMAIN entries'
      BY <1>2, WriteCases, Ids
    <2>. QED
      BY <2>1, <2>2 DEF NotYetCredited, CreditsAreOfRows
  <1>3. ASSUME NEW t \in Turns, Credit(t)
        PROVE  NotYetCredited' /\ CreditsAreOfRows'
    <2>1. DOMAIN entries' = DOMAIN entries
      BY <1>3, CreditCases
    <2>. QED
      BY <1>3, <2>1 DEF Credit, TypeOK, NotYetCredited, CreditsAreOfRows
  <1>4. ASSUME NEW i \in DOMAIN entries, NEW rewrites \in BOOLEAN,
               NEW pin \in BOOLEAN, NEW off \in BOOLEAN,
               Curate(i, rewrites, pin, off)
        PROVE  NotYetCredited' /\ CreditsAreOfRows'
    <2>1. DOMAIN entries' = DOMAIN entries
      BY <1>4, CurateCases
    <2>. QED
      BY <1>4, <2>1 DEF Curate, NotYetCredited, CreditsAreOfRows
  <1>5. CASE Migrate
    <2>1. DOMAIN entries' = DOMAIN entries
      BY <1>5, MigrateCases
    <2>. QED
      BY <1>5, <2>1 DEF Migrate, NotYetCredited, CreditsAreOfRows
  <1>6. CASE Reset
    BY <1>6 DEF Reset, NotYetCredited, CreditsAreOfRows
  <1>7. CASE UNCHANGED <<entries, stage, credited>>
    BY <1>7 DEF NotYetCredited, CreditsAreOfRows
  <1>. QED
    BY <1>1, <1>2, <1>3, <1>4, <1>5, <1>6, <1>7
       DEF Next, TurnStep, Drift, Quiet, vars

\* The turns that credited row i.
Creditors(i) == {t \in Turns : i \in credited[t]}

\* Where neither hits nor credits change, they still agree.
LEMMA SameHits ==
  ASSUME HitsAreCredits, DOMAIN entries' = DOMAIN entries,
         \A i \in DOMAIN entries : entries'[i].hits = entries[i].hits,
         UNCHANGED credited
  PROVE  HitsAreCredits'
  BY DEF HitsAreCredits

\* A credit adds one hit and one creditor to each row it is of.
LEMMA HitsStep ==
  TypeOK /\ NotYetCredited /\ CreditsAreOfRows /\ HitsAreCredits /\ [Next]_vars
  => HitsAreCredits'
  <1> SUFFICES ASSUME TypeOK, NotYetCredited, CreditsAreOfRows,
                      HitsAreCredits, [Next]_vars
               PROVE  HitsAreCredits'
    OBVIOUS
  <1>1. ASSUME NEW t \in Turns, WriteEntry(t)
        PROVE  HitsAreCredits'
    <2> DEFINE d == Head(batch[t])
    <2>1. credited' = credited
      BY <1>1 DEF WriteEntry
    <2>2. CASE /\ DOMAIN entries' = 1..(Len(entries) + 1)
               /\ \A i \in DOMAIN entries : entries'[i] = entries[i]
               /\ entries'[Len(entries) + 1] = Inserted(t, d)
      <3>1. entries'[Len(entries) + 1].hits = 0
        BY <2>2 DEF Inserted
      <3>2. \A i \in DOMAIN entries' :
              i \in DOMAIN entries \/ i = Len(entries) + 1
        BY <2>2, Ids
      <3>3. Len(entries) + 1 \notin DOMAIN entries
        BY Ids
      <3>4. {u \in Turns : Len(entries) + 1 \in credited[u]} = {}
        BY <3>3 DEF CreditsAreOfRows
      <3>5. Cardinality({u \in Turns : Len(entries) + 1 \in credited[u]}) = 0
        BY <3>4, FS_EmptySet
      <3>. HIDE DEF d
      <3>. QED
        BY <2>1, <2>2, <3>1, <3>2, <3>5 DEF HitsAreCredits
    <2>3. CASE /\ DOMAIN entries' = DOMAIN entries
               /\ \A i \in DOMAIN entries :
                    \/ entries'[i] = entries[i]
                    \/ entries'[i] = Refreshed(entries[i], t, d)
      <3>1. \A e \in Entry : Refreshed(e, t, d).hits = e.hits
        BY DEF Refreshed, Entry
      <3>. QED
        BY <2>1, <2>3, <3>1, Ids, SameHits
    <2>. QED
      BY <1>1, <2>2, <2>3, WriteCases
  <1>2. ASSUME NEW t \in Turns, Credit(t)
        PROVE  HitsAreCredits'
    <2>1. credited[t] = {}
      BY <1>2 DEF Credit, NotYetCredited
    <2>2. credited' =
            [credited EXCEPT ![t] = used[t] \intersect DOMAIN entries]
      BY <1>2 DEF Credit
    <2>3. SUFFICES ASSUME NEW i \in DOMAIN entries
                   PROVE  entries'[i].hits = Cardinality(Creditors(i)')
      BY <1>2, CreditCases DEF HitsAreCredits, Creditors
    <2>4. entries[i].hits = Cardinality(Creditors(i))
      BY DEF HitsAreCredits, Creditors
    <2>5. IsFiniteSet(Creditors(i)) /\ t \notin Creditors(i)
      BY <2>1, TurnsAssumption, FS_Subset DEF Creditors
    <2>6. entries'[i].hits = entries[i].hits + (IF i \in used[t] THEN 1 ELSE 0)
      BY <1>2, CreditCases
    <2>7. entries[i].hits \in Nat
      BY Ids DEF Entry
    <2>8. CASE i \in used[t]
      <3>1. Creditors(i)' = Creditors(i) \union {t}
        BY <2>2, <2>8 DEF Creditors, TypeOK
      <3>2. Cardinality(Creditors(i)') = Cardinality(Creditors(i)) + 1
        BY <2>5, <3>1, FS_AddElement
      <3>. QED
        BY <2>4, <2>6, <2>8, <3>2
    <2>9. CASE i \notin used[t]
      <3>1. Creditors(i)' = Creditors(i)
        BY <2>1, <2>2, <2>9 DEF Creditors, TypeOK
      <3>. QED
        BY <2>4, <2>6, <2>7, <2>9, <3>1
    <2>. QED
      BY <2>8, <2>9
  <1>3. ASSUME NEW i \in DOMAIN entries, NEW rewrites \in BOOLEAN,
               NEW pin \in BOOLEAN, NEW off \in BOOLEAN,
               Curate(i, rewrites, pin, off)
        PROVE  HitsAreCredits'
    <2>1. credited' = credited
      BY <1>3 DEF Curate
    <2>. QED
      BY <1>3, <2>1, CurateCases, SameHits
  <1>4. CASE Migrate
    <2>1. credited' = credited
      BY <1>4 DEF Migrate
    <2>. QED
      BY <1>4, <2>1, MigrateCases, SameHits
  <1>5. CASE Reset
    BY <1>5 DEF Reset, HitsAreCredits
  <1>6. CASE UNCHANGED <<entries, credited>>
    BY <1>6 DEF HitsAreCredits
  <1>. QED
    BY <1>1, <1>2, <1>3, <1>4, <1>5, <1>6
       DEF Next, TurnStep, Load, Learn, Stop, Drift, Quiet, vars

\* An author's stamp is fixed before it writes, and it writes its stamp.
LEMMA FingerprintStep ==
  /\ TypeOK /\ BatchIsStamped /\ AuthorsHaveLearned
  /\ FingerprintIsTheAuthors /\ [Next]_vars
  => FingerprintIsTheAuthors'
  <1> SUFFICES ASSUME TypeOK, BatchIsStamped, AuthorsHaveLearned,
                      FingerprintIsTheAuthors, [Next]_vars
               PROVE  FingerprintIsTheAuthors'
    OBVIOUS
  <1>1. ASSUME NEW t \in Turns, NEW drafts \in Drafts, Learn(t, drafts)
        PROVE  FingerprintIsTheAuthors'
    <2>1. /\ stage[t] = "loaded"
          /\ entries' = entries
          /\ \A u \in Turns \ {t} : stamp'[u] = stamp[u]
      BY <1>1 DEF Learn, TypeOK
    <2>2. \A i \in DOMAIN entries : entries[i].by # t
      BY <2>1 DEF AuthorsHaveLearned
    <2>. QED
      BY <2>1, <2>2 DEF FingerprintIsTheAuthors
  <1>2. ASSUME NEW t \in Turns, WriteEntry(t)
        PROVE  FingerprintIsTheAuthors'
    <2> DEFINE d == Head(batch[t])
    <2>1. stamp' = stamp
      BY <1>2 DEF WriteEntry
    <2>2. d.fp \in {stamp[t], Unknown}
      BY <1>2, NextDraft DEF WriteEntry, BatchIsStamped
    <2>3. CASE /\ DOMAIN entries' = 1..(Len(entries) + 1)
               /\ \A i \in DOMAIN entries : entries'[i] = entries[i]
               /\ entries'[Len(entries) + 1] = Inserted(t, d)
      <3>1. /\ entries'[Len(entries) + 1].by = t
            /\ entries'[Len(entries) + 1].fp = d.fp
        BY <2>3 DEF Inserted
      <3>2. \A i \in DOMAIN entries' :
              i \in DOMAIN entries \/ i = Len(entries) + 1
        BY <2>3, Ids
      <3>. HIDE DEF d
      <3>. QED
        BY <2>1, <2>2, <2>3, <3>1, <3>2 DEF FingerprintIsTheAuthors
    <2>4. CASE /\ DOMAIN entries' = DOMAIN entries
               /\ \A i \in DOMAIN entries :
                    \/ entries'[i] = entries[i]
                    \/ entries'[i] = Refreshed(entries[i], t, d)
      <3>1. \A e \in Entry : /\ Refreshed(e, t, d).by = t
                             /\ Refreshed(e, t, d).fp = d.fp
        BY DEF Refreshed, Entry
      <3>2. \A i \in DOMAIN entries :
              \/ entries'[i] = entries[i]
              \/ entries'[i].by = t /\ entries'[i].fp = d.fp
        BY <2>4, <3>1, Ids
      <3>. HIDE DEF d
      <3>. QED
        BY <2>1, <2>2, <2>4, <3>2 DEF FingerprintIsTheAuthors
    <2>. QED
      BY <1>2, <2>3, <2>4, WriteCases
  <1>3. ASSUME NEW t \in Turns, Credit(t)
        PROVE  FingerprintIsTheAuthors'
    <2>1. stamp' = stamp
      BY <1>3 DEF Credit
    <2>. QED
      BY <1>3, <2>1, CreditCases DEF FingerprintIsTheAuthors
  <1>4. ASSUME NEW i \in DOMAIN entries, NEW rewrites \in BOOLEAN,
               NEW pin \in BOOLEAN, NEW off \in BOOLEAN,
               Curate(i, rewrites, pin, off)
        PROVE  FingerprintIsTheAuthors'
    <2>1. stamp' = stamp
      BY <1>4 DEF Curate
    <2>. QED
      BY <1>4, <2>1, CurateCases, TurnsAssumption
         DEF FingerprintIsTheAuthors
  <1>5. CASE Migrate
    BY <1>5, MigrateCases DEF FingerprintIsTheAuthors
  <1>6. CASE Reset
    BY <1>6 DEF Reset, FingerprintIsTheAuthors
  <1>7. CASE UNCHANGED <<entries, stamp>>
    BY <1>7 DEF FingerprintIsTheAuthors
  <1>. QED
    BY <1>1, <1>2, <1>3, <1>4, <1>5, <1>6, <1>7
       DEF Next, TurnStep, Load, Stop, Drift, Quiet, vars

-----------------------------------------------------------------------------
(* The theorems. *)

\* What is true of the memory after every step.
THEOREM Invariance == Spec => []IndInv
  <1>1. IndInv /\ [Next]_vars => IndInv'
    BY TypeStep, BatchStep, AuthorStep, CreditedStep, NameStep, HitsStep,
       FingerprintStep
       DEF IndInv
  <1>. QED
    BY <1>1, InitIndInv, PTL DEF Spec

\* The types of the memory's state, for any turns, names, shapes and bounds.
THEOREM TypeCorrect == Spec => []TypeOK
  <1>1. IndInv => TypeOK
    BY DEF IndInv
  <1>. QED
    BY <1>1, Invariance, PTL

\* A name is a key of the memory, whatever turns and people do to it.
THEOREM NameIsAKey == Spec => []OneEntryPerName
  <1>1. IndInv => OneEntryPerName
    BY DEF IndInv
  <1>. QED
    BY <1>1, Invariance, PTL

\* bump_hits loses no credit to a concurrent write and gives none twice.
THEOREM CreditsAreCounted == Spec => []HitsAreCredits
  <1>1. IndInv => HitsAreCredits
    BY DEF IndInv
  <1>. QED
    BY <1>1, Invariance, PTL

\* A fingerprint is the one the entry's author took, or none.
THEOREM FingerprintFollowsTheClaim == Spec => []FingerprintIsTheAuthors
  <1>1. IndInv => FingerprintIsTheAuthors
    BY DEF IndInv
  <1>. QED
    BY <1>1, Invariance, PTL

\* Who writes the table.
LEMMA WhoWrites ==
  ASSUME [Next]_vars
  PROVE  \/ \E t \in Turns : WriteEntry(t)
         \/ \E t \in Turns : Credit(t)
         \/ \E i \in DOMAIN entries, rewrites, pin, off \in BOOLEAN :
              Curate(i, rewrites, pin, off)
         \/ Migrate
         \/ Reset
         \/ entries' = entries
  BY DEF Next, TurnStep, Load, Learn, Stop, Drift, Quiet, vars

\* The counts that tell edits and migrations from a turn's own steps.
LEMMA Counted ==
  ASSUME TypeOK
  PROVE  /\ \A i, rewrites, pin, off :
              Curate(i, rewrites, pin, off) => edits' # edits
         /\ Migrate \/ Reset => moves' # moves
  <1>1. edits + 1 # edits /\ moves + 1 # moves
    BY DEF TypeOK
  <1>2. ASSUME NEW i, NEW rewrites, NEW pin, NEW off,
               Curate(i, rewrites, pin, off)
        PROVE  edits' = edits + 1
    BY <1>2, Zenon DEF Curate
  <1>3. Migrate \/ Reset => moves' = moves + 1
    BY Zenon DEF Migrate, Reset
  <1>. QED
    BY <1>1, <1>2, <1>3

\* Only a person, the migrations or a reset touch what a person pinned.
THEOREM PinsHold == Spec => PinnedStays
  <1>1. ASSUME TypeOK, [Next]_vars, edits' = edits, moves' = moves,
               NEW i \in DOMAIN entries, Protected(entries[i])
        PROVE  entries'[i].by = Person /\ entries'[i].fp = entries[i].fp
    <2>1. ASSUME NEW t \in Turns, WriteEntry(t)
          PROVE  entries'[i].by = Person /\ entries'[i].fp = entries[i].fp
      <3>1. entries'[i] = entries[i]
        BY <1>1, <2>1, WriteCases
      <3>. QED
        BY <1>1, <3>1 DEF Protected
    <2>2. ASSUME NEW t \in Turns, Credit(t)
          PROVE  entries'[i].by = Person /\ entries'[i].fp = entries[i].fp
      BY <1>1, <2>2, CreditCases DEF Protected
    <2>3. CASE UNCHANGED entries
      BY <1>1, <2>3 DEF Protected
    <2>. QED
      BY <1>1, <2>1, <2>2, <2>3, WhoWrites, Counted
  <1>2. TypeOK /\ [Next]_vars =>
          (\A i \in DOMAIN entries :
             Protected(entries[i]) /\ edits' = edits /\ moves' = moves
               => /\ entries'[i].by = Person
                  /\ entries'[i].fp = entries[i].fp)
    BY <1>1
  <1>. QED
    BY <1>2, TypeCorrect, PTL DEF Spec, PinnedStays

\* No learning turn brings back an entry a person took out.
THEOREM BansHold == Spec => DisabledStays
  <1>1. ASSUME TypeOK, [Next]_vars, edits' = edits,
               NEW i \in DOMAIN entries, i \in DOMAIN entries',
               entries[i].disabled
        PROVE  entries'[i].disabled
    <2>1. ASSUME NEW t \in Turns, WriteEntry(t)
          PROVE  entries'[i].disabled
      <3>1. \A e \in Entry, d \in Draft :
              Refreshed(e, t, d).disabled = e.disabled
        BY DEF Refreshed, Entry
      <3>2. Head(batch[t]) \in Draft
        BY <1>1, <2>1, NextDraft DEF WriteEntry
      <3>3. entries'[i].disabled = entries[i].disabled
        BY <1>1, <2>1, <3>1, <3>2, WriteCases, Ids
      <3>. QED
        BY <1>1, <3>3
    <2>2. ASSUME NEW t \in Turns, Credit(t)
          PROVE  entries'[i].disabled
      <3>1. entries'[i].disabled = entries[i].disabled
        BY <1>1, <2>2, CreditCases
      <3>. QED
        BY <1>1, <3>1
    <2>3. CASE Migrate
      <3>1. entries'[i].disabled = entries[i].disabled
        BY <1>1, <2>3, MigrateCases
      <3>. QED
        BY <1>1, <3>1
    <2>4. CASE Reset
      BY <1>1, <2>4 DEF Reset
    <2>5. CASE UNCHANGED entries
      BY <1>1, <2>5
    <2>. QED
      BY <1>1, <2>1, <2>2, <2>3, <2>4, <2>5, WhoWrites, Counted
  <1>2. TypeOK /\ [Next]_vars =>
          (\A i \in DOMAIN entries :
             entries[i].disabled /\ edits' = edits /\ i \in DOMAIN entries'
               => entries'[i].disabled)
    BY <1>1
  <1>. QED
    BY <1>2, TypeCorrect, PTL DEF Spec, DisabledStays

\* A person's word stands, for any number of concurrent turns.
THEOREM CurationStands == Spec => CurationHolds
  BY PinsHold, BansHold DEF CurationHolds

=============================================================================
