--------------------------- MODULE ColdTurns_proofs ---------------------------
(* The proofs about ColdTurns: one engine, a whole pool, and model calls     *)
(* that spend their tries and keep their cap, for any number of turns.       *)
EXTENDS ColdTurns, FiniteSetTheorems, TLAPS

\* Who holds the lock is dialling, and nobody else; then there is no engine.
LockInv ==
  /\ \A t \in Turns : at[t] = "dialing" <=> lock = t
  /\ lock # NoTurn => engine = 0 /\ built # 0 /\ live = {built}

EngineInv ==
  /\ engine # 0 => live = {engine}
  /\ engine = 0 /\ lock = NoTurn => live = {}

\* A turn has a connection at two places only.
PoolInv ==
  /\ out = Cardinality(Holders)
  /\ out <= PoolMax
  /\ \A t \in Turns :
       /\ conn[t] # 0 <=> at[t] \in {"exploring", "executing"}
       /\ conn[t] # 0 => conn[t] = engine

\* What is learned of an endpoint is true of it.
FieldInv ==
  \A url \in Endpoints :
    capField[url] = "max_completion_tokens" =>
      knows[url] = "max_completion_tokens"

\* A call: the name it asks with is true, and changed at most once.
NameGood(r) ==
  /\ r.field = "max_completion_tokens" =>
       knows[r.url] = "max_completion_tokens"
  /\ r.asked = "max_completion_tokens" => r.field = "max_completion_tokens"
  /\ r.at = "ok" => r.field = knows[r.url]
  /\ r.why # "field"

\* And its requests: at most one round of tries before the change.
TriesGood(r) ==
  /\ r.sent <= (IF r.field = r.asked THEN 0 ELSE Tries) + r.attempt + 1
  /\ r.at # "none" => r.sent >= r.attempt + 1
  /\ r.why = "rate" => r.at = "failed" /\ r.attempt = Tries - 1

CallInv == \A c \in Callers : NameGood(call[c]) /\ TriesGood(call[c])

IndInv ==
  TypeOK /\ LockInv /\ EngineInv /\ PoolInv /\ FieldInv /\ CallInv

-----------------------------------------------------------------------------
(* The records of calls. *)

LEMMA MadeType ==
  ASSUME NEW place \in {"none", "posting"}, NEW url \in Endpoints,
         NEW name \in Fields, NEW n \in Nat
  PROVE  Made(place, url, name, n) \in Call
  BY TriesAssumption DEF Made, Call

LEMMA NoCallType == NoCall \in Call
  <1>1. (CHOOSE url \in Endpoints : TRUE) \in Endpoints
    BY EndpointsAssumption
  <1>. QED
    BY <1>1, MadeType DEF NoCall, Fields

LEMMA NoCallGood == NameGood(NoCall) /\ TriesGood(NoCall)
  BY TriesAssumption DEF NoCall, Made, NameGood, TriesGood

(* Every action of ModelCall changes the record of one caller. *)
LEMMA BeginGood ==
  ASSUME CallTypeOK, FieldInv, NEW c \in Callers, NEW url \in Endpoints,
         Begin(c, url)
  PROVE  /\ call'[c] \in Call
         /\ NameGood(call'[c])
         /\ TriesGood(call'[c])
  <1>1. call'[c] = Made("posting", url, capField[url], 1)
    BY DEF Begin, CallTypeOK
  <1>2. call'[c] \in Call
    BY <1>1, MadeType DEF CallTypeOK
  <1>3. /\ call'[c].at = "posting" /\ call'[c].url = url
        /\ call'[c].asked = capField[url] /\ call'[c].field = capField[url]
        /\ call'[c].attempt = 0 /\ call'[c].sent = 1 /\ call'[c].why = "none"
    BY <1>1 DEF Made
  <1>4. NameGood(call'[c])
    BY <1>3 DEF NameGood, FieldInv
  <1>5. TriesGood(call'[c])
    BY <1>3, TriesAssumption DEF TriesGood
  <1>. QED
    BY <1>2, <1>4, <1>5

LEMMA RateLimitedGood ==
  ASSUME CallTypeOK, FieldInv, NEW c \in Callers,
         NameGood(call[c]), TriesGood(call[c]), RateLimited(c)
  PROVE  /\ call'[c] \in Call
         /\ NameGood(call'[c])
         /\ TriesGood(call'[c])
  <1> DEFINE r == call[c]
             s == call'[c]
  <1>1. r \in Call
    BY DEF CallTypeOK
  <1>2. CASE r.attempt < Tries - 1
    <2>1. s = [r EXCEPT !.attempt = @ + 1, !.sent = @ + 1]
      BY <1>2 DEF RateLimited, CallTypeOK
    <2>2. /\ s.at = r.at /\ s.url = r.url /\ s.asked = r.asked
          /\ s.field = r.field /\ s.why = r.why
          /\ s.attempt = r.attempt + 1 /\ s.sent = r.sent + 1
      BY <1>1, <2>1 DEF Call
    <2>3. r.attempt + 1 \in 0..(Tries - 1) /\ r.sent + 1 \in Nat
      BY <1>1, <1>2, TriesAssumption DEF Call
    <2>4. s \in Call
      BY <1>1, <2>1, <2>3 DEF Call
    <2>. QED
      BY <1>1, <1>2, <2>2, <2>4, TriesAssumption
         DEF NameGood, TriesGood, Call, RateLimited
  <1>3. CASE ~(r.attempt < Tries - 1)
    <2>1. s = [r EXCEPT !.at = "failed", !.why = "rate"]
      BY <1>3 DEF RateLimited, CallTypeOK, Fails
    <2>2. /\ s.at = "failed" /\ s.url = r.url /\ s.asked = r.asked
          /\ s.field = r.field /\ s.why = "rate"
          /\ s.attempt = r.attempt /\ s.sent = r.sent
      BY <1>1, <2>1 DEF Call
    <2>3. s \in Call
      BY <1>1, <2>1 DEF Call
    <2>. QED
      BY <1>1, <1>3, <2>2, <2>3, TriesAssumption
         DEF NameGood, TriesGood, Call, RateLimited
  <1>. QED
    BY <1>2, <1>3

LEMMA RefusedGood ==
  ASSUME CallTypeOK, FieldInv, NEW c \in Callers,
         NameGood(call[c]), TriesGood(call[c]), Refused(c)
  PROVE  /\ call'[c] \in Call
         /\ NameGood(call'[c])
         /\ TriesGood(call'[c])
         /\ knows[call[c].url] = "max_completion_tokens"
         /\ capField' = [capField EXCEPT
                           ![call[c].url] = "max_completion_tokens"]
  <1> DEFINE r == call[c]
             s == call'[c]
  <1>1. r \in Call /\ r.at = "posting"
    BY DEF CallTypeOK, Refused
  <1>2. /\ r.field = "max_tokens"
        /\ knows[r.url] = "max_completion_tokens"
    BY DEF Refused, Minds
  <1>3. r.asked = "max_tokens"
    BY <1>1, <1>2 DEF NameGood, Call, Fields
  <1>4. /\ s = [r EXCEPT !.field = "max_completion_tokens", !.attempt = 0,
                         !.sent = @ + 1]
        /\ capField' = [capField EXCEPT
                          ![r.url] = "max_completion_tokens"]
    BY <1>3 DEF Refused, AsksAgain, CallTypeOK
  <1>5. /\ s.at = r.at /\ s.url = r.url /\ s.asked = r.asked
        /\ s.field = "max_completion_tokens" /\ s.why = r.why
        /\ s.attempt = 0 /\ s.sent = r.sent + 1
    BY <1>1, <1>4 DEF Call
  <1>6. r.sent + 1 \in Nat /\ 0 \in 0..(Tries - 1)
    BY <1>1, TriesAssumption DEF Call
  <1>7. s \in Call
    BY <1>1, <1>4, <1>6 DEF Call, Fields
  <1>8. NameGood(s)
    BY <1>1, <1>2, <1>5 DEF NameGood
  <1>9. TriesGood(s)
    <2>1. r.attempt \in Nat /\ r.attempt <= Tries - 1 /\ r.sent \in Nat
      BY <1>1, TriesAssumption DEF Call
    <2>2. r.sent <= r.attempt + 1
      BY <1>2, <1>3, <2>1 DEF TriesGood
    <2>. QED
      BY <1>1, <1>2, <1>3, <1>5, <2>1, <2>2, TriesAssumption DEF TriesGood
  <1>. QED
    BY <1>2, <1>4, <1>7, <1>8, <1>9

LEMMA ErrsGood ==
  ASSUME CallTypeOK, NEW c \in Callers,
         NameGood(call[c]), TriesGood(call[c]), Errs(c)
  PROVE  /\ call'[c] \in Call
         /\ NameGood(call'[c])
         /\ TriesGood(call'[c])
  <1> DEFINE r == call[c]
             s == call'[c]
  <1>1. r \in Call /\ r.at = "posting"
    BY DEF CallTypeOK, Errs
  <1>2. s = [r EXCEPT !.at = "failed", !.why = "other"]
    BY DEF Errs, Fails, CallTypeOK
  <1>3. /\ s.at = "failed" /\ s.url = r.url /\ s.asked = r.asked
        /\ s.field = r.field /\ s.why = "other"
        /\ s.attempt = r.attempt /\ s.sent = r.sent
    BY <1>1, <1>2 DEF Call
  <1>4. s \in Call
    BY <1>1, <1>2 DEF Call
  <1>5. NameGood(s)
    BY <1>3 DEF NameGood
  <1>6. TriesGood(s)
    BY <1>1, <1>3 DEF TriesGood
  <1>. QED
    BY <1>4, <1>5, <1>6

LEMMA RepliesGood ==
  ASSUME CallTypeOK, NEW c \in Callers,
         NameGood(call[c]), TriesGood(call[c]), Replies(c)
  PROVE  /\ call'[c] \in Call
         /\ NameGood(call'[c])
         /\ TriesGood(call'[c])
  <1> DEFINE r == call[c]
             s == call'[c]
  <1>1. r \in Call /\ r.at = "posting" /\ knows[r.url] \in Fields
    BY DEF CallTypeOK, Replies, Call
  <1>2. s = [r EXCEPT !.at = "ok"]
    BY DEF Replies, CallTypeOK
  <1>3. /\ s.at = "ok" /\ s.url = r.url /\ s.asked = r.asked
        /\ s.field = r.field /\ s.why = r.why
        /\ s.attempt = r.attempt /\ s.sent = r.sent
    BY <1>1, <1>2 DEF Call
  <1>4. s \in Call
    BY <1>1, <1>2 DEF Call
  <1>5. r.field = knows[r.url]
    BY <1>1 DEF Replies, Minds, NameGood, Fields, Call
  <1>6. NameGood(s)
    BY <1>3, <1>5 DEF NameGood
  <1>7. TriesGood(s)
    BY <1>1, <1>3 DEF TriesGood
  <1>. QED
    BY <1>4, <1>6, <1>7

(* Of the caller that moves, and of all: what the other callers have stays. *)
LEMMA CallStepGood ==
  ASSUME CallTypeOK, FieldInv, CallInv, NEW c \in Callers,
         \/ \E url \in Endpoints : Begin(c, url)
         \/ CallStep(c)
         \/ Taken(c)
  PROVE  CallTypeOK' /\ FieldInv' /\ CallInv'
  <1>1. NameGood(call[c]) /\ TriesGood(call[c])
    BY DEF CallInv
  <1>2. knows' = knows
    BY DEF Begin, CallStep, RateLimited, Refused, Errs, Replies, Taken
  <1>3. /\ call'[c] \in Call
        /\ NameGood(call'[c])
        /\ TriesGood(call'[c])
    <2>1. ASSUME NEW url \in Endpoints, Begin(c, url)
          PROVE  /\ call'[c] \in Call
                 /\ NameGood(call'[c])
                 /\ TriesGood(call'[c])
      BY <2>1, BeginGood
    <2>2. CASE Taken(c)
      <3>1. call'[c] = NoCall
        BY <2>2 DEF Taken, CallTypeOK
      <3>. QED
        BY <3>1, NoCallType, NoCallGood
    <2>. QED
      BY <1>1, <2>1, <2>2, RateLimitedGood, RefusedGood, ErrsGood,
         RepliesGood DEF CallStep
  <1>4. \/ capField' = capField
        \/ /\ knows[call[c].url] = "max_completion_tokens"
           /\ capField' = [capField EXCEPT
                             ![call[c].url] = "max_completion_tokens"]
    <2>1. CASE Refused(c)
      BY <1>1, <2>1, RefusedGood
    <2>2. CASE ~Refused(c)
      BY <2>2 DEF Begin, CallStep, RateLimited, Errs, Replies, Taken
    <2>. QED
      BY <2>1, <2>2
  <1>5. /\ call' = [d \in Callers |-> call'[d]]
        /\ \A d \in Callers \ {c} : call'[d] = call[d]
    BY DEF Begin, CallStep, RateLimited, Refused, Errs, Replies, Taken,
           Fails, AsksAgain, CallTypeOK
  <1>6. \A d \in Callers : call'[d] \in Call
    BY <1>3, <1>5 DEF CallTypeOK
  <1>7. call' \in [Callers -> Call]
    BY <1>5, <1>6
  <1>8. CallTypeOK'
    <2>1. call[c].url \in Endpoints
      BY DEF CallTypeOK, Call
    <2>2. capField' \in [Endpoints -> Fields]
      BY <1>4, <2>1 DEF CallTypeOK, Fields
    <2>. QED
      BY <1>2, <1>7, <2>2 DEF CallTypeOK
  <1>9. FieldInv'
    BY <1>2, <1>4 DEF FieldInv, CallTypeOK
  <1>10. CallInv'
    <2> SUFFICES ASSUME NEW d \in Callers
                 PROVE  NameGood(call[d])' /\ TriesGood(call[d])'
      BY DEF CallInv
    <2>1. NameGood(call'[d]) /\ TriesGood(call'[d])
      BY <1>3, <1>5 DEF CallInv
    <2>. QED
      BY <1>2, <2>1 DEF NameGood, TriesGood
  <1>. QED
    BY <1>8, <1>9, <1>10

-----------------------------------------------------------------------------
(* The engine and its pool. *)

EngineStep(t) ==
  \/ Arrive(t) \/ Found(t) \/ Build(t) \/ NoFile(t)
  \/ Dialled(t) \/ DialFails(t)
  \/ Connect(t) \/ PoolTimeout(t) \/ Execute(t)
  \/ Explored(t) \/ Written(t) \/ Thrown(t)

LEMMA HoldersAreFinite == IsFiniteSet(Holders)
  BY TurnsAssumption, FS_Subset DEF Holders

(* What the pool has lent follows the set of its holders. *)
LEMMA OneMore ==
  ASSUME EngineTypeOK, PoolInv, NEW t \in Turns, NEW e \in Nat \ {0},
         conn[t] = 0, conn' = [conn EXCEPT ![t] = e], out' = out + 1
  PROVE  out' = Cardinality(Holders')
  <1>1. Holders' = Holders \union {t}
    BY DEF Holders, EngineTypeOK
  <1>2. t \notin Holders
    BY DEF Holders
  <1>. QED
    BY <1>1, <1>2, HoldersAreFinite, FS_AddElement DEF PoolInv

LEMMA OneLess ==
  ASSUME EngineTypeOK, PoolInv, NEW t \in Turns, conn[t] # 0, GivesBack(t)
  PROVE  /\ out' = Cardinality(Holders')
         /\ out' \in Nat
         /\ out' <= PoolMax
  <1>1. Holders' = Holders \ {t}
    BY DEF Holders, EngineTypeOK, GivesBack
  <1>2. t \in Holders
    BY DEF Holders
  <1>3. Cardinality(Holders \ {t}) = Cardinality(Holders) - 1
    BY <1>2, HoldersAreFinite, FS_RemoveElement
  <1>4. Cardinality(Holders') \in Nat
    BY <1>1, HoldersAreFinite, FS_Subset, FS_CardinalityType
  <1>. QED
    BY <1>1, <1>3, <1>4, PoolAssumption
       DEF PoolInv, GivesBack, EngineTypeOK

LEMMA EngineTypeStep ==
  ASSUME EngineTypeOK, LockInv, PoolInv, NEW t \in Turns,
         EngineStep(t) \/ Shutdown
  PROVE  EngineTypeOK'
  <1> USE DEF EngineTypeOK, Goes, Ended
  <1>1. CASE Arrive(t) \/ Found(t) \/ NoFile(t) \/ Written(t)
    BY <1>1 DEF Arrive, Found, NoFile, Written
  <1>2. CASE Build(t)
    BY <1>2 DEF Build
  <1>3. CASE Dialled(t) \/ DialFails(t)
    BY <1>3 DEF Dialled, DialFails
  <1>4. CASE Connect(t)
    BY <1>4 DEF Connect
  <1>5. ASSUME Rejected(t)
        PROVE  at' \in [Turns -> {"new", "queued", "dialing", "ready",
                                  "exploring", "asking", "written",
                                  "executing"} \union Ended]
               /\ fixes' \in [Turns -> 0..MaxFix]
    BY <1>5, PoolAssumption DEF Rejected
  <1>6. CASE PoolTimeout(t)
    BY <1>5, <1>6 DEF PoolTimeout
  <1>7. ASSUME GivesBack(t), conn[t] # 0
        PROVE  out' \in Nat /\ conn' \in [Turns -> Nat]
    BY <1>7, OneLess DEF GivesBack
  <1>8. CASE Execute(t)
    <2>1. conn[t] # 0
      BY <1>8 DEF Execute, PoolInv
    <2>. QED
      BY <1>5, <1>7, <1>8, <2>1 DEF Execute
  <1>9. CASE Explored(t)
    <2>1. conn[t] # 0
      BY <1>9 DEF Explored, PoolInv
    <2>. QED
      BY <1>7, <1>9, <2>1 DEF Explored
  <1>10. CASE Thrown(t)
    <2>1. CASE at[t] = "exploring"
      <3>1. conn[t] # 0
        BY <2>1 DEF PoolInv
      <3>. QED
        BY <1>7, <1>10, <2>1, <3>1 DEF Thrown
    <2>2. CASE at[t] # "exploring"
      BY <1>10, <2>2 DEF Thrown
    <2>. QED
      BY <2>1, <2>2
  <1>11. CASE Shutdown
    BY <1>11 DEF Shutdown
  <1>. QED
    BY <1>1, <1>2, <1>3, <1>4, <1>6, <1>8, <1>9, <1>10, <1>11
       DEF EngineStep

LEMMA LockStep ==
  ASSUME EngineTypeOK, LockInv, EngineInv, PoolInv, NEW t \in Turns,
         EngineStep(t) \/ Shutdown
  PROVE  LockInv' /\ EngineInv'
  <1> USE TurnsAssumption DEF EngineTypeOK, LockInv, EngineInv, Goes
  <1>1. CASE Arrive(t)
    BY <1>1 DEF Arrive
  <1>2. CASE Found(t) \/ NoFile(t)
    BY <1>2 DEF Found, NoFile
  <1>3. CASE Build(t)
    <2>1. live' = {built'} /\ built' # 0
      <3>1. live = {} /\ built' = built + 1
        BY <1>3 DEF Build
      <3>2. live' = live \union {built'}
        BY <1>3 DEF Build
      <3>3. live' = {built'}
        BY <3>1, <3>2, Zenon
      <3>4. built' # 0
        BY <3>1
      <3>. QED
        BY <3>3, <3>4
    <2>2. \A u \in Turns : at'[u] = "dialing" <=> u = t
      BY <1>3 DEF Build
    <2>. QED
      BY <1>3, <2>1, <2>2 DEF Build
  <1>4. CASE Dialled(t) \/ DialFails(t)
    <2>1. lock = t /\ live = {built} /\ engine = 0 /\ built # 0
      BY <1>4 DEF Dialled, DialFails
    <2>2. \A u \in Turns : at'[u] # "dialing"
      BY <1>4, <2>1 DEF Dialled, DialFails
    <2>3. live' = {engine'} \/ (engine' = 0 /\ live' = {})
      <3>1. CASE Dialled(t)
        <4>1. live' = live /\ engine' = built
          BY <3>1 DEF Dialled
        <4>2. live = {built}
          BY <2>1
        <4>3. live' = {engine'}
          BY <4>1, <4>2
        <4>. QED
          BY <4>3
      <3>2. CASE DialFails(t)
        <4>1. live' = live \ {built} /\ engine' = engine
          BY <3>2 DEF DialFails
        <4>2. live' = {}
          BY <2>1, <4>1, Zenon
        <4>. QED
          BY <2>1, <4>1, <4>2
      <3>. QED
        BY <1>4, <3>1, <3>2
    <2>. QED
      BY <1>4, <2>1, <2>2, <2>3 DEF Dialled, DialFails
  <1>5. CASE Connect(t) \/ PoolTimeout(t) \/ Execute(t) \/ Explored(t)
             \/ Written(t) \/ Thrown(t)
    <2>1. UNCHANGED <<engine, lock, built, live>>
      BY <1>5 DEF Connect, PoolTimeout, Execute, Explored, Written, Thrown
    <2>2. /\ at[t] # "dialing" /\ at'[t] # "dialing"
          /\ \A u \in Turns \ {t} : at'[u] = at[u]
      BY <1>5 DEF Connect, PoolTimeout, Execute, Explored, Written, Thrown,
                  Rejected
    <2>. QED
      BY <2>1, <2>2
  <1>6. CASE Shutdown
    <2>1. lock = NoTurn
      BY <1>6 DEF Shutdown, Ended
    <2>. QED
      BY <1>6, <2>1 DEF Shutdown
  <1>. QED
    BY <1>1, <1>2, <1>3, <1>4, <1>5, <1>6 DEF EngineStep

LEMMA PoolStep ==
  ASSUME EngineTypeOK, LockInv, EngineInv, PoolInv, NEW t \in Turns,
         EngineStep(t) \/ Shutdown
  PROVE  PoolInv'
  <1> USE DEF EngineTypeOK, Goes
  <1>1. ASSUME UNCHANGED <<engine, out, conn>>,
               at[t] \notin {"exploring", "executing"},
               at'[t] \notin {"exploring", "executing"},
               \A u \in Turns \ {t} : at'[u] = at[u]
        PROVE  PoolInv'
    BY <1>1 DEF PoolInv, Holders
  <1>2. CASE Arrive(t) \/ Found(t) \/ Build(t) \/ NoFile(t)
             \/ DialFails(t) \/ Written(t)
    BY <1>1, <1>2 DEF Arrive, Found, Build, NoFile, DialFails, Written
  <1>3. CASE Dialled(t)
    <2>1. engine = 0 /\ \A u \in Turns : conn[u] = 0
      BY <1>3, TurnsAssumption DEF Dialled, LockInv, PoolInv
    <2>2. UNCHANGED <<out, conn>>
      BY <1>3 DEF Dialled
    <2>3. \A u \in Turns : at'[u] \in {"exploring", "executing"}
                           <=> at[u] \in {"exploring", "executing"}
      BY <1>3 DEF Dialled
    <2>. QED
      BY <2>1, <2>2, <2>3 DEF PoolInv, Holders
  <1>4. CASE Connect(t)
    <2>1. conn[t] = 0
      BY <1>4 DEF Connect, PoolInv
    <2>2. out' = Cardinality(Holders')
      BY <1>4, <2>1, OneMore DEF Connect
    <2>3. out' <= PoolMax
      BY <1>4, PoolAssumption DEF Connect
    <2>4. \A u \in Turns :
            /\ conn'[u] # 0 <=> at'[u] \in {"exploring", "executing"}
            /\ conn'[u] # 0 => conn'[u] = engine'
      BY <1>4 DEF Connect, PoolInv
    <2>. QED
      BY <2>2, <2>3, <2>4 DEF PoolInv
  <1>5. CASE PoolTimeout(t)
    <2>1. at'[t] \notin {"exploring", "executing"}
      BY <1>5 DEF PoolTimeout, Rejected
    <2>2. \A u \in Turns \ {t} : at'[u] = at[u]
      BY <1>5 DEF PoolTimeout, Rejected
    <2>. QED
      BY <1>1, <1>5, <2>1, <2>2 DEF PoolTimeout
  <1>6. ASSUME GivesBack(t), conn[t] # 0, engine' = engine,
               at'[t] \notin {"exploring", "executing"},
               \A u \in Turns \ {t} : at'[u] = at[u]
        PROVE  PoolInv'
    <2>1. out' = Cardinality(Holders') /\ out' <= PoolMax
      BY <1>6, OneLess
    <2>2. \A u \in Turns :
            /\ conn'[u] # 0 <=> at'[u] \in {"exploring", "executing"}
            /\ conn'[u] # 0 => conn'[u] = engine'
      BY <1>6 DEF GivesBack, PoolInv
    <2>. QED
      BY <2>1, <2>2 DEF PoolInv
  <1>7. CASE Execute(t)
    <2>1. conn[t] # 0 /\ GivesBack(t) /\ engine' = engine
      BY <1>7 DEF Execute, PoolInv
    <2>2. /\ at'[t] \notin {"exploring", "executing"}
          /\ \A u \in Turns \ {t} : at'[u] = at[u]
      BY <1>7 DEF Execute, Rejected
    <2>. QED
      BY <1>6, <2>1, <2>2
  <1>8. CASE Explored(t)
    <2>1. conn[t] # 0 /\ GivesBack(t) /\ engine' = engine
      BY <1>8 DEF Explored, PoolInv
    <2>2. /\ at'[t] \notin {"exploring", "executing"}
          /\ \A u \in Turns \ {t} : at'[u] = at[u]
      BY <1>8 DEF Explored
    <2>. QED
      BY <1>6, <2>1, <2>2
  <1>9. CASE Thrown(t)
    <2>1. /\ at'[t] \notin {"exploring", "executing"}
          /\ \A u \in Turns \ {t} : at'[u] = at[u]
          /\ engine' = engine
      BY <1>9 DEF Thrown
    <2>2. CASE at[t] = "exploring"
      <3>1. conn[t] # 0 /\ GivesBack(t)
        BY <1>9, <2>2 DEF Thrown, PoolInv
      <3>. QED
        BY <1>6, <2>1, <3>1
    <2>3. CASE at[t] = "asking"
      BY <1>1, <1>9, <2>1, <2>3 DEF Thrown
    <2>. QED
      BY <1>9, <2>2, <2>3 DEF Thrown
  <1>10. CASE Shutdown
    <2>1. \A u \in Turns : conn[u] = 0
      BY <1>10 DEF Shutdown, Ended, PoolInv
    <2>. QED
      BY <1>10, <2>1 DEF Shutdown, PoolInv, Holders
  <1>. QED
    BY <1>2, <1>3, <1>4, <1>5, <1>7, <1>8, <1>9, <1>10 DEF EngineStep

-----------------------------------------------------------------------------
(* The two together. *)

LEMMA InitInv == Init => IndInv
  <1> SUFFICES ASSUME Init PROVE IndInv
    OBVIOUS
  <1> USE DEF Init, EngineInit, CallInit
  <1>1. EngineTypeOK
    BY PoolAssumption DEF EngineTypeOK
  <1>2. CallTypeOK
    BY NoCallType DEF CallTypeOK, Fields
  <1>3. LockInv /\ EngineInv
    BY TurnsAssumption DEF LockInv, EngineInv
  <1>4. PoolInv
    <2>1. Holders = {}
      BY DEF Holders
    <2>. QED
      BY <2>1, FS_EmptySet, PoolAssumption DEF PoolInv
  <1>5. FieldInv
    BY DEF FieldInv
  <1>6. CallInv
    BY NoCallGood DEF CallInv
  <1>7. asks \in [Turns -> 0..MaxAsks]
    BY AsksAssumption
  <1>. QED
    BY <1>1, <1>2, <1>3, <1>4, <1>5, <1>6, <1>7 DEF IndInv, TypeOK

LEMMA NextInv == IndInv /\ [Next]_vars => IndInv'
  <1> SUFFICES ASSUME IndInv, [Next]_vars PROVE IndInv'
    OBVIOUS
  <1>1. ASSUME NEW t \in Turns, EngineStep(t) \/ Shutdown
        PROVE  EngineTypeOK' /\ LockInv' /\ EngineInv' /\ PoolInv'
    BY <1>1, EngineTypeStep, LockStep, PoolStep DEF IndInv, TypeOK
  <1>2. ASSUME NEW t \in Turns,
               \/ \E url \in Endpoints : Begin(t, url)
               \/ CallStep(t)
               \/ Taken(t)
        PROVE  CallTypeOK' /\ FieldInv' /\ CallInv'
    BY <1>2, CallersAssumption, CallStepGood DEF IndInv, TypeOK
  <1>3. ASSUME UNCHANGED engineVars
        PROVE  EngineTypeOK' /\ LockInv' /\ EngineInv' /\ PoolInv'
    BY <1>3 DEF IndInv, TypeOK, engineVars, EngineTypeOK, LockInv,
                EngineInv, PoolInv, Holders
  <1>4. ASSUME UNCHANGED callVars
        PROVE  CallTypeOK' /\ FieldInv' /\ CallInv'
    BY <1>4 DEF IndInv, TypeOK, callVars, CallTypeOK, FieldInv, CallInv,
                NameGood, TriesGood
  <1>5. (asks \in [Turns -> 0..MaxAsks])'
    <2>1. ASSUME UNCHANGED asks PROVE (asks \in [Turns -> 0..MaxAsks])'
      BY <2>1 DEF IndInv, TypeOK
    <2>2. ASSUME NEW t \in Turns, KeepsExploring(t)
          PROVE  (asks \in [Turns -> 0..MaxAsks])'
      BY <2>2, AsksAssumption DEF KeepsExploring, IndInv, TypeOK
    <2>. QED
      BY <2>1, <2>2 DEF Next, TurnStep, OnItsWay, AsksTheModel, InCall,
                        Returns, Raises, Restart, Quiet, vars
  <1>6. ASSUME NEW t \in Turns, TurnStep(t) PROVE IndInv'
    <2>1. CASE OnItsWay(t)
      BY <1>1, <1>4, <1>5, <2>1 DEF OnItsWay, EngineStep, IndInv, TypeOK
    <2>2. CASE AsksTheModel(t)
      BY <1>2, <1>3, <1>5, <2>2 DEF AsksTheModel, IndInv, TypeOK
    <2>3. CASE InCall(t)
      BY <1>2, <1>3, <1>5, <2>3 DEF InCall, IndInv, TypeOK
    <2>4. CASE KeepsExploring(t)
      BY <1>2, <1>3, <1>5, <2>4 DEF KeepsExploring, IndInv, TypeOK
    <2>5. CASE Returns(t) \/ Raises(t)
      BY <1>1, <1>2, <1>5, <2>5 DEF Returns, Raises, EngineStep, IndInv,
                                    TypeOK
    <2>. QED
      BY <1>6, <2>1, <2>2, <2>3, <2>4, <2>5 DEF TurnStep
  <1>7. CASE Restart
    <2>1. EngineTypeOK' /\ LockInv' /\ EngineInv' /\ PoolInv'
      <3>1. CASE Turns = {}
        BY <1>7, <3>1 DEF IndInv, TypeOK, Restart, Shutdown, EngineTypeOK,
                          LockInv, EngineInv, PoolInv, Holders
      <3>2. CASE Turns # {}
        BY <1>1, <1>7, <3>2 DEF Restart
      <3>. QED
        BY <3>1, <3>2
    <2>2. UNCHANGED <<knows, call>>
          /\ capField' = [url \in Endpoints |-> "max_tokens"]
      BY <1>7 DEF Restart
    <2>3. CallTypeOK' /\ FieldInv'
      BY <2>2 DEF IndInv, TypeOK, CallTypeOK, FieldInv, Fields
    <2>4. CallInv'
      BY <2>2 DEF IndInv, CallInv, NameGood, TriesGood
    <2>. QED
      BY <1>5, <2>1, <2>3, <2>4 DEF IndInv, TypeOK
  <1>8. CASE UNCHANGED vars
    BY <1>3, <1>4, <1>8, <1>5 DEF vars, engineVars, callVars, IndInv, TypeOK
  <1>. QED
    BY <1>6, <1>7, <1>8 DEF Next, Quiet

(* The inductive invariant holds in every behaviour of the composition. *)
THEOREM Invariance == Spec => []IndInv
  <1>1. Init => IndInv
    BY InitInv
  <1>2. IndInv /\ [Next]_vars => IndInv'
    BY NextInv
  <1>. QED
    BY <1>1, <1>2, PTL DEF Spec

(* Types of the engine, its pool and the calls, for any turns, endpoints and
   limits. *)
THEOREM TypeCorrect == Spec => []TypeOK
  <1>1. IndInv => TypeOK
    BY DEF IndInv
  <1>. QED
    BY <1>1, Invariance, PTL

(* target_engine: a burst of any number of turns has one engine between them,
   and a dial that failed leaves none. *)
THEOREM BurstBuildsOne == Spec => []OneEngine
  <1>1. IndInv => OneEngine
    <2> SUFFICES ASSUME IndInv PROVE OneEngine
      OBVIOUS
    <2>1. /\ engine # 0 => live = {engine}
          /\ engine = 0 /\ lock = NoTurn => live = {}
          /\ lock # NoTurn => live = {built}
      BY DEF IndInv, EngineInv, LockInv
    <2>2. live = {} \/ live = {engine} \/ live = {built}
      BY <2>1
    <2>3. Cardinality(live) <= 1
      <3>1. /\ Cardinality({}) = 0
            /\ Cardinality({engine}) = 1
            /\ Cardinality({built}) = 1
        BY FS_EmptySet, FS_Singleton
      <3>2. Cardinality(live) = 0 \/ Cardinality(live) = 1
        BY <2>2, <3>1, Zenon
      <3>. QED
        BY <3>2
    <2>. QED
      BY <2>1, <2>3 DEF OneEngine
  <1>. QED
    BY <1>1, Invariance, PTL

(* target, target_readonly: whatever throws, the pool gets back what it lent,
   and never lends more than it has. *)
THEOREM PoolStaysWhole == Spec => []PoolIsWhole
  <1>1. IndInv => PoolIsWhole
    BY DEF IndInv, PoolInv, PoolIsWhole, Holders
  <1>. QED
    BY <1>1, Invariance, PTL

(* _post: a call gives up on a rate limit only when its tries are spent, and
   never sends more than two rounds of them, for any number of tries. *)
THEOREM RetriesAreBounded == Spec => []TriesAreSpent
  <1>1. IndInv => TriesAreSpent
    <2> SUFFICES ASSUME IndInv, NEW c \in Callers
                 PROVE  /\ call[c].sent <= 2 * Tries
                        /\ call[c].why = "rate" => call[c].sent >= Tries
      BY DEF TriesAreSpent
    <2>1. TriesGood(call[c]) /\ call[c] \in Call
      BY DEF IndInv, CallInv, TypeOK, CallTypeOK
    <2>2. /\ call[c].attempt \in Nat /\ call[c].attempt <= Tries - 1
          /\ call[c].sent \in Nat /\ Tries \in Nat
      BY <2>1, TriesAssumption DEF Call
    <2>3. /\ call[c].sent <= Tries + call[c].attempt + 1
          /\ call[c].why = "rate" =>
               call[c].sent >= call[c].attempt + 1
                 /\ call[c].attempt = Tries - 1
      BY <2>1, <2>2 DEF TriesGood
    <2>4. call[c].sent <= 2 * Tries
      <3>1. call[c].sent <= Tries + Tries
        BY <2>2, <2>3
      <3>2. 2 * Tries = Tries + Tries
        BY <2>2
      <3>. QED
        BY <3>1, <3>2
    <2>. QED
      BY <2>2, <2>3, <2>4
  <1>. QED
    BY <1>1, Invariance, PTL

(* _complete_openai: no answer was asked for with a cap its endpoint does not
   know, with any number of endpoints and calls in flight. *)
THEOREM AnswersKeepTheirCap == Spec => []AnswersAreCapped
  <1>1. IndInv => AnswersAreCapped
    BY DEF IndInv, CallInv, NameGood, AnswersAreCapped
  <1>. QED
    BY <1>1, Invariance, PTL

(* _complete_openai: no call fails on the name of a field, however many meet
   the refusal at once. *)
THEOREM NobodyFailsOnTheField == Spec => []FieldFailsNobody
  <1>1. IndInv => FieldFailsNobody
    BY DEF IndInv, CallInv, NameGood, FieldFailsNobody
  <1>. QED
    BY <1>1, Invariance, PTL

=============================================================================
