------------------------------ MODULE ModelCall ------------------------------
(***************************************************************************)
(* One model call to an OpenAI-shaped endpoint (app/llm.py, _post and      *)
(* _complete_openai), many at a time: the retries while the endpoint says  *)
(* it is rate limited, and the name of the field with the output cap,      *)
(* which is learned from a refusal and remembered for each endpoint.       *)
(*                                                                         *)
(* An endpoint knows one of the two names.  One that knows only the new    *)
(* refuses the old by naming the new; one that knows only the old ignores  *)
(* the new, and answers without a cap.  No other refusal names the field.  *)
(***************************************************************************)
EXTENDS Naturals

CONSTANTS
  Callers,              \* those that may have a call in flight
  Endpoints,            \* the urls of the configured models
  Tries                 \* _RATE_LIMIT_TRIES

ASSUME TriesAssumption == Tries \in Nat \ {0}
ASSUME EndpointsAssumption == Endpoints # {}

VARIABLES
  knows,                \* the name each endpoint knows
  capField,             \* _CAP_FIELD, with its default
  call                  \* the call of each caller

callVars == <<knows, capField, call>>

Fields == {"max_tokens", "max_completion_tokens"}

\* `asked` is cap_field, `field` what the body has now; `attempt` counts in
\* _post, `sent` all the requests of the call; `why` it failed.
Call == [at : {"none", "posting", "ok", "failed"}, url : Endpoints,
         asked : Fields, field : Fields, attempt : 0..(Tries - 1),
         sent : Nat, why : {"none", "rate", "field", "other"}]

CallTypeOK ==
  /\ knows \in [Endpoints -> Fields]
  /\ capField \in [Endpoints -> Fields]
  /\ call \in [Callers -> Call]

Made(place, url, name, n) ==
  [at |-> place, url |-> url, asked |-> name, field |-> name,
   attempt |-> 0, sent |-> n, why |-> "none"]

NoCall == Made("none", CHOOSE url \in Endpoints : TRUE, "max_tokens", 0)

CallInit ==
  /\ knows \in [Endpoints -> Fields]
  /\ capField = [url \in Endpoints |-> "max_tokens"]
  /\ call = [c \in Callers |-> NoCall]

-----------------------------------------------------------------------------
\* The body is made with the name known by now, and posted.
Begin(c, url) ==
  /\ call[c].at = "none"
  /\ call' = [call EXCEPT ![c] = Made("posting", url, capField[url], 1)]
  /\ UNCHANGED <<knows, capField>>

Fails(c, reason) ==
  call' = [call EXCEPT ![c].at = "failed", ![c].why = reason]

\* A bug: the last try is not counted as one.
RateLimitedOnce(c) ==
  /\ call[c].at = "posting"
  /\ IF call[c].attempt < Tries - 2
     THEN call' = [call EXCEPT ![c].attempt = @ + 1, ![c].sent = @ + 1]
     ELSE Fails(c, "rate")
  /\ UNCHANGED <<knows, capField>>

\* A bug: one try too many.
RateLimitedAgain(c) ==
  /\ call[c].at = "posting"
  /\ IF call[c].attempt < Tries
     THEN call' = [call EXCEPT ![c].attempt = @ + 1, ![c].sent = @ + 1]
     ELSE Fails(c, "rate")
  /\ UNCHANGED <<knows, capField>>

\* 429: it waits and posts again, and the last one is returned as it is.
RateLimited(c) ==
  /\ call[c].at = "posting"
  /\ IF call[c].attempt < Tries - 1
     THEN call' = [call EXCEPT ![c].attempt = @ + 1, ![c].sent = @ + 1]
     ELSE Fails(c, "rate")
  /\ UNCHANGED <<knows, capField>>

\* The endpoint looks at the name of the field.
Minds(c) ==
  /\ call[c].field = "max_tokens"
  /\ knows[call[c].url] = "max_completion_tokens"

\* The body has the new name, and _post starts over.
AsksAgain(c) ==
  call' = [call EXCEPT ![c].field = "max_completion_tokens",
                       ![c].attempt = 0, ![c].sent = @ + 1]

\* A bug: it goes again only if nobody has learned the name meanwhile.
RefusedForAll(c) ==
  /\ call[c].at = "posting"
  /\ Minds(c)
  /\ IF capField[call[c].url] = "max_tokens"
     THEN /\ capField' = [capField EXCEPT
                            ![call[c].url] = "max_completion_tokens"]
          /\ AsksAgain(c)
     ELSE Fails(c, "field") /\ UNCHANGED capField
  /\ UNCHANGED knows

\* A bug: what one endpoint refused is taken for what all refuse.
RefusedEverywhere(c) ==
  /\ call[c].at = "posting"
  /\ Minds(c)
  /\ capField' = [url \in Endpoints |-> "max_completion_tokens"]
  /\ AsksAgain(c)
  /\ UNCHANGED knows

\* 400, naming the new field: remembered for the endpoint, and asked again if
\* the call was made with the old one.
Refused(c) ==
  /\ call[c].at = "posting"
  /\ Minds(c)
  /\ IF call[c].asked = "max_tokens"
     THEN /\ capField' = [capField EXCEPT
                            ![call[c].url] = "max_completion_tokens"]
          /\ AsksAgain(c)
     ELSE Fails(c, "field") /\ UNCHANGED capField
  /\ UNCHANGED knows

\* Any other status, a transport error, or a reply without the forced call.
Errs(c) ==
  /\ call[c].at = "posting"
  /\ Fails(c, "other")
  /\ UNCHANGED <<knows, capField>>

Replies(c) ==
  /\ call[c].at = "posting"
  /\ ~Minds(c)
  /\ call' = [call EXCEPT ![c].at = "ok"]
  /\ UNCHANGED <<knows, capField>>

\* complete returned or raised, and its caller goes on.
Taken(c) ==
  /\ call[c].at \in {"ok", "failed"}
  /\ call' = [call EXCEPT ![c] = NoCall]
  /\ UNCHANGED <<knows, capField>>

CallStep(c) == RateLimited(c) \/ Refused(c) \/ Errs(c) \/ Replies(c)

-----------------------------------------------------------------------------
(* Properties. *)

\* "A rate limit is a queue, not a failure" and "Bounded": a call gives up on
\* one only after all its tries, and never sends more than two rounds of them.
TriesAreSpent ==
  \A c \in Callers :
    /\ call[c].sent <= 2 * Tries
    /\ call[c].why = "rate" => call[c].sent >= Tries

\* "Would silently uncap a local model": no endpoint ever answers a request
\* whose cap it does not know, whatever other endpoints have refused.
AnswersAreCapped ==
  \A c \in Callers :
    call[c].at = "ok" => call[c].field = knows[call[c].url]

\* However many calls meet the refusal at once, none of them fails on the name
\* of a field.
FieldFailsNobody == \A c \in Callers : call[c].why # "field"

=============================================================================
