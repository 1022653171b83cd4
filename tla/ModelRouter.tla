----------------------------- MODULE ModelRouter -----------------------------
(***************************************************************************)
(* models/router.py over models/doctor.py and the adapters: one call of    *)
(* route tries the candidates of a role in order, re-probes the one that   *)
(* failed, and goes on to the next.                                        *)
(*                                                                         *)
(* Every await is a step of its own, and what a provider answers may       *)
(* change between any two of them.  Calls share nothing but the providers, *)
(* so one call at a time shows all there is.                               *)
(***************************************************************************)
EXTENDS Naturals, Sequences, Selecting

CONSTANTS
  Models,       \* adapters a candidate list may name
  Finders,      \* those that call no model: StaticPatternFinder
  Structured,   \* those that declare structured_output
  Tier,         \* pricing_tier per adapter, "undeclared" for none
  Lists,        \* candidate lists a caller may pass
  Stacks,       \* stack policies a caller may pass
  Nil           \* no policy, no error, no profile

Tiers == {"free", "shadow", "paid"}

(* A StackPolicy as its validator lets it be constructed. *)
StackPolicy ==
  {s \in [kind : {"dev", "prod"}, allowed_pricing_tiers : SUBSET Tiers] :
     s.kind = "prod" => s.allowed_pricing_tiers \cap {"free", "shadow"} = {}}

ASSUME RouterConstants ==
  /\ Finders \subseteq Models
  /\ Structured \subseteq Models
  /\ Tier \in [Models -> Tiers \cup {"undeclared"}]
  /\ Lists \subseteq Seq(Models)
  /\ Stacks \subseteq StackPolicy \cup {Nil}
  /\ Nil \notin StackPolicy
  /\ Nil \notin Models

(***************************************************************************)
(* What an endpoint does with a POST at this moment.  "prose" answers text *)
(* that is not JSON, "odd_shape" JSON without the fields of a completion;  *)
(* "garbled" sends a body that is not JSON or closes the connection before *)
(* a response; "gone" is 404 or 410, "down" every other HTTP error and an  *)
(* endpoint that cannot be reached.                                        *)
(***************************************************************************)
Healths == {"ok", "prose", "odd_shape", "garbled", "rate_limited", "gone", "down", "slow"}

ModelUnavailable == {"ModelUnavailable", "RateLimited", "NotFound"}

Exceptions == ModelUnavailable \cup {"Timeout", "MalformedStructuredOutput", "Unhandled"}

ASSUME NilIsNoException == Nil \notin Exceptions \cup {"NoCandidatesAvailable"}

VARIABLES
  health,     \* per adapter, what its endpoint does now
  pc,         \* where route is: idle, complete, probe, verify, answered, raised
  schema,     \* whether the request asks for structured output
  stack,      \* the stack policy of the call
  eligible,   \* the candidates left by the stack policy
  at,         \* position of the candidate being tried
  error,      \* what its complete raised
  deprecated, \* what its re-probe found
  attempts,   \* the RouteAttempts so far
  log,        \* the events passed to on_event
  raised      \* the exception route ended with

routeVars == <<health, pc, schema, stack, eligible, at, error, deprecated, attempts, log, raised>>

Attempts == [model : Models, ok : BOOLEAN, error : Exceptions \cup {Nil},
             reprobed_deprecated : BOOLEAN \cup {Nil}]

RouterTypeOK ==
  /\ health \in [Models -> Healths]
  /\ pc \in {"idle", "complete", "probe", "verify", "answered", "raised"}
  /\ schema \in BOOLEAN
  /\ stack \in Stacks \cup {Nil}
  /\ eligible \in Seq(Models)
  /\ at \in Nat
  /\ error \in Exceptions \cup {Nil}
  /\ deprecated \in BOOLEAN \cup {Nil}
  /\ attempts \in Seq(Attempts)
  /\ log \in Seq([kind : {"quota_switch", "model_unavailable"}, model : Models])
  /\ raised \in Exceptions \cup {"NoCandidatesAvailable", Nil}

RouterInit ==
  /\ health \in [Models -> {"ok"}]
  /\ pc = "idle"
  /\ schema = FALSE
  /\ stack = Nil
  /\ eligible = <<>>
  /\ at = 1
  /\ error = Nil
  /\ deprecated = Nil
  /\ attempts = <<>>
  /\ log = <<>>
  /\ raised = Nil

------------------------------------------------------------------------------
(***************************************************************************)
(* The adapters.                                                           *)
(***************************************************************************)

(* _post: the exception an answer is mapped to, or "data". *)
postUnmapped(h) ==
  CASE h = "rate_limited" -> "RateLimited"
    [] h = "gone"         -> "NotFound"
    [] h = "down"         -> "HTTPError"
    [] h = "slow"         -> "Timeout"
    [] h = "garbled"      -> "Unhandled"
    [] OTHER              -> "data"

post(h) ==
  CASE h = "rate_limited" -> "RateLimited"
    [] h = "gone"         -> "NotFound"
    [] h = "down"         -> "ModelUnavailable"
    [] h = "slow"         -> "Timeout"
    [] h = "garbled"      -> "Unhandled"
    [] OTHER              -> "data"

(* complete: the exception it raises, or Nil for a response. *)
complete(model, h, with_schema) ==
  CASE model \in Finders                -> Nil
    [] post(h) # "data"                 -> post(h)
    [] h = "odd_shape"                  -> "ModelUnavailable"
    [] h = "prose" /\ with_schema       -> "MalformedStructuredOutput"
    [] OTHER                            -> Nil

(* probe: the exception it raises, or what it found. *)
probe(model, h) ==
  CASE model \in Finders                -> "serving"
    [] post(h) = "NotFound"             -> "deprecated"
    [] post(h) = "data"                 -> "serving"
    [] OTHER                            -> post(h)

------------------------------------------------------------------------------
(***************************************************************************)
(* The gates beside the router.                                            *)
(***************************************************************************)
allowed_by_stackUnclassified(model, policy) ==
  policy = Nil \/ Tier[model] = "undeclared" \/ Tier[model] \in policy.allowed_pricing_tiers

allowed_by_stack(model, policy) ==
  policy = Nil \/ Tier[model] \in policy.allowed_pricing_tiers

(* AuthorizationGate.check of a candidate's tier, for an audit of that confidentiality. *)
AuthorizationGate(confidentiality, policy, tier) ==
  /\ ~ (confidentiality = "private" /\ policy.kind = "dev")
  /\ ~ (policy.kind = "prod" /\ tier \in {"free", "shadow"})
  /\ tier \in policy.allowed_pricing_tiers

------------------------------------------------------------------------------
(***************************************************************************)
(* route.                                                                  *)
(***************************************************************************)
FAILOVER_EXCEPTIONSNoTimeout == ModelUnavailable

FAILOVER_EXCEPTIONS == ModelUnavailable \cup {"Timeout"}

Candidate == eligible[at]

Raise(exception) ==
  /\ pc' = "raised"
  /\ raised' = exception

(* The candidates the stack policy allows, in their order. *)
Eligible(candidates, policy) ==
  SelectAt(candidates, {i \in DOMAIN candidates : allowed_by_stack(candidates[i], policy)})

route(candidates, policy, with_schema) ==
  LET left == Eligible(candidates, policy)
  IN  /\ pc = "idle"
      /\ schema' = with_schema
      /\ stack' = policy
      /\ eligible' = left
      /\ IF left = <<>> THEN Raise("NoCandidatesAvailable") ELSE pc' = "complete" /\ UNCHANGED raised
      /\ UNCHANGED <<health, at, error, deprecated, attempts, log>>

(* await candidate.complete(request) *)
Complete ==
  LET exception == complete(Candidate, health[Candidate], schema)
  IN  /\ pc = "complete"
      /\ \/ /\ exception = Nil
            /\ attempts' = Append(attempts, [model |-> Candidate, ok |-> TRUE, error |-> Nil,
                                             reprobed_deprecated |-> Nil])
            /\ pc' = "answered"
            /\ UNCHANGED <<error, raised>>
         \/ /\ exception \in FAILOVER_EXCEPTIONS
            /\ error' = exception
            /\ pc' = "probe"
            /\ UNCHANGED <<attempts, raised>>
         \/ /\ exception # Nil /\ exception \notin FAILOVER_EXCEPTIONS
            /\ error' = exception
            /\ Raise(exception)
            /\ UNCHANGED attempts
      /\ UNCHANGED <<health, schema, stack, eligible, at, deprecated, log>>

(* The attempt and its event are recorded, and the next candidate's turn comes. *)
AdvanceRetriesTimeout(reprobed) ==
  IF error = "Timeout"
  THEN pc' = "complete" /\ UNCHANGED <<attempts, log, at, raised>>
  ELSE /\ attempts' = Append(attempts, [model |-> Candidate, ok |-> FALSE, error |-> error,
                                        reprobed_deprecated |-> reprobed])
       /\ UNCHANGED log
       /\ at' = at + 1
       /\ IF at' > Len(eligible) THEN Raise("NoCandidatesAvailable") ELSE pc' = "complete" /\ UNCHANGED raised

AdvanceStopsEarly(reprobed) ==
  /\ attempts' = Append(attempts, [model |-> Candidate, ok |-> FALSE, error |-> error,
                                   reprobed_deprecated |-> reprobed])
  /\ UNCHANGED log
  /\ at' = at + 1
  /\ IF at' >= Len(eligible) THEN Raise("NoCandidatesAvailable") ELSE pc' = "complete" /\ UNCHANGED raised

Advance(reprobed) ==
  /\ attempts' = Append(attempts, [model |-> Candidate, ok |-> FALSE, error |-> error,
                                   reprobed_deprecated |-> reprobed])
  /\ log' = Append(log, [kind  |-> IF error = "RateLimited" THEN "quota_switch" ELSE "model_unavailable",
                         model |-> Candidate])
  /\ at' = at + 1
  /\ IF at' > Len(eligible) THEN Raise("NoCandidatesAvailable") ELSE pc' = "complete" /\ UNCHANGED raised

(* What probe_model takes for an ordinary failure. *)
ORDINARY_PROBE_FAILURES == ModelUnavailable \cup {"Timeout"}

(* probe_model as far as adapter.probe() *)
Probe ==
  LET found == probe(Candidate, health[Candidate])
  IN  /\ pc = "probe"
      /\ \/ /\ found \in ORDINARY_PROBE_FAILURES
            /\ Advance(Nil)
            /\ UNCHANGED deprecated
         \/ /\ found \in Exceptions \ ORDINARY_PROBE_FAILURES
            /\ Raise(found)
            /\ UNCHANGED <<at, attempts, log, deprecated>>
         \/ /\ found \in {"serving", "deprecated"}
            /\ deprecated' = (found = "deprecated")
            /\ IF Candidate \in Structured /\ found = "serving"
               THEN pc' = "verify" /\ UNCHANGED <<at, attempts, log, raised>>
               ELSE Advance(found = "deprecated")
      /\ UNCHANGED <<health, schema, stack, eligible, error>>

(* _verify_structured_output: whatever it meets, the attempt is recorded. *)
Verify ==
  /\ pc = "verify"
  /\ Advance(deprecated)
  /\ UNCHANGED <<health, schema, stack, eligible, error, deprecated>>

RouteStep == Complete \/ Probe \/ Verify

(* A provider's condition changes. *)
Change(model, h) ==
  /\ health[model] # h
  /\ health' = [health EXCEPT ![model] = h]
  /\ UNCHANGED <<pc, schema, stack, eligible, at, error, deprecated, attempts, log, raised>>

RouterNext ==
  \/ \E candidates \in Lists, policy \in Stacks, with_schema \in BOOLEAN :
       route(candidates, policy, with_schema)
  \/ RouteStep
  \/ \E model \in Models \ Finders, h \in Healths : Change(model, h)

(* Every adapter call ends: urlopen has timeout_s, and nothing else waits. *)
RouterSpec == RouterInit /\ [][RouterNext]_routeVars /\ WF_routeVars(RouteStep)

------------------------------------------------------------------------------
(***************************************************************************)
(* What a caller may rely on.                                              *)
(***************************************************************************)

(* The attempts are the eligible candidates in order, each one failed with   *)
(* something to fail over on, except that the last one of an answered call   *)
(* served it; NoCandidatesAvailable is raised only when all of them failed.  *)
NoCandidatesMeansAllFailed ==
  /\ Len(attempts) <= Len(eligible)
  /\ \A i \in 1..Len(attempts) :
       /\ attempts[i].model = eligible[i]
       /\ IF i = Len(attempts) /\ pc = "answered"
          THEN attempts[i].ok
          ELSE ~attempts[i].ok /\ attempts[i].error \in FAILOVER_EXCEPTIONS
  /\ raised = "NoCandidatesAvailable" => Len(attempts) = Len(eligible)

(* Whoever answers on a stack is a candidate the authorization gate would     *)
(* have let a public audit select, although the router has its own filter.   *)
AnswerPassesGate ==
  pc = "answered" /\ stack # Nil => AuthorizationGate("public", stack, Tier[Candidate])

Routing == pc \in {"complete", "probe", "verify"}

(* Every call of route ends, however the providers change meanwhile.         *)
RouteEnds == Routing ~> pc \in {"answered", "raised"}

(* What makes complete raise something route does not fail over on. *)
Breaking == {"prose", "garbled"}

(* A candidate that keeps serving answers every call that has not passed it, *)
(* whatever recoverable failures the others run into on the way.             *)
ServingCandidateAnswers ==
  \A m \in Models :
    [](health[m] = "ok" /\ \A n \in Models : health[n] \notin Breaking)
      => ((pc = "complete" /\ \E i \in at..Len(eligible) : eligible[i] = m) ~> pc = "answered")

(* "a deprecated model ID fails over and re-probes rather than raising": once *)
(* complete failed with something to fail over on, the call does not raise    *)
(* while a candidate is left.                                                 *)
RecoverableFailureNeverRaises ==
  pc = "raised" /\ error \in FAILOVER_EXCEPTIONS => Len(attempts) = Len(eligible)

==============================================================================
