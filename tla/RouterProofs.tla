----------------------------- MODULE RouterProofs -----------------------------
(***************************************************************************)
(* Proofs about ModelRouter, for any adapters, tiers, candidate lists,     *)
(* policies and changes of the providers.                                  *)
(*                                                                         *)
(* The argument: while a call is routing, the attempts are the candidates  *)
(* before the current one, each failed with something to fail over on      *)
(* (Tried), and the position of the current one is what decides when       *)
(* NoCandidatesAvailable is raised.  The eligible candidates were filtered *)
(* by the policy of the call, which no step changes, and the validator of  *)
(* StackPolicy makes that filter as strict as the authorization gate.      *)
(***************************************************************************)
EXTENDS ModelRouter, SelectingProofs

(* The first n candidates of a list failed, in order, recoverably. *)
Tried(tries, list, n) ==
  /\ Len(tries) >= n /\ n <= Len(list)
  /\ \A i \in 1..n :
       /\ tries[i].model = list[i]
       /\ ~tries[i].ok /\ tries[i].error \in FAILOVER_EXCEPTIONS

Asking == pc \in {"complete", "probe", "verify"}

RouterInv ==
  /\ RouterTypeOK
  /\ \A i \in 1..Len(eligible) : allowed_by_stack(eligible[i], stack)
  /\ pc = "idle" => at = 1 /\ attempts = <<>> /\ eligible = <<>>
  /\ pc # "raised" => raised = Nil
  /\ Asking => at \in 1..Len(eligible) /\ Len(attempts) = at - 1 /\ Tried(attempts, eligible, at - 1)
  /\ pc \in {"probe", "verify"} => error \in FAILOVER_EXCEPTIONS
  /\ pc = "answered" => /\ at \in 1..Len(eligible) /\ Len(attempts) = at /\ Tried(attempts, eligible, at - 1)
                        /\ attempts[at].model = eligible[at] /\ attempts[at].ok
  /\ pc = "raised" => Tried(attempts, eligible, Len(attempts))
  /\ raised = "NoCandidatesAvailable" => Len(attempts) = Len(eligible)

------------------------------------------------------------------------------
(***************************************************************************)
(* The filter.                                                             *)
(***************************************************************************)

(* Whoever is left is a candidate, and allowed. *)
LEMMA LeftAreAllowed ==
  ASSUME NEW candidates \in Seq(Models), NEW policy
  PROVE  /\ Eligible(candidates, policy) \in Seq(Models)
         /\ \A i \in 1..Len(Eligible(candidates, policy)) :
              allowed_by_stack(Eligible(candidates, policy)[i], policy)
<1> DEFINE allowed == {i \in DOMAIN candidates : allowed_by_stack(candidates[i], policy)}
           left == SelectAt(candidates, allowed)
<1>1. left \in Seq(Models) /\ \E from : Comes(left, Len(candidates), candidates, allowed, from)
  BY Selected
<1>2. PICK from : Comes(left, Len(candidates), candidates, allowed, from)
  BY <1>1
<1>3. \A i \in 1..Len(left) : from[i] \in allowed /\ left[i] = candidates[from[i]]
  BY <1>2 DEF Comes
<1>4. Eligible(candidates, policy) = left
  BY DEF Eligible
<1> HIDE DEF left
<1> QED
  BY <1>1, <1>3, <1>4

------------------------------------------------------------------------------
(***************************************************************************)
(* Steps.                                                                  *)
(***************************************************************************)

LEMMA PostAnswers ==
  ASSUME NEW h
  PROVE  post(h) \in {"RateLimited", "NotFound", "ModelUnavailable", "Timeout", "Unhandled", "data"}
BY DEF post

LEMMA AdapterAnswers ==
  ASSUME NEW model, NEW h, NEW with_schema
  PROVE  /\ complete(model, h, with_schema) \in Exceptions \cup {Nil}
         /\ probe(model, h) \in Exceptions \cup {"serving", "deprecated"}
BY PostAnswers DEF complete, probe, Exceptions, ModelUnavailable

(* One more attempt. *)
LEMMA OneMore ==
  ASSUME RouterInv, NEW attempt \in Attempts, attempts' = Append(attempts, attempt)
  PROVE  /\ attempts' \in Seq(Attempts) /\ Len(attempts) \in Nat
         /\ Len(attempts') = Len(attempts) + 1
         /\ attempts'[Len(attempts) + 1] = attempt
         /\ \A i \in 1..Len(attempts) : attempts'[i] = attempts[i]
BY AppendProperties, LenProperties DEF RouterInv, RouterTypeOK

LEMMA Asked ==
  ASSUME RouterInv, Asking
  PROVE  /\ at \in Nat /\ Len(attempts) \in Nat /\ Len(eligible) \in Nat
         /\ 1 <= at /\ at <= Len(eligible) /\ Len(attempts) = at - 1 /\ Tried(attempts, eligible, at - 1)
         /\ Candidate \in Models /\ raised = Nil
<1>1. /\ eligible \in Seq(Models) /\ attempts \in Seq(Attempts) /\ at \in 1..Len(eligible)
      /\ Len(attempts) = at - 1 /\ Tried(attempts, eligible, at - 1) /\ raised = Nil
  BY DEF RouterInv, RouterTypeOK, Asking
<1>2. Len(eligible) \in Nat /\ Len(attempts) \in Nat /\ eligible[at] \in Models
  BY <1>1, LenProperties, ElementOfSeq
<1> QED
  BY <1>1, <1>2 DEF Candidate

(* The candidate failed; the next one's turn comes, or there is none. *)
LEMMA AdvanceKeeps ==
  ASSUME RouterInv, Asking, error \in FAILOVER_EXCEPTIONS, NEW reprobed \in BOOLEAN \cup {Nil},
         Advance(reprobed), deprecated' \in BOOLEAN \cup {Nil},
         UNCHANGED <<health, schema, stack, eligible, error>>
  PROVE  RouterInv'
<1> DEFINE attempt == [model |-> Candidate, ok |-> FALSE, error |-> error,
                       reprobed_deprecated |-> reprobed]
           event == [kind  |-> IF error = "RateLimited" THEN "quota_switch" ELSE "model_unavailable",
                     model |-> Candidate]
<1>1. /\ attempts' = Append(attempts, attempt) /\ log' = Append(log, event) /\ at' = at + 1
      /\ IF at' > Len(eligible) THEN Raise("NoCandidatesAvailable")
         ELSE pc' = "complete" /\ UNCHANGED raised
  BY DEF Advance
<1>2. attempt \in Attempts
  <2>1. error \in Exceptions /\ Candidate \in Models
    BY Asked DEF FAILOVER_EXCEPTIONS, Exceptions
  <2> QED
    BY <2>1 DEF Attempts
<1>3. log' \in Seq([kind : {"quota_switch", "model_unavailable"}, model : Models])
  <2>1. event \in [kind : {"quota_switch", "model_unavailable"}, model : Models]
    BY Asked
  <2> QED
    BY <1>1, <2>1, AppendProperties DEF RouterInv, RouterTypeOK
<1>4. /\ attempt.model = eligible[at] /\ ~attempt.ok /\ attempt.error \in FAILOVER_EXCEPTIONS
  BY DEF Candidate
<1> HIDE DEF attempt, event
<1>5. /\ attempts' \in Seq(Attempts) /\ Len(attempts') = at
      /\ attempts'[at] = attempt /\ \A i \in 1..(at - 1) : attempts'[i] = attempts[i]
  <2>1. Len(attempts) = at - 1 /\ (at - 1) + 1 = at
    BY Asked
  <2> QED
    BY <1>1, <1>2, <2>1, OneMore
<1>6. Tried(attempts', eligible', at)
  <2>1. ASSUME NEW i \in 1..at
        PROVE  /\ attempts'[i].model = eligible[i]
               /\ ~attempts'[i].ok /\ attempts'[i].error \in FAILOVER_EXCEPTIONS
    <3>1. i \in 1..(at - 1) \/ i = at
      BY Asked
    <3>2. CASE i \in 1..(at - 1)
      BY <1>5, <3>2, Asked DEF Tried
    <3>3. CASE i = at
      BY <1>4, <1>5, <3>3
    <3> QED
      BY <3>1, <3>2, <3>3
  <2>2. \A i \in 1..at :
          /\ attempts'[i].model = eligible'[i]
          /\ ~attempts'[i].ok /\ attempts'[i].error \in FAILOVER_EXCEPTIONS
    BY <2>1
  <2>3. Len(attempts') >= at /\ at <= Len(eligible')
    BY <1>5, Asked
  <2> QED
    BY <2>2, <2>3 DEF Tried
<1>7. RouterTypeOK'
  <2>1. at' \in Nat /\ pc' \in {"complete", "raised"} /\ raised' \in {"NoCandidatesAvailable", Nil}
    BY <1>1, Asked DEF Raise
  <2>2. RouterTypeOK
    BY DEF RouterInv
  <2> QED
    BY <1>3, <1>5, <2>1, <2>2 DEF RouterTypeOK
<1>8. \A i \in 1..Len(eligible') : allowed_by_stack(eligible'[i], stack')
  BY DEF RouterInv
<1>9. CASE at' > Len(eligible)
  <2>1. pc' = "raised" /\ at = Len(eligible)
    BY <1>1, <1>9, Asked DEF Raise
  <2>2. Len(attempts') = Len(eligible') /\ Tried(attempts', eligible', Len(attempts'))
    BY <1>5, <1>6, <2>1
  <2> QED
    BY <1>7, <1>8, <2>1, <2>2 DEF RouterInv, Asking
<1>10. CASE ~(at' > Len(eligible))
  <2>1. pc' = "complete" /\ raised' = Nil /\ at' \in 1..Len(eligible') /\ at' - 1 = at
    BY <1>1, <1>10, Asked
  <2>2. Len(attempts') = at' - 1 /\ Tried(attempts', eligible', at' - 1)
    BY <1>5, <1>6, <2>1
  <2>3. Nil # "NoCandidatesAvailable"
    BY NilIsNoException
  <2> QED
    BY <1>7, <1>8, <2>1, <2>2, <2>3 DEF RouterInv, Asking
<1> QED
  BY <1>9, <1>10

(* Some other exception ends the call; the attempts are those that failed. *)
LEMMA RaiseKeeps ==
  ASSUME RouterInv, Asking, NEW exception \in Exceptions, Raise(exception),
         error' \in Exceptions \cup {Nil},
         UNCHANGED <<health, schema, stack, eligible, at, deprecated, attempts, log>>
  PROVE  RouterInv'
<1>1. RouterTypeOK'
  BY DEF RouterInv, RouterTypeOK, Raise
<1>2. Tried(attempts', eligible', Len(attempts'))
  BY Asked
<1>3. exception # "NoCandidatesAvailable"
  BY DEF Exceptions, ModelUnavailable
<1> QED
  BY <1>1, <1>2, <1>3 DEF RouterInv, Raise, Asking

LEMMA RouteKeeps ==
  ASSUME RouterInv, NEW candidates \in Lists, NEW policy \in Stacks, NEW with_schema \in BOOLEAN,
         route(candidates, policy, with_schema)
  PROVE  RouterInv'
<1> DEFINE left == Eligible(candidates, policy)
<1>1. /\ pc = "idle" /\ schema' = with_schema /\ stack' = policy /\ eligible' = left
      /\ IF left = <<>> THEN Raise("NoCandidatesAvailable") ELSE pc' = "complete" /\ UNCHANGED raised
      /\ UNCHANGED <<health, at, error, deprecated, attempts, log>>
  BY DEF route
<1>2. left \in Seq(Models) /\ \A i \in 1..Len(left) : allowed_by_stack(left[i], policy)
  <2>1. candidates \in Seq(Models)
    BY RouterConstants
  <2> QED
    BY <2>1, LeftAreAllowed
<1> HIDE DEF left
<1>3. at = 1 /\ attempts = <<>> /\ raised = Nil /\ Nil # "NoCandidatesAvailable"
  BY <1>1, NilIsNoException DEF RouterInv
<1>4. RouterTypeOK'
  BY <1>1, <1>2 DEF RouterInv, RouterTypeOK, Raise
<1>5. Len(<<>>) = 0 /\ Len(left) \in Nat /\ \A i \in 1..0 : FALSE
  BY <1>2, LenProperties
<1>6. Tried(attempts', eligible', 0)
  BY <1>1, <1>3, <1>5 DEF Tried
<1>7. CASE left = <<>>
  BY <1>1, <1>2, <1>3, <1>4, <1>5, <1>6, <1>7 DEF RouterInv, Raise, Asking
<1>8. CASE left # <<>>
  <2>1. 1 \in 1..Len(left)
    <3>1. Len(left) \in Nat \ {0}
      BY <1>2, <1>8, EmptySeq
    <3>2. \A n \in Nat \ {0} : 1 \in 1..n
      OBVIOUS
    <3> QED
      BY <3>1, <3>2
  <2> QED
    BY <1>1, <1>2, <1>3, <1>4, <1>5, <1>6, <1>8, <2>1 DEF RouterInv, Asking
<1> QED
  BY <1>7, <1>8

LEMMA CompleteKeeps ==
  ASSUME RouterInv, Complete
  PROVE  RouterInv'
<1> DEFINE exception == complete(Candidate, health[Candidate], schema)
           attempt == [model |-> Candidate, ok |-> TRUE, error |-> Nil, reprobed_deprecated |-> Nil]
<1>1. /\ pc = "complete" /\ Asking
      /\ UNCHANGED <<health, schema, stack, eligible, at, deprecated, log>>
      /\ exception \in Exceptions \cup {Nil}
  BY AdapterAnswers DEF Complete, Asking
<1>2. CASE /\ attempts' = Append(attempts, attempt)
           /\ pc' = "answered"
           /\ UNCHANGED <<error, raised>>
  <2>1. attempt \in Attempts /\ attempt.model = eligible[at] /\ attempt.ok
    BY <1>1, Asked DEF Attempts, Candidate
  <2> HIDE DEF attempt
  <2>2. /\ attempts' \in Seq(Attempts) /\ Len(attempts') = at
        /\ attempts'[at] = attempt /\ \A i \in 1..(at - 1) : attempts'[i] = attempts[i]
    <3>1. Len(attempts) = at - 1 /\ (at - 1) + 1 = at
      BY <1>1, Asked
    <3> QED
      BY <1>2, <2>1, <3>1, OneMore
  <2>3. Tried(attempts', eligible', at' - 1)
    BY <1>1, <2>2, Asked DEF Tried
  <2>4. RouterTypeOK'
    BY <1>1, <1>2, <2>2 DEF RouterInv, RouterTypeOK
  <2>5. raised' = Nil /\ at' \in 1..Len(eligible') /\ Nil # "NoCandidatesAvailable"
    BY <1>1, <1>2, Asked, NilIsNoException DEF RouterInv
  <2> QED
    BY <1>1, <1>2, <2>1, <2>2, <2>3, <2>4, <2>5 DEF RouterInv, Asking
<1>3. CASE /\ exception \in FAILOVER_EXCEPTIONS
           /\ error' = exception
           /\ pc' = "probe"
           /\ UNCHANGED <<attempts, raised>>
  <2>1. RouterTypeOK'
    BY <1>1, <1>3 DEF RouterInv, RouterTypeOK
  <2> QED
    BY <1>1, <1>3, <2>1 DEF RouterInv, Asking
<1>4. CASE /\ exception # Nil /\ exception \notin FAILOVER_EXCEPTIONS
           /\ error' = exception
           /\ Raise(exception)
           /\ UNCHANGED attempts
  <2> HIDE DEF exception
  <2> QED
    BY <1>1, <1>4, RaiseKeeps
<1> QED
  BY <1>2, <1>3, <1>4 DEF Complete

LEMMA ProbeKeeps ==
  ASSUME RouterInv, Probe
  PROVE  RouterInv'
<1> DEFINE found == probe(Candidate, health[Candidate])
<1>1. /\ pc = "probe" /\ Asking /\ error \in FAILOVER_EXCEPTIONS
      /\ UNCHANGED <<health, schema, stack, eligible, error>>
      /\ RouterTypeOK
  BY DEF Probe, Asking, RouterInv
<1>2. CASE found \in ORDINARY_PROBE_FAILURES /\ Advance(Nil) /\ UNCHANGED deprecated
  BY <1>1, <1>2, AdvanceKeeps DEF RouterTypeOK
<1>3. CASE /\ found \in Exceptions \ ORDINARY_PROBE_FAILURES
           /\ Raise(found)
           /\ UNCHANGED <<at, attempts, log, deprecated>>
  <2> HIDE DEF found
  <2> QED
    BY <1>1, <1>3, RaiseKeeps DEF RouterTypeOK
<1>4. CASE /\ found \in {"serving", "deprecated"}
           /\ deprecated' = (found = "deprecated")
           /\ IF Candidate \in Structured /\ found = "serving"
              THEN pc' = "verify" /\ UNCHANGED <<at, attempts, log, raised>>
              ELSE Advance(found = "deprecated")
  <2> HIDE DEF found
  <2>1. CASE pc' = "verify" /\ UNCHANGED <<at, attempts, log, raised>>
    <3>1. RouterTypeOK'
      BY <1>1, <1>4, <2>1 DEF RouterTypeOK
    <3> QED
      BY <1>1, <2>1, <3>1 DEF RouterInv, Asking
  <2>2. CASE Advance(found = "deprecated")
    <3>1. (found = "deprecated") \in BOOLEAN /\ deprecated' \in BOOLEAN
      BY <1>4
    <3> QED
      BY <1>1, <2>2, <3>1, AdvanceKeeps
  <2> QED
    BY <1>4, <2>1, <2>2
<1> QED
  BY <1>2, <1>3, <1>4 DEF Probe

LEMMA VerifyStepKeeps ==
  ASSUME RouterInv, Verify
  PROVE  RouterInv'
<1>1. /\ pc = "verify" /\ Asking /\ error \in FAILOVER_EXCEPTIONS /\ Advance(deprecated)
      /\ deprecated \in BOOLEAN \cup {Nil}
      /\ UNCHANGED <<health, schema, stack, eligible, error, deprecated>>
  BY DEF Verify, Asking, RouterInv, RouterTypeOK
<1> QED
  BY <1>1, AdvanceKeeps

LEMMA ChangeKeeps ==
  ASSUME RouterInv, NEW model \in Models, NEW h \in Healths, Change(model, h)
  PROVE  RouterInv'
<1>1. /\ health' \in [Models -> Healths]
      /\ UNCHANGED <<pc, schema, stack, eligible, at, error, deprecated, attempts, log, raised>>
  BY DEF Change, RouterInv, RouterTypeOK
<1> QED
  BY <1>1 DEF RouterInv, RouterTypeOK, Asking

LEMMA RouterStart == RouterInit => RouterInv
<1> SUFFICES ASSUME RouterInit PROVE RouterInv
  OBVIOUS
<1>1. Len(<<>>) = 0 /\ \A i \in 1..0 : FALSE
  OBVIOUS
<1>2. Nil # "NoCandidatesAvailable" /\ "ok" \in Healths
  BY NilIsNoException DEF Healths
<1>3. RouterTypeOK
  <2>1. health \in [Models -> Healths]
    BY <1>2 DEF RouterInit
  <2>2. /\ eligible \in Seq(Models) /\ attempts \in Seq(Attempts)
        /\ log \in Seq([kind : {"quota_switch", "model_unavailable"}, model : Models])
    BY EmptySeq DEF RouterInit
  <2> QED
    BY <2>1, <2>2 DEF RouterInit, RouterTypeOK
<1> QED
  BY <1>1, <1>2, <1>3 DEF RouterInit, RouterInv, Asking

LEMMA RouterInvHolds == RouterSpec => []RouterInv
<1>1. ASSUME RouterInv, [RouterNext]_routeVars PROVE RouterInv'
  <2>1. CASE UNCHANGED routeVars
    BY <1>1, <2>1 DEF routeVars, RouterInv, RouterTypeOK, Asking
  <2> QED
    BY <1>1, <2>1, RouteKeeps, CompleteKeeps, ProbeKeeps, VerifyStepKeeps, ChangeKeeps
    DEF RouterNext, RouteStep
<1> QED
  BY <1>1, RouterStart, PTL DEF RouterSpec

------------------------------------------------------------------------------
(***************************************************************************)
(* Theorems.                                                               *)
(***************************************************************************)

(* What a call of route records and raises is always of the declared types. *)
THEOREM RouterTypesHold == RouterSpec => []RouterTypeOK
<1>1. RouterInv => RouterTypeOK
  BY DEF RouterInv
<1> QED
  BY <1>1, RouterInvHolds, PTL

(* The attempts of a call are its eligible candidates in order, and it gives *)
(* up only when every one of them failed, however the providers change.      *)
THEOREM GivesUpOnlyWhenAllFailed == RouterSpec => []NoCandidatesMeansAllFailed
<1>1. RouterInv => NoCandidatesMeansAllFailed
  <2> SUFFICES ASSUME RouterInv PROVE NoCandidatesMeansAllFailed
    OBVIOUS
  <2>1. Len(attempts) \in Nat /\ Len(eligible) \in Nat
    BY LenProperties DEF RouterInv, RouterTypeOK
  <2>2. CASE pc = "idle"
    BY <2>1, <2>2 DEF RouterInv, NoCandidatesMeansAllFailed
  <2>3. CASE Asking
    BY <2>1, <2>3, Asked DEF RouterInv, NoCandidatesMeansAllFailed, Tried, Asking
  <2>4. CASE pc = "answered"
    <3>1. /\ at \in 1..Len(eligible) /\ Len(attempts) = at /\ Tried(attempts, eligible, at - 1)
          /\ attempts[at].model = eligible[at] /\ attempts[at].ok
      BY <2>4 DEF RouterInv
    <3>2. at \in Nat /\ at <= Len(eligible) /\ \A i \in 1..at : i \in 1..(at - 1) \/ i = at
      BY <2>1, <3>1
    <3>3. \A i \in 1..(at - 1) : i # at
      BY <3>2
    <3> QED
      BY <2>4, <3>1, <3>2, <3>3 DEF RouterInv, NoCandidatesMeansAllFailed, Tried
  <2>5. CASE pc = "raised"
    BY <2>1, <2>5 DEF RouterInv, NoCandidatesMeansAllFailed, Tried
  <2> QED
    BY <2>2, <2>3, <2>4, <2>5 DEF RouterInv, RouterTypeOK, Asking
<1> QED
  BY <1>1, RouterInvHolds, PTL

(* The router's own filter and the validator of a stack policy together are *)
(* as strict as the authorization gate of a public audit.                   *)
THEOREM AnswersPassGate == RouterSpec => []AnswerPassesGate
<1>1. RouterInv => AnswerPassesGate
  <2> SUFFICES ASSUME RouterInv, pc = "answered", stack # Nil
               PROVE  AuthorizationGate("public", stack, Tier[Candidate])
    BY DEF AnswerPassesGate
  <2>1. allowed_by_stack(Candidate, stack) /\ stack \in StackPolicy
    BY RouterConstants DEF RouterInv, RouterTypeOK, Candidate
  <2>2. Tier[Candidate] \in stack.allowed_pricing_tiers
    BY <2>1 DEF allowed_by_stack
  <2>3. stack.kind = "prod" => Tier[Candidate] \notin {"free", "shadow"}
    BY <2>1, <2>2 DEF StackPolicy
  <2> QED
    BY <2>2, <2>3 DEF AuthorizationGate
<1> QED
  BY <1>1, RouterInvHolds, PTL

==============================================================================
