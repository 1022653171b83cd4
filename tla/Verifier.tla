------------------------------- MODULE Verifier -------------------------------
(***************************************************************************)
(* The gates of verifier/pipeline.py over retained replay runs, with what  *)
(* chain/environment.py and verifier/derived.py derive from a run.         *)
(*                                                                         *)
(* A hash is the value that is hashed: equal hashes are equal values.      *)
(***************************************************************************)
EXTENDS Naturals, Sequences

CONSTANTS
  Versions,      \* contents a file, or the installed tools, may have
  LockedTools,   \* the tools the lock file pins
  Nil            \* nothing: no file, no certificate, no key

(***************************************************************************)
(* What a fresh copy holds, as far as the gates tell it apart: the witness *)
(* test with its marked regions, the harness, the wrapper, everything else *)
(* in the source manifest, and the tools it is run with.                   *)
(***************************************************************************)
Trees == [test : Versions, harness : Versions, wrapper : Versions, target : Versions,
          tools : Versions]

(* The identity a witness declares; env_hash is Nil before the declaration. *)
Identities == [test : Versions, harness : Versions, wrapper : Versions]

(* environment_hash: what was observed of the tree, its test included, bound *)
(* to the harness and the wrapper that the witness declares.                 *)
environment_hashNoManifest(tree, witness) ==
  [tree    |-> [tree EXCEPT !.target = witness.identity.harness],
   harness |-> witness.identity.harness,
   wrapper |-> witness.identity.wrapper]

environment_hash(tree, witness) ==
  [tree |-> tree, harness |-> witness.identity.harness, wrapper |-> witness.identity.wrapper]

Environments == [tree : Trees, harness : Versions, wrapper : Versions]

Witnesses == [identity : Identities, env_hash : Environments \cup {Nil}]

(* witness_hash leaves the environment hash out. *)
witness_hash(witness) == witness.identity

(***************************************************************************)
(* A structured trace: how many AssertionChecked events it has and whether *)
(* the only one matches the declaration, its cheatcodes, whether time and  *)
(* blocks stay within the declared limits, what the events and transfers   *)
(* support, and a measurement that no gate judges.  A control run is quiet *)
(* or shows one of the things that make the assertion vacuous.             *)
(***************************************************************************)
Cheatcodes == {"prank", "deal", "hoax", "ffi"}

TraceSummary ==
  [assertion : {"holds", "differs", "absent", "twice"},
   cheatcodes : SUBSET Cheatcodes,
   advance : {"within", "beyond"},
   evidence : {"complete", "uncovered", "no_snapshot", "over_capital"},
   gas : {1, 2}]

Controls == {"quiet", "state_changed", "asserts", "no_event"}

Runs == [tree : Trees, trace : TraceSummary, control : Controls, environment_hash : Environments]

(* A policy is the set of cheatcodes whose category it allows. *)
Policies == SUBSET Cheatcodes

policy_hash(policy) == policy

Certificates ==
  [witness_sha256 : Identities, env_hash : Environments, runs : Nat,
   observed_records_sha256 : Seq(TraceSummary), trace_policy_sha256 : Policies,
   control_sha256 : Controls, mac : Nat]

------------------------------------------------------------------------------
(***************************************************************************)
(* What is derived from one retained run, and the code its exception gets  *)
(* from the words of its message.                                          *)
(***************************************************************************)
check_declaration(run, witness) ==
  /\ run.tree.test = witness.identity.test
  /\ run.tree.harness = witness.identity.harness

load_run(run, witness) ==
  CASE ~check_declaration(run, witness)                           -> "CERTIFICATE_INVALID"
    [] environment_hash(run.tree, witness) # run.environment_hash -> "TRACE_MISSING"
    [] OTHER                                                      -> "ok"

(* _derived_runs: the first run that cannot be loaded decides. *)
derived_runs(runs, witness) ==
  IF Len(runs) < 3
  THEN "CERTIFICATE_INVALID"
  ELSE LET broken == {i \in 1..Len(runs) : load_run(runs[i], witness) # "ok"}
       IN  IF broken = {} THEN "ok"
           ELSE load_run(runs[CHOOSE i \in broken : \A j \in broken : i <= j], witness)

observed_records(runs) == [i \in 1..Len(runs) |-> runs[i].trace]

AgreeFirstTwo(s) == s[2] = s[1]

Agree(s) == \A i \in 1..Len(s) : s[i] = s[1]

environments(runs) == [i \in 1..Len(runs) |-> runs[i].environment_hash]

controls(runs) == [i \in 1..Len(runs) |-> runs[i].control]

(* certificates.verify with the five fields the pipeline passes. *)
verify_certificate(cert, key, witness, runs) ==
  /\ cert.witness_sha256 = witness_hash(witness)
  /\ cert.env_hash = runs[1].environment_hash
  /\ cert.runs >= 3
  /\ cert.observed_records_sha256 = observed_records(runs)
  /\ cert.control_sha256 = runs[1].control
  /\ cert.mac = key

(* A context: what _context and ReplayEvidence hand to verify. *)
V04(ctx) ==
  CASE ~Agree(environments(ctx.runs))                            -> "NONDETERMINISTIC_ENV"
    [] ~Agree(observed_records(ctx.runs))                        -> "NONDETERMINISTIC_TRACE"
    [] ~Agree(controls(ctx.runs))                                -> "CONTROL_NONDETERMINISTIC"
    [] ctx.runs[1].environment_hash # ctx.witness.env_hash       -> "ENV_DECLARATION_MISMATCH"
    [] ctx.require_certificate
         /\ (ctx.certificate = Nil \/ ctx.certificate_key = Nil) -> "CERTIFICATE_INVALID"
    [] ctx.require_certificate
         /\ (\/ ctx.certificate.trace_policy_sha256 # policy_hash(ctx.policy)
             \/ ~verify_certificate(ctx.certificate, ctx.certificate_key,
                                    ctx.witness, ctx.runs))      -> "CERTIFICATE_INVALID"
    [] OTHER                                                     -> "ok"

(* trace.enforce_cheatcode_policy: external I/O is denied whatever its category. *)
enforce_cheatcode_policy(trace, policy) ==
  trace.cheatcodes \subseteq policy \ {"ffi"}

(* V05, which also refuses opaque helpers. *)
check_policyAsCollected(trace, policy) == TRUE

check_policy(trace, policy) ==
  enforce_cheatcode_policy(trace, policy) /\ "hoax" \notin trace.cheatcodes

(* derive_control: it raises, outside any handler, unless the control run has *)
(* exactly its own events.                                                    *)
derive_control(control) ==
  IF control \in {"asserts", "no_event"} THEN "raises" ELSE control

V06(trace, control) ==
  CASE trace.assertion # "holds"     -> "ASSERT_MISMATCH"
    [] control = "state_changed"     -> "ASSERT_VACUOUS"
    [] OTHER                         -> "ok"

(* The run's tree must hold the declared harness and wrapper, and its trace *)
(* cover the declared actors and tokens.                                    *)
derive_harness(run, witness) ==
  IF /\ run.tree.harness = witness.identity.harness
     /\ run.tree.wrapper = witness.identity.wrapper
     /\ run.trace.evidence # "uncovered"
  THEN "ok" ELSE "HARNESS_TAMPERED"

(* Exactly one snapshot, and price evidence that can be read. *)
derive_economics(trace, prices) ==
  IF trace.evidence = "no_snapshot" \/ prices = Nil THEN "ECON_INCOMPLETE" ELSE "ok"

(* V07 compares once more what derive_harness has compared, and adds nothing  *)
(* for a witness with one required assertion; V09 judges the capital.         *)
V09(trace) == IF trace.evidence = "over_capital" THEN "CAPITAL_MISMATCH" ELSE "ok"

(* V03 with the build evidence _context makes of the tool lock. *)
V03(tools) == IF tools = LockedTools THEN "ok" ELSE "BUILD_FAIL"

(***************************************************************************)
(* verify: the code of the first hard gate that fails, "raises" for an     *)
(* exception, or "pass".  V01 and V02 compare the checkout with a scope    *)
(* and a span _context has just read from it and cannot fail; no duplicate *)
(* evidence is passed, so V08 has nothing to say.                          *)
(***************************************************************************)
verify(ctx) ==
  LET derived == derived_runs(ctx.runs, ctx.witness)
      first   == ctx.runs[1]
  IN  CASE V03(ctx.tools) # "ok"                                -> V03(ctx.tools)
        [] derived # "ok"                                       -> derived
        [] V04(ctx) # "ok"                                      -> V04(ctx)
        [] ~check_policy(first.trace, ctx.policy)               -> "POLICY_VIOLATION"
        [] derive_control(first.control) = "raises"             -> "raises"
        [] V06(first.trace, first.control) # "ok"               -> V06(first.trace, first.control)
        [] derive_harness(first, ctx.witness) # "ok"            -> derive_harness(first, ctx.witness)
        [] derive_economics(first.trace, ctx.prices) # "ok"     -> derive_economics(first.trace, ctx.prices)
        [] V09(first.trace) # "ok"                              -> V09(first.trace)
        [] OTHER                                                -> "pass"

==============================================================================
