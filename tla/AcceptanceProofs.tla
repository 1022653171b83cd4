--------------------------- MODULE AcceptanceProofs ---------------------------
(***************************************************************************)
(* Proofs about Acceptance, for any processes, trees, outcomes, policies   *)
(* and numbers of edits and crashes.                                       *)
(*                                                                         *)
(* The argument: whoever reaches issue has passed load_run and the gates   *)
(* with the runs and the witness it holds, and nothing a command holds     *)
(* changes while others edit, collect or crash; since the environment hash *)
(* of a run binds its tree, runs whose hashes agree are of one tree        *)
(* (Sound).  Limits are judged by collect alone, so every run anybody      *)
(* holds or finds in collection.json is within them (Within).  The policy  *)
(* is judged twice, and the second time it is the one the certificate      *)
(* binds (Judged).                                                         *)
(***************************************************************************)
EXTENDS Acceptance, SelectingProofs

Built == [harness : Versions, wrapper : Versions]

LocalStates ==
  [policy : PolicyFiles \cup {Nil}, built : Built \cup {Nil}, witness : Witnesses \cup {Nil},
   runs : Seq(Runs), bound : Policies \cup {Nil}, certificate : Certificates \cup {Nil}]

(* The runs of one tree, which is the one the witness declares. *)
Sound(runs, witness) ==
  /\ Len(runs) >= 3
  /\ \A j \in 1..Len(runs) :
       /\ runs[j].environment_hash = runs[1].environment_hash
       /\ runs[j].trace = runs[1].trace
       /\ runs[j].control = runs[1].control
       /\ check_declaration(runs[j], witness)
       /\ environment_hash(runs[j].tree, witness) = runs[j].environment_hash
  /\ runs[1].tree.wrapper = witness.identity.wrapper

Within(runs) == \A j \in 1..Len(runs) : runs[j].trace.advance = "within"

(* What the gates say of the first run. *)
Judged(run, rules) ==
  /\ run.trace.assertion = "holds"
  /\ run.trace.evidence = "complete"
  /\ run.trace.cheatcodes \subseteq rules \ {"ffi", "hoax"}
  /\ run.control = "quiet"

Certified(r) ==
  /\ r.certificate.witness_sha256 = witness_hash(r.witness)
  /\ r.certificate.runs = Len(r.runs)

(* What a process holds, by its place; hasKey says that there is a key file. *)
ProcessOK(where, r, hasKey) ==
  /\ Within(r.runs)
  /\ where = "witness" => r.built # Nil
  /\ where \in {"declare", "run"} \cup Certifying => r.witness # Nil
  /\ where \in {"key_write", "load", "verify", "issue", "write_certificate", "final", "accept"} => hasKey
  /\ where \in {"verify", "issue", "write_certificate", "final", "accept"} => r.bound # Nil
  /\ where \in {"issue", "write_certificate", "final", "accept"} => Sound(r.runs, r.witness)
  /\ where \in {"write_certificate", "final", "accept"} => r.certificate # Nil
  /\ r.certificate # Nil => Certified(r) /\ where \in {"write_certificate", "final", "accept"}
  /\ where = "accept" => Judged(r.runs[1], r.certificate.trace_policy_sha256)

ProcessesInv == \A p \in Processes : ProcessOK(pc[p], loc[p], key # Nil)

FilesInv ==
  /\ collection_json # Nil => Within(collection_json)
  /\ AcceptedEvidenceHolds

AcceptanceInv ==
  /\ AcceptanceTypeOK
  /\ loc \in [Processes -> LocalStates]
  /\ ProcessesInv
  /\ FilesInv

------------------------------------------------------------------------------
(***************************************************************************)
(* What the verifier's operators say.                                      *)
(***************************************************************************)

LEMMA RunTypes ==
  ASSUME NEW runs \in Seq(Runs)
  PROVE  Len(runs) \in Nat /\ \A j \in 1..Len(runs) : runs[j] \in Runs
BY LenProperties, ElementOfSeq

(* A list that is made run by run is as long as the list of the runs. *)
LEMMA AsLong ==
  ASSUME NEW S, NEW n \in Nat, NEW f \in [1..n -> S]
  PROVE  f \in Seq(S) /\ Len(f) = n
<1>1. f \in Seq(S)
  BY SeqDef
<1>2. Len(f) \in Nat /\ DOMAIN f = 1..Len(f)
  BY <1>1, LenProperties
<1>3. \A m \in Nat : 1..m = 1..n => m = n
  OBVIOUS
<1> QED
  BY <1>1, <1>2, <1>3

LEMMA MadeRunByRun ==
  ASSUME NEW runs \in Seq(Runs)
  PROVE  /\ environments(runs) \in Seq(Environments) /\ Len(environments(runs)) = Len(runs)
         /\ observed_records(runs) \in Seq(TraceSummary) /\ Len(observed_records(runs)) = Len(runs)
         /\ controls(runs) \in Seq(Controls) /\ Len(controls(runs)) = Len(runs)
         /\ \A j \in 1..Len(runs) : /\ environments(runs)[j] = runs[j].environment_hash
                                    /\ observed_records(runs)[j] = runs[j].trace
                                    /\ controls(runs)[j] = runs[j].control
<1>1. Len(runs) \in Nat /\ \A j \in 1..Len(runs) : runs[j] \in Runs
  BY RunTypes
<1>2. environments(runs) \in [1..Len(runs) -> Environments]
  BY <1>1 DEF environments, Runs
<1>3. observed_records(runs) \in [1..Len(runs) -> TraceSummary]
  BY <1>1 DEF observed_records, Runs
<1>4. controls(runs) \in [1..Len(runs) -> Controls]
  BY <1>1 DEF controls, Runs
<1>5. \A j \in 1..Len(runs) : /\ environments(runs)[j] = runs[j].environment_hash
                              /\ observed_records(runs)[j] = runs[j].trace
                              /\ controls(runs)[j] = runs[j].control
  BY DEF environments, observed_records, controls
<1> QED
  BY <1>1, <1>2, <1>3, <1>4, <1>5, AsLong

(* Lists that agree are of runs that agree. *)
LEMMA RunsAgree ==
  ASSUME NEW runs \in Seq(Runs), Len(runs) >= 3,
         Agree(environments(runs)), Agree(observed_records(runs)), Agree(controls(runs))
  PROVE  \A j \in 1..Len(runs) :
           /\ runs[j].environment_hash = runs[1].environment_hash
           /\ runs[j].trace = runs[1].trace
           /\ runs[j].control = runs[1].control
<1>1. Len(runs) \in Nat /\ 1 \in 1..Len(runs)
  <2>1. \A n \in Nat : n >= 3 => 1 \in 1..n
    OBVIOUS
  <2> QED
    BY <2>1, RunTypes
<1> QED
  BY <1>1, MadeRunByRun DEF Agree

LEMMA LoadedRun ==
  ASSUME NEW run, NEW witness
  PROVE  /\ load_run(run, witness) \in {"CERTIFICATE_INVALID", "TRACE_MISSING", "ok"}
         /\ load_run(run, witness) = "ok" => /\ check_declaration(run, witness)
                                             /\ environment_hash(run.tree, witness) = run.environment_hash
BY DEF load_run

(* If derived_runs finds nothing wrong, every run can be loaded. *)
LEMMA DerivedRuns ==
  ASSUME NEW runs \in Seq(Runs), NEW witness
  PROVE  /\ derived_runs(runs, witness) \in {"CERTIFICATE_INVALID", "TRACE_MISSING", "ok"}
         /\ derived_runs(runs, witness) = "ok" =>
              Len(runs) >= 3 /\ \A j \in 1..Len(runs) : load_run(runs[j], witness) = "ok"
<1> DEFINE broken == {i \in 1..Len(runs) : load_run(runs[i], witness) # "ok"}
           first  == CHOOSE i \in broken : \A j \in broken : i <= j
<1>1. Len(runs) \in Nat
  BY RunTypes
<1>2. CASE Len(runs) < 3
  BY <1>2 DEF derived_runs
<1>3. CASE ~(Len(runs) < 3) /\ broken = {}
  <2>1. derived_runs(runs, witness) = "ok"
    BY <1>3 DEF derived_runs
  <2>2. \A n \in Nat : ~(n < 3) => n >= 3
    OBVIOUS
  <2> QED
    BY <1>1, <1>3, <2>1, <2>2
<1>4. CASE ~(Len(runs) < 3) /\ broken # {}
  <2>1. broken \in SUBSET Nat
    BY <1>1
  <2>2. \E i \in broken : \A j \in broken : i <= j
    BY <1>4, <2>1, LeastNumber
  <2>3. first \in broken
    BY <2>2
  <2>4. derived_runs(runs, witness) = load_run(runs[first], witness)
    BY <1>4 DEF derived_runs
  <2>5. load_run(runs[first], witness) # "ok"
    BY <2>3
  <2> QED
    BY <2>4, <2>5, LoadedRun
<1> QED
  BY <1>2, <1>3, <1>4

(* What passes the gates is runs of one tree that show what they should under *)
(* the policy at hand, which a required certificate binds.                    *)
LEMMA VerifyPasses ==
  ASSUME NEW ctx, ctx.runs \in Seq(Runs), verify(ctx) = "pass"
  PROVE  /\ Sound(ctx.runs, ctx.witness)
         /\ Judged(ctx.runs[1], ctx.policy)
         /\ ctx.require_certificate => ctx.certificate.trace_policy_sha256 = ctx.policy
<1> DEFINE runs == ctx.runs
           run  == ctx.runs[1]
<1>1. /\ derived_runs(runs, ctx.witness) = "ok"
      /\ V04(ctx) = "ok"
      /\ check_policy(run.trace, ctx.policy)
      /\ derive_control(run.control) # "raises"
      /\ V06(run.trace, run.control) = "ok"
      /\ derive_harness(run, ctx.witness) = "ok"
      /\ derive_economics(run.trace, ctx.prices) = "ok"
      /\ V09(run.trace) = "ok"
  <2>1. V03(ctx.tools) \in {"ok", "BUILD_FAIL"}
    BY DEF V03
  <2>2. derived_runs(runs, ctx.witness) \in {"CERTIFICATE_INVALID", "TRACE_MISSING", "ok"}
    BY DerivedRuns
  <2>3. V04(ctx) \in {"NONDETERMINISTIC_ENV", "NONDETERMINISTIC_TRACE", "CONTROL_NONDETERMINISTIC",
                      "ENV_DECLARATION_MISMATCH", "CERTIFICATE_INVALID", "ok"}
    BY DEF V04
  <2>4. V06(run.trace, run.control) \in {"ASSERT_MISMATCH", "ASSERT_VACUOUS", "ok"}
    BY DEF V06
  <2>5. derive_harness(run, ctx.witness) \in {"ok", "HARNESS_TAMPERED"}
    BY DEF derive_harness
  <2>6. derive_economics(run.trace, ctx.prices) \in {"ok", "ECON_INCOMPLETE"}
    BY DEF derive_economics
  <2>7. V09(run.trace) \in {"ok", "CAPITAL_MISMATCH"}
    BY DEF V09
  <2> QED
    BY <2>1, <2>2, <2>3, <2>4, <2>5, <2>6, <2>7 DEF verify
<1>2. /\ Agree(environments(runs)) /\ Agree(observed_records(runs)) /\ Agree(controls(runs))
      /\ ctx.require_certificate => ctx.certificate.trace_policy_sha256 = ctx.policy
  BY <1>1 DEF V04, policy_hash
<1>3. Len(runs) >= 3 /\ \A j \in 1..Len(runs) : load_run(runs[j], ctx.witness) = "ok"
  BY <1>1, DerivedRuns
<1>4. run \in Runs
  <2>1. \A n \in Nat : n >= 3 => 1 \in 1..n
    OBVIOUS
  <2> QED
    BY <1>3, <2>1, RunTypes
<1>5. /\ run.tree.wrapper = ctx.witness.identity.wrapper
      /\ run.trace.evidence # "uncovered"
  BY <1>1 DEF derive_harness
<1>6. Sound(runs, ctx.witness)
  BY <1>2, <1>3, <1>5, RunsAgree, LoadedRun DEF Sound
<1>7. run.trace.evidence # "no_snapshot" /\ run.trace.evidence # "over_capital"
  BY <1>1 DEF derive_economics, V09
<1>8. run.trace.assertion = "holds" /\ run.control # "state_changed"
  BY <1>1 DEF V06
<1>9. run.control \notin {"asserts", "no_event"}
  BY <1>1 DEF derive_control
<1>10. run.trace.cheatcodes \subseteq ctx.policy \ {"ffi", "hoax"}
  BY <1>1 DEF check_policy, enforce_cheatcode_policy
<1>11. run.trace.evidence = "complete" /\ run.control = "quiet"
  BY <1>4, <1>5, <1>7, <1>8, <1>9 DEF Runs, TraceSummary, Controls
<1> QED
  BY <1>2, <1>6, <1>8, <1>10, <1>11 DEF Judged

------------------------------------------------------------------------------
(***************************************************************************)
(* Steps.                                                                  *)
(***************************************************************************)
Places == {"idle"} \cup Collecting \cup Certifying

FileTypes ==
  /\ witness_json \in Witnesses \cup {Nil}
  /\ collection_json = Nil \/ collection_json \in Seq(Runs)
  /\ prices_json \in {Nil, "prices"}
  /\ certificate_json \in Certificates \cup {Nil}
  /\ acceptance_json \in [certificate : Certificates, runs : Seq(Runs)] \cup {Nil}

OtherTypes ==
  /\ checkout \in Checkouts
  /\ policy \in PolicyFiles
  /\ key \in Nat \cup {Nil}
  /\ drawn \in Nat
  /\ edits \in 0..MaxEdits
  /\ crashes \in 0..MaxCrashes

LEMMA TypesOf ==
  ASSUME AcceptanceInv
  PROVE  /\ FileTypes /\ OtherTypes
         /\ pc \in [Processes -> Places] /\ loc \in [Processes -> LocalStates]
BY DEF AcceptanceInv, AcceptanceTypeOK, FileTypes, OtherTypes, Places

LEMMA TypesMake ==
  ASSUME FileTypes', OtherTypes', pc' \in [Processes -> Places], loc' \in [Processes -> LocalStates]
  PROVE  AcceptanceTypeOK'
<1>1. ASSUME NEW p \in Processes
      PROVE  /\ loc'[p].policy \in PolicyFiles \cup {Nil}
             /\ loc'[p].built \in [harness : Versions, wrapper : Versions] \cup {Nil}
             /\ loc'[p].witness \in Witnesses \cup {Nil}
             /\ loc'[p].runs \in Seq(Runs)
             /\ loc'[p].bound = Nil \/ loc'[p].bound \in Policies
             /\ loc'[p].certificate \in Certificates \cup {Nil}
  BY <1>1 DEF LocalStates, Built
<1> QED
  BY <1>1 DEF AcceptanceTypeOK, FileTypes, OtherTypes, Places

(* One process goes on; a key file, once there, stays. *)
LEMMA ProcessMoves ==
  ASSUME AcceptanceInv, NEW p \in Processes, NEW where \in Places, NEW r \in LocalStates,
         GoOn(p, where, r), key # Nil => key' # Nil, ProcessOK(where, r, key' # Nil)
  PROVE  /\ pc' \in [Processes -> Places] /\ loc' \in [Processes -> LocalStates]
         /\ ProcessesInv'
<1>1. /\ pc' \in [Processes -> Places] /\ loc' \in [Processes -> LocalStates]
      /\ pc'[p] = where /\ loc'[p] = r
      /\ \A q \in Processes : q # p => pc'[q] = pc[q] /\ loc'[q] = loc[q]
  BY TypesOf DEF GoOn
<1>2. ASSUME NEW q \in Processes PROVE ProcessOK(pc'[q], loc'[q], key' # Nil)
  <2>1. CASE q = p
    BY <1>1, <2>1
  <2>2. CASE q # p
    <3>1. ProcessOK(pc[q], loc[q], key # Nil)
      BY DEF AcceptanceInv, ProcessesInv
    <3>2. ProcessOK(pc[q], loc[q], key' # Nil)
      BY <3>1 DEF ProcessOK
    <3> QED
      BY <1>1, <2>2, <3>2
  <2> QED
    BY <2>1, <2>2
<1> QED
  BY <1>1, <1>2 DEF ProcessesInv

(* A step that changes nothing but the locals of a process. *)
LEMMA LocalStep ==
  ASSUME AcceptanceInv, NEW p \in Processes, NEW where \in Places, NEW r \in LocalStates,
         GoOn(p, where, r), UNCHANGED <<repo, files, keyVars, crashes>>,
         ProcessOK(where, r, key # Nil)
  PROVE  AcceptanceInv'
<1>1. UNCHANGED <<checkout, policy, edits, key, drawn, crashes>> /\ UNCHANGED files
  BY DEF repo, keyVars
<1>2. ProcessOK(where, r, key' # Nil)
  BY <1>1
<1>3. /\ pc' \in [Processes -> Places] /\ loc' \in [Processes -> LocalStates]
      /\ ProcessesInv'
  BY <1>1, <1>2, ProcessMoves
<1>4. FileTypes' /\ OtherTypes'
  BY <1>1, TypesOf DEF FileTypes, OtherTypes, files
<1>5. FilesInv'
  BY <1>1 DEF AcceptanceInv, FilesInv, AcceptedEvidenceHolds, files
<1> QED
  BY <1>3, <1>4, <1>5, TypesMake DEF AcceptanceInv

LEMMA EndOK ==
  Locals \in LocalStates /\ "idle" \in Places /\ \A k \in BOOLEAN : ProcessOK("idle", Locals, k)
<1>1. <<>> \in Seq(Runs) /\ Len(<<>>) = 0
  OBVIOUS
<1>2. Locals \in LocalStates
  BY <1>1 DEF Locals, LocalStates
<1>3. /\ Locals.runs = <<>> /\ Locals.certificate = Nil
      /\ \A j \in 1..0 : FALSE
  BY DEF Locals
<1>4. ASSUME NEW k \in BOOLEAN PROVE ProcessOK("idle", Locals, k)
  BY <1>1, <1>3 DEF ProcessOK, Within, Certifying
<1> QED
  BY <1>2, <1>4 DEF Places

LEMMA EndStep ==
  ASSUME AcceptanceInv, NEW p \in Processes, End(p), UNCHANGED <<repo, files, keyVars, crashes>>
  PROVE  AcceptanceInv'
BY EndOK, LocalStep DEF End

(* Locals with one of them set. *)
LEMMA SetLocal ==
  ASSUME NEW r \in LocalStates
  PROVE  /\ \A x \in PolicyFiles : [r EXCEPT !.policy = x] \in LocalStates
         /\ \A x \in Built : [r EXCEPT !.built = x] \in LocalStates
         /\ \A x \in Witnesses : [r EXCEPT !.witness = x] \in LocalStates
         /\ \A x \in Seq(Runs) : [r EXCEPT !.runs = x] \in LocalStates
         /\ \A x \in Policies : [r EXCEPT !.bound = x] \in LocalStates
         /\ \A x \in Certificates : [r EXCEPT !.certificate = x] \in LocalStates
<1>1. ASSUME NEW x \in PolicyFiles PROVE [r EXCEPT !.policy = x] \in LocalStates
  BY DEF LocalStates
<1>2. ASSUME NEW x \in Built PROVE [r EXCEPT !.built = x] \in LocalStates
  BY DEF LocalStates
<1>3. ASSUME NEW x \in Witnesses PROVE [r EXCEPT !.witness = x] \in LocalStates
  BY DEF LocalStates
<1>4. ASSUME NEW x \in Seq(Runs) PROVE [r EXCEPT !.runs = x] \in LocalStates
  BY DEF LocalStates
<1>5. ASSUME NEW x \in Policies PROVE [r EXCEPT !.bound = x] \in LocalStates
  BY DEF LocalStates
<1>6. ASSUME NEW x \in Certificates PROVE [r EXCEPT !.certificate = x] \in LocalStates
  BY DEF LocalStates
<1> QED
  BY <1>1, <1>2, <1>3, <1>4, <1>5, <1>6, Zenon

LEMMA LocalsOf ==
  ASSUME AcceptanceInv, NEW p \in Processes
  PROVE  /\ loc[p] \in LocalStates /\ ProcessOK(pc[p], loc[p], key # Nil)
         /\ loc[p].runs \in Seq(Runs)
         /\ loc[p].witness # Nil => loc[p].witness \in Witnesses
         /\ loc[p].built # Nil => loc[p].built \in Built
         /\ loc[p].bound # Nil => loc[p].bound \in Policies
         /\ loc[p].certificate # Nil => loc[p].certificate \in Certificates
<1>1. loc[p] \in LocalStates /\ ProcessOK(pc[p], loc[p], key # Nil)
  BY TypesOf DEF AcceptanceInv, ProcessesInv
<1> QED
  BY <1>1 DEF LocalStates

LEMMA CollectKeeps ==
  ASSUME AcceptanceInv, NEW p \in Processes, collect(p)
  PROVE  AcceptanceInv'
<1> DEFINE r == [Locals EXCEPT !.policy = policy]
<1>1. GoOn(p, "bootstrap", r) /\ UNCHANGED <<repo, files, keyVars, crashes>>
  BY DEF collect
<1>2. r \in LocalStates
  BY EndOK, SetLocal, TypesOf, Zenon DEF OtherTypes
<1>3. r.runs = <<>> /\ r.certificate = Nil
  BY DEF Locals
<1> HIDE DEF r
<1>4. ProcessOK("bootstrap", r, key # Nil)
  BY <1>3 DEF ProcessOK, Within, Certifying
<1>5. "bootstrap" \in Places
  BY DEF Places, Collecting
<1> QED
  BY <1>1, <1>2, <1>4, <1>5, LocalStep

LEMMA BootstrapKeeps ==
  ASSUME AcceptanceInv, NEW p \in Processes, bootstrap(p)
  PROVE  AcceptanceInv'
<1> DEFINE built == [harness |-> checkout.harness, wrapper |-> checkout.wrapper]
           r     == [loc[p] EXCEPT !.built = built]
<1>1. At(p, "bootstrap") /\ GoOn(p, "witness", r) /\ UNCHANGED <<repo, files, keyVars, crashes>>
  BY DEF bootstrap
<1>2. built \in Built
  <2>1. checkout \in Trees
    BY TypesOf, AcceptanceConstants DEF OtherTypes
  <2> QED
    BY <2>1 DEF Built, Trees
<1>3. built # Nil
  BY <1>2, AcceptanceConstants DEF Built
<1> HIDE DEF built
<1>4. r \in LocalStates
  BY <1>2, LocalsOf, SetLocal, Zenon
<1>5. r.runs = loc[p].runs /\ r.certificate = loc[p].certificate /\ r.built = built
  BY LocalsOf DEF LocalStates
<1> HIDE DEF r
<1>6. ProcessOK("witness", r, key # Nil)
  BY <1>1, <1>3, <1>5, LocalsOf DEF ProcessOK, Certifying, At
<1>7. "witness" \in Places
  BY DEF Places, Collecting
<1> QED
  BY <1>1, <1>4, <1>6, <1>7, LocalStep

LEMMA MakeWitnessKeeps ==
  ASSUME AcceptanceInv, NEW p \in Processes, make_witness(p)
  PROVE  AcceptanceInv'
<1> DEFINE identity == [test |-> checkout.test, harness |-> loc[p].built.harness,
                        wrapper |-> loc[p].built.wrapper]
           witness  == [identity |-> identity, env_hash |-> Nil]
           r        == [loc[p] EXCEPT !.witness = witness]
<1>1. At(p, "witness") /\ GoOn(p, "declare", r) /\ UNCHANGED <<repo, files, keyVars, crashes>>
  BY DEF make_witness
<1>2. witness \in Witnesses
  <2>1. checkout \in Trees
    BY TypesOf, AcceptanceConstants DEF OtherTypes
  <2>2. loc[p].built \in Built
    BY <1>1, LocalsOf DEF ProcessOK, At
  <2>3. identity \in Identities
    BY <2>1, <2>2 DEF Trees, Built, Identities
  <2> HIDE DEF identity
  <2> QED
    BY <2>3 DEF Witnesses
<1>3. witness # Nil
  BY <1>2, AcceptanceConstants
<1> HIDE DEF witness
<1>4. r \in LocalStates
  BY <1>2, LocalsOf, SetLocal, Zenon
<1>5. r.runs = loc[p].runs /\ r.certificate = loc[p].certificate /\ r.witness = witness
  BY LocalsOf DEF LocalStates
<1> HIDE DEF r
<1>6. ProcessOK("declare", r, key # Nil)
  BY <1>1, <1>3, <1>5, LocalsOf DEF ProcessOK, Certifying, At
<1>7. "declare" \in Places
  BY DEF Places, Collecting
<1> QED
  BY <1>1, <1>4, <1>6, <1>7, LocalStep

(* The environment hash of any tree the checkout may be in. *)
LEMMA EnvironmentOf ==
  ASSUME NEW witness \in Witnesses, NEW tree \in Trees
  PROVE  environment_hash(tree, witness) \in Environments
BY DEF environment_hash, Witnesses, Environments, Identities

LEMMA MakeDeclarationKeeps ==
  ASSUME AcceptanceInv, NEW p \in Processes, make_declaration(p)
  PROVE  AcceptanceInv'
<1> DEFINE env     == environment_hash(checkout, loc[p].witness)
           witness == [loc[p].witness EXCEPT !.env_hash = env]
           r       == [loc[p] EXCEPT !.witness = witness]
<1>1. At(p, "declare") /\ UNCHANGED <<repo, files, keyVars, crashes>>
  BY DEF make_declaration
<1>2. GoOn(p, "run", r)
  BY DEF make_declaration
<1>3. witness \in Witnesses
  <2>1. checkout \in Trees
    BY TypesOf, AcceptanceConstants DEF OtherTypes
  <2>2. loc[p].witness \in Witnesses
    BY <1>1, LocalsOf DEF ProcessOK, At
  <2>3. env \in Environments
    BY <2>1, <2>2, EnvironmentOf
  <2> HIDE DEF env
  <2> QED
    BY <2>2, <2>3 DEF Witnesses
<1>4. witness # Nil
  BY <1>3, AcceptanceConstants
<1> HIDE DEF witness
<1>5. r \in LocalStates
  BY <1>3, LocalsOf, SetLocal, Zenon
<1>6. r.runs = loc[p].runs /\ r.certificate = loc[p].certificate /\ r.witness = witness
  BY LocalsOf DEF LocalStates
<1> HIDE DEF r
<1>7. ProcessOK("run", r, key # Nil)
  BY <1>1, <1>4, <1>6, LocalsOf DEF ProcessOK, Certifying, At
<1>8. "run" \in Places
  BY DEF Places, Collecting
<1> QED
  BY <1>1, <1>2, <1>5, <1>7, <1>8, LocalStep

LEMMA ExecuteKeeps ==
  ASSUME AcceptanceInv, NEW p \in Processes, NEW outcome \in Outcomes,
         execute(p, outcome.trace, outcome.control)
  PROVE  AcceptanceInv'
<1> DEFINE run  == executed(checkout, loc[p].witness, outcome.trace, outcome.control)
           runs == Append(loc[p].runs, run)
           r    == [loc[p] EXCEPT !.runs = runs]
<1>1. At(p, "run") /\ UNCHANGED <<repo, files, keyVars, crashes>>
  BY DEF execute
<1>2. run \in Runs /\ run.trace = outcome.trace
  <2>1. checkout \in Trees /\ outcome.trace \in TraceSummary /\ outcome.control \in Controls
    BY TypesOf, AcceptanceConstants DEF OtherTypes
  <2>2. loc[p].witness \in Witnesses
    BY <1>1, LocalsOf DEF ProcessOK, At
  <2>3. environment_hash(checkout, loc[p].witness) \in Environments
    BY <2>1, <2>2, EnvironmentOf
  <2> QED
    BY <2>1, <2>3 DEF executed, Runs
<1> HIDE DEF run
<1>3. /\ runs \in Seq(Runs) /\ Len(runs) = Len(loc[p].runs) + 1
      /\ runs[Len(loc[p].runs) + 1] = run
      /\ \A j \in 1..Len(loc[p].runs) : runs[j] = loc[p].runs[j]
  BY <1>2, LocalsOf, AppendProperties
<1>4. CASE ~(within_limits(outcome.trace) /\ enforce_cheatcode_policy(outcome.trace, loc[p].policy))
  <2>1. End(p)
    BY <1>4 DEF execute
  <2> QED
    BY <1>1, <2>1, EndStep
<1>5. CASE within_limits(outcome.trace) /\ enforce_cheatcode_policy(outcome.trace, loc[p].policy)
  <2>1. PICK where \in {"run", "coordinate"} : GoOn(p, where, r)
    BY <1>5 DEF execute, run
  <2> HIDE DEF runs
  <2>2. Within(runs)
    <3>1. Within(loc[p].runs) /\ outcome.trace.advance = "within"
      BY <1>5, LocalsOf DEF ProcessOK, within_limits
    <3>2. Len(loc[p].runs) \in Nat
      BY LocalsOf, RunTypes
    <3>3. \A n \in Nat : \A j \in 1..(n + 1) : j \in 1..n \/ j = n + 1
      OBVIOUS
    <3>4. ASSUME NEW j \in 1..Len(runs) PROVE runs[j].trace.advance = "within"
      <4>1. j \in 1..Len(loc[p].runs) \/ j = Len(loc[p].runs) + 1
        BY <1>3, <3>2, <3>3
      <4> QED
        BY <1>2, <1>3, <3>1, <4>1 DEF Within
    <3> QED
      BY <3>4 DEF Within
  <2>3. r \in LocalStates
    BY <1>3, LocalsOf, SetLocal, Zenon
  <2>4. r.runs = runs /\ r.certificate = loc[p].certificate /\ r.witness = loc[p].witness
    BY LocalsOf DEF LocalStates
  <2> HIDE DEF r
  <2>5. ProcessOK(where, r, key # Nil)
    BY <1>1, <2>1, <2>2, <2>4, LocalsOf DEF ProcessOK, Certifying, At
  <2>6. where \in Places
    BY <2>1 DEF Places, Collecting
  <2> QED
    BY <1>1, <2>1, <2>3, <2>5, <2>6, LocalStep
<1> QED
  BY <1>4, <1>5

LEMMA ExecutionFailsKeeps ==
  ASSUME AcceptanceInv, NEW p \in Processes, execution_fails(p)
  PROVE  AcceptanceInv'
BY EndStep DEF execution_fails

(* A command goes on after verify with runs that passed it, or ends. *)
LEMMA Verified ==
  ASSUME AcceptanceInv, NEW p \in Processes, NEW certificate, NEW next, Verify(p, certificate, next)
  PROVE  \/ End(p)
         \/ /\ GoOn(p, next, loc[p])
            /\ Sound(loc[p].runs, loc[p].witness)
            /\ Judged(loc[p].runs[1], policy)
            /\ certificate # Nil => certificate.trace_policy_sha256 = policy
<1> DEFINE ctx == Context(p, certificate)
<1>1. /\ ctx.runs = loc[p].runs /\ ctx.witness = loc[p].witness /\ ctx.policy = policy
      /\ ctx.certificate = certificate /\ ctx.require_certificate = (certificate # Nil)
  BY DEF Context
<1>2. IF verify(ctx) = "pass" THEN GoOn(p, next, loc[p]) ELSE End(p)
  BY DEF Verify
<1> HIDE DEF ctx
<1>3. CASE verify(ctx) = "pass"
  <2>1. ctx.runs \in Seq(Runs)
    BY <1>1, LocalsOf
  <2>2. /\ Sound(ctx.runs, ctx.witness)
        /\ Judged(ctx.runs[1], ctx.policy)
        /\ ctx.require_certificate => ctx.certificate.trace_policy_sha256 = ctx.policy
    BY <1>3, <2>1, VerifyPasses
  <2> QED
    BY <1>1, <1>2, <1>3, <2>2
<1> QED
  BY <1>2, <1>3

LEMMA VerifyKeeps ==
  ASSUME AcceptanceInv, NEW p \in Processes, precheck(p) \/ certify_precheck(p) \/ final(p)
  PROVE  AcceptanceInv'
<1>1. UNCHANGED <<repo, files, keyVars, crashes>>
  BY DEF precheck, certify_precheck, final
<1>2. ProcessOK(pc[p], loc[p], key # Nil) /\ loc[p] \in LocalStates
  BY LocalsOf
<1>3. CASE End(p)
  BY <1>1, <1>3, EndStep
<1>4. CASE ~End(p) /\ precheck(p)
  <2>1. At(p, "precheck") /\ GoOn(p, "write_witness", loc[p])
    BY <1>4, Verified DEF precheck
  <2>2. ProcessOK("write_witness", loc[p], key # Nil)
    BY <1>2, <2>1 DEF ProcessOK, At, Certifying
  <2>3. "write_witness" \in Places
    BY DEF Places, Collecting
  <2> QED
    BY <1>1, <1>2, <2>1, <2>2, <2>3, LocalStep
<1>5. CASE ~End(p) /\ certify_precheck(p)
  <2>1. At(p, "verify") /\ GoOn(p, "issue", loc[p]) /\ Sound(loc[p].runs, loc[p].witness)
    BY <1>5, Verified DEF certify_precheck
  <2>2. ProcessOK("issue", loc[p], key # Nil)
    BY <1>2, <2>1 DEF ProcessOK, At, Certifying
  <2>3. "issue" \in Places
    BY DEF Places, Certifying
  <2> QED
    BY <1>1, <1>2, <2>1, <2>2, <2>3, LocalStep
<1>6. CASE ~End(p) /\ final(p)
  <2>1. /\ At(p, "final") /\ GoOn(p, "accept", loc[p])
        /\ Judged(loc[p].runs[1], policy)
        /\ loc[p].certificate # Nil => loc[p].certificate.trace_policy_sha256 = policy
    BY <1>6, Verified DEF final
  <2>2. loc[p].certificate.trace_policy_sha256 = policy
    BY <1>2, <2>1 DEF ProcessOK, At
  <2>3. ProcessOK("accept", loc[p], key # Nil)
    BY <1>2, <2>1, <2>2 DEF ProcessOK, At, Certifying
  <2>4. "accept" \in Places
    BY DEF Places, Certifying
  <2> QED
    BY <1>1, <1>2, <2>1, <2>3, <2>4, LocalStep
<1> QED
  BY <1>3, <1>4, <1>5, <1>6

LEMMA CertifyKeeps ==
  ASSUME AcceptanceInv, NEW p \in Processes, certify(p)
  PROVE  AcceptanceInv'
<1> DEFINE r == [Locals EXCEPT !.witness = witness_json]
<1>1. /\ GoOn(p, "read_collection", r) /\ UNCHANGED <<repo, files, keyVars, crashes>>
      /\ witness_json # Nil
  BY DEF certify
<1>2. witness_json \in Witnesses
  BY <1>1, TypesOf DEF FileTypes
<1>3. r \in LocalStates
  BY <1>2, EndOK, SetLocal, Zenon
<1>4. r.runs = <<>> /\ r.certificate = Nil /\ r.witness = witness_json
  BY DEF Locals
<1> HIDE DEF r
<1>5. ProcessOK("read_collection", r, key # Nil)
  BY <1>1, <1>4 DEF ProcessOK, Within
<1>6. "read_collection" \in Places
  BY DEF Places, Certifying
<1> QED
  BY <1>1, <1>3, <1>5, <1>6, LocalStep

LEMMA ReadCollectionKeeps ==
  ASSUME AcceptanceInv, NEW p \in Processes, read_collection(p)
  PROVE  AcceptanceInv'
<1> DEFINE r == [loc[p] EXCEPT !.runs = collection_json]
<1>1. At(p, "read_collection") /\ UNCHANGED <<repo, files, keyVars, crashes>>
  BY DEF read_collection
<1>2. CASE collection_json = Nil
  BY <1>1, <1>2, EndStep DEF read_collection
<1>3. CASE collection_json # Nil
  <2>1. GoOn(p, "ensure_key", r)
    BY <1>3 DEF read_collection
  <2>2. collection_json \in Seq(Runs) /\ Within(collection_json)
    BY <1>3, TypesOf DEF FileTypes, AcceptanceInv, FilesInv
  <2>3. r \in LocalStates
    BY <2>2, LocalsOf, SetLocal, Zenon
  <2>4. r.runs = collection_json /\ r.certificate = loc[p].certificate /\ r.witness = loc[p].witness
    BY LocalsOf DEF LocalStates
  <2> HIDE DEF r
  <2>5. ProcessOK("ensure_key", r, key # Nil)
    BY <1>1, <2>2, <2>4, LocalsOf DEF ProcessOK, At, Certifying
  <2>6. "ensure_key" \in Places
    BY DEF Places, Certifying
  <2> QED
    BY <1>1, <2>1, <2>3, <2>5, <2>6, LocalStep
<1> QED
  BY <1>2, <1>3

LEMMA EnsureKeyKeeps ==
  ASSUME AcceptanceInv, NEW p \in Processes, ensure_audit_key(p)
  PROVE  AcceptanceInv'
<1> DEFINE where == IF key = Nil THEN "key_open" ELSE "load"
<1>1. At(p, "ensure_key") /\ GoOn(p, where, loc[p]) /\ UNCHANGED <<repo, files, keyVars, crashes>>
  BY DEF ensure_audit_key
<1>2. ProcessOK(where, loc[p], key # Nil)
  BY <1>1, LocalsOf DEF ProcessOK, At, Certifying
<1>3. where \in Places
  BY DEF Places, Certifying
<1> HIDE DEF where
<1> QED
  BY <1>1, <1>2, <1>3, LocalsOf, LocalStep

LEMMA LoadCollectionKeeps ==
  ASSUME AcceptanceInv, NEW p \in Processes, load_collection(p)
  PROVE  AcceptanceInv'
<1> DEFINE r == [loc[p] EXCEPT !.bound = bound_policy(policy)]
<1>1. At(p, "load") /\ UNCHANGED <<repo, files, keyVars, crashes>> /\ (End(p) \/ GoOn(p, "verify", r))
  BY DEF load_collection
<1>2. bound_policy(policy) \in Policies /\ bound_policy(policy) # Nil
  BY TypesOf, AcceptanceConstants DEF OtherTypes, bound_policy, policy_hash
<1>3. r \in LocalStates
  BY <1>2, LocalsOf, SetLocal, Zenon
<1>4. /\ r.runs = loc[p].runs /\ r.certificate = loc[p].certificate /\ r.witness = loc[p].witness
      /\ r.bound = bound_policy(policy)
  BY LocalsOf DEF LocalStates
<1> HIDE DEF r
<1>5. ProcessOK("verify", r, key # Nil)
  BY <1>1, <1>2, <1>4, LocalsOf DEF ProcessOK, At, Certifying
<1>6. "verify" \in Places
  BY DEF Places, Certifying
<1> QED
  BY <1>1, <1>3, <1>5, <1>6, LocalStep, EndStep

LEMMA IssueKeeps ==
  ASSUME AcceptanceInv, NEW p \in Processes, issue(p)
  PROVE  AcceptanceInv'
<1> DEFINE runs == loc[p].runs
           certificate == [witness_sha256          |-> witness_hash(loc[p].witness),
                           env_hash                |-> runs[1].environment_hash,
                           runs                    |-> Len(runs),
                           observed_records_sha256 |-> observed_records(runs),
                           trace_policy_sha256     |-> loc[p].bound,
                           control_sha256          |-> runs[1].control,
                           mac                     |-> key]
           r == [loc[p] EXCEPT !.certificate = certificate]
<1>1. At(p, "issue") /\ GoOn(p, "write_certificate", r) /\ UNCHANGED <<repo, files, keyVars, crashes>>
  BY DEF issue
<1>2. certificate \in Certificates
  <2>1. loc[p].witness \in Witnesses /\ loc[p].bound \in Policies /\ key # Nil /\ Sound(runs, loc[p].witness)
    BY <1>1, LocalsOf DEF ProcessOK, At, Certifying
  <2>2. key \in Nat
    BY <2>1, TypesOf DEF OtherTypes
  <2>3. Len(runs) \in Nat /\ runs[1] \in Runs
    <3>1. \A n \in Nat : n >= 3 => 1 \in 1..n
      OBVIOUS
    <3> QED
      BY <2>1, <3>1, LocalsOf, RunTypes DEF Sound
  <2>4. runs[1].environment_hash \in Environments /\ runs[1].control \in Controls
    BY <2>3 DEF Runs
  <2>5. observed_records(runs) \in Seq(TraceSummary)
    BY LocalsOf, MadeRunByRun
  <2>6. witness_hash(loc[p].witness) \in Identities
    BY <2>1 DEF witness_hash, Witnesses
  <2> QED
    BY <2>1, <2>2, <2>3, <2>4, <2>5, <2>6 DEF Certificates
<1>3. certificate # Nil
  BY <1>2, AcceptanceConstants
<1>4. certificate.witness_sha256 = witness_hash(loc[p].witness) /\ certificate.runs = Len(loc[p].runs)
  OBVIOUS
<1> HIDE DEF certificate
<1>5. r \in LocalStates
  BY <1>2, LocalsOf, SetLocal, Zenon
<1>6. /\ r.runs = loc[p].runs /\ r.witness = loc[p].witness /\ r.bound = loc[p].bound
      /\ r.certificate = certificate
  BY LocalsOf DEF LocalStates
<1> HIDE DEF r
<1>7. ProcessOK("write_certificate", r, key # Nil)
  BY <1>1, <1>3, <1>4, <1>6, LocalsOf DEF ProcessOK, At, Certifying, Certified
<1>8. "write_certificate" \in Places
  BY DEF Places, Certifying
<1> QED
  BY <1>1, <1>5, <1>7, <1>8, LocalStep

(* The key file: created empty, then written. *)
LEMMA KeyKeeps ==
  ASSUME AcceptanceInv, NEW p \in Processes, open_key(p) \/ write_key(p)
  PROVE  AcceptanceInv'
<1>1. PICK where \in {"key_write", "load"} : GoOn(p, where, loc[p])
  BY DEF open_key, write_key
<1>2. /\ pc[p] \in {"key_open", "key_write"}
      /\ key' \in Nat /\ drawn' \in Nat
      /\ UNCHANGED <<repo, files, crashes>>
  BY TypesOf DEF open_key, write_key, At, OtherTypes
<1>3. key' # Nil
  BY <1>2, AcceptanceConstants
<1>4. ProcessOK(where, loc[p], key' # Nil)
  BY <1>1, <1>2, <1>3, LocalsOf DEF ProcessOK, Certifying
<1>5. where \in Places
  BY <1>1 DEF Places, Certifying
<1>6. /\ pc' \in [Processes -> Places] /\ loc' \in [Processes -> LocalStates]
      /\ ProcessesInv'
  BY <1>1, <1>3, <1>4, <1>5, LocalsOf, ProcessMoves
<1>7. FileTypes' /\ OtherTypes'
  BY <1>2, TypesOf DEF FileTypes, OtherTypes, files, repo
<1>8. FilesInv'
  BY <1>2 DEF AcceptanceInv, FilesInv, AcceptedEvidenceHolds, files
<1> QED
  BY <1>6, <1>7, <1>8, TypesMake DEF AcceptanceInv

(* A step that leaves the checkout and the key alone and keeps what the files *)
(* are worth.                                                                 *)
LEMMA FileStep ==
  ASSUME AcceptanceInv, NEW p \in Processes, NEW where \in Places, NEW r \in LocalStates,
         GoOn(p, where, r), UNCHANGED <<repo, keyVars>>, crashes' \in 0..MaxCrashes,
         ProcessOK(where, r, key # Nil), FileTypes', FilesInv'
  PROVE  AcceptanceInv'
<1>1. UNCHANGED <<checkout, policy, edits, key, drawn>>
  BY DEF repo, keyVars
<1>2. ProcessOK(where, r, key' # Nil)
  BY <1>1
<1>3. /\ pc' \in [Processes -> Places] /\ loc' \in [Processes -> LocalStates]
      /\ ProcessesInv'
  BY <1>1, <1>2, ProcessMoves
<1>4. OtherTypes'
  BY <1>1, TypesOf DEF OtherTypes
<1> QED
  BY <1>3, <1>4, TypesMake DEF AcceptanceInv

LEMMA EndFileStep ==
  ASSUME AcceptanceInv, NEW p \in Processes, End(p), UNCHANGED <<repo, keyVars>>,
         crashes' \in 0..MaxCrashes, FileTypes', FilesInv'
  PROVE  AcceptanceInv'
BY EndOK, FileStep DEF End

LEMMA CoordinateKeeps ==
  ASSUME AcceptanceInv, NEW p \in Processes, coordinate(p)
  PROVE  AcceptanceInv'
<1>1. /\ At(p, "coordinate") /\ (End(p) \/ GoOn(p, "precheck", loc[p]))
      /\ prices_json' \in {prices_json, "prices"}
      /\ UNCHANGED <<repo, witness_json, collection_json, certificate_json, acceptance_json, keyVars, crashes>>
  BY DEF coordinate
<1>2. FileTypes' /\ FilesInv' /\ crashes' \in 0..MaxCrashes
  BY <1>1, TypesOf DEF FileTypes, OtherTypes, AcceptanceInv, FilesInv, AcceptedEvidenceHolds
<1>3. ProcessOK("precheck", loc[p], key # Nil)
  BY <1>1, LocalsOf DEF ProcessOK, At, Certifying
<1>4. "precheck" \in Places
  BY DEF Places, Collecting
<1> QED
  BY <1>1, <1>2, <1>3, <1>4, LocalsOf, FileStep, EndFileStep

LEMMA WritesKeep ==
  ASSUME AcceptanceInv, NEW p \in Processes,
         write_witness(p) \/ write_collection(p) \/ write_certificate(p)
  PROVE  AcceptanceInv'
<1>1. /\ loc[p].witness \in Witnesses \cup {Nil} /\ loc[p].runs \in Seq(Runs)
      /\ loc[p].certificate \in Certificates \cup {Nil} /\ Within(loc[p].runs)
      /\ ProcessOK(pc[p], loc[p], key # Nil) /\ loc[p] \in LocalStates
      /\ crashes \in 0..MaxCrashes
  BY LocalsOf, TypesOf DEF ProcessOK, OtherTypes, LocalStates
<1>2. CASE write_witness(p)
  <2>1. FileTypes' /\ FilesInv'
    BY <1>1, <1>2, TypesOf DEF write_witness, FileTypes, AcceptanceInv, FilesInv, AcceptedEvidenceHolds
  <2>2. ProcessOK("write_collection", loc[p], key # Nil)
    BY <1>1, <1>2 DEF write_witness, ProcessOK, At, Certifying
  <2>3. "write_collection" \in Places
    BY DEF Places, Collecting
  <2> QED
    BY <1>1, <1>2, <2>1, <2>2, <2>3, FileStep DEF write_witness
<1>3. CASE write_collection(p)
  <2>1. FileTypes' /\ FilesInv'
    BY <1>1, <1>3, TypesOf DEF write_collection, FileTypes, AcceptanceInv, FilesInv, AcceptedEvidenceHolds
  <2> QED
    BY <1>1, <1>3, <2>1, EndFileStep DEF write_collection
<1>4. CASE write_certificate(p)
  <2>1. FileTypes' /\ FilesInv'
    BY <1>1, <1>4, TypesOf DEF write_certificate, FileTypes, AcceptanceInv, FilesInv, AcceptedEvidenceHolds
  <2>2. ProcessOK("final", loc[p], key # Nil)
    BY <1>1, <1>4 DEF write_certificate, ProcessOK, At, Certifying
  <2>3. "final" \in Places
    BY DEF Places, Certifying
  <2> QED
    BY <1>1, <1>4, <2>1, <2>2, <2>3, FileStep DEF write_certificate
<1> QED
  BY <1>2, <1>3, <1>4

(* acceptance.json: every run in it shows what run 1 shows. *)
LEMMA AcceptKeeps ==
  ASSUME AcceptanceInv, NEW p \in Processes, accept(p)
  PROVE  AcceptanceInv'
<1> DEFINE runs == loc[p].runs
           rules == loc[p].certificate.trace_policy_sha256
<1>1. /\ At(p, "accept") /\ End(p)
      /\ acceptance_json' = [certificate |-> loc[p].certificate, runs |-> runs]
      /\ UNCHANGED <<repo, witness_json, collection_json, prices_json, certificate_json, keyVars, crashes>>
  BY DEF accept
<1>2. /\ runs \in Seq(Runs) /\ loc[p].certificate \in Certificates
      /\ Within(runs) /\ Sound(runs, loc[p].witness) /\ Judged(runs[1], rules)
  BY <1>1, LocalsOf DEF ProcessOK, At
<1>3. ASSUME NEW j \in 1..Len(runs)
      PROVE  /\ runs[j].trace.assertion = "holds"
             /\ runs[j].trace.advance = "within"
             /\ runs[j].trace.evidence = "complete"
             /\ runs[j].trace.cheatcodes \subseteq rules \ {"ffi", "hoax"}
             /\ runs[j].control = "quiet"
  <2>1. runs[j].trace = runs[1].trace /\ runs[j].control = runs[1].control
    BY <1>2 DEF Sound
  <2>2. runs[j].trace.advance = "within"
    BY <1>2 DEF Within
  <2> QED
    BY <1>2, <2>1, <2>2 DEF Judged
<1>4. acceptance_json'.runs = runs /\ acceptance_json'.certificate.trace_policy_sha256 = rules
  BY <1>1
<1>5. AcceptedEvidenceHolds'
  BY <1>3, <1>4 DEF AcceptedEvidenceHolds
<1>6. FilesInv'
  BY <1>1, <1>5 DEF AcceptanceInv, FilesInv
<1>7. FileTypes' /\ crashes' \in 0..MaxCrashes
  BY <1>1, <1>2, TypesOf DEF FileTypes, OtherTypes
<1> QED
  BY <1>1, <1>6, <1>7, EndFileStep

(* A crash leaves a file as it was or unreadable. *)
LEMMA CrashKeeps ==
  ASSUME AcceptanceInv, NEW p \in Processes, crash(p)
  PROVE  AcceptanceInv'
<1>1. /\ witness_json' \in {witness_json, Nil} /\ collection_json' \in {collection_json, Nil}
      /\ certificate_json' \in {certificate_json, Nil} /\ acceptance_json' \in {acceptance_json, Nil}
      /\ prices_json' \in {prices_json, Nil}
  BY DEF crash, Torn
<1>2. FileTypes'
  BY <1>1, TypesOf DEF FileTypes
<1>3. FilesInv'
  BY <1>1 DEF AcceptanceInv, FilesInv, AcceptedEvidenceHolds
<1>4. crashes' \in 0..MaxCrashes
  <2>1. crashes \in 0..MaxCrashes /\ crashes < MaxCrashes /\ crashes' = crashes + 1 /\ MaxCrashes \in Nat
    BY TypesOf, AcceptanceConstants DEF OtherTypes, crash
  <2> QED
    BY <2>1
<1>5. End(p) /\ UNCHANGED <<repo, keyVars>>
  BY DEF crash
<1> QED
  BY <1>2, <1>3, <1>4, <1>5, EndFileStep

(* Who edits touches nothing a command holds or has written. *)
LEMMA EditsKeep ==
  ASSUME AcceptanceInv,
         \/ \E tree \in Checkouts : edit_checkout(tree)
         \/ \E rules \in PolicyFiles : edit_policy(rules)
  PROVE  AcceptanceInv'
<1>1. UNCHANGED <<pc, loc, key, drawn, crashes>> /\ UNCHANGED files
  BY DEF edit_checkout, edit_policy, keyVars
<1>2. edits < MaxEdits /\ edits' = edits + 1 /\ checkout' \in Checkouts /\ policy' \in PolicyFiles
  BY TypesOf DEF edit_checkout, edit_policy, OtherTypes
<1>3. edits' \in 0..MaxEdits
  <2>1. edits \in 0..MaxEdits /\ MaxEdits \in Nat
    BY TypesOf, AcceptanceConstants DEF OtherTypes
  <2> QED
    BY <1>2, <2>1
<1>4. FileTypes' /\ OtherTypes' /\ pc' \in [Processes -> Places] /\ loc' \in [Processes -> LocalStates]
  BY <1>1, <1>2, <1>3, TypesOf DEF FileTypes, OtherTypes, files
<1>5. ProcessesInv' /\ FilesInv'
  BY <1>1 DEF AcceptanceInv, ProcessesInv, FilesInv, AcceptedEvidenceHolds, files
<1> QED
  BY <1>4, <1>5, TypesMake DEF AcceptanceInv

LEMMA AcceptanceStuttering ==
  ASSUME AcceptanceInv, UNCHANGED acceptanceVars
  PROVE  AcceptanceInv'
<1>1. UNCHANGED <<checkout, policy, key, drawn, pc, loc, edits, crashes>> /\ UNCHANGED files
  BY DEF acceptanceVars
<1>2. FileTypes' /\ OtherTypes' /\ pc' \in [Processes -> Places] /\ loc' \in [Processes -> LocalStates]
  BY <1>1, TypesOf DEF FileTypes, OtherTypes, files
<1>3. ProcessesInv' /\ FilesInv'
  BY <1>1 DEF AcceptanceInv, ProcessesInv, FilesInv, AcceptedEvidenceHolds, files
<1> QED
  BY <1>2, <1>3, TypesMake DEF AcceptanceInv

LEMMA AcceptanceStart == AcceptanceInit => AcceptanceInv
<1> SUFFICES ASSUME AcceptanceInit PROVE AcceptanceInv
  OBVIOUS
<1>1. loc \in [Processes -> LocalStates] /\ \A p \in Processes : pc[p] = "idle" /\ loc[p] = Locals
  BY EndOK DEF AcceptanceInit
<1>2. ProcessesInv
  BY <1>1, EndOK DEF ProcessesInv
<1>3. FilesInv
  BY DEF AcceptanceInit, FilesInv, AcceptedEvidenceHolds
<1>4. ASSUME NEW p \in Processes
      PROVE  /\ loc[p].policy \in PolicyFiles \cup {Nil}
             /\ loc[p].built \in [harness : Versions, wrapper : Versions] \cup {Nil}
             /\ loc[p].witness \in Witnesses \cup {Nil}
             /\ loc[p].runs \in Seq(Runs)
             /\ loc[p].bound = Nil \/ loc[p].bound \in Policies
             /\ loc[p].certificate \in Certificates \cup {Nil}
  BY <1>1, EndOK DEF LocalStates, Built
<1>5. 0 \in 0..MaxEdits /\ 0 \in 0..MaxCrashes
  BY AcceptanceConstants
<1>6. AcceptanceTypeOK
  BY <1>4, <1>5 DEF AcceptanceInit, AcceptanceTypeOK
<1> QED
  BY <1>1, <1>2, <1>3, <1>6 DEF AcceptanceInv

LEMMA AcceptanceInvHolds == AcceptanceSpec => []AcceptanceInv
<1>1. ASSUME AcceptanceInv, [AcceptanceNext]_acceptanceVars PROVE AcceptanceInv'
  <2>1. Collectors \subseteq Processes /\ Certifiers \subseteq Processes
    BY DEF Processes
  <2>2. ASSUME NEW p \in Collectors, collect(p) \/ CollectStep(p) PROVE AcceptanceInv'
    BY <1>1, <2>1, <2>2, CollectKeeps, BootstrapKeeps, MakeWitnessKeeps, MakeDeclarationKeeps,
       ExecuteKeeps, ExecutionFailsKeeps, CoordinateKeeps, VerifyKeeps, WritesKeep DEF CollectStep
  <2>3. ASSUME NEW p \in Certifiers, certify(p) \/ CertifyStep(p) PROVE AcceptanceInv'
    BY <1>1, <2>1, <2>3, CertifyKeeps, ReadCollectionKeeps, EnsureKeyKeeps, KeyKeeps,
       LoadCollectionKeeps, VerifyKeeps, IssueKeeps, WritesKeep, AcceptKeeps DEF CertifyStep
  <2> QED
    BY <1>1, <2>2, <2>3, CrashKeeps, EditsKeep, AcceptanceStuttering DEF AcceptanceNext
<1> QED
  BY <1>1, AcceptanceStart, PTL DEF AcceptanceSpec

------------------------------------------------------------------------------
(***************************************************************************)
(* Theorems.                                                               *)
(***************************************************************************)

(* Every file and every local variable of a command holds what the code says *)
(* it may; a certificate, for one, never carries a missing key or policy.    *)
THEOREM AcceptanceTypesHold == AcceptanceSpec => []AcceptanceTypeOK
<1>1. AcceptanceInv => AcceptanceTypeOK
  BY DEF AcceptanceInv
<1> QED
  BY <1>1, AcceptanceInvHolds, PTL

(* A certificate is for three or more runs of one tree, the one its witness *)
(* declares, whoever edits the checkout and whoever collects meanwhile.     *)
THEOREM CertificatesBindOneTree == AcceptanceSpec => []CertificateBindsOneTree
<1>1. AcceptanceInv => CertificateBindsOneTree
  <2> SUFFICES ASSUME AcceptanceInv, NEW p \in Processes, loc[p].certificate # Nil
               PROVE  LET declared == loc[p].certificate.witness_sha256
                          runs == loc[p].runs
                      IN  /\ loc[p].certificate.runs = Len(runs) /\ Len(runs) >= 3
                          /\ \A j \in 1..Len(runs) :
                               /\ runs[j].tree = runs[1].tree
                               /\ runs[j].trace = runs[1].trace
                               /\ runs[j].control = runs[1].control
                          /\ runs[1].tree.test = declared.test
                          /\ runs[1].tree.harness = declared.harness
                          /\ runs[1].tree.wrapper = declared.wrapper
    BY DEF CertificateBindsOneTree
  <2> DEFINE runs == loc[p].runs
             witness == loc[p].witness
  <2>1. Certified(loc[p]) /\ Sound(runs, witness)
    BY LocalsOf DEF ProcessOK
  <2>2. 1 \in 1..Len(runs)
    <3>1. \A n \in Nat : n >= 3 => 1 \in 1..n
      OBVIOUS
    <3> QED
      BY <2>1, <3>1, LocalsOf, RunTypes DEF Sound
  <2>3. ASSUME NEW j \in 1..Len(runs) PROVE runs[j].tree = runs[1].tree
    <3>1. environment_hash(runs[j].tree, witness) = environment_hash(runs[1].tree, witness)
      BY <2>1, <2>2 DEF Sound
    <3> QED
      BY <3>1 DEF environment_hash
  <2>4. /\ runs[1].tree.test = witness.identity.test
        /\ runs[1].tree.harness = witness.identity.harness
        /\ runs[1].tree.wrapper = witness.identity.wrapper
    BY <2>1, <2>2 DEF Sound, check_declaration
  <2> QED
    BY <2>1, <2>3, <2>4 DEF Certified, Sound, witness_hash
<1> QED
  BY <1>1, AcceptanceInvHolds, PTL

(* What acceptance.json names was judged against the limits by collect and  *)
(* against the policy of the certificate by certify, run by run, however    *)
(* the two commands overlap and whoever is killed.                          *)
THEOREM AcceptedEvidenceAlwaysHolds == AcceptanceSpec => []AcceptedEvidenceHolds
<1>1. AcceptanceInv => AcceptedEvidenceHolds
  BY DEF AcceptanceInv, FilesInv
<1> QED
  BY <1>1, AcceptanceInvHolds, PTL

==============================================================================
