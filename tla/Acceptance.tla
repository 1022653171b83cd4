------------------------------ MODULE Acceptance ------------------------------
(***************************************************************************)
(* driver/m1b_acceptance.py: the commands collect and certify over one     *)
(* checkout, one work directory and one key file, with the coordinator of  *)
(* chain/replay.py, the verifier, core/certifier.py and core/home.py.      *)
(*                                                                         *)
(* A step ends where a command has read or written something another one   *)
(* or an editor can change.  A JSON file that was cut off by a crash is    *)
(* as good as absent, since every reader fails to parse it; the key file   *)
(* has no such check and keeps the two steps of its write.                 *)
(***************************************************************************)
EXTENDS Verifier

CONSTANTS
  Collectors,     \* processes that run collect
  Certifiers,     \* processes that run certify; --phase all is one of both
  Checkouts,      \* trees the checkout may be in
  Outcomes,       \* the trace a witness test may leave, with what its control test left
  PolicyFiles,    \* policies the policy files may hold
  MaxEdits,       \* edits of the checkout or the policy
  MaxCrashes      \* commands that are killed

Processes == Collectors \cup Certifiers

ASSUME AcceptanceConstants ==
  /\ Checkouts \subseteq Trees
  /\ Outcomes \subseteq [trace : TraceSummary, control : Controls]
  /\ PolicyFiles \subseteq Policies
  /\ MaxEdits \in Nat /\ MaxCrashes \in Nat
  /\ \A rules \in Policies : rules # Nil
  /\ Nil \notin Witnesses \cup Certificates \cup Nat \cup [harness : Versions, wrapper : Versions]

VARIABLES
  checkout,          \* the fixture's tree and the installed tools
  policy,            \* cheatcode_policy.yaml and cheatcode_categories.yaml
  witness_json, collection_json, prices_json, certificate_json, acceptance_json,
  key,               \* the audit key: Nil, 0 when the file is empty, or the bytes drawn
  drawn,             \* keys drawn so far
  pc, loc,           \* where each process is, and its local variables
  edits, crashes

files == <<witness_json, collection_json, prices_json, certificate_json, acceptance_json>>

repo == <<checkout, policy, edits>>

keyVars == <<key, drawn>>

acceptanceVars == <<checkout, policy, files, key, drawn, pc, loc, edits, crashes>>

Collecting == {"bootstrap", "witness", "declare", "run", "coordinate", "precheck",
               "write_witness", "write_collection"}

Certifying == {"read_collection", "ensure_key", "key_open", "key_write", "load", "verify",
               "issue", "write_certificate", "final", "accept"}

Locals == [policy |-> Nil, built |-> Nil, witness |-> Nil, runs |-> <<>>, bound |-> Nil,
           certificate |-> Nil]

AcceptanceTypeOK ==
  /\ checkout \in Checkouts
  /\ policy \in PolicyFiles
  /\ witness_json \in Witnesses \cup {Nil}
  /\ collection_json = Nil \/ collection_json \in Seq(Runs)
  /\ prices_json \in {Nil, "prices"}
  /\ certificate_json \in Certificates \cup {Nil}
  /\ acceptance_json \in [certificate : Certificates, runs : Seq(Runs)] \cup {Nil}
  /\ key \in Nat \cup {Nil}
  /\ drawn \in Nat
  /\ pc \in [Processes -> {"idle"} \cup Collecting \cup Certifying]
  /\ \A p \in Processes :
       /\ loc[p].policy \in PolicyFiles \cup {Nil}
       /\ loc[p].built \in [harness : Versions, wrapper : Versions] \cup {Nil}
       /\ loc[p].witness \in Witnesses \cup {Nil}
       /\ loc[p].runs \in Seq(Runs)
       /\ loc[p].bound = Nil \/ loc[p].bound \in Policies
       /\ loc[p].certificate \in Certificates \cup {Nil}
  /\ edits \in 0..MaxEdits
  /\ crashes \in 0..MaxCrashes

AcceptanceInit ==
  /\ checkout \in Checkouts
  /\ policy \in PolicyFiles
  /\ witness_json = Nil /\ collection_json = Nil /\ prices_json = Nil
  /\ certificate_json = Nil /\ acceptance_json = Nil
  /\ key = Nil
  /\ drawn = 0
  /\ pc = [p \in Processes |-> "idle"]
  /\ loc = [p \in Processes |-> Locals]
  /\ edits = 0
  /\ crashes = 0

------------------------------------------------------------------------------
At(p, where) == pc[p] = where

(* The command goes on, with these locals. *)
GoOn(p, where, locals) ==
  /\ pc' = [pc EXCEPT ![p] = where]
  /\ loc' = [loc EXCEPT ![p] = locals]

(* It returns or raises: main reports it and the process ends. *)
End(p) == GoOn(p, "idle", Locals)

(* What verify is given. *)
Context(p, certificate) ==
  [witness             |-> loc[p].witness,
   runs                |-> loc[p].runs,
   tools               |-> checkout.tools,
   policy              |-> policy,
   prices              |-> prices_json,
   certificate         |-> certificate,
   certificate_key     |-> IF certificate = Nil THEN Nil ELSE key,
   require_certificate |-> certificate # Nil]

(* Verification decides whether the command goes on. *)
Verify(p, certificate, next) ==
  IF verify(Context(p, certificate)) = "pass" THEN GoOn(p, next, loc[p]) ELSE End(p)

------------------------------------------------------------------------------
(***************************************************************************)
(* collect.  Every execution copies the checkout as it is at that moment.  *)
(***************************************************************************)
collect(p) ==
  /\ At(p, "idle")
  /\ GoOn(p, "bootstrap", [Locals EXCEPT !.policy = policy])
  /\ UNCHANGED <<repo, files, keyVars, crashes>>

(* _bootstrap: addresses and hashes of the harness and the wrapper. *)
bootstrap(p) ==
  /\ At(p, "bootstrap")
  /\ GoOn(p, "witness", [loc[p] EXCEPT !.built = [harness |-> checkout.harness,
                                                  wrapper |-> checkout.wrapper]])
  /\ UNCHANGED <<repo, files, keyVars, crashes>>

(* _witness reads the test's hashes from the fixture. *)
make_witness(p) ==
  LET identity == [test    |-> checkout.test,
                   harness |-> loc[p].built.harness,
                   wrapper |-> loc[p].built.wrapper]
  IN  /\ At(p, "witness")
      /\ GoOn(p, "declare", [loc[p] EXCEPT !.witness = [identity |-> identity, env_hash |-> Nil]])
      /\ UNCHANGED <<repo, files, keyVars, crashes>>

make_declaration(p) ==
  LET env == environment_hash(checkout, loc[p].witness)
  IN  /\ At(p, "declare")
      /\ GoOn(p, "run", [loc[p] EXCEPT !.witness.env_hash = env])
      /\ UNCHANGED <<repo, files, keyVars, crashes>>

(* The artifacts an execution retains in its copy. *)
executed(tree, witness, trace, control) ==
  [tree |-> tree, trace |-> trace, control |-> control,
   environment_hash |-> environment_hash(tree, witness)]

within_limits(trace) == trace.advance = "within"

(* One fresh copy, executed and held against the declared limits and the policy. *)
execute(p, trace, control) ==
  LET runs == Append(loc[p].runs, executed(checkout, loc[p].witness, trace, control))
  IN  /\ At(p, "run")
      /\ IF within_limits(trace) /\ enforce_cheatcode_policy(trace, loc[p].policy)
         THEN GoOn(p, IF Len(runs) < 3 THEN "run" ELSE "coordinate", [loc[p] EXCEPT !.runs = runs])
         ELSE End(p)
      /\ UNCHANGED <<repo, files, keyVars, crashes>>

(* A build or a test of an execution fails. *)
execution_fails(p) ==
  /\ pc[p] \in {"bootstrap", "declare", "run"}
  /\ End(p)
  /\ UNCHANGED <<repo, files, keyVars, crashes>>

(* The end of ReplayCoordinator.collect, and _price_evidence after it. *)
coordinate(p) ==
  LET runs == loc[p].runs
      sound == /\ Agree(environments(runs))
               /\ runs[1].environment_hash = loc[p].witness.env_hash
               /\ Agree(observed_records(runs))
               /\ Agree(controls(runs))
  IN  /\ At(p, "coordinate")
      /\ IF sound
         THEN GoOn(p, "precheck", loc[p]) /\ prices_json' = "prices"
         ELSE End(p) /\ UNCHANGED prices_json
      /\ UNCHANGED <<repo, witness_json, collection_json, certificate_json, acceptance_json,
                     keyVars, crashes>>

precheck(p) ==
  /\ At(p, "precheck")
  /\ Verify(p, Nil, "write_witness")
  /\ UNCHANGED <<repo, files, keyVars, crashes>>

write_witness(p) ==
  /\ At(p, "write_witness")
  /\ witness_json' = loc[p].witness
  /\ GoOn(p, "write_collection", loc[p])
  /\ UNCHANGED <<repo, collection_json, prices_json, certificate_json, acceptance_json,
                 keyVars, crashes>>

write_collection(p) ==
  /\ At(p, "write_collection")
  /\ collection_json' = loc[p].runs
  /\ End(p)
  /\ UNCHANGED <<repo, witness_json, prices_json, certificate_json, acceptance_json,
                 keyVars, crashes>>

------------------------------------------------------------------------------
(***************************************************************************)
(* certify.  Without a readable witness.json it raises at once.            *)
(***************************************************************************)
certify(p) ==
  /\ At(p, "idle")
  /\ witness_json # Nil
  /\ GoOn(p, "read_collection", [Locals EXCEPT !.witness = witness_json])
  /\ UNCHANGED <<repo, files, keyVars, crashes>>

read_collection(p) ==
  /\ At(p, "read_collection")
  /\ IF collection_json = Nil
     THEN End(p)
     ELSE GoOn(p, "ensure_key", [loc[p] EXCEPT !.runs = collection_json])
  /\ UNCHANGED <<repo, files, keyVars, crashes>>

ensure_audit_keyNeverCreates(p) ==
  /\ At(p, "ensure_key")
  /\ GoOn(p, "load", loc[p])
  /\ UNCHANGED <<repo, files, keyVars, crashes>>

(* ensure_audit_key: an existing file is used as it is. *)
ensure_audit_key(p) ==
  /\ At(p, "ensure_key")
  /\ GoOn(p, IF key = Nil THEN "key_open" ELSE "load", loc[p])
  /\ UNCHANGED <<repo, files, keyVars, crashes>>

(* write_bytes creates or truncates the file and then writes to it. *)
open_key(p) ==
  /\ At(p, "key_open")
  /\ key' = 0
  /\ GoOn(p, "key_write", loc[p])
  /\ UNCHANGED <<repo, files, drawn, crashes>>

write_key(p) ==
  /\ At(p, "key_write")
  /\ drawn' = drawn + 1
  /\ key' = drawn'
  /\ GoOn(p, "load", loc[p])
  /\ UNCHANGED <<repo, files, crashes>>

(* The policy hash a collection is loaded with: that of the policy files. *)
bound_policyAsCoordinated(rules) == rules \ {"hoax"}

bound_policy(rules) == policy_hash(rules)

(* _load_collection re-derives everything from the retained runs. *)
load_collection(p) ==
  LET runs == loc[p].runs
      sound == /\ derived_runs(runs, loc[p].witness) = "ok"
               /\ Agree(environments(runs))
               /\ Agree(observed_records(runs))
               /\ Agree(controls(runs))
  IN  /\ At(p, "load")
      /\ IF sound THEN GoOn(p, "verify", [loc[p] EXCEPT !.bound = bound_policy(policy)]) ELSE End(p)
      /\ UNCHANGED <<repo, files, keyVars, crashes>>

certify_precheck(p) ==
  /\ At(p, "verify")
  /\ Verify(p, Nil, "issue")
  /\ UNCHANGED <<repo, files, keyVars, crashes>>

(* HostCertifier.issue with the key as the file holds it now. *)
issue(p) ==
  LET runs == loc[p].runs
      certificate == [witness_sha256          |-> witness_hash(loc[p].witness),
                      env_hash                |-> runs[1].environment_hash,
                      runs                    |-> Len(runs),
                      observed_records_sha256 |-> observed_records(runs),
                      trace_policy_sha256     |-> loc[p].bound,
                      control_sha256          |-> runs[1].control,
                      mac                     |-> key]
  IN  /\ At(p, "issue")
      /\ GoOn(p, "write_certificate", [loc[p] EXCEPT !.certificate = certificate])
      /\ UNCHANGED <<repo, files, keyVars, crashes>>

write_certificate(p) ==
  /\ At(p, "write_certificate")
  /\ certificate_json' = loc[p].certificate
  /\ GoOn(p, "final", loc[p])
  /\ UNCHANGED <<repo, witness_json, collection_json, prices_json, acceptance_json,
                 keyVars, crashes>>

final(p) ==
  /\ At(p, "final")
  /\ Verify(p, loc[p].certificate, "accept")
  /\ UNCHANGED <<repo, files, keyVars, crashes>>

(* acceptance.json holds the witness hash, the certificate's id, the replay *)
(* root and the number of runs; what it names is kept here in their place.  *)
accept(p) ==
  /\ At(p, "accept")
  /\ acceptance_json' = [certificate |-> loc[p].certificate, runs |-> loc[p].runs]
  /\ End(p)
  /\ UNCHANGED <<repo, witness_json, collection_json, prices_json, certificate_json,
                 keyVars, crashes>>

------------------------------------------------------------------------------
(* Somebody works on the checkout, or upgrades the tools, at any time. *)
edit_checkout(tree) ==
  /\ edits < MaxEdits
  /\ tree # checkout
  /\ checkout' = tree
  /\ edits' = edits + 1
  /\ UNCHANGED <<policy, files, keyVars, pc, loc, crashes>>

(* The policy is edited between commands. *)
edit_policy(rules) ==
  /\ edits < MaxEdits
  /\ rules # policy
  /\ \A p \in Processes : At(p, "idle")
  /\ policy' = rules
  /\ edits' = edits + 1
  /\ UNCHANGED <<checkout, files, keyVars, pc, loc, crashes>>

(* A process is killed; the file it was writing may be cut off. *)
Torn(p, where, file) == IF At(p, where) THEN {file, Nil} ELSE {file}

crash(p) ==
  /\ crashes < MaxCrashes
  /\ ~At(p, "idle")
  /\ End(p)
  /\ witness_json' \in Torn(p, "write_witness", witness_json)
  /\ collection_json' \in Torn(p, "write_collection", collection_json)
  /\ certificate_json' \in Torn(p, "write_certificate", certificate_json)
  /\ acceptance_json' \in Torn(p, "accept", acceptance_json)
  /\ prices_json' \in Torn(p, "coordinate", prices_json)
  /\ crashes' = crashes + 1
  /\ UNCHANGED <<repo, keyVars>>

CollectStep(p) ==
  \/ bootstrap(p) \/ make_witness(p) \/ make_declaration(p)
  \/ \E outcome \in Outcomes : execute(p, outcome.trace, outcome.control)
  \/ execution_fails(p)
  \/ coordinate(p) \/ precheck(p) \/ write_witness(p) \/ write_collection(p)

CertifyStep(p) ==
  \/ read_collection(p) \/ ensure_audit_key(p) \/ open_key(p) \/ write_key(p)
  \/ load_collection(p) \/ certify_precheck(p) \/ issue(p) \/ write_certificate(p)
  \/ final(p) \/ accept(p)

AcceptanceNext ==
  \/ \E p \in Collectors : collect(p) \/ CollectStep(p)
  \/ \E p \in Certifiers : certify(p) \/ CertifyStep(p)
  \/ \E p \in Processes : crash(p)
  \/ \E tree \in Checkouts : edit_checkout(tree)
  \/ \E rules \in PolicyFiles : edit_policy(rules)

(* A command never waits for anything without a timeout. *)
AcceptanceSpec ==
  /\ AcceptanceInit
  /\ [][AcceptanceNext]_acceptanceVars
  /\ \A p \in Processes : WF_acceptanceVars(CertifyStep(p))

------------------------------------------------------------------------------
(***************************************************************************)
(* What a certificate is worth.                                            *)
(***************************************************************************)

(* Every certificate was issued for at least three runs of one and the same  *)
(* tree with the same tools, that left the same trace and control, and that  *)
(* tree holds the test, the harness and the wrapper its witness declares,    *)
(* although the checkout may be edited before every copy, and certify reads  *)
(* witness.json and collection.json while another collect replaces them.     *)
CertificateBindsOneTree ==
  \A p \in Processes :
    loc[p].certificate # Nil =>
      LET declared == loc[p].certificate.witness_sha256
          runs == loc[p].runs
      IN  /\ loc[p].certificate.runs = Len(runs) /\ Len(runs) >= 3
          /\ \A j \in 1..Len(runs) :
               /\ runs[j].tree = runs[1].tree
               /\ runs[j].trace = runs[1].trace
               /\ runs[j].control = runs[1].control
          /\ runs[1].tree.test = declared.test
          /\ runs[1].tree.harness = declared.harness
          /\ runs[1].tree.wrapper = declared.wrapper

(* What acceptance.json speaks of is evidence in which the assertion held,   *)
(* the control was quiet, time and blocks stayed within their limits (which  *)
(* only collect checks) and the policy the certificate binds allows every    *)
(* cheatcode, although the policy may have been edited since collect.        *)
AcceptedEvidenceHolds ==
  acceptance_json # Nil =>
    LET allowed == acceptance_json.certificate.trace_policy_sha256 \ {"ffi", "hoax"}
        runs == acceptance_json.runs
    IN  \A j \in 1..Len(runs) :
          /\ runs[j].trace.assertion = "holds"
          /\ runs[j].trace.advance = "within"
          /\ runs[j].trace.evidence = "complete"
          /\ runs[j].trace.cheatcodes \subseteq allowed
          /\ runs[j].control = "quiet"

(* What collect wrote down certify accepts: while nothing is edited and      *)
(* nothing crashes, the hashes the two commands derive on their own agree.   *)
CollectedGetsAccepted ==
  [](edits = 0 /\ crashes = 0) =>
    \A p \in Processes : pc[p] = "read_collection" ~> pc[p] = "accept"

(* "assert len(key.read_bytes()) == 32": the key ensure_audit_key returned   *)
(* is complete.                                                              *)
AuditKeyComplete == \A p \in Processes : pc[p] = "issue" => key # 0

==============================================================================
