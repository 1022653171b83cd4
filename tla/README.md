# A TLA+ development of l0vi0x

l0vi0x keeps the evidence of a security-research run: hypotheses that move
through a lifecycle, tasks that must be dispatched once, replays of a witness,
a verifier that derives its verdict from retained artifacts, and certificates
that are issued only after it passed.  This directory holds TLA+ modules for
its core, TLC configurations that check small instances, and TLAPS proofs for
all instances.

Run `tlc -workers 2 -config X.cfg M` and `tlapm M.tla` in this directory.
`PROJECT.json` names every run, mutant, theorem, hazard and the source lines
behind every definition.

## 1. Inventory

### Event-first store: `core/store.py`, `core/events.py`, `core/models.py`

*State.* A SQLite file: an append-only `events` table; a `hypotheses` table
whose rows hold the columns `state`, `lens`, `protocol_type`, `prior_p` beside
a JSON `body`; `tasks`; eleven more entity tables; `id_counters`.  In memory: a
writer connection behind an `RLock`, and the `Hypothesis` objects callers hold.

*Operations.* `create_hypothesis`, `save`, `transition_hypothesis`,
`award_ladder`, `get`, `record_event`/`emit`, `rebuild_hypothesis_from_events`,
`verify_hypothesis_rebuild`, `next_id`, the task calls, `_save_generic`.

*Interactions.* Each write is one `BEGIN IMMEDIATE` transaction (`submit`): the
event first, with a snapshot of the row it announces, then the row; triggers
compare the two and abort the statement, and `submit` rolls both back.  Reads
use separate connections, outside any transaction.

*Hard.* Callers act on copies that go stale; `save` reads before its
transaction; several processes share the file; text is redacted at several
places that must agree exactly, because the triggers compare the results.

*Correct when* the log rebuilds every row; columns agree with bodies; recorded
transitions are one legal walk; a FINDING has its evidence; awards never bring
about a level without its prerequisites; no secret reaches the database.

### Lifecycle and ladder: `core/lifecycle.py`, `core/ladder.py`, `core/interfaces.py`

Pure rules over a caller's object and a token: legal edges, the evidence of
every edge, who may reopen and with what, the levels of six axes, the artifacts
and predecessors of every level, the certificate a level 6 or 7 needs.

### Task ledger: `core/tasks.py`

`begin(key)` finds or dispatches one task per idempotency key, in four steps
with other workers between them; `finish`, `fail`, `block_human` settle it;
`inflight` lists the dispatched ones.  *Correct when* everyone who begins a key
is given the same stored task, and no settled task is in flight again.

### Redaction: `core/redaction.py`

`redact` on text and `redact_payload` on nested values, used before every write.

### Fork stack: `docker/compose.yaml`, `docker/m1a_bootstrap.py`, `docker/rpc_gate.py`, `chain/rpc_gate.py`, `chain/fork.py`

*State.* Two chains, the upstream and a fork of it; the policy each gate loaded
when it started; the audit logs; the threads of the container's gate.

*Operations.* The bootstrap container deploys and funds the fixture and mines
two blocks, on a fresh chain only; compose starts the fork when it exits with 0,
and the gate after that.  The gate routes, authorises, forwards, logs and
answers; the host's gate decides and logs the same in a program of its own;
`pinned_fork` asks the gate for the chain id and the block.

*Hard.* The container dies between two transactions, and the chain lives on; a
request is forwarded first and logged afterwards; client and gate time out after
the same 30 seconds, and what they gave up on may still be performed; a policy
is edited and a gate restarted.

*Correct when* a bootstrap that succeeds has left the fixture at the pinned
block; the upstream does not change any more, although each gate bars methods by
a list of its own; every answer was logged, and the log's `allowed` is true of
what reached a chain, except for a late answer of the container; nobody is given
a fork on the strength of an error.

### Model access: `models/router.py`, `models/doctor.py`, `models/lockfile.py`, `models/adapters/`, `models/gates/`

`route` tries candidates in order, re-probes one that failed and goes on; the
health of a provider changes between the awaits.  *Correct when* a recoverable
failure never ends a call while a candidate is left, the answering candidate is
one the stack allows, and every call ends.

### Replay and collection: `chain/replay.py`, `chain/environment.py`, `chain/harness_identity.py`

Repeated runs of a witness in fresh copies, a control run, a bundle of observed
records and hashes on disk.  *Hard:* one run of several failing, differing
records, leftovers of an interrupted collection.

### Verifier and certification: `verifier/`, `core/certifier.py`, `core/certificates.py`, `core/home.py`, `driver/`

Gates V01 to V09 over a collection, in an order in which a failure decides what
later gates may say; `HostCertifier.issue` after a pass; `collect` and
`certify` as two commands with files between them; an audit key created on
first use.  *Correct when* a certificate exists only for a collection whose
gates all passed and binds exactly that collection's hashes.

### Traces: `chain/foundry_trace.py`, `chain/trace.py`, `core/policy.py`, `verifier/cheatcode_policy.py`

`forge test --json` has call-trace arenas, lists of nodes that name each other by
index; the adapter turns them into frames, `parse_trace` counts cheatcodes,
events and the advances of time and block over the flattened frames, and
`collect` judges the result by the limits and the policy.  *Hard:* the links are
not trusted; failed frames undo the logs of frames inside them; the same facts
pass through three representations.  *Correct when* an accepted trace has every
node, call and log once, counts exactly what took effect, and keeps the limits
and the cheatcode floor in the order of execution.

### Tools and sandbox: `tools/`, `agents/sandbox_fs.py`

Locks of tool binaries, command wrappers, a path-checked file system.

## 2. Modules and how they correspond to the code

| module | models | proofs |
|---|---|---|
| `Selecting` | the list comprehension with a filter | `SelectingProofs` |
| `Redaction` | classes of text and what `redact` makes of them, as a value and as dumped JSON | |
| `Lifecycle` | `lifecycle.py`: edges, evidence, tokens, the reopening rule | |
| `Ladder` | `ladder.py`: levels, artifacts, predecessors, certificates, awards | |
| `HypothesisStore` | the hypotheses of `store.py` with triggers, stale copies, crashes | `HypothesisStoreProofs`, `HypothesisWalkProofs` |
| `HypothesisLifecycle` | abstract: a hypothesis is created and makes legal moves | |
| `TaskLedger` | `tasks.py` and the tasks of `store.py` | `TaskLedgerProofs` |
| `DispatchOnce` | abstract: a key gets one task for good, which is settled for good | |
| `ModelRouter` | `models/router.py` over `doctor.py` and the HTTP adapter | `RouterProofs` |
| `Verifier` | the gates of `verifier/` as operators over retained runs | |
| `Chain` | the two chains of `compose.yaml`; Anvil is external | |
| `Bootstrap` | `docker/m1a_bootstrap.py` and the start of the fork; extends `Chain` | |
| `RpcGate` | both gates, their clients and `pinned_fork`; extends `Chain` | |
| `ForkStack` | the composition of `Bootstrap` and `RpcGate` over one upstream | `ForkStackProofs` |
| `TraceAdapter` | `foundry_trace.py`, `trace.py` and the judgement of `collect` | `TraceAdapterProofs` |
| `Acceptance` | `collect` and `certify` of `driver/m1b_acceptance.py`, with `chain/replay.py`, `core/certifier.py`, `core/home.py`; extends `Verifier` | `AcceptanceProofs` |
| `MCHypothesisStore`, `MCTaskLedger`, `MCModelRouter`, `MCAcceptance`, `MCForkStack`, `MCTraceAdapter` | instances for TLC | |

### HypothesisStore

`events` is the events table (a sequence, ids are positions), `rows` the
hypotheses table, `mem[w]` the `Hypothesis` object worker `w` holds, `saving[w]`
a call of `save` between its read and its transaction.  A transaction is one
action, because SQLite serialises writers and rolls back on any exception; a
read and a later write are separate actions.

* `create_hypothesis`, `transition_hypothesis`, `award_ladder`, `emit`: one
  action each, with validation on the object, the comparison with the stored
  state, the redaction of payload, snapshot and row snapshot, the triggers
  `hyp_insert_event_guard`, `hyp_update_event_guard`, `hyp_state_guard`, and the
  `reopen_threshold_exceeded` event.
* `save`: `SaveRead`, then `SaveCommit` or `SaveAbort`.
* `Load` builds an object from `get`; `Edit` assigns a descriptive field of an
  object; `Crash` loses what a worker holds in memory.

`create_hypothesis` and `save` take any payload: each of its keys, the ladder and
the reopen count among them, may be missing (`Absent`), and a body is whatever was
stored of such payloads.  `column` is `data.get`, `get` adds the keys of the
columns, and only a body with texts can be loaded into an object, which then has
every key (`Hypothesis`).  `Merged` is the merge of `save`, in which a key of the
payload replaces that of the body.  The state alone is checked by the code:
`create_hypothesis` sets it to OPEN and `save` keeps the stored one.

A call that raises leaves everything as it was, so it is a stuttering step and
has no action, except where the worker's own progress changes.  Body text is
one field `note` that is `plain`, `secret`, `redacted` or `reactive` (a pattern
matches only the JSON dump, e.g. `secret=` followed by an escape); `lens` stands
for the three indexed columns (an object without a `protocol_type` or a `prior_p`
cannot be loaded, one without a `lens` can).  `Edit` assigns texts only: code that
assigns `state`, `ladder` or `reopen_count` of an object by hand is not modelled.
`emit` is limited to kinds that announce something and carry no snapshot.

### TaskLedger

`tasks` and `events` are the tables, `counter` the `T` row of `id_counters`,
`call[w]` the call a worker is in, `got[w]` the answer it was given.  `begin` is
`begin`, `next_id`, `dispatch_task` or `DispatchRefused`, and `refind`; `Busy` is
`busy_timeout` running out while another process holds the write lock, which
`begin` does not tell from a lost race.  `fail` is `FailRead` and `FailSave` or
`FailAbort`; `finish_task` and `block_task` are one transaction each.
`SecretKeys` are keys redaction would change: the trigger refuses their row, so
they can never be begun.  Timestamps, phase and role are left out.

### ModelRouter

One call of `route`: `pc` is where it waits, `eligible` the candidates the stack
policy left, `at` the one being tried, `error` what its `complete` raised,
`deprecated` what its re-probe found, `attempts` and `log` what the caller sees,
`raised` the exception it ended with, `schema` and `stack` its arguments.  Every
`await` (`complete`, `probe`, the structured-output check) is one step.
`health[m]` is what the endpoint of `m` does at that moment, and `Change` may
alter it between any two steps: it answers, answers prose, an odd shape or a
body that is not JSON, is rate limited, gone, down or slow.  The finder calls no
model and never fails.  The lock file and the terms and pricing gate are left
out: they decide which candidates a caller passes.

### Verifier and Acceptance

A hash is the value that is hashed.  A tree is the test, the harness, the
wrapper, everything else in the source manifest, and the installed tools; a run
is the tree it was copied from, its trace, its control and its environment hash;
a trace is what the gates tell apart, and `gas` for what they do not.  The
environment hash binds what was observed of the tree, with the test, to the
harness and the wrapper the witness declares; `witness_hash` leaves the
environment hash out.

`checkout` and `policy` are the repository; `witness_json`, `collection_json`,
`prices_json`, `certificate_json`, `acceptance_json` the work directory; `key`
the audit key (0 is an empty file); `pc[p]` and `loc[p]` a command in progress.
A step ends wherever a command has read or written what somebody else can
change: `collect` is `bootstrap`, `make_witness`, `make_declaration`, three times
`execute`, `coordinate`, `precheck`, `write_witness`, `write_collection`; `certify`
is `read_collection`, `ensure_audit_key` (with `open_key` and `write_key`),
`load_collection`, `certify_precheck`, `issue`, `write_certificate`, `final`,
`accept`.  A command that raises returns to `idle` and leaves its files.
`edit_checkout` may happen at any moment, `edit_policy` between commands, and
`crash` kills a process and may cut off the JSON file it is writing, which every
reader then refuses like an absent one.  `execution_fails` is any failure of
Foundry.  `acceptance.json` holds the witness hash, the certificate's id, the replay
root and the number of runs; the model keeps the certificate and the runs these
name.  The directories of retained runs do not change in the model: a collection
is never altered in place, and what an editor makes of one is outside it.  The reports and the probes decide nothing and are left out.  In this
driver V01 and V02 compare the checkout with itself and V08 is given nothing.

### Chain, Bootstrap, RpcGate and ForkStack

`upstream` and `fork` are sequences of blocks: the target's creation, its funding,
a reverted transaction, or a block of no interest; `snapshots` are the heads at
which `evm_snapshot` was called.  `boot` is where `main` of the bootstrap is and
`exit` the status of its last run.  Every call of it may raise, with the upstream
having acted on it or not (`boot_fails`); the container may then be run again.

`loaded[g]` is the policy gate `g` runs with, `handler` the requests in the order
they came in, each with its place in `do_POST` (or in the host's `forward`), its
status and whether the chain has been sent it and performed it; `log[id]` the
lines of request `id`; `caller[c]` what a client waits for.  A handler is
`authorize` (ending in `refuse` or `forward`), the answer or `no_response`,
`write_log` or `log_raises`, and `reply`; `perform` is the chain's own step and may
come after everybody has given up.  `log_allowed` is the flag of a line: `status <
400` in the container, the decision itself in the host's gate, which differ where
the answer was late.  Each gate has its own list of barred methods
(`WriteOrAdminContainer`, `WriteOrAdminHost`).  `kill` ends a gate with its threads, and
`start` loads whatever the policy file holds by then.  Methods and tokens are
classes; a prefix list is the set of methods it matches.  A line is written
whole: two lines of one log are independent.

### TraceAdapter

The report's links (nodes, indices, parents) are an input; what a node holds and
each entry of its ordering is chosen where the code reads it.  `frames` are the
converted nodes in the order in which they were opened, each with its parent and
children; `stack` is the code's own stack with the consumed calls and logs;
`summary` is the state of `parse_trace`'s loop.  Every malformed value is `malformed`
or the failing branch of the check it belongs to.  `normalize` drops the success
flag, as `_normalize_frame` does.  A cheatcode is a name, the number of its
arguments, the class of its alias (the gate's, a raw URL, another) and a number:
what `warp` and `roll` set, or the block of a fork.  `denied` has the rules of
`enforce_cheatcode_policy` in its order: the policy of the phase, the external I/O
(`ExternalIO`, for which `ffi` stands), `createFork` and `selectFork` (`OtherForks`),
the form, the alias and the block of `createSelectFork`, and the mutations of a fork
(`ForkMutation`, for which `deal` and `prank` stand).  The catalog that gives every
name its category is folded into the policy: a policy is the set of names that the
two let through, and it may be any set.

## 3. Runs

| run | asks | bounds |
|---|---|---|
| `hypothesis_races` | does the log rebuild the row, do columns match, is the history one walk, can a secret reach a row or an event, is a count of three announced or restored by a payload, is the lifecycle implemented, under any interleaving of two workers? | one hypothesis, two workers, two lenses; payloads with every key, with none, without those of the columns, with a secret, with a text that redaction would change later, with a count of two or four; four events: a count of two, closed, reopened and announced |
| `hypothesis_ladder` | can a level lack its prerequisites without a payload that put it there? can a FINDING lack any evidence of its confirmation or promotion? | two workers, nine proofs on four axes, all certificate kinds, a save with an unsupported level, the evidence of the way to FINDING, the same without any one clause, of three ways back and of closing; five events: one more than the shortest way to FINDING, and enough for execution level 6 from either copy |
| `ladder_lost_update` | *violated*: is the stored ladder monotonic? | four events |
| `rebuild_overlay` | *violated*: does every stored hypothesis pass `verify_hypothesis_rebuild`? | four events |
| `task_races` | one task per key, agreed answers, rows that follow the log, no task in flight again | two workers, three keys (one secret), three ids, three events |
| `model_routing` | does a call end, give up only when all eligible candidates failed, reach one that keeps serving, and answer only with one the authorization gate admits? | two endpoints and a finder, four candidate lists, three stacks, every health |
| `reprobe_raises` | *violated*: does a recoverable failure never raise while a candidate is left? | as above |
| `acceptance_races` | is every certificate for three runs of one tree, the one its witness declares? | a collector, a certifier, six trees (one per part that can change), two edits |
| `accepted_evidence` | does `acceptance.json` speak only of evidence the gates and the bound policy accept, the same in all three runs? does `certify` accept what `collect` wrote, if nothing is disturbed? | one process, thirteen outcomes of a run with at most one thing wrong, two policies, one edit, one crash |
| `fork_stack` | does a successful bootstrap leave the fixture, whatever happened before it? does the upstream stay as it was forked, under any policy? is every answer logged, is the log true, and is a pinned fork what it says? | a pinned caller with its two calls beside one other request, or two other requests; eight requests that are served, refused for every reason or not understood; two policies; one kill or full disk |
| `trace_adapter` | is an accepted trace complete, without repetition, its counted events exactly the effective ones, its clocks monotonic and within limits, its cheatcodes above the floor? | up to three nodes linked in every way, up to three arenas, five ordering entries, twenty-three contents of a node, two policies (what is shipped, and everything), two witnesses |
| `audit_key` | *violated*: is the key `certify` signs with complete? | one process, one crash |

One hypothesis is enough for the store because no action reads the row or the
events of another; two workers are enough for every race in the code, which is
between one read and one write of somebody else.  The event bounds are lengths
of the shortest histories that show each hazard.  Ladder levels 7 and 8 take
eight and thirteen events: in the run their proofs are offered and must be
refused, and that they are supported once awarded is left to the theorem.  The
proofs below do not have these bounds.

One collector and one certifier are enough for the files: every race is between
the two writes of a collection and the two reads of a certification.  Two edits
allow a change between any two copies and its reversal.  The router's calls
share nothing but the endpoints, so one call is enough.

In the fork stack a second caller adds the race between handlers and a third
would repeat it; one fault is enough because a kill and a full disk leave nothing
behind that a second could make worse.  The bootstrap is unbounded: its runs
repeat until the fork is up.  That going back to a snapshot does not change the
upstream takes two requests; a revert of the fork that takes blocks back needs
three and is outside the bound.  Three nodes are the least at which a node can be
unreachable, shared, or in a cycle beside the root, and at which a failed frame
can be the grandparent of a log; five entries let each of them be reached with a
log, a skipped entry and a repeated one.

Fairness: `RouterSpec` lets an `await` end (`WF` of `RouteStep`), because `urlopen`
has `timeout_s` and nothing else waits; `AcceptanceSpec` lets a running `certify`
go on (`WF` of `CertifyStep`), because it waits for nothing but tools that have
timeouts.  No fairness is assumed of `collect`, of callers or of providers.  In
`StackSpec` and `AdapterSpec` the deadlock check takes the place of liveness: their
only steps that change nothing are `rest` and `stop`, when nothing is under way or
the adapter has ended.  The other specifications, the abstract ones included, are safety specifications.

### What the violations show

*Lost ladder award.*  Worker A and B load a hypothesis; A awards a level; B, whose
copy has the same state, makes an award or a transition and writes its whole
body.  `ladder.py` says the ladder is monotonic and checks it, on the copy.

The whole body is written, so the same step can put back an older
`reopen_count`, which the rule for the fourth reopening reads from the copy.

*A rebuild check that fails.*  A hypothesis is created from a payload without the
keys of the columns, as two tests of the repository create one; `get` adds the keys,
`verify_hypothesis_rebuild` compares its answer with the snapshot that lacks them,
and reports that the log does not rebuild a row which is exactly what it records.

*A re-probe that raises.*  `complete` fails with something to fail over on; the
endpoint then answers with a body that is not JSON, or closes the connection;
`probe_model` does not catch that, and it leaves `route` although candidates are
left, which its documentation excludes.

*An empty audit key.*  `ensure_audit_key` is killed after the key file was created
and before it was filled; from then on the empty file is taken for the key.

## 4. Proofs

The theorems hold for all values of the constants: any sets of hypotheses,
workers, keys, proofs, adapters, candidate lists, requests, policies, callers,
processes, trees and outcomes, reports with any number of arenas and nodes, and
any bound on events, edits, crashes, faults or ordering entries.  They rest on
named assumptions that TLC evaluates in every run: `ConstantsAssumption`,
`TaskConstants`, `RouterConstants`, `GateConstants`, `AcceptanceConstants` and
`AdapterConstants` (types of the parameters), `NilAssumption`, `AbsentAssumption`
and `NilIsNoException` (`Nil`, `None` and `Absent` are none of the values), and `PinnedBlock`: the fork is pinned at or after
the funding and before the head (`compose.yaml` says block 3).

Of the 34 properties of the passing runs 31 are theorems.  Every proof has the
same layout: an inductive invariant, one step for each action, and the properties
from the invariant.

*HypothesisStoreProofs.*  `TypeInv` is the type invariant together with "whatever
a worker read still exists as a row", which a save needs.  `StepShape` then
reduces every action to three shapes: nothing stored changes, a notice is
appended, or one row is written together with the event that describes it.
From the shape alone follow `RebuildMatchesRow` and `ColumnsMatchBody` (the
invariant `RowsBacked`: the row is the one its last event describes, and no
later event of that hypothesis has a snapshot).  `GoodBodies` says that every
body stored or held in memory has, for each level that lacks its prerequisites, a
payload in the log that put just that level there and, if its count is three or
more, an announcement or a payload with such a count; stale copies are harmless
for these two properties exactly because the statement is about copies as well.
A body about to be saved needs nothing: its own event is that payload.  An award
keeps it because the rules of `validate_award` look at the copy it is made on, and
no award lowers a level another one rests on (`AwardSupported`).  It gives
`LadderSupported` and `ThresholdAnnounced`.

*HypothesisWalkProofs.*  `WalkInv` strengthens the walk to every prefix of the
log; `EvidenceInv` carries, for stored CONFIRMED and FINDING, the event that led
there; `MoveCount` relates the number of recorded moves before and after a step,
for the refinement of `HypothesisLifecycle`.

*TaskLedgerProofs.*  `LedgerInv`: ids taken are below the counter and no two calls
or rows hold the same one (`FreshIds`), keys are unique, answers are stored,
and a `fail` in progress holds the key its task has, which is why saving an old
copy neither renames a task nor revives it.

*SelectingProofs.*  `SelectAt` is a filter written as a recursive function.  That
it has its elements from the given positions, in their order and none left out,
takes induction, and the library's induction theorems have an operator as a
parameter, which no installed prover can instantiate.  `LeastNumber` (from the
library's definition of a well-founded relation) and `AllNumbers` (a set with 0
that is closed under successor is `Nat`) state induction about a set, and the
other inductions of the project, over lists, prefixes and depths of a tree, are
instances of them.

*RouterProofs.*  `Tried`: while a call is routing, the attempts are the eligible
candidates before the present one, in order, each failed with something to fail
over on.  `NoCandidatesMeansAllFailed` is then about the position at which the call
ends.  For `AnswerPassesGate` the invariant says that every eligible candidate
passed `_allowed_by_stack` under the policy of the call, and the validator of
`StackPolicy` makes that filter as strict as the authorization gate.

*ForkStackProofs.*  `BootOK` says how high the upstream is at every place of `main`;
a chain on which a run was killed before its fixture was complete never reaches
the height at which a later run takes it for finished, which gives
`BootstrapDelivers`.  `ForkInv`: the gates work only once the fork is up, the fork
keeps the pinned block, and every snapshot of the upstream has its present head,
so a revert changes nothing.  `HandlerOK` ties the place of a handler to its status, its line
in the log and what the chain was sent; `AnsweredIsLogged` and `LogTellsTruth` are
read off it: `Cleared` is what a line's flag says, and it differs between the
gates for a late answer.  `Harmless` is the heart of `UpstreamFrozen`: what was sent
to the upstream is no method that the gate it went through bars from it (`Barred`);
that neither list leaves out a method which adds or takes back blocks is then a
fact about the lists.
`CallerOK` says that what a caller waits for is the answer to its own question,
and that whoever was pinned was told the pinned height.

*AcceptanceProofs.*  `Sound`: whoever reaches `issue` holds three or more runs that
agree and that `load_run` accepted for the witness it holds, and nobody else can
change what a command holds; the environment hash binds the tree, so equal
hashes are equal trees.  `Within`: limits are judged by `collect` only, so the
invariant is about every run in the hands of a process or in `collection.json`.
`Judged`: the policy is judged twice, and the second time it is the one the
certificate binds.

*TraceAdapterProofs.*  The frames are a list in the order in which nodes were
opened, and a tree through `parent` and `children`.  `Nested` (whatever lies between
a frame and its parent is below that parent), `Linked` (the children of a frame
are the frames that name it, in order) and `Path` (the stack is a branch of the
tree, and the last one) are kept by opening, consuming and closing a node.  They
give `FlattenedInOrder`: the recursive flattening meets every frame once, in the
order of the list.  So `parse_trace` can be followed along prefixes: `Summed` says
what it has added up of the first frames, of cheatcodes, clocks and events.  An
open frame holds what its stack entry has consumed (`Holding`), a closed one holds
everything (`Whole`), and since nodes are placed in their arenas one by one
(`Placed`) and arenas are finished by a count (`FinishedTo`), counting is enough for
`EveryNodeOnce`.  `TestLast` (no frame of another arena comes after one of the test)
turns the phase in which a fork is judged into the order in which Forge ran the
frames, for `FloorHolds`.  `Marked` carries a function that says which frames take effect,
by which the marks of the logs follow all frames around them although the code
passes on one flag only.  The attempt to prove the end of a node showed that the
model chose the next place with a `CASE` whose branches overlapped; it is now
an `IF` for the return to the caller, the next arena or the end, as in the code.

Only model-checked: the four violations, and the liveness properties `RouteEnds`,
`ServingCandidateAnswers` and `CollectedGetsAccepted`, since fairness and `ENABLED`
are out of the prover's reach.  Every other property of a passing run is also a
theorem.

## 5. Not modelled

Durability across power loss (WAL with `synchronous=NORMAL`), schema migration
of old databases, secret-shaped values in indexed columns, assignments to
`reopen_count` or `ladder` of an object; pydantic declarations, schema generation, ABI decoding,
Foundry configuration, price arithmetic and command wrappers (no state, or data
only).  Of the gates, the redaction of logged parameters, the health check and
`start_anvil`, which compose switches off; an append that the operating system
splits.  The lock file and the terms gate of the models, which `route` does not
call; the tool lock and the tool runner, which compare one record with one file;
the other eleven entity tables, whose write is the one `TaskLedger` has for tasks,
without its races.  The M1a driver: its `certify` signs what `collect` left without
verifying it again, which the list of hazards records.
Verification that raises (`derive_control`, when the control run shows the
attack's assertion) ends a command like a refusal; that no report is written
then is not modelled.

## 6. Plan

The twelve runs stay the whole set: a module that is added brings its question
into an existing run's place, or two runs on one module become one.

1. Done: the models of the hypothesis store, the task ledger, the model router,
   the verifier and the acceptance commands, the fork stack and the trace adapter;
   the proofs of every safety property of their runs.
2. Action properties worth adding with their proofs: that no line in a log of the
   gates is ever changed or taken back, and that a call of `route` never returns
   to a candidate it has left.
3. Safety lemmas for the liveness that stays with TLC: a bound on the steps a call
   of `route` can still take, which every `RouteStep` lowers.
4. Verification of other callers: V01, V02, V08 and the routing of
   `_failure_result` and `flow.py` against the legal edges of `Lifecycle`.
