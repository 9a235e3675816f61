# Verification of verity-agent

Verity runs language-model agents against a task and believes nothing they say:
an agent *proposes* artifacts, an independent verifier *gates* them, and a
control plane, the only writer of the provenance store, commits the verdict.
This directory holds TLA+ models of that machinery, TLC configurations that
check them on small instances, and TLAPS proofs for every size: every safety
property that a run shows to hold, of all nine models, is also a theorem. Paths below are relative to `src/src/verity/`.

## 1. The system

| Component | State it keeps | Operations | What is hard about it |
|---|---|---|---|
| artifact lifecycle (`control_plane/lifecycle.py`) | none; a table of edges | `is_legal_transition` | every status write has to consult it |
| commit path and intake (`control_plane/commit.py`, `api.py`) | where a submission has got to | `submit_proposal`, `run_commit`, `_harvest_children` | several transactions with an opaque, possibly failing gate between them; crash after any of them |
| provenance store (`control_plane/store.py`) | artifacts, operations, decisions, objects, cycle failures, versions | `propose`, `record_decision`, `set_status`, `accept_superseding`, `link_revision`, `put_object` | atomicity of a bundle; one sqlite connection shared by the event loop and the commit thread; object files rewritten in place |
| orchestration loop and run report (`control_plane/api.py`, `run_report.py`) | history, counters, run records | `run`, `run_cycle`, `_record_cycle`, `_record_run` | which exception becomes a recorded failed cycle, which ends the run, and what the report says compared with the store |
| context, registries, workspace (`control_plane/context.py`, `registries.py`, `workspace.py`) | none; projections of the store | `assemble`, `materialize`, `configure` | rebuilt from two tables after restarts; limits; edits of an earlier agent |
| agent sandbox and drivers (`sandbox/`) | workspace, outbox, budgets | `run_agent`, `_finalize_guard`, the middlewares, `collect_proposal` | three budgets over several invocations, kills at any point, a log as the only witness |
| worker backend, reaper, verifier launch (`provisioning/`, `composition/verifier_launch.py`) | containers by label | launch, wait, kill, destroy, reap | launchers, reaper and containers act without a lock; docker calls that fail silently |
| verifier service, gates, Kaggle (`verifier/`, `domains/feature_engineering*.py`) | score ledgers, run cache, remote submissions | `dispatch`, gate pipelines, submit and poll | abandoned calls that go on, lost ledgers, late grades, a shared daily cap |
| transport (`transport/`) | the impl of a server | request, set-up, error classification | ambiguous failures |
| control service (`service/control_service.py`, `contracts/jobqueue.py`, `control_plane/run_record.py`) | resident control planes, jobs, run records, run-id cells (memory) | `create_task`, `submit_run`, `_execute_run`, restart | submissions racing on one task, failures inside the failure handler |
| task set-up (`composition/`, `service/task_index.py`, `service/http.py`, `verifier/registry.py`) | catalog, staged files, `request.json`, task stores | boot, ingest, create, build | plugins that claim built-in names, the answer key in the wrong role, kills between two files |
| CLI, client, evaluation, telemetry | none | adapters | – |

**How they interact.** The HTTP daemon calls the control service; `submit_run`
builds (or reuses) a control plane for the task and schedules a run body that
waits for the run lock. The body calls `ControlPlane.run`, which provisions a
verifier worker and then cycles: the sandbox gets its context, the driver runs
the agent in a worker, the outbox is harvested into a proposal,
`submit_proposal` writes objects and row, `run_commit` hands the proposal to the
verifier in a worker thread and writes the verdict bundle in one transaction,
accepted proposals have their children harvested and gated the same way, the
workspace is regenerated and the cycle recorded.

`PROJECT.json` lists every component with its status and every hazard at the
line where it bites, with the properties that cover it.

## 2. Modules

| Module | Models | Size of a step |
|---|---|---|
| `Lifecycle` | statuses, verdict kinds, the transition table | – |
| `ArtifactLedger` | abstract: what the store promises its readers | one visible change |
| `CommitPath` | intake, commit, revision links, refine cap, child harvest, the audit over the store's tables | one store transaction |
| `AtomicStore` | abstract: what a transaction promises the commit path | one transaction's start or end |
| `StoreSession` | the connection and the object directory under it | one statement, one half of a file write |
| `RunLoop` | `run`, `run_cycle`, recording, run records, provisioning and teardown | one call that can raise |
| `ContextServing` | what a cycle's agent is given | one phase of a cycle |
| `AgentLoop` | the agent's loop, its budgets, the host's view of its end | one model or tool call |
| `Workers` | containers, their launchers, the reaper | one docker call or event |
| `SubmissionVerifier` | the verifier process, its three ladders, transport, Kaggle | one gate or one remote call |
| `ControlService` | tasks, residency, run lock, jobs, run records, restarts | code between two awaits that suspend |
| `TaskSetup` | plugin discovery, boot, ingest, creation, builds | one file, one build |
| `CommitPathProofs`, `StoreSessionProofs`, `RunLoopProofs`, `AgentProofs` (`ContextServing` and `AgentLoop`), `WorkersProofs`, `SubmissionVerifierProofs`, `ControlServiceProofs`, `TaskSetupProofs` | the theorems about each model, and their inductive invariants | – |
| `MCCommitPath`, `MCTaskSetup` | symmetry and the instance for TLC | – |

**CommitPath.** The durable state is the columns of the tables: `status`, `row`
(type, creator, operation edge, first parent, object references), `decisions`,
`supersededBy`, `revisedBy`, and the object store `stored`. The volatile state is
where the submission is (`pc`, `cur`, `exhausted`, `parent`, `left`). Objects are
written and the row proposed (`SubmitProposal`; `IntakeFails` when that stops
part-way), the revision linked and the refine depth counted (`LinkRevision`), and
a bundle chosen by nobody in particular is recorded (`CommitProposal`,
`CommitChild`) or refused (`CommitRefused`). The verifier is any function: every
bundle over statuses, sets of verdict kinds and incumbents is tried, the
inconsistent ones included. `Crash` may follow any transaction. `audit` is
`invariants.py` as an operator over these columns. Abstracted: the
order and number of decision rows of a kind, scores and rationale, payloads, and
parents after the first, which only reports read. An unknown parent is `NoId`:
ids are minted from uuids, so a name that is unknown when used stays unknown.

**StoreSession** opens up the one-step transaction of `CommitPath`. `disk` is the
database file and `conn` what a read on the shared connection returns, so the
rows of an open transaction are in `conn` only. A row is its table, the cycle it
is about and the cycle that wrote it. `_tx` nests (`Write` is a nested one);
statements raise and unwind, `commit()` itself may raise with or without sqlite
having rolled back, object files are truncated and then filled, and exports run
at any moment.

**RunLoop.** The commit path is one opaque step that judges, accepts or raises.
`result` is what the `IntakeResult` will say, `truth` how far the proposal really
got in the store, `envelope` whose agent wrote it, `outbox` what is in the
workspace; comparing the first with the others is what the properties do.
`records` are the run reports, whose summary is counted from the task's whole
history. `Faults` names the boundaries that may fail beyond what the loop
classifies: raw sqlite errors, a workspace that cannot be removed, misuse errors
of the commit path. Every transaction of the loop ends as `_tx` does: `commit`
publishes what is pending on the connection, a statement that raises rolls all of
it back (`rollback`), and a `commit()` that raises may leave it pending
(`commit_raises`). `pendingRows` are the failure rows so left, `pendingTruth` what
the proposal of the cycle in progress becomes if they are committed, and `unsure`
counts the failure rows whose commit raised.

**ContextServing.** The store is a sequence of submissions (status, time, files,
decisions), the failure rows and the recorded versions; manifest, retrieval,
digest and provisioning are operators over it. `trail` remembers the failed
attempts as they happened. A file's content is named by the artifact and file it
was harvested from (0 for what an agent wrote), a file is a byte long. A
provisioning spec is one of the nine preset names, a name that is none, or a
mapping of statuses, selection and limits; a mapping that does not parse raises,
and is `TaskSetup`'s. Discarding the workspace succeeds here; that it may not is a
fault of `RunLoop`.

**AgentLoop.** The agent is arbitrary. `steps` is the step middleware's counter,
`super` the framework's own count, which starts anew with each invocation, and
`made` the truth; `log` is what left the worker, and capturing it may fail.

**Workers.** A container is told by its role, the run it belongs to (`of`), the
run label it carries (`stamped`), who waits for it (`by`), and how it ended. The
control plane holds at most a verifier and one worker.

**SubmissionVerifier.** `cp` is what the control plane knows, `process` what dies
with the verifier, `kaggle` the submission list, which belongs to nobody here.
Scores are naturals on a scale; a script is what it does when run and the
hold-out score its predictions get. `Abandon` ends the wait, not the evaluation.
`board[i].over` remembers what was accepted when an awaited evaluation spent its
submission.

**ControlService.** `submit_run` awaits builders and an in-process queue that
never suspend, so it is one step. A run body is two: taking the lock, where the
control plane reads the task's run-id cell, and its end. `raced` remembers the
runs that were submitted while another of their task still waited, `lost` those
whose outcome could not be reported.

**TaskSetup.** A content stands for bytes (and their hash), a plugin for what it
registers; the core distribution's entry points may fail to load like any other.
Since the incumbent wins every merge, discovery has a closed form: an entry point
that loads adds the names that no earlier one that loaded registered (`Held`).
Creating a task takes a step per file and one for `request.json`, which a kill
may tear.

**Composition.** `CommitPath` refines `ArtifactLedger` (`ImplementsLedger`). Its
one-step transactions are justified by `StoreSession`, which refines
`AtomicStore` (`ImplementsAtomicStore`): whatever statements, failures, kills and
readers come between, a transaction takes effect in one step or not at all. What
`AtomicStore` has and `CommitPath` has not is a transaction in doubt, one whose
`commit()` raised and whose rows are still pending (section 5).
`RunLoop`'s `gate` and `harvest` phases stand for `CommitPath`; its collecting
for `AgentLoop`; its provisioning and teardown for `Workers`; its
`GateUnavailable` for every way an evaluation of `SubmissionVerifier` is lost.
`ControlService`'s run body stands for `RunLoop`: its fairness on `Finish` is
`RunLoop`'s `RunEnds`, which rests on `WaitEnds` and `EvaluationEnds`.

## 3. Runs

| Run | States | Shows |
|---|---|---|
| `commit_kinds` | 17,204 | 2 ids, 2 types (a root, a gated one), the proposer may be the verifier, one object: verdicts stand, what a row refers to (its objects, the parent of a harvested child) is there and stands, the audit is clean |
| `commit_lineage` | 117,112 | 3 ids, refine cap 2: supersession and revision chains, the cap, append-only tables, refinement of the ledger (decisions land with the status or not at all) |
| `loop` | 206,911 | 2 runs of up to 3 cycles, failure cap 2, misuse errors but no store or workspace fault: history and run records complete and in agreement with the store, fresh proposals, every run ends |
| `loop_faults` | 3,146,002 | all faults, 2 runs of up to 2 cycles: cycles counted once, a committed row for each failed one, no verdict or acceptance claimed that the store does not hold, every step uses up some of a bounded run |
| `service` | 34,398 | 2 tasks, 3 runs, one restart, clients that wait or not, build and report faults: own and final records, failed runs recorded, every run finishes |
| `verifier` | 312,617 | three ladders, 2 proposals, a death or a call given up, a submission of the team, two days under a cap of one: one best incumbent, no call spent on a worse attempt, no stale score, every evaluation ends |
| `workers` | 200,431 | 3 containers, 2 runs, one fault, one sweep, a foreign container or none: accepts rest on clean exits, nothing survives a run without a fault, waits end |
| `agent` | 65,817 | 4 steps, 2 re-invocations, 2 parse retries, 3 ticks: the step budget binds over all invocations, failures are explained, every step uses up some of a bounded cycle |
| `context` | 1,349,816 | 3 cycles, one restart, all presets and a mapping with every selection and limit: the digest is the trail, provisioned files come from the store whole |
| `store` | 964,952 | 3 cycles, 2 faults, one kill: transactions all or nothing, objects before references, exports of what was accepted, refinement of the atomic store |
| `setup` | 64,007 | 1 task, 2 boots, two plugins per group: built-ins are not shadowed, the key is isolated, created tasks are durable |
| `verifier_cache` | violation | 2 proposals with the same script and different package lists |

`verifier_cache` ends in a violation of what the repository says of itself. A
gate that rejects a run for its packages tells the agent that it "installs
EXACTLY what 'requirements.txt' lists into a fresh container"
(`domains/feature_engineering.py:436`) and to pin the right versions. The runs are
cached by the digest of the script alone (`feature_engineering.py:306`), so when
the agent resubmits the same script with the list corrected, it is rejected with
the cached outcome of the old list, and the process answers so for as long as
the entry stays.

**Bounds, and why they are enough.** Two ids are the least for a supersession, a
revision or a harvest; three for a chain of them, for two rivals for one
incumbent, and for a lineage that reaches cap 2. One child per acceptance
suffices because children do not interact except through the store. Three cycles
with cap 2 let failures, a reset and a further failure happen in one run; two
runs show what is carried over. With all faults two cycles suffice: the rows a
failed commit leaves pending meet a rollback or a commit in the same cycle, the
next one or the next run. Three runs over two tasks give two submissions
racing on a task while a third waits from another; one restart splits a history
into before and after. In `verifier`, two proposals give an incumbent and a rival,
or an abandoned evaluation beside an awaited one; a third adds only another rival
to a slice of which the gates take the maximum. Three containers are a verifier,
a sandbox and a code-runner, or two runs' workers and an orphan. A step budget of
4 puts the warning before the end and lets the guard run out first or last. Three
cycles give provisioning artifacts within, beyond and skipped past a limit. Three
transactions let rows left pending by a failed commit be committed, rolled back
or lost by a later one. Two boots split discovery before and after a creation.
The theorems need none of these bounds.

**Symmetry** is used on artifact ids only, in runs without liveness properties
(`AppendOnly` and `ImplementsLedger` are step properties).

**Deadlock** is checked for the commit path, the loop and the service. The other
models stop when their bounds are used up, and say so.

**Fairness.** `RunLoop`: weak fairness of everything the loop itself does. No
answer of the gate is assumed fair (`GateAnswers` is left out); what bounds the
wait is `GateUnavailable`, raised by the transport's own request timeout
(`transport/http.py`) or by `dispatch_timeout_s`; with an in-process verifier
and no `dispatch_timeout_s` the code has no bound, and `RunEnds` does not apply.
Collecting ends because the driver has a wall clock. `ControlService`: weak
fairness of taking the lock (`asyncio.Lock` is first-in first-out) and of the end
of a run; nobody is obliged to create tasks, submit or read.
`SubmissionVerifier`: the event loop runs every evaluation that can run, and both
waits have a deadline in the code (`BudgetDeadline`, `PollFails`); nothing is
assumed of Kaggle, the team or the days. `Workers`: a waiter's timer fires and
its kill is bounded by 10 s (`docker.py:338`); nothing is assumed of containers or
of whoever starts the reaper.

## 4. Proofs

Each `...Proofs` module states an inductive invariant `IInv`, shows that it holds
initially and that every action keeps it, and derives the theorems from it. The
proofs hold for every value of the constants that the module's named assumption
allows (types and positivity, and for `TaskSetup` that a third-party package is
not the core distribution): any number of artifacts, cycles, runs, restarts,
faults, containers, proposals and any caps, budgets and margins. Every `IInv` was
checked by TLC on the bounds of the runs before it was proved.

**CommitPathProofs** proves `TypeCorrect`, `DecisionsAtomic`,
`NoOverturnedVerdict`, `NeverSelfGated`, `PointersSound`, `RevisionsSound`,
`HarvestSound` and `ObjectsStored` (together `ReferencesAreSound`), `AuditPasses` (the audit of `invariants.py`
finds nothing in any reachable store), `IncumbentChainsEnd`, `LineageCapped`,
`RecordAppendOnly` and `RefinesLedger`. That a commit preserves the store's
properties needs to know what the submission in progress is about: `InFlight`
says so for each `pc` (an artifact being linked or gated is still `proposed`, a
parent being harvested was accepted), and `RowsPresent` ties the columns to the
status. That supersession chains end in an accepted artifact is stated without
following them: every set closed under the pointers that holds a superseded
artifact holds an accepted one, which a commit preserves because the new winner
is accepted and the pointer of the old one leads to it. The refine cap is stated
about walks: a walk through `n` refined artifacts is a function on `1 .. n`
(`RevisedChain`), and a commit that may still refine starts from a lineage without
a walk of the cap's length (`BelowCap`), on an artifact nothing descends from yet
(`NoDescendants`), so that refining it lengthens no walk but its own.

**StoreSessionProofs** proves `TransactionsAtomic`, `ObjectsBeforeRows`,
`ExportsStand` and `RefinesAtomicStore`. A row tells the transaction that wrote it (`Rows`), so what a
commit publishes can be sorted by transaction. The invariant says of the
connection what the property says of the disk, of every transaction but the open
one (`Whole`): committing whatever an earlier failed `commit()` left pending then
adds whole transactions only. The refinement maps a transaction to durable when
its rows are on disk and to pending when they are in the connection only, leaving
out the open one; by `Whole` these two sets change only in the step that ends a
transaction or the process.

**RunLoopProofs** proves `FailuresAreDurable`, `ClaimsAreStored` and
`AbortIsEarned` for every set of `Faults`; `NoUnrecordedCycle` when raw sqlite
errors are not among them; `ProposalsAreFresh` when workspaces can be removed; and
`ReportsMatchStore` when neither fails. These two hypotheses are the boundaries at
which section 5 shows the code to lose the property. What is left of
`ReportsMatchStore` without them is one direction, `ClaimsAreStored`: what the
history calls judged or accepted was committed, and reports count no acceptance
the store has not. `RowsCovered` accounts for the failure rows: each failed cycle
of the history has a committed one, and committed and pending rows exceed these by
at most the ones whose commit raised, since no other attempt leaves a row behind. The invariant places the counters against the history in each phase
(`Place`), says how far the cycle in progress got (`Cycle`), tallies the history
by outcome (`Tallied`) and says that the failure counter measures the failed
cycles the history ends with (`Streak`), without which the cap could be reached
unnoticed. The lemma on appending to a tally carries the arithmetic.
`RunsAreFinite` is about steps: every step of a run lowers `Fuel`, the cycles left
times eleven plus the rank of the phase, so a run takes at most
`11 * MaxCycles + 13` steps for every set of `Faults`. No failure, in the body, in
the catch-all or while it is recorded, leads back to an earlier phase without
counting a cycle.

**SubmissionVerifierProofs** proves `WinnersAreBest`, `ImprovementsOnly` and
`ScoresAreCurrent` for all three pipelines, with deaths of the process and
abandoned calls. Three facts carry it: the slice of the evaluation that is
awaited is still the accepted set, because nobody else commits meanwhile
(`Awaited`); a score found in a ledger is the one recorded, although a ledger also
holds scores of evaluations nobody waits for (`Evaluated`); an accepted proposal
keeps the scores it was accepted with (`Filed`). `BestOfOne` then shows that the
bar a gate computes is the recorded score of the one incumbent, whichever of the
two sources it comes from. `BarIsTopTenth` is about an operator: the model defines
the leaderboard's threshold by counting the entries above it, and the theorem says
that this is the entry the code gets by sorting and indexing at rank
`ceil(n / 10)`, clamped, for every leaderboard.

**ControlServiceProofs** proves `RecordsAreOwn` and the step property
`RecordsStay`. The argument is about the queue: the run in a task's cell waits no earlier than any other waiting run of the task (`CellIsLast`), so the id
a body reads is its own, or that of a run that still waits and raced with it
(`LockSound`).

**WorkersProofs** proves `AcceptsRestOnCleanExit`, `ReaperStaysInScope` and
`NothingSurvives`. How any step may change a container is proved once (`Evolves`:
labels are kept, it ends at most once, and is reported clean only after a clean
end); the last theorem also needs that, as long as nothing went wrong, what runs
is what the control plane holds (`HoldsAll`).

**AgentProofs** covers what a cycle's agent is given and what its loop does.

- `DigestFaithful` and `ProvisioningFaithful` (`ContextServing`). What is served is
  a function of the store, so the invariant (`StoreInv`) is about the store alone:
  stamps increase with the ids and along the trail (`Stamped`), the two tables
  together hold the trail (`TablesHoldTrail`), the correction is its end
  (`CorrectionIsLast`), and between cycles the workspace is empty (`Fresh`). The
  rest are lemmas about the operators. A sorted sequence puts each element at the
  number of elements before it (`RankedSequence`), which makes the merged digest the
  trail reversed (`SortedIsReversed`). Each policy selects a submission at most once
  (`SelectsOnce`). The admission loop has, after every round, counted exactly the
  files, bytes and omissions of the submissions seen so far (`RoundsOK`). Induction
  over the store is by a least counterexample (`LeastNat`): the library's induction
  rules take an operator as a parameter, its `WFMin` takes a set.
- `BudgetAlwaysHolds`, `FailureAlwaysExplained` and `CyclesAreFinite` (`AgentLoop`),
  for every budget: the middleware's count is the true one while the agent can still
  make a step, the framework's is at most `SuperSteps` times it, and a worker that
  leaves by itself has logged its telemetry. The variant of the last (`Fuel`) adds
  the steps left, each worth its parse retries, the stages ahead and the clock; that
  a tool call that cannot be parsed, or the guard that invokes the agent again, uses
  it up is what needs the budget's invariant.

**TaskSetupProofs** proves `InputsSurvive`, `KeyStaysIsolated` and
`BuiltInsPrevail`. The last rests on discovery alone: in every order that
`core_first` allows, the entry points before a core one are core ones, so no name
of a core entry point that loads is held when its turn comes (`CoreWins`).

**Only model-checked:** liveness (`RunEnds`, `RunsFinish`, `EvaluationEnds`,
`WaitEnds`), which is out of the prover's reach. Of runs and of cycles the part of
it that is safety is proved (`RunsAreFinite`, `CyclesAreFinite`): they cannot go on
for ever. That a step is always possible, and is taken, is TLC's. `Competitive`'s
calibrated estimate (`EstimateBelow`) is an arbitrary decision to the proofs.
`VerdictFitsSubmission` is violated.

## 5. Where the code and its documentation part

The models contain what the code does. Where a comment, docstring or ADR says
otherwise, the property is stated with the exception, and its comment names it.

*Orchestration loop.* A raw sqlite error in `record_cycle_failure` leaves
`run_cycle` and `run` (`api.py:695`; "never an un-recorded run abort",
`api.py:601`). When it is the commit of that row that raises, the row stays
pending and the one the catch-all writes (`api.py:664`) commits both: two rows of
`cycle_failures` for one cycle. In the same way the failure row of a cycle whose
acceptance could not be committed may publish that acceptance, of a cycle reported
as a sandbox failure. A `regenerate` that fails after the commit turns an accepted cycle
into a sandbox failure (`api.py:645` against `api.py:405`), and the next cycle
then starts on the old workspace. The catch-all reports a cycle whose row was
proposed as `sandbox_error` (`api.py:663` against `api.py:123`) and makes misuse
errors failed cycles (`contracts/errors.py:22`, "remain fatal"). A malformed
proposal resets the failure counter (`api.py:755` against `api.py:148`). A
harvested child is committed without consulting `refine_cap` (`api.py:471` against
`api.py:143`). The history of a resident task is never reset, so a run's record
covers earlier runs too.

*Control service.* A second submission overwrites the run-id cell before the
first body reads it (`control_service.py:198`). A task of a prior process cannot
be rebuilt: its builder proposes the root id again and the store refuses
(`control_service.py:303`, ADR 0004 line 185). The report in the failure handler
may raise, and the job stays claimed (`control_service.py:217`, "never raises").
After a restart run ids are unknown (ADR 0004, lines 315-319, promises a boot
reconcile).

*Store.* When `commit()` raises, nothing is rolled back (`store.py:359`): the rows
may be committed by the next transaction, so a cycle that was reported as failed
may turn out accepted. Handlers read through open transactions. `put_object`
rewrites a file others refer to, and `get_object` does not verify the hash.

*Verifier.* The transport's timeout (38,880 s) is shorter than the gates' wait
(86,400 s): an abandoned evaluation goes on, may spend a Kaggle call on what is no
longer an improvement, and makes "the most recent submission is ours"
(`kaggle_client.py:150`) false, as do the team's own submissions. A verifier that
is lost in mid-run is not set up again until the next run. `_best_incumbent` is
documented to read recorded scores first, and reads the ledger first.

*Workers.* A broad sweep hits runs in flight: a code-runner it kills exits
non-zero, and the submission is durably rejected. Launched verifiers and their
code-runners carry no run label, so a sweep for a run misses them. A verifier that
never becomes healthy is held by nobody (`verifier_launch.py:179` against
`api.py:731`).

*Agent.* Turns of the finalize guard are not streamed, and a budget that ends
inside it is swallowed; the soft clock starts anew with each invocation, the hard
one does not. Malformed descriptors and unreadable outboxes fail a cycle without
telemetry.

*Context.* When the limits leave out every artifact there is no `INDEX.md` at
all, so nothing says that something was omitted. An artifact rejected at the
refine cap appears in the digest without its rationale. `configure` records a
schema version before the contract check refuses the build.

*Set-up.* ADR 0006 says that a plugin "can never silently shadow a built-in"; it
can when the built-in's own entry point fails to load, since the boot check looks
at names only, and not at `fe-holdout`. A kill in `TaskIndex.put` leaves a task
that is listed and cannot be parsed (never one whose creation was answered). A
provisioning spec that does not parse raises after the root is seeded, which
makes the task unbuildable for ever.

## 6. Not modelled, and what is left

Not modelled: the agent and its prompts and the judge (language models), the
`code` domain's two gates (they add no state, and `CommitPath` tries every bundle
they could give), wire encodings, the rendering of context and reports,
telemetry, pricing and the evaluation harness, the read-only HTTP handlers, the
client and the CLI.

Left, in order of importance:

1. The compositions of section 2 are by correspondence of phases, except for the two
   refinements, `CommitPath` of `ArtifactLedger` and `StoreSession` of `AtomicStore`.
2. A theorem that the calibrated estimate stays on the scale would cover the
   competitive rung's arithmetic. It sums over a set, and the sum is a fold, of which
   the provers know nothing.
3. `CommitPath` over `AtomicStore` itself, with transactions in doubt, would show
   which of its theorems survive a `commit()` that raises; `StoreSession` shows it of
   whole transactions only.
