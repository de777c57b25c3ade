# A TLA+ model of the spec-driven development platform

This directory is a verification development of the platform in this
repository: TLA+ modules translated from its source, TLC configurations that
check them on small instances, and TLAPS proofs of what matters most for every
value of the constants. Paths below are relative to the repository's root.

`PROJECT.json` is the machine-readable side of this file: the components and
their modules, the runs, a mutant for every checked property (a plausible bug
that TLC must then find), the source lines of every definition, the findings, the
hazards and the theorems.

## 1. The system

The platform lets a language model work on a repository without trusting it. A
*core* owns every effect; an *adapter abstraction layer* (AAL) turns model
answers into proposals; a *console* composes a run, serves a human plane over
HTTP and shows what happened.

| Component | State it keeps | Operations | Talks to |
|---|---|---|---|
| Lease and event log (`core/src/state`) | SQLite tables `events`, `leases`, `lease_fences`; a session object per process | claim, renew, verify, release, reacquire; append, fenced append | everybody; shared by processes through the database file |
| State machine (`orchestrator/machine.ts`) | none: a table | transition, resumeTransition | loop, merge, human plane |
| Task loop (`orchestrator/loop.ts`, `control.ts`) | task state, feedback, round, operator signal | one long async function; pause, resume, kill, inject from outside | source, executor, gates, budget, lease |
| Budget (`budget/budget.ts`), hypothesis engine (`repair/hypothesis.ts`) | iterations, cost, excluded time; verdicts so far | note, exceeded, remaining; probe until one confirms | loop, executor |
| Executor (`executor/executor.ts`) | intents and applied events, snapshots, the worktree | execute, recoverWorktree | log (fenced), command executor, mutation helper |
| Command executor (`executor/command-executor.ts`, `patch.ts`) | a disposable copy, inventories of it and of the worktree | run, capture, check, promote; install offline; snapshot | process runner, mutation helper, frozen trees |
| Process runner and sandbox (`security/`) | one child, its process group, timers | run, runCoreTool, cancel | the operating system |
| Mutation helper (`executor/mutation-path.ts`) | quarantine and staging of one batch | apply all of a batch or none | the file system |
| Gates (`gates/`) | frozen trees, signed reports, the RED store | runTier, verify, capture, freeze | log (fenced), evidence |
| Evidence (`evidence/`) | content-addressed blobs, signing material of a run | put, get, open, recover | gates, merge, auditor |
| Merge (`merge/`) | merge-queue lease, git refs, task state | process, runAutoMerge, runApprovedMerge | gates, lease, git |
| Run composition and human plane (`console/backend/src/loop-run.ts`, `human/`) | pending packages, the one waiter of a decision, active task and lease | decide, steer, kill, deploy, govern | loop controller, log |
| Contract and task graph (`contract/`, `graph/`) | frozen documents, state of each task | freeze, gate, order, select the next | run composition |
| Deploy (`deploy/stage.ts`) | canary stage | advance, observe, roll back | run composition |
| Governance and lessons (`governance/`, `lessons/`) | an append-only JSONL log; pending and approved files | preflight, propose, approve, promote, load, quarantine | run composition, an offline command |
| Out-of-band audit (`audit/oob.ts`) | none but the log | select, clone, rerun, compare, escalate | log, evidence, git |
| PR gate (`core/src/pr-gate`, `console/backend/src/pr-gate`, `aal/src/pr-review`) | a projection per run, check publications, human decisions | start, execute, supersede, cancel, override, recover | GitHub, reviewers, judge, sandboxed checks |
| AAL: source, routing, breakers, buckets (`aal/src`) | registry, breaker windows, statistics, token buckets | propose, route, send, repair, record | adapters, lease, context |
| Fusion (`aal/src/fusion`) | a panel | seat, fan out, resolve, judge | adapter pool, gates |
| Context and data policy (`core/src/context`, `security/data-policy.ts`) | none | build a bundle, allow it | source |
| Vendor adapters (`adapters/src`), conformance suite (`aal/src/conformance`) | replay files, temporary directories, a child or a request | send, probe | vendors |
| Console (`console/backend/src`) | chat and terminal sessions, a scheduled child, drafts, logins | HTTP and socket handlers | files, child processes, a run's human plane |

**What is hard.** Processes share a task through a database whose clock they
each read at a different moment; a process may stop between any two statements.
Inside a process JavaScript is single-threaded, but every `await` is a place
where the human plane changes a signal, a timer fires, a lease runs out, a file
is edited and another process takes over. Effects reach the worktree and git,
which are not transactional with the log. Freezing a tree reads one path after
the other while others write. A child process may ignore its end, and its
descendants may leave its group. Budgets, caps and leases are all compared at
their last instant or unit. `PROJECT.json` lists each of these hazards at its
line with the property that would catch it.

**What makes the components correct.** Lease: one owner per generation, nothing
of an old generation after a new one, log and table in agreement. Loop: only
legal moves, nothing requested on a spent budget, what an operator was told is
accepted is heard before the next round, review only after both gates on one tree
under the lease, kill final and effective, lease released at the end. Executor: the settled worktree is what the applied events say, each
effect once. Command executor: what is promoted is a state the copy really had,
and a change the role may make. Helper: all of a batch or nothing. Runner: every
call returns and says why. Gates, evidence, audit: what is signed was run, with
the one key of the run, and an audit compares the merge itself. Merge: main
advances only to the tree that was approved and tested, and what is on it has a
task that answers for it. Human plane: a kill is
final, a deployment ends settled, a decision reaches its own task. PR gate: a
green check is earned or a human's. Governance: no lesson without an approval, no
lesson lost, and no approval without effect but for one cut short by a crash. AAL: an adapter gets only what its data policy
allows, a send is paid once, a panel's winner is measured. Console: whatever
fails, fails closed.

## 2. Modules

A module stands for one component, an action for what its code does from one
`await` (or one place where another process can get in) to the next, and a
definition keeps the name of the function it translates.

| Module | Models | Builds on |
|---|---|---|
| `FencedOwnership` | the abstract promise of the lease: numbered generations, a journal only the holder of the current one may extend | - |
| `Lease` | `state/lease.ts`, the fenced append of `event-log.ts`, processes that crash, a clock | refines `FencedOwnership` |
| `TaskMachine` | the transition table | - |
| `TaskLoop` | `loop.ts` with controller, budget and hypothesis engine | `TaskMachine`, instance of `FencedOwnership` |
| `MergeLedger` | the abstract promise of `merge/`: main is a ledger that only grows, by gated work on its signed base | - |
| `ApprovedMerge` | `auto-merge.ts`, `queue.ts`, `artifact-binding.ts` and what loop-run does between review and merge | `TaskMachine`; refines `MergeLedger` |
| `ActionLedger` | the abstract promise of the executor: accepted actions form a ledger that grows by one application on top of what the last entry left and shrinks at its end only; at rest the worktree is what the last entry left | - |
| `Executor` | `executor.ts`: admission, intent, snapshot, apply, capture, rollback, recovery, replay, invalidation | refines `ActionLedger` |
| `ProposedActions` | the default action ids of `adapters/src/wire.ts`, with the executor behind them | `Executor` |
| `CommandExecutor` | `command-executor.ts`, `patch.ts` and the freezing of `frozen-tree.ts`, path by path | - |
| `CommandRunner` | `command-runner.ts`, `sandbox.ts`, the operation control of `frozen-tree.ts` | - |
| `MutationBatch` | `mutation-path.ts` with its two larger users in `executor.ts` | - |
| `GateRun` | `gates/runner.ts`, `report-integrity.ts`, `red-provenance.ts`, `golden.ts`, `convention.ts` | - |
| `EvidenceStore` | `evidence/store.ts`, `evidence/auth.ts` | - |
| `OobAudit` | `audit/oob.ts` beside the merges whose log it reads | - |
| `DeployStage` | `deploy/stage.ts` | - |
| `SupervisedRun` | `loop-run.ts` and `human/api.ts`: one task or a graph, with merge, approval, deployment and end | `TaskMachine`, `DeployStage` |
| `TaskGraph` | `contract.ts`, `graph.ts`, `select.ts` | `TaskMachine` |
| `Governance` | `policy.ts`, `lessons.ts`, `governance-cli.ts` | - |
| `PrGate` | `core/src/pr-gate`, the manager and ports of `console/backend/src/pr-gate`, `aal/src/pr-review/panel.ts` | - |
| `AdapterPool` | registry, breakers, eligibility, routers, statistics, routing policy: operators over a pool record | - |
| `ContextBuilder` | `context/builder.ts`, `data-policy.ts`: operators over a worktree | - |
| `ProposalSource` | `aal/src/source.ts`, `repair.ts` | `AdapterPool`, `ContextBuilder` |
| `Fusion` | `aal/src/fusion`, `dispatch.ts`, `ratelimit.ts`, `console/backend/src/fusion.ts` | `AdapterPool` |
| `VendorAdapter` | `send()` of the CLI, Codex, SDK and HTTP adapters | - |
| `Conformance` | `conformance/harness.ts` against `fake-adapter.ts` | - |
| `Console` | chat, terminal, schedules, loop proxy, issues, settings files, login | - |
| `Proposals` | what comes from a model, through source, adapter and suite | `ProposalSource`, `VendorAdapter`, `Conformance` |
| `RunRecords` | reports, red records and audits together: what a run is judged by | `GateRun`, `OobAudit` |
| `LeaseProofs`, `TaskLoopProofs`, `ApprovedMergeProofs`, `ExecutorProofs` | theorems about one component each | the module they are named for |
| `DriverProofs` | theorems about the two drivers a person steers, and the types of the services as a whole | `SupervisedRun`, `PrGate`, `MCServices` with `ServiceProofs` and `ProposalProofs` |
| `ProposalProofs` | theorems about what is asked of models and what becomes of their answers | `Fusion`, `Proposals` |
| `EffectProofs` | theorems about the way of a command's effect into the worktree, and the types of the execution side as a whole | `CommandExecutor`, `MutationBatch`, `CommandRunner`, `MCExecution` with `ExecutorProofs` |
| `ServiceProofs` | theorems about the services around a run | `EvidenceStore`, `Governance`, `Console`, `TaskGraph`, `RunRecords` |
| `MCLease`, `MCTaskLoop`, `MCApprovedMerge`, `MCSupervisedRun`, `MCProposedActions`, `MCExecutorRecovery` | values of the constants for TLC | the module they are named for |
| `MCExecution` | the four modules of an action on its way to the worktree, for TLC | `Executor`, `CommandExecutor`, `CommandRunner`, `MutationBatch` |
| `MCServices` | the components around the loop, for TLC | the other component modules |

### Lease

`row`, `fence` and `log` are the three tables for one task; `sess[o]` is the
`TaskLeaseSession` of process `o` (its claim, `lost`, whether the timer runs) and
the clock value an append in progress has read. Each SQLite transaction is one
action, because `BEGIN IMMEDIATE` takes the write lock. `appendFenced` reads the
clock *before* that lock, so it is two actions, `StartAppend` and `appendFenced`,
with anything in between. `heartbeat` may fire at any time, or never: `Tick` owes
nothing to the timer. A process may `Crash` between any two actions. A database
from before fencing, with a row of token 0 and no fence row, is one of the
initial states. An owner identifier is used by one process only (loop-run draws a
fresh one per run), so a process that died does not come back as itself.

### TaskLoop

`pc` names the next `await`, or the next ownership check, of
`runTaskLoopWithLease`. Everything between two such places is one action. The
human plane acts only where the loop is awaiting (`Yielded`); a rival process,
the clock and other hands in the worktree act anywhere. `task` is the state
variable of the loop and whether `move` ever met an illegal trigger (it logs an
`ERROR` and goes on). `round` is the proposal being carried out: its claim,
actions left, whether one was rejected, and for each gate the frozen tree and the
verdict. `feedback` keeps only its kind. The lease is `FencedOwnership` with
owners `Self` and `Rival`; `verifyOwnership` is the ownership check and
`MayCommit` what the fenced append demands. The difference is the point: a fenced
append compares with an older clock, so a lapsed holder that was not replaced may
still commit, and `MayBeFenced` and `MayCommit` overlap.

Abstracted: payloads, prompts, the contents of events; the wall-clock limit is
one bit that may be set at any moment the loop is not paused; a usage that does
not validate is one choice; the local counter `iterations` (only reported) is not
kept, the tracker's is. Role `implementer` with control port and evidence store
is modelled, as loop-run composes it; `releaseLease: false` (loop-run releases
after the merge) belongs to `SupervisedRun`.

### ApprovedMerge

A commit of main is named by its first-parent history (`main` is the history of
the tip), which is what a git hash does: equal names, equal contents and
parents. `tip[t]` is the revision of a task's branch, 0 for the tree the gates
ran on and 1 for a later push. `worktree` is HEAD of the one integration worktree
under the state directory that every queue of the repository resets and merges
in; `queue` is the row of the `__merge_queue__` lease. `task[t]` holds the state
and the locals of `runApprovedMerge`: the place `at`, whether the task goes
through the queue, whether its own lease still stands, the signed `base` and
`artifact`, the merge commit, the verdict of T2 and, once over, the reason.

An action is what one process does between two places where another process can get in:
a git command on a ref or on the integration worktree, or an `await` (T2, the audit, the
human). The verification of a binding is several git reads and is one action; so is an
ownership check with the git command behind it. The processes are separate
operating-system processes, so the small windows inside these actions exist and are not
explored. Other hands push to main (bounded) and to task branches, task leases are lost,
processes die anywhere. The queue's lease lapses only in T2 or under a dead owner: ten
minutes are enough for the git commands, while a tier is several checks of up to five
minutes each. The exit codes that the code ignores are choices: after a failed audit
`git checkout main` may fail, so that the revert lands on whatever is checked out, and
`git revert` may fail, so that nothing is reverted (`revertMerge`); the task is
escalated either way. An integration worktree that is missing, or dirty after its reset,
throws (`reset`).

Abstracted: signatures and trees (a branch carries the gated tree or it does not), merge
conflicts and preparation failures (a choice), a `git reset` that fails and yet leaves a
clean worktree, the sampling of audits (a choice; in the code a hash of run and task).
Kill, quarantine and the deferral of a split belong to `SupervisedRun`; here a human
approves, asks for changes or lets the approval time out.

### Executor and the path to the worktree

`Executor`: `worktree[a]` says how often the effect of action `a` is in the tree,
and `worktree["foreign"]` what nobody of this run put there; a snapshot and an
artifact identity are that value. `events` is the part of the log the executor
reads back: intents, applied, rejected and invalidated; a READ_FILE's result is the
hash `Blob`. `proc[p]` is one process inside `execute` or `recoverWorktree`, with
the place it awaits at, its intent and its snapshot; `owner` is who holds the
lease, and the others do not know it yet. Crash, takeover and a failing apply,
capture, restore or replay come anywhere (`MaxFaults`). The history variable `trust`
says whether tree and log should agree: "suspect" after a foreign write that the
next admission finds, "lost" when nothing finds it any more (a write by others while
the owner is past its admission, or before anything was accepted; a terminal that a
replaced owner appends without the fence; the replay of a generation that was
invalidated before), "halved" when a recovery died between two of its rejections,
which is the finding `OnceDespiteCrashes`.

`CommandExecutor`: `disk` holds three trees, the worktree, the disposable copy and
the capture, as functions from files to entries, and counts the writes (every write
has fresh content). A freeze reads one file per step and compares two passes;
`base` remembers what a tree was when it was last listed. Other processes write to
the worktree and an escaped descendant of the command to the copy (`MaxWrites`), at
any step. Kinds of files (manifest, package below an output root, staging,
ignored, golden, frozen RED test) are sets of files, because the checks tell
nothing else apart.

`CommandRunner`: one child with its pipes, captured output and descendants that
stay in the process group or leave it; a timer, a caller's signal, the output
limit and the platform's sandbox. Node's "close" needs every holder of the pipes
gone. `MutationBatch`: `fs` is the tree, `txn` the helper's place in its batch with
quarantine and staging; foreign writes (`MaxForeign`) come between any two renames,
a step may fail and the helper be killed.

### Gates, evidence, audit

`GateRun`: `gate` is a run of the ladder (frozen trees, results and retries of the
checks, report), `store` the RED store with what the log holds of it; edits,
damage to evidence and restarts come in between. A report authenticates when its
key is the run's and the evidence it names is what was stored. `EvidenceStore`:
one blob address and the signing material of one run directory, written step by
step by several `Openers` that may end between any two writes. `OobAudit`: one
append-only log with the merges' `GATE_RESULT`s and the auditors' own, several
auditors that select by a salted hash (`FoldValue` against a rate), may die at any
await and do not know of each other. An auditor's targets are the places in the log
where their tasks were first completed, and it takes the foremost one each time.

### SupervisedRun and what it drives

`run` is the driver (place, task, rounds, result), `plane` what the human plane holds
(killed, paused, quarantines, requests left), `approvals` and `decided` what is pending
and what was said, `stage` the deployment, `merged` how each task was merged. The eight
requests of `human/api.ts` arrive wherever the driver awaits; the loop and the merge it
awaits are their modules' outcomes, one step per await that the human plane can see.
Each of them may throw (`TaskThrows`): the run is rejected with the task as it was.
`DeployStage` gives the stage its steps. `TaskGraph` is a pure front end (freeze, gate,
Kahn's order taken one queue step at a time, what is ready in any order) followed by the
selection loop, with outcomes that strand their dependents. `Governance` has two
processes, the run and the offline command, over one JSONL log and the lesson files; a
file being written is "torn" until complete, and the run may die between any two of its
file operations.

### PrGate

`runs[r]` is the projection of a run's events with the locals of `execute`;
`at` names the next await. `checks[r]` is what GitHub shows, `overrides[r]` the
human decisions in the log, `calls[c]` an override in progress. Pushes, deadlines,
cancellations, overrides and the end of the process come anywhere; GitHub may have
applied a call that failed. Severities, risks and coverages are ordered numbers;
a judged finding is its class and severity; a repository policy only tightens the
organization's. What a run forgets when it ends abnormally is reset, so that equal
futures are one state.

### AAL, adapters, console

`AdapterPool` and `ContextBuilder` are operators, `ProposalSource` and `Fusion` the
processes over them: a round of `propose` with its bundle, route, policy, fence,
send, at most one re-route, repair rounds and the judgement of the answer; a panel
whose workers interleave at a token and at an answer. Sizes, statistics and texts
are reduced to the order or the verdict they give. `VendorAdapter` sends one
request id again after errors and restarts; the provider's end, the caller's abort
and the timers race in each of four transports, and error texts are the set of
words the classifiers look for. `Conformance` runs the suite against every
behaviour of the fake. `Console` has seven small parts (chat, terminal, schedule,
proxy, issues, settings, login), each with its sockets, timers, browsers or child
and a crash of the console.

## 3. Runs

| Run | Asks | Shows |
|---|---|---|
| `lease` | is the protocol consistent, and is it fenced ownership? | pass |
| `task_loop` | is one loop safe against operator, rival and clock, and does it end? | pass |
| `approved_merge` | is main a ledger of gated work, with two tasks that merge at once? | pass |
| `execution` | does exactly the accepted work reach the worktree, and does every call return? | pass |
| `services` | do the components around the loop keep their promises? | pass |
| `end_is_structured` | REQ-6.6 of the phase-0 conformance spec | violated, see findings |
| `last_iteration` | REQ-7.8 of the phase-0 conformance spec | violated, see findings |
| `half_invalidated` | the header of `executor.ts`, REQ-6.2 of the phase-0 spec | violated, see findings |
| `main_after_t2` | the header of `queue.ts` | violated, see findings |
| `escalated_on_failure` | the comment of `runApprovedMerge` | violated, see findings |
| `own_approval` | A4 of the platform phase-5 stage-4 spec | violated, see findings |
| `later_round` | the comment of `fake-adapter.ts` on action ids | violated, see findings |

**Side by side.** In `execution` and `services` a variable `part` names the one
component that moves in a behaviour; the others stay in one of their initial
states. The components of these runs share no variable: they meet through the log,
which each models the part of that it reads, and through values they hand over.
So the run is the disjoint union of their state spaces, and each invariant speaks
about its own part. Where two components do interact through state they are
composed by EXTENDS or INSTANCE (`TaskLoop` with the lease, `SupervisedRun` with
`DeployStage`, `ProposedActions` with `Executor`, source and fusion with the pool).

**Properties that name several.** Each conjunct stands with its comment in the
module of its component.

| Property | Conjuncts |
|---|---|
| `RecordsAreTrue` | `EvidenceIsTrue` (a signed pass was earned on the frozen tree, RED records are in the log) and `AuditsAreTrue` (an audit compares the merge itself; one verdict per auditor and merge) |
| `ProposalsAreSound` | `ProposalsAreCovered` (bundle, policy, budget and actions of a round), `SendsAreHonest` (one timely answer per request id, a stop is reported, a send ends by itself unless a descendant holds the pipes of a child that ended, the sandbox follows the child), `SuiteDiscriminates` (each fault fails its own probe, ids cost once) |
| `DecisionsAreEarned` | `PassIsEarned`, `OneDecisionPerKey` |
| `GovernanceIsHonoured` | `LessonsAreApproved` (none without a person's approval), `NoLessonIsLost` (a complete file at every moment), `ApprovalsTakeEffect` (a complete file in `approved/` while a task runs, unless a crash cut the writing short) |
| `PlanIsRunnable` | `OrderingIsExact`, `NoTaskIsStranded` |
| `ConsoleFailsClosed` | `ToolCallsFailClosed`, `SingleWriter` (nobody writes to a terminal after one that attached later has), `ActsAreBacked` (one scheduled child, deletions previewed, a converted issue has its draft), `EndedMeansEnded`, `EditsAreKept`, `LoginIsEarned` |

**Bounds.** *lease*: two symmetric processes, TTL 1, clock up to 4, five events:
claim, lapse, takeover, a second takeover and a late append of each side; the
bounds are guards of `Tick` and of `insertEvent`. *task_loop*: three iterations of
which the last two may be a diagnosis, cost limit 2 with charges 0 to 2 (below, at
and over the limit), one action per proposal, one evaluated hypothesis of up to two
proposed, two probes, two trees, generations up to 2 for the rival's claims (the
loop's own on resume may be one more). *approved_merge*: two symmetric tasks, each
direct or queued, and one commit by others: a rival merge between signing and
compare-and-swap, a takeover of the queue during T2 on either side of the first
candidate's end, an audit's revert on top of somebody else's commit, a second merge
signed on the first.

*execution*, executor: two processes, two action ids, five events, two faults: a
crash during the recovery from a crash, a takeover in mid-action, and a recovery
with an accepted generation before the dangling one. Longer ones (three faults, or
one process with eight events and four faults) were run once and agree; the proofs
of section 5 have no bound. Command
executor: six files, one of each kind but golden (whose guard is the one for RED
files), two writes by others, at most four files and a diff of two, so both limits
are met and passed. Runner: two descendants, one chunk of output under the limit
and one over. Helper: a file, a directory and a file in it, five trees, one foreign
write, two batches in a row.

*services*, gates: one edit, report and damage each. Supervised run: two tasks,
two requests of the human plane, one lost lease, one round, two probes with a
threshold of one. PR gate: two runs, four slots, one push, two override calls with
one key; the second call moves only while there is one run (`PrBound`): two runs are
checked with one call, two calls with one run. Evidence: two openers, one mishap. Source:
two rounds, one repair, two accumulated paths, windows of two. Fusion: two refills,
two activations. Governance: one lesson, one edit of the policy, three runs and the
offline command. Graph: three tasks with nine dependency lists each. Audit:
two auditors, two cycles. Adapters: two sends, one crash. Conformance: two suites.
Console: two turns, three tickets, two login flows, two attempts. A quantity that
only counts is bounded where its limit is met and passed once; where the order of
two actors matters there are two of them.

Deadlock is checked in *task_loop*, whose loop never waits for what cannot come.
Everywhere else the system really ends: clock and log are full, every merge is
over, every call has returned.

**Fairness.** `WF_vars(LoopStep)` for the loop: every await of it ends, because
adapter calls carry deadlines and commands and gates have timeouts. `waitResume`
is not a step of the loop but of the operator, who owes nothing; that is why
`ReleasedInTheEnd` asks that the loop is not left paused, while `KillEndsTheLoop`
needs no such condition. `RunnerFairness`: the operating system spawns, the timer
that was set fires, a child whose pipes nobody holds is closed, and Node runs the
callbacks that are due. Nothing is asked of the child or of its descendants, so
`EveryCallReturns` excepts a descendant that left the process group.

## 4. Findings

* `EndIsStructured`: the `LeaseFenceError` of a refused `PROPOSAL_INTENT` is
  caught by nobody, so a lease lost at that moment ends the loop by an exception
  with the task in a working state, where REQ-6.6 wants a structured outcome.
* `NoRequestAfterLastIteration`: the diagnostician is asked after the last
  allowed iteration; only the remaining cost is looked at there (REQ-7.8).
* `OnceDespiteCrashes` (code): a recovery that fails closed withdraws its suffix
  one append after the other. When the process dies after the rejection of an
  accepted command and before that of the dangling intent behind it, the next
  recovery takes the dangling intent's own snapshot as its boundary, which holds
  what was just withdrawn: the command is no longer known as applied, runs again,
  and its effect is there twice. The header of `executor.ts` promises exactly once,
  "sound even for non-idempotent RUN_COMMAND".
* `MainOnlyAfterT2` (code): the commit that the queue publishes is read from the
  shared worktree after T2. When the lease lapsed meanwhile it may be the merge
  of the candidate that took over, which had no T2. `OnlyGatedWorkOnMain` and
  `CompletedAsSigned` hold all the same: what lands is approved work on its
  signed base, and the first candidate fails the check of its merge.
* `EscalatedOnFailure`: when main or the branch moved after the approval,
  `runApprovedMerge` fires `escalate` in APPROVED, where the table refuses it; the
  task is reported with an `ESCALATED` event and the state APPROVED.
* `MergedOnItsOwnApproval`: the package of a task whose wait ended without a
  decision stays pending, and there is one waiter for all tasks. A late approval of
  that package resolves the wait of the task that is active by then, which is
  merged (A4 of the stage-4 requirements).
* `LaterRoundsTakeEffect` (code): an action without an id is named after its
  position in the round, so the first such command of a second round has the id of
  the first round's and is skipped as its replay. `ProposedActions` composes the
  naming with the executor, and the trace is two rounds with one command each and no
  id. An id that the model gave itself is outside the property: repeating one is the
  documented way to ask for a replay. It is known, and left out of scope, at
  `.ai/specs/context-accumulation/requirements.md:287-288`.

**Seen while modelling, without a run.** Each is in the model where it changes a
state (the properties hold with it), or is named here because the model stops
short of it.

| Where | What |
|---|---|
| `loop-run.ts:840`, `:917` | a kill during the last gate run or the merge is not polled; the wait for an approval then runs to its timeout and a human may still approve |
| `loop-run.ts:886` | a live quarantine is written to the log only, and the running loop's next state overwrites it |
| `loop-run.ts:1753-1767` | a run that dies before its tombstone leaves a discovery file that looks live |
| `human/api.ts:173`, `:276` | an approval is logged before `onDecision` may refuse it; a pause taken in REVIEWING waits for the next task of a graph |
| `auto-merge.ts:648-657` | the exit codes of `git checkout main` and `git revert` are ignored: when one fails, the mismatched merge stays on main (or the revert lands elsewhere) and the task is `ESCALATED` as if it had been withdrawn; `MainIsAnsweredFor` says what holds of it. After the `update-ref` of a main that is checked out the working tree is stale, so a refused revert is not far-fetched |
| `deploy/stage.ts` | a manual rollback in flight when the window has closed is answered ok and does not roll back |
| `executor.ts:2253-2300`, `:2023` | a suffix that holds a generation invalidated earlier replays it, because its terminal still is an `ACTION_APPLIED`; a foreign write before anything was accepted becomes part of the base; effects of a replaced owner land until its next fenced append |
| `loop.ts:282-285` | guidance injected during a diagnosis replaces the confirmed patch plan that waits for the next round, where the comment expects no pending feedback |
| `command-runner.ts:138-303` | a descendant outside the process group keeps "close", and so the call, waiting |
| `command-executor.ts:1589` | inventories compare contents: a file written and written back is unseen |
| `gates/runner.ts:395-401`, `:447-475` | the commit of a report is read before the freeze; a ladder without T2 checks passes T2 |
| `red-provenance.ts:285` | a crash between the designer's edit and the new RED run makes the store throw from then on |
| `evidence/store.ts:93-112`, `auth.ts:310-316` | a blob is created and then written; a crash between private key and metadata refuses the run's key for good |
| `audit/oob.ts:299-317` | a crash between the verdict and `ESCALATED` leaves a failed audit that nobody escalates; two auditors may judge one task |
| `aal/source.ts:352`, `:402-431` | request ids are fresh UUIDs, so a replay after a crash never reuses one; what a repaired send cost is not charged when it then fails |
| `aal/fusion/dispatch.ts:93-107` | a bucket that never refills makes `dispatchAll` wait for ever |
| `adapters/src/wire.ts:151` | the marker of a CLI timeout is classified as a transport error |
| `pr-gate/composition.ts:104`, `review-port.ts:21-27` | the replay directory outlives the run, so a second run on one head gets the first one's answers |
| `pr-gate` recovery | an interrupted run's GitHub check is not closed, and only the first hundred are looked at; an override during REPORTING leaves the check behind the decision |
| `policy.ts:450` | a policy that returns to a snapshot decided before gets the id of that decision and can never be approved again |
| `lessons.ts:95-118`, `:124-175` | write, unlink and log record of a lesson are separate steps, between which the process may end |
| `lessons.ts:169`, `:185-191` | a crash while the file in `approved/` is written: from then on the sweep takes the lesson for promoted, because the file exists, and the load skips it, because it does not parse; the approval has no effect (`PromotionCutShort`) |
| `reasoning-cli-live.ts:165`, `control.ts:36-41` | the signals of a timeout or an abort go to the child only: a descendant that holds its pipes keeps "close", and so the send, waiting, and no timer is left that reaches it |
| `term.ts:137-139`, `term-runtime.ts:89` | the upgrade attaches a second time: the ticket the socket writes with was never redeemed and stays redeemable until it expires; nobody is told it |
| `app.ts`, `govern.ts:34-36` | an existing empty file cannot be saved with the hash its GET returned |
| `oidc.ts:174-184` | a failed discovery and rotated keys are cached until restart |
| `api.ts` (chat), issues | a disconnect does not stop a turn; a crash between an issue's draft and its record lets a rejected issue keep the draft |

## 5. Proofs

`LeaseProofs`. The inductive invariant of `Fencing` says that the row's token is
never ahead of the fence, that without a row the fence alone remembers the last
generation, that no token in a session or in the log is ahead of the fence, that
tokens never decrease along the log, and that a token names one owner. The
checked invariants are not inductive by themselves: that an old owner cannot
commit follows only from its session's token being behind the row's.
`BeliefIsExclusive` adds that a session which believes has its own row, or the
same generation's. `LeaseImplementsOwnership` maps the initial states and each
action to an action of `FencedOwnership` or a stutter, with the row's owner as
holder, the fence as generation and the `EFFECT` events as journal.

`TaskLoopProofs`. `IInv` ties the task state to `pc` (`StateFollowsLoop`), says what
each check on the way established of the budget (`BudgetFollowsLoop`) and that no kill
is pending past the poll (`SignalFollowsLoop`). `StepInv` has one step per action. The
legality of every move, the bound on the rounds, the condition of `REVIEWING`, the
budget of a request, the finality of kill and that an operator is heard all follow from
it, for any limits, costs, trees and caps. The last one (`OperatorHeard`) needs that a
round polls signal and guidance after its last `await` and before it proposes, and that
only the answer to guidance clears it.

`ApprovedMergeProofs`. None of the properties is inductive alone. `Shape` says for each
place of the merge what the task's state and report are there; a merge commit is known
to be the signed one only from the direct path, the audit or the completion, because T2
may have published somebody else's. `MainIsSigned` says that signed bases are prefixes
of main, that every merge on main sits on its task's base and that only escalated tasks
are reverted. `WorktreeIsSigned` is what saves main when the queue's lease lapses during
T2: whatever the worktree holds then is main itself or one candidate's merge on a prefix
of main, and it extends the base of the candidate in T2; squeezed between the two
(`PrefixSqueezed`), what the compare-and-swap publishes is either main unchanged or a
candidate's gated work on main (`T2Lands`). That a merge on main has a task that answers
for it, and a revert a task that was withdrawn (`MainAnswered`), needs the place of
every task whose merge was published, since the revert, the escalation and the
completion come later, and any of them may fail or never come. `Effect` states once what
a step of a task does to its record; `StepShape` and `StepEffect` have one step per
action. `MergeImplementsLedger` maps each step to an action of `MergeLedger` or a
stutter.

`ServiceProofs`, evidence. `StoreInv` adds to the one key what each place of an opening
process knows of it: metadata is written once, exclusively, by a process that found
none, and a key is handed out only after it was compared with the metadata. So the
key stays one for any number of openers, crashes and removals.

`DriverProofs`, supervised run. `RunInv` has four parts beside the types: `TaskFollowsRun`
and `DeployFollowsRun` tie the task's state and the deployment to the place of the
driver, `KillSticks` says where a kill that came can still be unpolled, and
`StageCounts` bounds the probes. With them a kill stays effective through the eight
requests, and a run that is over left no deployment half done.

`ServiceProofs`, governance. The log only grows, so an approval that was read stays.
`GovInv` says of each lesson file which record vouches for it, at each file operation of
both processes (`LessonsAreApproved`, `PromotionsAreApproved`), and of a sweep in
progress which lessons it has already moved (`SweepIsComplete`); a process that dies
between two of its operations leaves one of the states described. A second induction on
top of it (`LessonsInv`) says what each place knows of the files it is about to touch
(`PlacesKnowFiles`): a copy is unlinked only where the other was seen complete, and a
lesson is written only where none was. So none is lost.

`DriverProofs`, PR gate. `RunFacts` carries what a run gathered to its report: at each place
the stages that were passed, that the answers are of different reviewers within the
cap, that a judged finding has its evidence, and that the decision of the report is
the one those give. `CallFacts` says what an override in progress has read, which
with the synchronous test-and-append keeps one decision per key.

`ExecutorProofs`. `SettledTree` and `ExactlyOnce` speak of rest only, so neither is
inductive. `TypeInv` types every process, fenced-out ones included, and says that
what each carries points into the log. `SoundInv` holds as long as the executor has
not lost track and no fenced-out process stands between two of its rejections, and
has three parts. `Good` is about the log alone: a generation has at most one
terminal, only the newest dangles, and the snapshot of each accepted generation is
the identity of the one before it. `DanglingFits` says that what dangles started
from the accepted tree with an action not yet known as applied; it may fail only
while the owner is half through the rejections of a failed recovery. `OwnerState`
says phase by phase what the worktree holds: the snapshot before an action, one
application on top of it in capture and record, the boundary or the accepted tree
in a replay. The key fact about plans (`PlanShape`) is that a plan is the dangling
intent alone, or is led by the last accepted generation with nothing accepted behind
it, so a replay has one boundary. There is one lemma per action of the owner; a step of a
fenced-out process either touches nothing that matters or is what `trust` records
as losing track. The case the properties leave out, a recovery that dies between
two of its rejections, is the finding of `OnceDespiteCrashes`.

`ExecutorImplementsLedger` maps each step of the executor to an action of
`ActionLedger` or a stutter: the ledger is the set of accepted generations with the
tree each left (`AcceptedLedger`), the reads are those on record, and the promise is
tracked while nothing has happened that no admission finds out (`OnTrack`). A step
changes the log in one of four ways (`LedgerMoves`), one lemma each; that the worktree
at rest is what the newest entry left is `SettledTree`, which follows from `SoundInv`.

`EffectProofs`. A tree is read path by path while others write, so that what was
frozen was ever there together needs an argument over the whole reading.
`CommandInv` says of a first reading that each path was so at some time since
(`Moments`: at the listing, or changed since and never back, because every write has
fresh content and `stamp` is ahead of all of it, `ContentsAreSeen`), of a second
reading what the part already compared implies (`SecondReads`), and of a snapshot,
which lists and reads twice from scratch, the same for the listing itself
(`StrictReads`). `CheckedChanges` keeps, from the comparison of the inventories to
the promotion, that the change is covered by roots and policy, and
`IgnoredAreRoots` that no ignored path outside the roots is among what was read.
`FrozenIsAMoment` and `OnlyAllowedEffects` follow, for any set of files of each kind,
any roots and any writes by others. The proof corrected the property: a file that is
deleted between listing and reading is taken for absent, although it was there when
the tree was listed.

`EffectProofs`, mutation helper. `BatchInv` has a part that holds whoever else writes
(`HelperShape`: the worktree is a tree, what the quarantine holds are parts of trees, an
accepted plan is consistent) and one for a batch that nobody disturbs. Going forward,
what is through is as desired and nothing else was taken away (`InPlace`); at every
step, rolling back included, undoing what was installed, taken and made would give the
worktree of before (`Undoable`), which needs that the three never overlap. They do not
because of the order of the items (`InOrder`) and of what a plan is (`Consistent`): an
item above one that stays becomes a directory itself, so it is taken before it
(`Order`), and what was removed lies above no later item (`RemovedLast`). That a restore
plans this way is proved for any two worktrees (`RestoreIsConsistent`), so
`AllOrNothing` holds for any tree of paths. TLC checked `BatchInv` before, on paths
three levels deep.

`ServiceProofs`, graph. `KahnInv` is the invariant of the ordering loop: the in-degree
of a task counts the dependencies not yet ordered (edges, so one listed twice counts
twice), what waits for nothing is in the queue, and no task of a closed set, one whose
members each wait for another member, was ever ordered. When the queue is done, what is
left over is closed itself, so it is the largest closed set (`KahnEnds`) and an accepted
graph has none (`Acyclic`). The run needs the converse (`NothingWaits`): if nothing is
eligible and no task ended badly, the tasks not started would be a closed set. Closed
sets replace paths, so no induction over the graph is needed.

`ServiceProofs`, console. The parts have an invariant each: a chat has a timer for
exactly the calls that wait and an audit entry for exactly those that are answered
(`ChatInv`); the writer's ticket is the last one issued and no two sockets are bound to
one, so at most one socket writes and none that was overtaken has written since
(`TermInv`); the scheduler's place is taken while its child lives (`SchedInv`), what is
deleted was on a preview (`PruneInv`) and an issue is recorded after its draft
(`IssueInv`); an address that was found is the live run's or that of a run that is over
(`ProxyInv`); who writes a settings file read it under the lock (`ConfigInv`); the
failures counted of a browser are those it had (`LoginInv`).

`ServiceProofs`, gates. Whether a pass is earned is decided when the report is
published, long after the checks ran. `RunIsComplete` follows the tier: what it asked
for is still to come, or has been run on the tree it froze. `FrozenWereRed` and
`RedRecordsAreLogged` say the same of the RED store against its log, in which an event
is found again as the last one of its path (`Latest`), across restarts and damage.

`ServiceProofs`, audit. Two auditors may write T1 results of one task into one log
between each other's steps. `AuditorInv` says of each what it read when it started
(`TargetsAreDue`) and which results it has logged itself for the target in hand, none,
one or two (`RerunsAreLogged`), with the verdict each place still allows. A verdict,
once in the log, speaks of the log before it only (`VerdictKept`).

`EffectProofs`, runner. The first half of `EveryCallReturns` (`VerdictMatchesCause`) is
about the moment a call resolves, long after its child was killed. `CauseKnown` carries
the cause there: only the profile and the runner kill, the runner notes its reason in
the call, a child that has ended is reached by neither, and there is a live child only
while the call runs (`ChildLives`). `ExecutionTypesHold` puts the invariants of the
four components together: a behaviour of `MCExecution` is one of each of them
(`ExecutionParts`), so `ExecutionTypeOK` holds whichever it is about.

`ProposalProofs`, fusion. A winner is announced long after its panel was seated.
`FusionInv` carries the way: the profile in force is one of the parsed file
(`ProfileIsParsed`), panel and workers fit cap and ceiling (`PanelFits`), what lies at a
slot is that slot's answer whichever worker brought it (`AnswersAreTheirs`), and gates
and judge are reached with two candidates only (`WinnersAreEarned`). The resolve rules
are looked at one by one: what wins for code or tests comes from a candidate whose gate
passed (`CodeIsMeasured`, `TestsAreMeasured`).

`ProposalProofs`, source. `SourceInv` says of a round what its place implies: a bundle
that routes or waits for a reply holds no file with a secret (`NoSecrets`, kept through
eviction and repair because a repair adds inline feedback only), each send so far was
allowed by the policy of its adapter, and the next one goes to an adapter not yet asked
(`RoundIsCovered`). What is collected from the worktree is a set: the seeds that are
expanded are a recursive function of their positions, and the proof uses only that what
is collected was readable.

`ProposalProofs`, adapter. The properties speak of outcomes, the invariant of the send
that will produce them. `RunFollowsSend`: a run told to stop has a reason and, if it
is a request, cannot end well; a child that was told will be killed; a send that
captures its transcript was never stopped. Hence `EndedWell`: what is answered came in
time. `FirstPattern` says which kind the ordered patterns give, and `ErrorIsNamed`
that an error says why it was stopped. `DirectoriesFollow` counts the directories that
do not belong to the run under way against the crashes.

`ProposalProofs`, conformance. The saboteur that errs on its first attempt is caught at
P1 only because P1 is the first send of all: `FirstIsP1` carries that over any number of
suites, `FakeCounts` that attempts and composed ids stay equal, `ProbesDecide` what the
probes so far decided.

Assumptions: `LeaseAssumption` (owners differ from the pre-fencing owner and from
"no row", TTL positive), `TaskLoopAssumption` (two different processes, limits are
naturals), `MergeAssumption` (the owner of a free queue is no task, an unbound
report names no commit), `OpenersAssumption` and `MishapsAssumption`,
`OrderAssumption`, `RunAssumption` and `StageAssumption` (a non-empty order of
tasks, natural bounds, at least one probe), `GovernanceAssumption` (the two stand-in
values are no snapshot and no task), `PrGateAssumption` (natural bounds, policies
and answers in their ranges), `ExecutorAssumption` (each action has a shape, there
is an action, a foreign write is none of them, a blob is no tree, natural bounds),
`CommandAssumption` (kinds of files are sets of files, no root is golden or a frozen
RED test, natural bounds), `ConsoleAssumption` (natural bounds, at least one attempt at
a login), `TaskGraphAssumption` (a well-formed graph is a list of parsed tasks),
`GateAssumption` (a ladder says which checks it has), `OobAssumption`
(what a rerun reports), `FusionAssumption` (a profile's fields have their types, amounts
are whole numbers of the smallest unit, a bucket holds a natural number), `ProposalAssumption` (a worktree says what is at
each path, registered pools are typed, an answer claims one of the three things the
schema knows), `ContextBuilderAssumption` (the order of the paths),
`ConformanceAssumption`, `AdapterAssumption` (what a run may end with, natural bounds) and
`MutationAssumption` (paths form a tree, in the worktrees everything lies in a
directory, natural bounds). TLC evaluates all of them.

`DriverProofs`, the services side by side. In `MCServices` a step of one service leaves
the others alone (`ServicesStep`), so each keeps its own invariant and `ServicesInv` is
the conjunction of the twelve. To give the types (`ServicesAreTyped`) some of them need
more than their safety argument did: which in-degrees and outcomes an earlier plan left
behind (`PlanLeftovers`), the reports an auditor holds and the cycles it ran
(`AuditLimits`), the requests of panels and the tokens of the buckets (`FusionCounts`),
the pool as sends, probes and canaries change its breakers (`SourceTypes`), the sends
against their outcomes (`SendCounts`), and the attempts of a suite, twelve at most, by
the place where it stands (`SuiteCounts`, `SentByThen`).

Only model-checked: liveness (`KillEndsTheLoop`, `ReleasedInTheEnd`, the second half
of `EveryCallReturns`), which needs fairness and ENABLED, and the runs that expect a
violation, each of which is one counterexample.

## 6. Plan left

1. Hazards without a property: states of a replaced owner in one log
   (`loop.ts:132`), guidance that arrives during a diagnosis (`loop.ts:285`), the
   live quarantine (`loop-run.ts:886`), the policy that comes back (`policy.ts:450`).
2. The GitHub side of the PR gate (clones, comments, paging), which is a choice of
   outcomes now.

## 7. Not modelled

`PROJECT.json` names each part with its reason. Calibration is arithmetic over
recorded reviews; the web frontend shows what the console serves; the repository's
scripts and the validators of package-manager files judge texts. Read models,
schemas and the linter of governance rules keep no protocol state. In the modelled
components the following is abstracted to the verdict it gives: text handling
(prompts, redaction, diffs, vendor output), cryptography (a report authenticates or
does not), the enforcement by the operating system's sandbox, HTTP routing and the
parsing of command lines.
