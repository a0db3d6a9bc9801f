# LoopOS in TLA+

LoopOS (`src/`) runs coding agents under governance: a goal is compiled into a
plan of instructions, a kernel executes the plan through a policy-checked
syscall router, agents talk to it in sessions, a project training loop builds
and tests until its gates let it deliver, and an outer loop of tasks, worktrees
and reviews surrounds the runs.  Almost all of its state is in plain files that
every command reads, changes and writes back whole, without a lock.  This
directory holds TLA+ models of the parts with a life cycle, the TLC runs that
check them, and TLAPS proofs about all of these parts.  `PROJECT.json` is the index:
components, runs, mutants, the map from definitions to source lines, findings,
hazards and theorems.

    tlc -workers 2 -config KernelSolo.cfg MCKernelRun     # any run of PROJECT.json
    tlapm KernelRunProofs.tla                             # any module *Proofs

## 1. Inventory

### The kernel

| Part | State | Operations | Meets |
|---|---|---|---|
| run loop (`kernel/loop_engine.py`, `run_manager.py`, `models.py`) | one JSON `RunRecord` per run: status, step, cursor, progress score, pending approval, latest evaluation, accumulator, ACI outcomes | `run`, `resume`, `_execute` with one branch per opcode, `submit_agent_command` | the router, the evaluation chain, the trace store; every other process through the record's file |
| evaluation chain (`evaluation_source.py`, `progress_accumulator.py`, `convergence/engine.py`, `scheduler.py`, `state_machine.py`, `transition.py`) | the accumulator snapshot inside the record | evaluate, accumulate, converge, schedule, move | called in that order for every judgement |
| syscall router (`syscalls/router.py`) | none | `dispatch` | policy engine, registry, handlers |
| policy engine (`policy_os/`) | a registry of rule packs | add a pack, `evaluate` | router, command runner, action boundary |
| trace and replay (`kernel/trace.py`, `replay.py`) | append-only events | append, replay | run loop, session bridge, review artifacts |

What is hard: an effect happens before the record knows of it; a save truncates the
record before it writes it; an approval must be good for exactly one call; nothing
stops two callers resuming the same run; a whole-record save in an agent callback can
put back an older version; the decision about a step depends on a history of counters;
rules of several packs with priorities meet in one decision.  Correct means: effects
in plan order, at most once and within the limit; gated effects only as approved; a
halted run stays halted, unless a process dies while it saves that very record; trace
and record agree; a run that can conclude does; a pack can only tighten.

### Agent sessions

| Part | State | Operations | Meets |
|---|---|---|---|
| ACI (`aci/runner.py`) | none | `CommandRunner.run` | router, policy engine, provider binding |
| ALI (`ali/fsm.py`, `session.py`, `aci_consumption.py`) | automaton state, event log, result references | `apply_event`, `consume_aci_result` | results of the ACI |
| trace bridge, replay (`trace/ali_bridge.py`, `ali_replay.py`) | events in the latest run's trace | persist, replay | the kernel's trace |
| fusion router (`fusion_router/`) | stored plans and verdicts | plan, escalate, route, act on a verdict | sessions and the kernel, for every command it recommends |

What is hard: the command is executed before the session is looked at, its handler may
raise, and so may the consumption; events are filtered by a state that later events
leave; two writers persist the same events; "the latest run" changes in between; a
route submits one command after the other to sessions its caller prepared. Correct
means: every executed effect that has a result is on the books of its session, results
are consumed whole, failures are noticed, halted sessions do not move, a complete
trace replays to the session's state, and a route stays advice.

### The project training loop

| Part | State | Operations | Meets |
|---|---|---|---|
| loop (`cli/commands/loop.py`, `loop_engine/`) | iterations, satisfied criteria, the decision | plan, build, test, review, decide | executors, quality engine, checkpoint store |
| quality engine, delivery gate (`quality/`) | none | score, decide, evaluate | the loop |
| checkpoint store (`checkpoint_store.py`) | a directory per run: an append-only log, files replaced by a rename | append, write, read | `loop deliver` and the other readers |
| executors (`executors/`) | the project's files | run a command, apply a patch | git, the loop |

What is hard: the decision depends on several iterations; criteria once
satisfied are only partly taken back; a completion promise overrides the gates;
the process dies between two files or inside a line; an earlier attempt's files
are still there; git and the fallback of the patch applier must report the same
thing.  Correct means: a delivery rests on tests, every run ends decided, the
directory of an ended run agrees with itself, a death costs at most a line unless
it leaves half a character, and what a patch is reported to have done is what it
did.

### The outer loop

| Part | State | Operations | Meets |
|---|---|---|---|
| tasks, triggers (`tasks/`, `triggers/`) | `tasks.json` | create, fire, todo, done | worktree and review commands rewrite the task |
| worktrees (`worktree/manager.py`, `cli/commands/worktrees.py`) | `worktrees.json`, leases, git trees and branches | plan, materialize, expire, stale, cleanup | git in subprocesses |
| reviews (`review/coordinator.py`, `cli/commands/review.py`) | `reviews.json` | start, verify, approve, reject | tasks |
| merge gate (`review/artifact.py`, `gate.py`) | one file of artifacts for all runs | build and store an artifact, judge it | run records, traces, maintainability reports |

What is hard: every command is a process; a save lists the file, truncates it
and writes it; commands save two files one after the other; git may time out
with the work done; the gate judges what was stored earlier.  Correct means: no
saved record is lost while nothing overlaps, leases exclude each other, links
resolve after a crash, a record says "cleaned" only when the tree is gone, an
approval has a verification behind it whatever overlaps, and an allowed merge
has a sound run behind it unless the run has moved on.

### Services

| Part | State | Operations | Correct means |
|---|---|---|---|
| provider runtime (`providers_runtime/`) | budget ledger of the process, one lock per operation | find or make an entry, check, call, commit | spending exceeds a budget by the concurrent calls at most |
| memory repository (`memory/`) | `beliefs.jsonl`, `skills.jsonl`, an SQLite index | propose, accept, reject, disable, profile, reindex | the index answers from the files; a disabled skill stays disabled |
| data guard (`data_guard/vault.py`) | a directory per backup: copy, plan, manifest | create, verify, plan | a plan rests on a copy that was whole and undamaged when it was verified |
| gateway (`gateway/`) | messages and approval cards | receive, send, approve, deny | the last decision is the one in the file |

### The rest

Everything else is listed in `PROJECT.json` with its reason: classifiers, text
compilers, registries, adapters, reports and rendering.  They keep no state
beyond one command, or none.

## 2. Modules

    KernelDecisions ──> KernelRun ──> MCKernelRun, KernelRunProofs
          │                 └ INSTANCE GovernedRun (abstract)
          └──> AgentCommands ──> AgentAutomaton ──> AgentSession ──> MCAgentSession, AgentSessionProofs
                                        │
             FusionRouting ─────────────┴──> FusionRun ──> MCFusionRun, MCServices
                                                 └──> FusionProofs ──> AgentSessionProofs, ServiceProofs
    OuterLoop ──> MCOuterLoop, OuterLoopProofs
        └ INSTANCE RecordBook (abstract)
    QualityGate ──> TrainingLoop ──> MCTrainingLoop, MCServices
                          └──> TrainingLoopProofs ──> ServiceProofs
    MemoryStore ──> MCServices, MemoryStoreProofs ──> ServiceProofs
    PatchApplier ──> MCPatchApplier, MCServices
    ProviderCalls, PolicyEngine, BackupVault, ApprovalCards, MergeReview ──> MCServices ──> ServiceProofs

    NumberLemmas ──> FusionProofs, MemoryStoreProofs, ServiceProofs

**KernelDecisions** has the pure functions: the transition table (`Allowed`),
what a result or a set of hints is judged to be (`EvaluateResult`, …), progress
accounting (`Accumulate`), `Converge`, `Schedule`, and the router's `Verdict`
with the results it allows.  Scores are floats in [0, 1] in the code and plan
units 0..Len(plan) here: the code only compares them, clamps them, and sets
them to cursor/len(plan).

**KernelRun** is one run.  `disk` is the JSON file, `mem[p]` the copy of process `p`,
read once and saved whole at the code's save points.  A save is `RunManager.save`, a
`write_text`: `Truncate`, after which the file is there and holds nothing, and then
`Write`, which may meet the text another process wrote in between and leave a file
that is no longer JSON.  A turn of `_execute` is `Dispatch` (the effect) then `Await`
or `Settle` (the hand-off) for a syscall, or one of `Handle`, `Apply`, `Measure`,
`Halt`, `Refuse`, `OverBudget`, `Exhausted`, and then a save.  `Create` (with its own
save) and `Begin` are `run`; `Load`, `Deny`, `Approve` are `resume`; `LoadOutcome` and
the save after it are `_record_aci_outcome`, whose copy of the record may be old.
`Crash` is a killed process, of either kind, or a handler that raises; inside a save
it leaves the file empty or with a part of the text, and no later load reads either.
`SharedSpec` lets all processes interleave, which is what the code permits; `SoloSpec`
has one at a time, which is how the command line is meant to be used and what the
stronger properties need.

**GovernedRun** is what a run promises, in five phases and one log.  Its
refinement mapping is at the end of KernelRun: a run whose file says running
and which no process executes is `lost`, and the abstract specification lets
nothing happen to it any more.  So is one whose file was destroyed: `Die`, the death of
a process at work on the run, may lose a run in any phase, also one that asks or is
over, and it is the only step that may.  While somebody is inside a save the run is
what the writer's copy says (`Kept`).

**AgentCommands** gives the set of results `CommandRunner.run` may return for a
command, in the order of its early returns.  **AgentAutomaton** has the
session automaton's table and the events a result is consumed as.
**AgentSession** is `ApplyEvent` for the caller's own events and a submit in the
steps between which other things may happen: `Execute`, `Consume`, `Drive` (one
event), `Record`, `Persist`; `HandlerRaises` takes the place of `Execute` when the
handler's exception goes through the router and the runner to the caller, with the
effect done, or a part of it, and no result for anybody to attach.  `Archive` is the
caller persisting the session and `StartRun` a kernel run somebody starts.

**FusionRouting** computes a plan: the evidence's score (in integers, with the
code's rounding half to even), the mode its thresholds give, the mode's roles,
the best free model for each role, the commands of the roles taken.  Scores of
models are compared exactly, in sixtieths.  **FusionRun** stores plans, routes
one (`BeginRoute`, `Dispatch` once per command, `AnswerRoute`) and acts on a
verdict (`Orchestrate`).  It uses the same automaton as AgentSession: a submit
whose result the session does not take raises and ends the route.

**QualityGate** is the judgement of one iteration: criteria, findings, score, the
convergence gates and the candidate.  **TrainingLoop** is `loopos loop run`: `Begin`,
one `Iterate` and one `Conclude` per iteration, then each file in the order it is
written (`AppendIteration`, `WriteReport`, `WriteCheckpoint`, `WriteState`,
`WriteCandidate`), with `Crash` between any two and inside an append.  Texts are
written as they are, so an append may also end inside a character: from then on the
log is no UTF-8 (`disk.text`), and every reader of it raises.  What a build and a test
run report is chosen from `Encounters`.

**PatchApplier** is git's verdict (external: it takes a patch whose text is
exactly in place, and all of it or nothing) or else the fallback, file by file:
look for the old text anywhere, replace its first occurrence, truncate, write.

**OuterLoop** is the three files and the commands on them.  A command is an
action that loads (`Plan`, `StartReview`, `Verify`, …), possibly git
(`GitAdd`, `GitRemove`), and then for every record it saves `List`, `Truncate`,
`Fill`.  `Fill` over text another process wrote in between may leave a file that
is no longer JSON (`garbled`): later commands raise.  `Lapse` is time.
`overlaps` counts commands started while another one ran, so that a property
can say "as long as they did not overlap".

**RecordBook** is what these stores promise to commands that are run one at a time:
three tables, in which a save changes one record at once, into a legal next version
of the one the table holds at that moment; nothing else is lost but the table a dead
process was saving.  What is legal (`NextTask`, `NextWorktree`, `NextReview`,
`Exclusive`) is said of the tables as they are, not of what a command read a few
steps before.  The refinement mapping is at the end of OuterLoop: a file that is
truncated, or about to be filled, stands for the rows its writer holds.

**MergeReview** builds an artifact from a run's status and the facts its trace
holds, saves it to the file all runs share (`List`, `Truncate`, `WriteAll`) and
judges the stored one, for every combination of the command's flags.

**ProviderCalls** has the lock's scope of the code: `Create`, `CheckBudget`,
`CallProvider` and `Commit` are separate steps of a thread.  **BackupVault**
copies a file portion by portion while it may be saved, takes the checksum of the
copy, and writes plan and manifest; the process may die anywhere in between, and
whatever was copied by then stays.  Asking for a plan is `LookUp` (the manifest is
loaded), `Hash` (the copy, as it is by then) and `HandOut`; the copy may be changed
before, between and after them.  What a plan should rest on is not taken from the
vault's own words but from a history of what was read from the source.
**ApprovalCards** is again list, truncate and write, with the three saves
`webhook-flow` makes in one process.  **MemoryStore** makes every SQLite
statement and every append a step of its own.  **PolicyEngine** is a registry
to which packs are added and the decision on a request; conditions nest one
level.

**MCServices** checks the nine modules that share no state together: the
variable `part` says which one a behaviour is of, the others stay as they
begin, and `TypeOK` is the type invariant of that one.  Nothing is lost by it,
since no action of one reads a variable of another.

## 3. Runs

| Run | Checks | Shows |
|---|---|---|
| kernel_solo | TypeOK, InOrderAtMostOnce, PendingNamesNext, ReplayAgrees, FailureStreakStops, SuccessWasClaimed, TerminalIsFinal, Settles, GovernedSpec | one process at a time, dying anywhere: effects, approvals, record and trace are consistent, conclusive plans come to a wait or an end, the engine implements GovernedRun; only a death inside a save can destroy a run that waits or is over |
| kernel_shared | EffectsWithinBudget, RunsOnlyAsApproved | two processes and a client on the unlocked record: what is left of the above |
| session | TypeOK, EffectsAreReferenced, ConsumedWhole, FailureIsNoticed, CompleteTraceReplays, CallersDecide | every kind of command and result, two submits, two runs, the trace written by submits and by the caller |
| outer | LeasesExclusive, BookSpec | two code tasks, two worktree records and a review, one command at a time, one of which dies: leases exclude each other and the commands implement RecordBook |
| outer_races | TypeOK, LinksResolve, CleanedIsGone, ApprovedWasVerified, ReviewedWasPlanned | two processes, one overlap, one crash: lost, torn and unreadable files |
| services | TypeOK and fifteen properties, below | nine components, each alone |
| kernel_denial, kernel_hint, session_replay, training_ready, patch_ambiguous, fusion_dispatch | one sentence of the documentation each | the code does something else, see section 6 |

The properties of `services`:

| Part | Property | Says |
|---|---|---|
| training | DeliveredWasTested | the gates deliver only after a successful test, with no failure last and none since that puts the test criterion in doubt |
| training | EndsDecided | a run that ends is to be delivered, or has failed with its iterations used up; it is never left undecided, and never blocked (section 6) |
| training | SettledDiskAgrees | after a run has ended, all files are about it and lead to one conclusion, whatever an earlier attempt left, unless that is a log no reader can decode |
| training | CheckpointIsLogged, TornAppendsLoseOne | a checkpoint's iteration is in the log, unless a torn line says why not; each death costs a line at most, as long as none left half a character |
| calls | SpendBounded | completed calls exceed the budget by the calls in flight at once less one, at most |
| vault | PlansRestOnWhole | when it was hashed, the copy a plan rests on held every portion as it was read from the source, and of one state unless the source was saved meanwhile; not claimed of a copy changed before its checksum was taken |
| cards | DecisionsStand | while nothing overlaps or dies, a card holds the last decision reported for it |
| review | MergedWasSound | an allowed merge on a current artifact has no failed test, refused policy, failed run, low score, maintainability blocker or bypassed governance behind it, has tests where wanted and a reviewer at high risk |
| memory | IndexAgrees | what the index answers from is in the files, and all of it is in the index when no command runs and none died (by name and identifier; of what only the index holds, see section 6) |
| memory | DisabledStaysDisabled | a disabled skill does not come back under its name while no two commands overlapped (a name here stands for name and tags, which is what `_matching_skill` compares) |
| policy | PacksOnlyTighten | whatever packs are added, a later decision on a request is no weaker |
| patch | PatchedAsReported | applied is all of the patch, failed a proper prefix, a dry run nothing, a death one torn file at most |
| fusion | PlansFitEvidence | more evidence never gives a weaker mode; commands only for roles with a model; no model twice while one is free |
| fusion | RoutedIsAdvice | no handler runs for a route or a dry verdict; accepted only when every command ran on |

Bounds.  `kernel_solo` takes every plan of up to three instructions over five letters
and LOOP.HALT with a limit of 3, and thirteen plans over the other letters (denials,
unknown calls, missing information, failing hints, no halt) with limits 2 and 8, both
modes and both `auto_approve_medium`.  The limit 3 is below the longest plan and 8
above all.  Three instructions are enough for an approval to be carried over (two
gated calls), for a repeat and no-progress streak of two, and a third failure; the
fourth failure needs the plan of four reads.  Three approvals allow one more resume
than any plan has gates.  Handler scores are below, inside and above the scale.
`kernel_shared` races two processes over two gated calls, and over one with a plain
call after it or none, with limits they reach, exceed and never meet, and two
approvals, of which both may be given for the same call while a client saves an old
record over the run; InOrderAtMostOnce and the other properties of the solo run do
fail there (two resumes both execute the plan), which is what the code permits and why
they are claimed of `SoloSpec` alone.  The session run has one session: sessions share
only the latest run and the trace, and a foreign event in the trace is excluded by
CompleteTraceReplays' premise.  Five events, two submits and five trace entries allow
a failure, its repair, a second failure and a doubly persisted log.  `outer` needs two
worktree records for leases to meet, and has a review so that all three tables change;
the command line always locks the whole workspace, and the theorems cover every set of
locks.  `outer_races` needs one of each, because what it checks is one record put
together from several loads, and its single overlap lets the second process run one
command inside any gap of the first.

In `services` the training loop runs twice on one directory with one death, one and
three iterations, six outcomes of an execution and three sets of criteria: three
iterations are what a failure after a success and a repair after that take.  Two
threads make three calls with budgets of one and two estimates and one restart, so
that a budget is exhausted, overrun by an overlap and forgotten.  One backup of a file
of two portions, with two saves, two damages and one death, can be partial,
half-written, mixed, damaged and put right again, between any two steps of a reader;
backups share nothing but the search for them, and readers nothing at all.  Two operators make two
decisions on two cards.  One process stores two artifacts over two runs while the runs
go on, of three diffs, one of high risk and one that bypasses governance with a good
score (scores that are too low and blockers are the theorem's alone): a second
process would only lose whole artifacts, about which MergedWasSound says nothing.  Two
processes run four memory commands, one dies: propose, accept, reindex and disable is
the longest chain a property needs. Five policy packs, one rule of each kind of action
and priorities against their strength.  Patches of two sections over two files of up
to three lines, in place, out of place, twice in a file or absent.  One fusion plan
over tasks and triggers on both sides of every threshold, routed under four kernels to
four supplies of sessions; stored plans do not influence each other.

Symmetry is used in runs without liveness properties (processes; tasks when all are
alike; RecordBook does not tell them apart either).
Deadlock checking is off everywhere because every system may stop: a run ends,
commands are used up.

Fairness.  `Settles` is the only liveness property.  It assumes weak fairness of
`Work(p)`: a Python call that is not killed executes its next statement.
`Create`, `Load` and `Crash` have none, since nobody need start, resume or kill
anything, and the property allows a crash as an outcome.  Its premise
`Conclusive` is a plan that ends with LOOP.HALT and has no hint that is both
failed and missing; for other plans the code leaves the record running for good
(hazards list both).  Every other part is driven by callers who may stop at any
time, so there is nothing to be fair about; that the training loop ends within
its budget is EndsDecided together with the theorem TrainingRunsOut.

Every checked property has a mutant: a plausible wrong version of a mapped
definition (kept next to the right one, marked `Mutant:`) that makes the
property fail under the same configuration.

## 4. Proofs

All theorems hold for every value of the constants that satisfies the named
assumptions of the module (`Assumptions`, `OuterAssumptions`,
`RoutingAssumptions`, …: bounds are numbers; plans, records, tasks and triggers are of
the types the code's models validate them against).

| Module | Theorems |
|---|---|
| KernelRunProofs | any interleaving: SharedTypeCorrect, SharedEffectsWithinBudget, SharedStreakStops, SharedSuccessWasClaimed, SharedApprovalsSpent, SharedCallsRunOut, SharedTableNeverRefuses; one process at a time: SoloInOrder, SoloPending, SoloTerminal, SoloReplayAgrees; SoloImplementsGoverned: `SoloSpec => GovernedSpec` |
| AgentSessionProofs | SessionTypeCorrect, EffectsReferenced, ResultsConsumedWhole, FailuresNoticed, CallersDecided, CompleteTracesReplay |
| FusionProofs | FusionTypeCorrect, RoutesAreAdvice, PlansAreFit |
| TrainingLoopProofs | TrainingTypeCorrect, DeliveryWasTested, RunsEndDecided, DirectoryAgrees, CheckpointLogged, AppendsLoseOne, TrainingRunsOut |
| OuterLoopProofs | OuterTypeCorrect, OuterApprovals, OuterReviews, OuterCleaned, OuterKeepsSaved, OuterLeases, OuterLinks; OuterKeepsBook: `Spec /\ [](overlaps = 0) => BookSpec` |
| MemoryStoreProofs | MemoryTypeCorrect, MemoryIndexAgrees, DisabledSkillsStay |
| ServiceProofs | calls: CallsTypeCorrect, SpendIsBounded; policy: PolicyTypeCorrect, PacksTighten; vault: VaultTypeCorrect, PlansAreSound; review: ReviewTypeCorrect, ReviewStoresTraced, MergesAreSound; cards: CardsTypeCorrect, CardsKeepDecisions; patches: PatchTypeCorrect, PatchesAsReported; ServicesAreTheirParts: `Spec => CallsSpec /\ ... /\ FusionSpec`, and with it ServicesTypeCorrect |
| NumberLemmas | the lemmas `Least`, `Along` and `Stepwise` |

**In the place of induction.**  The library's induction theorems take an operator,
which the provers cannot instantiate.  NumberLemmas has what the proofs need of it:
a set of numbers has a least one (`Least`, from the well-foundedness of finite
subsets), what holds at first and from each number to the next holds of all
(`Along`, whose statement is a function of sets), and a function that is given step
by step exists (`Stepwise`).  The recursive functions of the models (the lines of a
hunk, the roles and the staff of a plan, the replayed state) are reasoned about with
these: first that the function exists, then what each step keeps.

**Kernel.**  EffectsWithinBudget follows from the guard of `AtHead` only if types
hold, so `SharedInv` is both together with where a process may be; `SharedStep`
shows it for each action, using lemmas about what each decision function
returns.  InOrderAtMostOnce needs more: that the next position of a process at
the head of its loop is beyond everything that ran, that a process that has
dispatched and not yet saved is the only one active, and that a *file* which
waits has a cursor beyond everything that ran while a file saved as running can
never be loaded.  `SoloInv` adds these (`OneAtATime`, `DiskOK`, `ClientOK`);
`DiskOK` is what makes a crash after an effect harmless.  It speaks of what is kept of
the run (`Kept`): the file, or inside a save the copy that is being written, since
the file is then empty.  With one process at a time there is one writer, so its
`Truncate` moves what is kept from the file to the copy it is about to write, its
`Write` moves it back, and only its death loses it; a record lost so is `Torn`, no
process can load it, hence nothing ever replaces it.  PendingNamesNext and
TerminalIsFinal fall out of the same invariant: what is kept of a finished run keeps
its status, or is torn by a death in that very step.

The three theorems about judgement and approvals hold for any interleaving, the
first two although the run that checks them has one process.  `SoundInv` says of
every copy of the record, in the file, in a process and in the hands of a client,
that acceptance, a satisfied evaluation and success rest on a position passed
that claims it (`ClaimOK`), and that a record which asks only for syscalls and
goes on has no failure streak of three behind it (`StreakOK`); the lemmas about
`Accumulate`, `Converge` and `Schedule` carry both through a judgement.
RunsOnlyAsApproved is a count: what ran of a gated position and the copies that
still hold an unused approval for it (`Owed`) stay together within the approvals
given (`PaidFor`), since an approval is held by the one process that loaded it
and a dispatch takes it away.  ReplayAgrees needs `TraceOK`: who is about to save
and leave has traced the state it saves, and when nobody works on a run that
waits or is over, and nobody died, the trace tells its state.

That calls come to an end is liveness, but that they *can* take only so many steps
is not.  `StepsLeft` bounds what is left of a call by the positions of its plan that are
still ahead of it and the phase of the turn it is in; every step of a process lowers
it, no step of another process or a client raises it, and a call starts with four per
position and seven.  So CallsRunOut holds in any interleaving, for every plan, and
`Settles` adds to it only that a step is taken while one is possible.
TableNeverRefuses says that no judgement asks for a transition the table lacks,
replanning included, so that the table is never what ends a call.

**Refinement of the run.**  The mapped `phase` and `leave` quantify over processes.  Under
`OneAtATime` they depend on the saved status and on where the one process at
work is (`PhaseAt`, `LeaveAt`; lemma `AloneMaps`), so each action of the engine is
a small case.  The lemmas are named `...Allowed`, for what GovernedRun allows: a dispatch
logs the next position, a save moves the phase as soon as it begins, going idle loses
or ends the run, a death inside a save loses it whatever it was, and what else a
client does goes unnoticed.

**Sessions.**  The invariant says of each session on its own how far its submit has
come: the events still to drive are all taken where the session is, and among them is
the one that answers a failure (`Driven`); once driven, a failure was noticed
(`Noticed`); the effects are the references that ran, those that raised and the result
about to be consumed (`Booked`): an effect goes missing from the books only by an
exception of its own handler, at most once per submit.  Lemmas about the table carry
it: a running session takes every setback, setbacks stop it, responses decide nothing,
closed sessions take nothing.

Types of the trace need that what `Archive` adds is a sequence of events, which is
why the model takes the events it filters in ascending order of their place
(`Ascending`: there is exactly one such sequence) and not with a fold.

CompleteTraceReplays has an invariant of its own (`Replayable`): for each session
there is a path of states through which the events of its log lead, each taken where
it was applied, and every record of the trace, whoever wrote it and how often, is an
event of its session's log at its sequence number (`OfLog`).  A run's trace with as
many records as the log has events, and every sequence number among them, therefore
sorts into the log itself (`CompleteIsSorted`), and the replay of a log follows its
path (`ReplayFollows`).

**Routes.**  A route has one result per command submitted, and as long as all of them
were successes the sessions that took them run (`Routed`): a success of a dry run is
only ever noted as progress, which no session but a running one takes and which
leaves it running.  So a route that is accepted has the commands of its plan behind
it, each in a session its caller had running before.  That no handler runs (`Dry`) is
the router's verdict on a dry call, whatever the policies say.

That plans fit the evidence is about the operators.  The score grows with each field,
the rounding half to even included (`ScoreGrows`), and the mode with the score
(`ModeGrows`).  Roles required by the task are added to the mode's own, so the mode's
are all there (`RolesRequired`), and commands are for the mode's roles.  Whoever is
chosen for a role exists, and one who has a role already is only taken when all have
one (`EverybodyStaffed`), which is kept from each role to the next.

**Training loop.**  `Decided`, `Written`, `Tested` and `Logged` say of each phase what
has been decided, put on disk, tested and appended before it; `Lost` charges
each torn or open line to a death.  The properties are read off at the end of a
run.  That satisfied criteria have a successful test behind them, and that an
unblocked trial has no failure, are lemmas about QualityGate.

A run's length is bounded as a kernel call's is: `RunLeft` is five steps for every
iteration the limit still allows and two files at the end, and every step lowers it
(TrainingRunsOut), because a run goes on only below its limit (`Within`).

**Outer loop.**  A file may at any time be replaced by rows some process listed
long ago, so the invariant `OuterInv` speaks of every copy: in the files, in the
rows about to be written, among the saves still to make, in the hands of a
process between two loads.  Each copy is `Sound` with respect to `Facts`: tasks
planned, reviews verified, trees gone for good, and the task each worktree
identifier was drawn for.  Facts only grow (`Extends`), hence soundness outlives
every later step and each action need only show that the copies it makes are
sound.

What holds only while commands run one at a time is a second invariant
(`AloneInv`): as long as nothing has overlapped there is a database `db`, which the
saves completed so far have made, such that every file agrees with it except the
one that is being rewritten, whose rows the writer holds (`AloneJob`), and the
leases in it exclude each other (`Exclusive`).  NothingSavedIsLost and
LeasesExclusive are read off when no file is being written (the first is a theorem
only: the run checks BookSpec, which says more).  LinksResolve needs
besides that of two saves the one a task will point to is made first
(`LinkedJob`), so that a death between them leaves an unused record and never a
dangling link.

**Refinement of the outer loop.**  While nothing has overlapped the mapped tables are
that database, so truncating is the step that saves, filling is not seen, and a death
during it loses the table.  What is left to show is that the version a save writes is
a legal next one *at that step*, although the command read its record several steps
before, asked git in between, or saved another record first.  `FreshInv` says so of
every save and every load of the one process at work: what it holds is still what the
table holds (`FreshJob`), or the record it will link to has been put there by its own
earlier save (`TailOfTwo`).  Each command establishes it when it starts, and a lone
process keeps it, since nobody else writes (`Lone`, `Unseen`); a lapse is only time
and no save depends on a lease still running, except that grants are compared with
leases that had not lapsed, and lapsing only takes away what could conflict.  Under
overlaps none of this holds, which is why the hypothesis is there and why
`outer_races` claims so much less.

**Parts and whole.**  A step of MCServices is a step of the part its behaviour is
about or changes nothing, and the variables of the other parts keep their initial
values.  ServicesAreTheirParts shows from this that the specification the run checks
implies each of the nine, and that each part's theorems hold of it;
ServicesTypeCorrect is the first to use it.

**Provider calls.**  For each ledger key, what is charged and what is in flight
stay together within the budget and the surplus of the calls that flew at once
(`Carried`); completed calls are charged or about to be (`Charged`).

**Backup vault.**  The chain from the source to the plan is followed per backup
(`Copied`): until its checksum is taken, a copy holds what was read for it, portion by
portion, unless it was changed too early; from then on what the checksum is of holds
that, whatever becomes of the copy.  Copying ends only with every portion there, and
portions differ only if the source was saved in between.  A reader carries the checksum
it loaded and, once it has verified, a file equal to it (`Asked`); a plan is that file
(`Promised`).  So the partial copy that a death leaves has no checksum to match, and a
copy changed after the checksum matches only if it was put right again.

**Merge review.**  Every artifact, in the file, in a listing about to be written
back or in the hands of a process, names only facts of its run's trace and was
decided by them (`Traced`); traces only grow, so a copy that an older save puts back
is as sound as when it was made.  An artifact with as many facts as its run has now
knows all of them, and the gate's conditions do the rest.

**Approval cards.**  As long as no two commands overlapped and none died (`Quiet`),
at most one process is at work: what it listed is what was reported of each card,
with its own verdict in the place of one (`HoldsVerdict`), and a file that nobody is
writing agrees with what was reported (`Agrees`).  That overlapping saves never make
messages up is a count: what the file or a process's listing holds, and the messages
still to be saved, are together no more than were received (`MessagesCounted`).

**Memory.**  The invariant is about the writes that commands still have to make.
Each of their lists is a `Queue`: a row that says that a file holds something comes
after the line that holds it, and a line is followed by its row.  So the index never
runs ahead of the files (`Backed`), whatever overlaps or dies.  And it never lags
behind for good: a line without its row has it on its way, from the command that
wrote it or from a reindex that has not read the file yet (`Complete`), unless a
command died or met a torn line since the latest reindex began.  A reindex writes of
every skill the latest line, in the order of the first lines, as the dictionary in
`SkillStore.list` does; that this names every skill is a lemma about ascending
sequences (`AscendingOnto`); that a latest line exists at all follows from `Least`.

That a disabled skill stays disabled needs to know, while no two commands overlapped,
what the command at work read: a merge saves the skill with the status it found, and
a skill is saved as new only under a name nothing in the file has (`AloneInv`).

**Policy.**  A decision is a function of the rules held, monotone in action, level
and reservations (`DecisionGrows`); every decision given was made on a subset of
the rules held now (`Founded`).

**Patches.**  While a patch is applied by the fallback, the files are those it was begun
on with its first sections in place, except that the file which is open may hold
nothing yet, in which case its new text is ready and is the right one (`PatchSound`,
`Halfway`).  Of a plain patch the fallback can do nothing else: text that is in one
place at most is found where the hunk says it is (`FoundInPlace`), so its first
occurrence is the one git would take, and a section that is nowhere ends the patch.
The files with one more section in place differ from those before in that section's
file alone (`LeadsOn`), because no file is named twice.  A death leaves the open file
empty or cut, and the others as `Halfway` says.

Only model-checked: `Settles`, which is liveness under fairness; its safety half is
SharedCallsRunOut.

## 5. Not modelled

Simplified, so that a property says less than the code does: the search for a backup
parses the manifests of all, and its error at a half-written one is a step that
changes nothing; a copy changed between its last portion and its checksum is certified
as it is, because the code hashes the copy and never the source (PlansRestOnWhole
excludes it by name); after a death inside a character the training log can never be
read again, while in the code a person may repair it; a handler that raises has done
its whole effect in KernelRun and AgentSession, where in the code it may have done a
part; IndexAgrees compares what is named, and not every field; FailureStreakStops
counts with the accumulator's own counter, whose resets are the code's, so it says
that the engine heeds the counter and not that the counter is the right one.

Left out of the modelled parts: trace payloads, error texts, timestamps, the skill
proposal after LOOP.HALT, the scheduler's CANCEL signal (never passed), task
artifacts (a fourth file with the same save that nothing reads), todo contents,
lengths of the text in a JSON file (whether a later write is shorter is a free
choice), argument parsing.  Of the policy engine, reading packs, constraints and
the audit trail; of the training loop, `LoopEngine.run` (a second copy of the
loop for programs that bring their own decider), the loss, and the logs nothing
concludes anything from; of the memory, retrieval, the extractor and the
pre-action gate; of the provider runtime, HTTP and wire formats; of the fusion
router, confidence, budgets and the listing of verdicts; of the patch applier,
line ends and lines that look like headers.  Git is external: adding a tree needs
path and branch free, removing needs the tree, and any command may fail or time
out with the work done or not.

Whole components are left out for one of these reasons, given for each in
`PROJECT.json`: they are pure functions over text or scores (intent, agent
language, contexts and prompts, the fusion optimizer, OpenGod, freedom); their
content is I/O (adapters, provider clients, desktop control, local index); no
command uses them (kernel checkpoints, the supervisor, the legacy engine); or
they render and release (the command line, which is the largest part of the
tree, the user interface, translations, readiness and packaging scripts).  The
map covers about an eighth of the Python lines for that reason: of what is left,
about a third is command-line rendering, translations, release tooling and
readiness scripts, and most of the rest is data models, text and network I/O.

## 6. Where code and documentation disagree

Shown by a run:

| Run | Documentation | Code |
|---|---|---|
| kernel_denial | "Policy denial halts as blocked" | a syscall denied inside the router is a repairable failure; the run may succeed |
| kernel_hint | "A plan hint cannot override a real failed observation" | EVAL.APPLY replaces the latest evaluation, LOOP.HALT reads only that |
| session_replay | replay reconstructs the final session state | persisting after a submit writes its events twice; REPAIRING replays as REPLANNING |
| training_ready | a candidate is ready only with criteria satisfied, nothing blocking, quality sufficient | a completion promise in the iteration's text makes it ready without |
| patch_ambiguous | the fallback "refuses ambiguous patches" | the first of several places is changed, and reported as applied |
| fusion_dispatch | the runner dispatches each recommended command | a new session is only given its goal, so the first submit raises after it ran |

Read in the code while modelling it, not shown by a run of its own:

- docs/convergence-and-delivery.md:37-42 lets a gap or a blocking finding at the end
  of the budget end `blocked`.  `_continue_or_budget` (`quality/convergence.py:461`)
  knows two answers, `continue` and `iteration_budget_exhausted`, and no other gate
  of `decide` answers `blocked`; so the branch for it in `loop run`
  (`cli/commands/loop.py:979-980`) is never taken and the run ends `failed`.
  EndsDecided states what the code does.
- docs/review-artifact.md:11 has the merge gate reject missing verification, and
  lines 26-27 show `verifier_evidence_missing` as its output.  `MergeGate.evaluate`
  (`review/gate.py`) never asks for a verifier, and no blocker of that name exists
  in `review/`.  Nor does an artifact's own decision `request_changes` stop a
  merge; only `blocked` does.  MergedWasSound therefore claims no verification.
- Opening a run's record for writing empties it (`kernel/run_manager.py:24`), and an
  outcome is saved over whatever the run is by then (`kernel/loop_engine.py:521`): a
  client that dies there destroys the record of a run that had ended or was waiting,
  and every later `load` raises.  TerminalIsFinal and GovernedRun allow exactly this.
- `submit_agent_command` is to give results "so the runtime can audit and replay
  them" (`aci/runner.py:30-34`, of blocked and approval-required commands), and its
  docstring lists only errors of the session.  A handler's own exception goes through
  `syscalls/router.py:242` and `kernel/loop_engine.py:454` to the caller: the effect may have
  happened, and no result, reference or event says so.
- "Skip corrupt lines so a single bad append does not poison the whole log"
  (`checkpoint_store.py:151-152`): texts are written with `ensure_ascii=False` (line
  127) and read as strict UTF-8, catching only `JSONDecodeError`.  An append that is
  cut inside a character makes every later read raise `UnicodeDecodeError`, lines
  before and after it included.  TornAppendsLoseOne holds of the other deaths.
- The session's `max_events` cap (docs/agent-loop-interface.md:298) is validated
  at construction only; `ali/fsm.py:340` appends without it.
- An approved command whose handler failed is reported as denied
  (`aci/runner.py:534`), against docs/trace-and-ali.md:131.
- `cleanup_plan` accepts active worktrees (`worktree/manager.py:152`), while
  docs/outer-loop-engineering.md:18 speaks of stale ones.
- A reindex drops pending proposals and the profile, which only the index holds
  (`memory/sqlite_store.py:168`); docs/memory.md:18-20 calls indexes rebuildable.
- Self-approval is judged by the gate's own arguments, not by what the artifact
  records (docs/review-artifact.md:11-12, 30).
- Policy constraints are merged in descending priority, so the lowest priority
  wins a key (docs/policy-os.md:5).
- A patch of which the fallback applies nothing but skips everything is reported
  as applied, a missing git raises where a fallback is meant, CRLF files are
  rewritten with LF, and empty old text inserts at the head of the file
  (`executors/patch_applier.py`).
- The fusion router breaks ties neither by cost nor by reliability
  (docs/fusion-router.md:170); a score of 3 escalated by 1.25 rounds to 4 and
  still means a single agent; `file.patch` has no syscall, so routes of the modes
  that recommend it can never be accepted; `load_verdicts` sorts by its first
  trace identifier, not by sequence.

## 7. Plan

1. Done: the kernel and its refinement, sessions, the training loop and its
   directory, patches, the outer loop and merge review, the fusion router,
   policies, provider calls, backups, cards, memory.
2. Done: every safety property of the runs and both refinements are theorems.
   Still worth having: that decisions on cards survive a death that comes before the
   file is truncated; bounds on what overlapping commands can lose of the outer
   loop's files.
3. Models still worth having: `LoopEngine.run` shown to end as `loop run` does;
   an abstract ledger that ProviderCalls implements while calls do not overlap.
