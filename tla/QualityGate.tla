---------------------------- MODULE QualityGate ----------------------------
(***************************************************************************)
(* What the project training loop concludes from one iteration: the        *)
(* review's findings, the quality score, the convergence decision and      *)
(* whether the candidate is ready.                                         *)
(*                                                                         *)
(* A trial is what building and testing produced: the build's status and   *)
(* number of errors, the tests passed and failed, and the failure lines    *)
(* their output has.  Health is counted in hundredths and the overall      *)
(* quality in ten-thousandths, the precision the scorer rounds to.  The    *)
(* loss is reported but decides nothing, and is left out.                  *)
(***************************************************************************)
EXTENDS Integers, Sequences, FiniteSets

Criteria == {"functional", "test", "doc", "quality", "delivery", "user_alignment"}

\* Only these keep a goal from being delivered.
Required(criteria) == criteria \ {"doc", "quality"}

Trials == [build : {"simulated", "applied", "failed"}, errors : Nat,
           passed : Nat, failed : Nat, lines : Nat]

Simulated(criteria) ==
  [build |-> "simulated", errors |-> 0,
   passed |-> Cardinality(Required(criteria)), failed |-> 0, lines |-> 0]

\* What the real executor met: what became of its patch (the action boundary may
\* refuse it, with its reasons for errors), how the test command ended, the counts
\* and the failure lines its output shows.
Executions == [patch : {"none", "dry_run", "applied", "failed", "refused"}, errors : Nat,
               exit : {"zero", "nonzero", "timeout"},
               passed : Nat, failed : Nat, lines : Nat]

\* A repository without a proposal counts as built, a command that fails without
\* saying so as one failure, and a timeout gives a failure line of its own.
Executed(run) ==
  [build |-> IF run.patch \in {"failed", "refused"} THEN "failed" ELSE "applied",
   errors |-> run.errors,
   passed |-> run.passed,
   failed |-> IF run.exit # "zero" /\ run.failed = 0 THEN 1 ELSE run.failed,
   lines |-> IF run.exit = "timeout" /\ run.lines = 0 THEN 1 ELSE run.lines]

\* Mutant: passing tests satisfy every kind of criterion.
SatisfiedWhateverAsked(criteria, satisfied, trial) ==
  IF trial.failed > 0 THEN satisfied \ {"test"}
  ELSE IF trial.passed > 0 THEN satisfied \union Required(Criteria)
  ELSE satisfied

\* The criteria satisfied once a trial's tests are in.
Satisfied(criteria, satisfied, trial) ==
  IF trial.failed > 0 THEN satisfied \ {"test"}
  ELSE IF trial.passed > 0 THEN satisfied \union Required(criteria)
  ELSE satisfied

-----------------------------------------------------------------------------
(* The review.  Findings are counted by severity; those that block delivery *)
(* always carry evidence.                                                   *)

BuildErrors(trial) == IF trial.build = "failed" THEN trial.errors ELSE 0

FailureLines(trial) == IF trial.failed > 0 THEN trial.lines ELSE 0

\* Mutant: the command's own failure is not reported.
FailedCommandUnread(trial) == 0

\* The finding a failed command adds when a real executor ran it.
FailedCommand(trial) ==
  IF trial.build # "simulated" /\ trial.failed > 0 THEN 1 ELSE 0

Blocking(trial) == FailureLines(trial) + BuildErrors(trial) + FailedCommand(trial)

\* Documentation is asked for and nothing ever satisfies it.
DocGaps(criteria) == IF "doc" \in criteria THEN 1 ELSE 0

\* Plans refer to the required criteria, so one without any is a mismatch.
Mismatches(criteria) == IF Required(criteria) = {} THEN 1 ELSE 0

High(trial) ==
  BuildErrors(trial) + FailedCommand(trial)
    + (IF trial.failed > 1 THEN FailureLines(trial) ELSE 0)

Medium(criteria, trial) ==
  Mismatches(criteria) + (IF trial.failed = 1 THEN FailureLines(trial) ELSE 0)

Low(criteria, trial) ==
  DocGaps(criteria) + (IF trial.build = "simulated" THEN 1 ELSE 0)

\* Where the next plan comes from: any finding gives a repair plan, and the
\* planner prefers it to the optimizer's.
NextPlan(criteria, trial) ==
  IF Blocking(trial) + Medium(criteria, trial) + Low(criteria, trial) > 0
  THEN "repair" ELSE "planner"

-----------------------------------------------------------------------------
(* The score. *)

GoalAlignment(criteria) == IF Required(criteria) = {} THEN 50 ELSE 100

TestHealth(trial) ==
  LET total == trial.passed + trial.failed
  IN  IF total > 0 THEN (100 * trial.passed) \div total
      ELSE IF trial.build = "simulated" THEN 50 ELSE 0

DefectHealth(criteria, trial) ==
  LET lost == 20 * High(trial) + 10 * Medium(criteria, trial) + 5 * Low(criteria, trial)
  IN  IF lost > 100 THEN 0 ELSE 100 - lost

Overall(criteria, trial) ==
  30 * GoalAlignment(criteria) + 25 * TestHealth(trial) + 20 * DefectHealth(criteria, trial)
    + 10 * 100 + 5 * (100 - 10 * DocGaps(criteria)) + 10 * 100

-----------------------------------------------------------------------------
(* Convergence. *)

QualityThreshold == 7500
GoalThreshold == 60
NoProgress == 10

\* overalls: the quality of the run's iterations so far, the last one included.
Stagnant(overalls) ==
  /\ Len(overalls) >= 2
  /\ overalls[Len(overalls)] - overalls[Len(overalls) - 1] <= NoProgress

LooksConverged(criteria, overalls) ==
  \/ overalls[Len(overalls)] < QualityThreshold
  \/ GoalAlignment(criteria) < GoalThreshold
  \/ Stagnant(overalls)

\* Mutant: the budget counts one iteration too many.
OutOfBudgetLate(overalls, limit) == Len(overalls) > limit

OutOfBudget(overalls, limit) == Len(overalls) >= limit

Keeps(overalls, limit) ==
  IF OutOfBudget(overalls, limit) THEN "iteration_budget_exhausted" ELSE "continue"

\* The gates, in order: required criteria, blocking findings, fake convergence.
\* What passes all three meets the quality gate.
Decide(criteria, satisfied, trial, overalls, limit) ==
  IF ~(Required(criteria) \subseteq satisfied)
  THEN [status |-> Keeps(overalls, limit), fake |-> FALSE]
  ELSE IF Blocking(trial) > 0 \/ LooksConverged(criteria, overalls)
  THEN [status |-> Keeps(overalls, limit), fake |-> TRUE]
  ELSE [status |-> "deliver", fake |-> FALSE]

\* A satisfied criterion keeps the evidence it was given, findings have theirs,
\* and simulated tests bring one item for each required criterion.
HasEvidence(criteria, satisfied, trial) ==
  \/ satisfied # {}
  \/ Blocking(trial) + Medium(criteria, trial) + Low(criteria, trial) > 0
  \/ trial.build = "simulated" /\ Required(criteria) # {}

Candidate(criteria, satisfied, trial, verdict) ==
  LET ready == /\ verdict.status = "deliver"
               /\ ~verdict.fake
               /\ HasEvidence(criteria, satisfied, trial)
  IN  [ready |-> ready,
       status |-> IF ready THEN "ready"
                  ELSE IF verdict.fake THEN "blocked"
                  ELSE IF verdict.status = "iteration_budget_exhausted" THEN "deferred"
                  ELSE "not_ready"]
=============================================================================
