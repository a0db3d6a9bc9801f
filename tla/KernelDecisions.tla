-------------------------- MODULE KernelDecisions --------------------------
(***************************************************************************)
(* The pure decision functions of the LoopOS kernel: what one instruction  *)
(* or one syscall result is judged to be (EvaluationSource), how the       *)
(* judgement is accumulated (progress_accumulator), what convergence and   *)
(* then the scheduler decide about it, and which lifecycle moves the       *)
(* transition table allows.  There is no state here: KernelRun builds its  *)
(* actions from these operators.                                           *)
(*                                                                         *)
(* Scores are fractions of the plan.  The code keeps them as floats in     *)
(* [0, 1]; here a score is the number of plan-length units 0..Len(plan),   *)
(* which keeps every comparison the code makes.                            *)
(***************************************************************************)
EXTENDS Integers

Statuses == {"pending", "running", "waiting_approval", "repairing", "replanning",
             "succeeded", "failed", "cancelled", "blocked"}

Terminal == {"succeeded", "failed", "cancelled", "blocked"}

\* Mutant: the move from running to replanning is missing.
AllowedWithoutReplan ==
  [pending          |-> {"running", "cancelled", "blocked", "failed"},
   running          |-> {"waiting_approval", "repairing"} \cup Terminal,
   waiting_approval |-> {"running", "cancelled", "blocked", "failed"},
   repairing        |-> {"running", "replanning", "failed", "cancelled", "blocked"},
   replanning       |-> {"running", "failed", "cancelled", "blocked"},
   succeeded        |-> {},
   failed           |-> {},
   cancelled        |-> {},
   blocked          |-> {}]

(***************************************************************************)
(* The transition table.  A move to the same status is always allowed.     *)
(***************************************************************************)
Allowed ==
  [pending          |-> {"running", "cancelled", "blocked", "failed"},
   running          |-> {"waiting_approval", "repairing", "replanning"} \cup Terminal,
   waiting_approval |-> {"running", "cancelled", "blocked", "failed"},
   repairing        |-> {"running", "replanning", "failed", "cancelled", "blocked"},
   replanning       |-> {"running", "failed", "cancelled", "blocked"},
   succeeded        |-> {},
   failed           |-> {},
   cancelled        |-> {},
   blocked          |-> {}]

CanMove(from, to) == to = from \/ to \in Allowed[from]

-----------------------------------------------------------------------------
(* Evaluations. *)

\* Nothing in EvaluationSource reports a regression, though convergence would handle one.
Evaluations ==
  [satisfied : BOOLEAN, failed : BOOLEAN, blocked : BOOLEAN,
   repairable : BOOLEAN, missing : BOOLEAN, regression : {FALSE}]

Neutral ==
  [satisfied |-> FALSE, failed |-> FALSE, blocked |-> FALSE,
   repairable |-> FALSE, missing |-> FALSE, regression |-> FALSE]

\* The instruction itself was denied by Policy OS.
EvaluateDenial == [Neutral EXCEPT !.failed = TRUE, !.blocked = TRUE]

(***************************************************************************)
(* A syscall result: an approval request is missing information, any other *)
(* failure is repairable unless the syscall's risk is "blocked", and a     *)
(* success may carry the plan's claim that the goal is reached.            *)
(***************************************************************************)
EvaluateResult(result, hints) ==
  IF result.asks /\ ~result.success THEN [Neutral EXCEPT !.missing = TRUE]
  ELSE IF ~result.success
       THEN [Neutral EXCEPT !.failed = TRUE,
                            !.blocked = (result.risk = "blocked"),
                            !.repairable = (result.risk # "blocked")]
       ELSE [Neutral EXCEPT !.satisfied = hints.satisfied]

\* No observation at all: the plan's own hints are believed.
EvaluateHints(hints) ==
  [Neutral EXCEPT !.satisfied = hints.satisfied, !.failed = hints.failed,
                  !.repairable = hints.repairable, !.missing = hints.missing]

-----------------------------------------------------------------------------
(* Progress accounting, kept per run under metadata.progress_accumulator. *)

(***************************************************************************)
(* A run without a snapshot starts from its own current score, so the      *)
(* first hand-off of every run sees a delta of zero.                       *)
(***************************************************************************)
LoadAccumulator(acc, score, none) ==
  IF acc.seen THEN acc
  ELSE [seen |-> TRUE, score |-> score, noProgress |-> 0, failures |-> 0,
        repeats |-> 0, last |-> none]

Accumulate(acc, e, instruction, score) ==
  [seen       |-> TRUE,
   score      |-> score,
   noProgress |-> IF score <= acc.score THEN acc.noProgress + 1 ELSE 0,
   failures   |-> IF e.failed \/ e.blocked THEN acc.failures + 1 ELSE 0,
   repeats    |-> IF instruction = acc.last THEN acc.repeats + 1 ELSE 0,
   last       |-> instruction]

-----------------------------------------------------------------------------
(* Convergence: a fixed precedence over one evaluation and its progress;   *)
(* approval is "required" or "none".                                      *)

RepeatedFailureLimit == 2

ConvergenceActions == {"continue", "repair", "replan", "ask_user", "wait_approval",
                       "halt_success", "halt_failure", "halt_blocked"}

\* Mutant: a repairable failure is repaired before the streak is looked at.
ConvergeRepairsFirst(e, acc, delta, approval) ==
  IF e.blocked THEN "halt_blocked"
  ELSE IF approval = "required" THEN "wait_approval"
  ELSE IF e.missing THEN "ask_user"
  ELSE IF e.satisfied THEN "halt_success"
  ELSE IF e.failed /\ e.repairable THEN "repair"
  ELSE IF e.failed \/ acc.failures > RepeatedFailureLimit THEN "halt_failure"
  ELSE IF delta <= 0 \/ acc.repeats > 1 \/ acc.noProgress > 1 THEN "replan"
  ELSE "continue"

Converge(e, acc, delta, approval) ==
  IF e.blocked THEN "halt_blocked"
  ELSE IF approval = "required" THEN "wait_approval"
  ELSE IF e.missing THEN "ask_user"
  ELSE IF e.satisfied THEN "halt_success"
  ELSE IF e.regression THEN (IF e.repairable THEN "repair" ELSE "replan")
  ELSE IF acc.failures > RepeatedFailureLimit THEN "halt_failure"
  ELSE IF e.failed THEN (IF e.repairable THEN "repair" ELSE "halt_failure")
  ELSE IF acc.repeats > 1 \/ acc.noProgress > 1 THEN "replan"
  ELSE IF delta <= 0 \/ acc.failures > 1 THEN "replan"
  ELSE "continue"

-----------------------------------------------------------------------------
(* The scheduler: the final authority over the lifecycle. *)

ScheduleActions == {"continue", "wait_approval", "repair", "replan", "halt_succeeded",
                    "halt_failed", "halt_blocked", "halt_cancelled"}

Idle == [allowed |-> TRUE, approval |-> FALSE, success |-> FALSE, failed |-> FALSE,
         repairable |-> FALSE, noProgress |-> FALSE]

\* The engine passes no signal, so cancellation and the DENY signal never arrive here.
Schedule(v, step, max) ==
  IF ~v.allowed THEN "halt_blocked"
  ELSE IF v.approval THEN "wait_approval"
  ELSE IF v.success THEN "halt_succeeded"
  ELSE IF v.failed /\ v.repairable THEN "repair"
  ELSE IF v.noProgress THEN "replan"
  ELSE IF step >= max THEN "halt_failed"
  ELSE IF v.failed THEN "halt_failed"
  ELSE "continue"

\* How each convergence decision reaches the scheduler.
SchedulerInput ==
  [continue      |-> Idle,
   repair        |-> [Idle EXCEPT !.failed = TRUE, !.repairable = TRUE],
   replan        |-> [Idle EXCEPT !.noProgress = TRUE],
   ask_user      |-> [Idle EXCEPT !.approval = TRUE],
   wait_approval |-> [Idle EXCEPT !.approval = TRUE],
   halt_success  |-> [Idle EXCEPT !.success = TRUE],
   halt_failure  |-> [Idle EXCEPT !.failed = TRUE],
   halt_blocked  |-> [Idle EXCEPT !.allowed = FALSE]]

\* KernelStateMachine.apply_schedule: the status each scheduler action puts the run in.
StatusAfter ==
  [continue       |-> "running",
   wait_approval  |-> "waiting_approval",
   repair         |-> "repairing",
   replan         |-> "replanning",
   halt_succeeded |-> "succeeded",
   halt_failed    |-> "failed",
   halt_blocked   |-> "blocked",
   halt_cancelled |-> "cancelled"]

\* Decisions after which the engine saves the run and returns.
Stops(action) == action \in {"wait_approval", "halt_succeeded", "halt_failed",
                             "halt_blocked", "halt_cancelled"}

-----------------------------------------------------------------------------
(* SyscallRouter.dispatch. *)

Risks == {"low", "medium", "high", "blocked"}

\* A call as the router sees it: known to the registry and well formed or not,
\* the risk and approval flag of its spec, and the action policy takes on its scope.
Calls == [form : {"ok", "malformed", "unknown"}, risk : Risks, ask : BOOLEAN,
          policy : {"allow", "approve", "deny"}]

\* What dispatch concludes before the handler runs.
Refused(call) == \/ call.form # "ok"
                 \/ call.policy = "deny"
                 \/ call.risk = "blocked"

AsksFirst(call, auto) ==
  \/ (call.ask \/ call.policy = "approve") /\ ~(call.risk = "medium" /\ auto)
  \/ call.risk = "high"

\* Mutant: auto_approve_medium approves high-risk calls too.
VerdictAutoHigh(call, mode, auto, granted) ==
  IF Refused(call) THEN "refused"
  ELSE IF mode = "dry_run" THEN "planned"
  ELSE IF AsksFirst(call, auto) /\ ~granted /\ ~auto THEN "asks"
  ELSE "runs"

Verdict(call, mode, auto, granted) ==
  IF Refused(call) THEN "refused"
  ELSE IF mode = "dry_run" THEN "planned"
  ELSE IF AsksFirst(call, auto) /\ ~granted THEN "asks"
  ELSE "runs"

\* An unknown syscall has no spec: its error result carries risk "blocked".
ResultRisk(call) == IF call.form = "unknown" THEN "blocked" ELSE call.risk

NoEvidence == -1

Results == [success : BOOLEAN, asks : BOOLEAN, risk : Risks, evidence : Int]

\* The results a verdict allows; the handler itself is outside the model.
ResultsOf(call, verdict, evidence) ==
  LET result(ok, asks, ev) ==
        [success |-> ok, asks |-> asks, risk |-> ResultRisk(call), evidence |-> ev]
  IN  IF verdict = "refused" THEN {result(FALSE, FALSE, NoEvidence)}
      ELSE IF verdict = "asks" THEN {result(FALSE, TRUE, NoEvidence)}
      ELSE IF verdict = "planned"
           THEN {result(TRUE, call.ask \/ call.policy = "approve", NoEvidence)}
           ELSE {result(FALSE, FALSE, NoEvidence)}
                \cup {result(TRUE, FALSE, ev) : ev \in evidence \cup {NoEvidence}}

=============================================================================
