--------------------------- MODULE AgentAutomaton ---------------------------
(***************************************************************************)
(* The automaton of agent loop sessions, and the events a command's result *)
(* is consumed as.  There is no state here: AgentSession and FusionRun     *)
(* build their sessions from these operators.                              *)
(***************************************************************************)
EXTENDS AgentCommands, Sequences

States == {"CREATED", "READY", "RUNNING", "WAITING_APPROVAL", "REPAIRING", "REPLANNING",
           "ASKING_USER", "HALTED_SUCCESS", "HALTED_FAILURE", "HALTED_BLOCKED"}

Closed == {"HALTED_SUCCESS", "HALTED_FAILURE", "HALTED_BLOCKED"}

Events == {"goal_submitted", "command_submitted", "policy_allowed", "policy_denied",
           "approval_required", "syscall_completed", "syscall_failed",
           "observation_recorded", "evaluation_applied", "progress_updated",
           "convergence_continue", "convergence_repair", "convergence_replan",
           "convergence_ask", "convergence_halt_success", "convergence_halt_failure",
           "convergence_halt_blocked"}

-----------------------------------------------------------------------------
(* The transition table: rows <<state, event, next state>>. *)

Haltable == {"RUNNING", "REPAIRING", "REPLANNING", "ASKING_USER", "WAITING_APPROVAL"}

Halts == {<<"convergence_halt_success", "HALTED_SUCCESS">>,
          <<"convergence_halt_failure", "HALTED_FAILURE">>,
          <<"convergence_halt_blocked", "HALTED_BLOCKED">>}

\* Events that leave a running session running.
Notes == {"policy_allowed", "syscall_completed", "observation_recorded",
          "evaluation_applied", "progress_updated", "convergence_continue"}

Table ==
  {<<"CREATED", "goal_submitted", "READY">>,
   <<"RUNNING", "policy_denied", "HALTED_BLOCKED">>,
   <<"RUNNING", "approval_required", "WAITING_APPROVAL">>,
   <<"WAITING_APPROVAL", "policy_allowed", "RUNNING">>,
   <<"WAITING_APPROVAL", "policy_denied", "HALTED_BLOCKED">>,
   <<"RUNNING", "syscall_failed", "REPAIRING">>,
   <<"REPAIRING", "syscall_failed", "REPLANNING">>}
  \cup {<<q, "command_submitted", "RUNNING">> :
          q \in {"READY", "REPAIRING", "REPLANNING", "ASKING_USER"}}
  \cup {<<q, "convergence_replan", "REPLANNING">> : q \in {"RUNNING", "REPAIRING"}}
  \cup {<<q, "convergence_ask", "ASKING_USER">> : q \in {"RUNNING", "REPAIRING"}}
  \cup {<<"RUNNING", e, "RUNNING">> : e \in Notes}
  \cup {<<q, h[1], h[2]>> : q \in Haltable, h \in Halts}

Accepts(q, e) == \E row \in Table : row[1] = q /\ row[2] = e

After(q, e) == (CHOOSE row \in Table : row[1] = q /\ row[2] = e)[3]

-----------------------------------------------------------------------------
(* Consuming a result. *)

\* Mutant: a failure nobody marked repairable or stuck is only noted.
FailureEventLenient(r) ==
  IF r.repairable THEN "syscall_failed"
  ELSE IF r.noProgress THEN "convergence_replan"
  ELSE "observation_recorded"

FailureEvent(r) ==
  IF r.repairable THEN "syscall_failed"
  ELSE IF r.noProgress THEN "convergence_replan"
  ELSE "convergence_halt_failure"

\* Mutant: the failure is applied before the progress.
FailureFirst(r) == <<FailureEvent(r), "progress_updated">>

Failure(r) == <<"progress_updated", FailureEvent(r)>>

\* Mutant: a completed syscall completes the goal.
CompletionHalts(r) == <<"progress_updated", "convergence_halt_success">>

Completion(r) == IF r.dry THEN <<"progress_updated">>
                 ELSE <<"progress_updated", "syscall_completed">>

Block(r) == IF r.denied THEN <<"policy_denied">> ELSE <<"convergence_halt_blocked">>

Desired(r) ==
  CASE r.status = "completed"         -> Completion(r)
    [] r.status = "dry_run"           -> <<"progress_updated">>
    [] r.status = "approval_required" -> <<"approval_required">>
    [] r.status = "blocked"           -> Block(r)
    [] r.status = "unsupported"       -> <<"convergence_halt_failure">>
    [] r.status = "failed"            -> Failure(r)

\* The desired events the automaton takes in the state the session is in before the first
\* of them, by their positions.
Kept(q, r) == {i \in DOMAIN Desired(r) : Accepts(q, Desired(r)[i])}

=============================================================================
