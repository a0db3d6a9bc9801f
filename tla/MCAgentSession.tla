--------------------------- MODULE MCAgentSession ---------------------------
(***************************************************************************)
(* Commands and results for TLC: one command for every way run treats one, *)
(* and the results only an injected runner returns.                        *)
(***************************************************************************)
EXTENDS AgentSession

PlainCall == [form |-> "ok", risk |-> "low", ask |-> FALSE, policy |-> "allow"]

Look == [kind |-> "syscall", valid |-> TRUE, policy |-> "allow", provider |-> "none",
         routed |-> TRUE, dry |-> FALSE, approved |-> FALSE, call |-> PlainCall]

\* file.write: medium risk, and both policies ask for approval.
Write == [Look EXCEPT !.policy = "approve",
                      !.call = [PlainCall EXCEPT !.risk = "medium", !.ask = TRUE,
                                                 !.policy = "approve"]]

ApprovedWrite == [Write EXCEPT !.approved = TRUE]

Everything ==
  {Look, Write, ApprovedWrite,
   [Write EXCEPT !.dry = TRUE],
   [Look EXCEPT !.valid = FALSE],
   [Look EXCEPT !.provider = "unbound"],
   [Look EXCEPT !.routed = FALSE],
   [Look EXCEPT !.policy = "deny", !.call.policy = "deny"],
   [Look EXCEPT !.call.policy = "deny"],
   [Look EXCEPT !.kind = "unsupported"],
   [Look EXCEPT !.kind = "explain_only"],
   [Look EXCEPT !.kind = "metadata", !.provider = "bound"]}

Failed == [NoResult EXCEPT !.status = "failed", !.success = FALSE, !.dry = FALSE, !.ran = TRUE]

Hinted == {[Failed EXCEPT !.repairable = TRUE], [Failed EXCEPT !.noProgress = TRUE]}

Looks == {Look}

DrivingEvents == {"goal_submitted", "command_submitted", "policy_allowed", "policy_denied",
                  "convergence_ask", "convergence_halt_success"}

=============================================================================
