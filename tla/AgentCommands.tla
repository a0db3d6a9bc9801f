--------------------------- MODULE AgentCommands ---------------------------
(***************************************************************************)
(* The agent command interface: what CommandRunner.run returns for a       *)
(* command, whether a syscall handler ran on the way, and which commands   *)
(* may end in an exception of their handler instead of a result.           *)
(*                                                                         *)
(* A command carries two policy verdicts.  `policy' is the runner's own    *)
(* evaluation of the command; `call.policy' is the one the syscall router  *)
(* makes of the dispatched call, over another subject.  The runner records *)
(* its own verdict in every result and dispatches whatever it says.        *)
(***************************************************************************)
EXTENDS KernelDecisions

Actions == {"allow", "approve", "deny"}

\* kind stands for the four ways run treats an AgentCommandKind; provider for the outcome of
\* resolving its hint; routed for a runner that has a syscall router.
Commands ==
  [kind : {"explain_only", "metadata", "syscall", "unsupported"}, valid : BOOLEAN,
   policy : Actions, provider : {"none", "bound", "unbound"}, routed : BOOLEAN,
   dry : BOOLEAN, approved : BOOLEAN, call : Calls]

CommandStatuses ==
  {"completed", "dry_run", "approval_required", "blocked", "unsupported", "failed"}

\* ran is not a field of AgentCommandResult: it says whether a handler was executed.
CommandResults ==
  [status : CommandStatuses, success : BOOLEAN, dry : BOOLEAN, denied : BOOLEAN,
   repairable : BOOLEAN, noProgress : BOOLEAN, ran : BOOLEAN]

\* denied is _is_policy_denial: a recorded verdict that does not allow, or a denial code.
Result(c, status, success, dry) ==
  [status |-> status, success |-> success, dry |-> dry, denied |-> c.policy # "allow",
   repairable |-> FALSE, noProgress |-> FALSE, ran |-> FALSE]

Explain(c) ==
  IF c.valid THEN Result(c, "dry_run", FALSE, TRUE) ELSE Result(c, "blocked", FALSE, TRUE)

Blocked(c) == Result(c, "blocked", FALSE, c.dry)

ProviderFailed(c) == Result(c, "failed", FALSE, c.dry)

Metadata(c) ==
  IF c.policy # "allow" THEN Blocked(c)
  ELSE IF c.provider = "unbound" THEN ProviderFailed(c)
  ELSE Result(c, "completed", TRUE, c.dry)

NoRouter(c) ==
  IF c.policy # "allow" THEN Blocked(c)
  ELSE Result(c, IF c.dry THEN "dry_run" ELSE "completed", TRUE, c.dry)

CallVerdict(c, auto) ==
  Verdict(c.call, IF c.dry THEN "dry_run" ELSE "guarded", auto, c.approved)

\* A failed call of a command the runner's own policy does not allow is reported blocked.
Materialize(c, verdict, r) ==
  LET planned   == verdict = "planned"
      forbidden == r.risk = "blocked" \/ c.policy # "allow"
      result(status) == [Result(c, status, r.success, planned) EXCEPT
                           !.ran = (verdict = "runs"),
                           !.denied = @ \/ (status = "blocked")]
  IN  IF r.success THEN result(IF planned THEN "dry_run" ELSE "completed")
      ELSE IF r.asks THEN result("approval_required")
      ELSE result(IF forbidden THEN "blocked" ELSE "failed")

Dispatched(c, auto) ==
  LET verdict == CallVerdict(c, auto)
  IN  {Materialize(c, verdict, r) : r \in ResultsOf(c.call, verdict, {})}

\* CommandRunner.run: the order of the early returns is the code's.
RunCommand(c, auto) ==
  IF c.kind = "explain_only" THEN {Explain(c)}
  ELSE IF c.kind = "metadata" THEN {Metadata(c)}
  ELSE IF ~c.valid THEN {Blocked(c)}
  ELSE IF c.provider = "unbound" THEN {ProviderFailed(c)}
  ELSE IF c.kind = "unsupported" THEN {Result(c, "unsupported", FALSE, FALSE)}
  ELSE IF ~c.routed THEN {NoRouter(c)}
  ELSE Dispatched(c, auto)

\* Nothing on the way out catches what a handler raises (git missing or too slow, a file that
\* is not text, a full disk): a command that reached its handler may return no result at all.
MayRaise(c, auto) == \E r \in RunCommand(c, auto) : r.ran

=============================================================================
