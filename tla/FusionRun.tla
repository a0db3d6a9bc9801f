------------------------------ MODULE FusionRun ------------------------------
(***************************************************************************)
(* Planning, routing a plan through the kernel, and acting on the verdict. *)
(*                                                                         *)
(* Plans are stored, each under an id of its own.  A route takes a stored  *)
(* plan, saves it again and submits its commands one after the other, each *)
(* to the session its caller supplied for the role, or else to a new one   *)
(* that has been given its goal and nothing more.  Every command is a dry  *)
(* run.  A submit whose result the session does not take raises, and ends  *)
(* the route without an answer.                                            *)
(*                                                                         *)
(* What submitting writes to the latest kernel run is AgentSession's.      *)
(***************************************************************************)
EXTENDS FusionRouting, AgentAutomaton

CONSTANTS
  Handlings, \* how a kernel treats commands: its policies and router, by kind
  Supplies,  \* the states of the sessions a caller supplies, by role
  MaxPlans   \* bound on the plans stored

FusionRoles == DOMAIN Talents

StepKinds == {"noop", "file.read", "file.patch"}

Treatments == [policy : Actions, routed : BOOLEAN, call : Calls]

ASSUME FusionAssumptions ==
  /\ Handlings \subseteq [StepKinds -> Treatments]
  /\ \A sessions \in Supplies :
       DOMAIN sessions \subseteq FusionRoles /\ sessions \in [DOMAIN sessions -> States]
  /\ MaxPlans \in Nat

VARIABLES
  stored, \* the plans stored
  route,  \* the latest route
  advice  \* the latest advice of the orchestrator

fusionVars == <<stored, route, advice>>

\* sessions holds the states of the supplied sessions, and submitted counts the
\* commands the kernel was given.
NoRoute == [stage |-> "idle", plan |-> 0, handling |-> [kind \in {} |-> {}],
            sessions |-> [role \in {} |-> "CREATED"], submitted |-> 0, results |-> <<>>,
            status |-> "none"]

NoStep == [verdict |-> "none", status |-> "none", next |-> "none", dry |-> TRUE, ran |-> FALSE]

FusionInit ==
  /\ stored = <<>>
  /\ route = NoRoute
  /\ advice = NoStep

-----------------------------------------------------------------------------
(* Planning. *)

Store(plan) ==
  /\ Len(stored) < MaxPlans
  /\ stored' = Append(stored, plan)
  /\ UNCHANGED <<route, advice>>

\* fusion-router plan and run.
PlanTask(task, trigger) == Store(FusionPlan(task, trigger))

Escalate(reason) == Store(Escalation(reason))

PlanMadDog(task, severity) == Store(MadDog(task, severity))

-----------------------------------------------------------------------------
(* Routing. *)

\* Without a kernel a route only plans.
BeginRoute(id, wired, handling, sessions) ==
  /\ route.stage # "dispatch"
  /\ route' = [NoRoute EXCEPT !.plan = id, !.handling = handling, !.sessions = sessions,
                              !.stage = IF wired THEN "dispatch" ELSE "answered",
                              !.status = IF wired THEN "none" ELSE "planning_only"]
  /\ advice' = NoStep
  /\ UNCHANGED stored

\* Mutant: a command is as dry as the kernel's mode.
AciCommandWet(kind, handling) ==
  [kind |-> IF kind = "file.patch" THEN "unsupported" ELSE "syscall", valid |-> TRUE,
   policy |-> handling[kind].policy, provider |-> "none", routed |-> handling[kind].routed,
   dry |-> handling[kind].policy # "allow", approved |-> FALSE, call |-> handling[kind].call]

\* No syscall stands for a patch.
AciCommand(kind, handling) ==
  [kind |-> IF kind = "file.patch" THEN "unsupported" ELSE "syscall", valid |-> TRUE,
   policy |-> handling[kind].policy, provider |-> "none", routed |-> handling[kind].routed,
   dry |-> TRUE, approved |-> FALSE, call |-> handling[kind].call]

\* A session without events is given its goal.
Opened(sessions, role) ==
  IF role \notin DOMAIN sessions \/ sessions[role] = "CREATED"
  THEN After("CREATED", "goal_submitted") ELSE sessions[role]

\* The state of a session once it has consumed a result, those events of it that it takes.
Consumed(q, r) ==
  LET Next(at, i) == IF i \in Kept(q, r) THEN After(at, Desired(r)[i]) ELSE at
  IN  IF Len(Desired(r)) = 1 THEN Next(q, 1) ELSE Next(Next(q, 1), 2)

Dispatch ==
  /\ route.stage = "dispatch"
  /\ route.submitted < Len(stored[route.plan].steps)
  /\ LET next == stored[route.plan].steps[route.submitted + 1]
         q    == Opened(route.sessions, next.role)
     IN  \E r \in RunCommand(AciCommand(next.kind, route.handling), FALSE) :
           route' = [route EXCEPT
             !.submitted = @ + 1,
             !.stage = IF Kept(q, r) = {} THEN "raised" ELSE "dispatch",
             !.results = IF Kept(q, r) = {} THEN @ ELSE Append(@, r),
             !.sessions = IF next.role \in DOMAIN @
                          THEN [@ EXCEPT ![next.role] = Consumed(q, r)] ELSE @]
  /\ UNCHANGED <<stored, advice>>

DecideStatus(results) ==
  LET Some(status) == \E i \in DOMAIN results : results[i].status = status
  IN  IF Some("blocked") THEN IF Some("approval_required") THEN "ask_user" ELSE "rejected"
      ELSE IF Some("failed")
      THEN IF \E i \in DOMAIN results : results[i].repairable THEN "needs_repair"
           ELSE IF \E i \in DOMAIN results : results[i].noProgress THEN "needs_replan"
           ELSE "rejected"
      ELSE IF \A i \in DOMAIN results : results[i].success THEN "accepted" ELSE "needs_repair"

AnswerRoute ==
  /\ route.stage = "dispatch"
  /\ route.submitted = Len(stored[route.plan].steps)
  /\ route' = [route EXCEPT !.stage = "answered", !.status = DecideStatus(route.results)]
  /\ UNCHANGED <<stored, advice>>

-----------------------------------------------------------------------------
(* FusionVerdictOrchestrator: the caller records a verdict and asks what comes next. *)

VerdictStatuses == {"accepted", "rejected", "needs_repair", "needs_replan", "ask_user"}

NextState ==
  [needs_repair |-> "REPAIRING", needs_replan |-> "REPLANNING", rejected |-> "HALTED_FAILURE",
   ask_user |-> "WAITING_APPROVAL", accepted |-> ""]

Orchestrate(verdict, dry, handling) ==
  /\ route.stage = "answered"
  /\ LET submits == verdict \in {"needs_repair", "needs_replan"}
         command == [AciCommand("noop", handling) EXCEPT !.dry = dry]
         results == IF dry THEN {Explain(command)} ELSE RunCommand(command, FALSE)
     IN  \E r \in results :
           advice' = [verdict |-> verdict, dry |-> dry, next |-> NextState[verdict],
                      status |-> IF submits THEN "submitted"
                                 ELSE IF verdict = "rejected" THEN "halted" ELSE "no_action",
                      ran |-> submits /\ r.ran]
  /\ UNCHANGED <<stored, route>>

FusionNext ==
  \/ \E task \in Tasks, trigger \in Triggers : PlanTask(task, trigger)
  \/ \E trigger \in Triggers : Escalate(trigger.reason)
  \/ \E task \in Tasks, severity \in DOMAIN Percent : PlanMadDog(task, severity)
  \/ \E id \in DOMAIN stored, wired \in BOOLEAN, handling \in Handlings, sessions \in Supplies :
       BeginRoute(id, wired, handling, sessions)
  \/ Dispatch
  \/ AnswerRoute
  \/ \E verdict \in VerdictStatuses, dry \in BOOLEAN, handling \in Handlings :
       Orchestrate(verdict, dry, handling)

FusionSpec == FusionInit /\ [][FusionNext]_fusionVars

-----------------------------------------------------------------------------
(* Properties. *)

FusionTypeOK ==
  /\ \A i \in DOMAIN stored : /\ stored[i].task \in Tasks \/ stored[i].trigger.source = "kernel"
                             /\ \E m \in DOMAIN Modes : stored[i].mode = Modes[m]
  /\ route.stage \in {"idle", "dispatch", "raised", "answered"}
  /\ \A i \in DOMAIN route.results : route.results[i] \in CommandResults
  /\ \A role \in DOMAIN route.sessions : route.sessions[role] \in States
  /\ route.status \in VerdictStatuses \union {"none", "planning_only"}
  /\ advice.verdict \in VerdictStatuses \union {"none"}

Evidence == {"complexity", "risk", "failures", "complaints", "stalls", "files"}

\* More evidence, for the same trigger, never leads to a weaker mode; every command
\* that is recommended is recommended for a role some model has been given; and
\* while a model is free no other one is given two roles.
PlansFitEvidence ==
  /\ \A i \in DOMAIN stored, task \in Tasks :
       LET trigger == stored[i].trigger
       IN  (\A field \in Evidence : stored[i].task[field] <= task[field]) =>
             Rank(stored[i].mode) <= Rank(SelectMode(Score(task, trigger), trigger))
  /\ \A i \in DOMAIN stored :
       LET staff == stored[i].staff
       IN  /\ \A s \in DOMAIN stored[i].steps : \E a \in DOMAIN staff :
                staff[a].role = stored[i].steps[s].role
           /\ \A a, b \in DOMAIN staff :
                a # b /\ staff[a].model = staff[b].model =>
                  {staff[c].model : c \in DOMAIN staff} = DOMAIN Profiles \/ Profiles = <<>>

\* Routing gives advice only: whatever sessions the caller supplies, however kernel
\* and policies treat the commands, no handler runs for a route, nor for a
\* verdict on it unless its caller asks for more than a dry run; and a plan is
\* accepted only after each of its commands was submitted, in order, to a session
\* that runs on.
RoutedIsAdvice ==
  /\ \A i \in DOMAIN route.results : ~route.results[i].ran
  /\ advice.dry => ~advice.ran
  /\ route.status = "accepted" =>
       /\ Len(route.results) = Len(stored[route.plan].steps)
       /\ \A i \in DOMAIN route.results :
            LET role == stored[route.plan].steps[i].role
            IN  role \in DOMAIN route.sessions /\ route.sessions[role] = "RUNNING"

-----------------------------------------------------------------------------
(* What the documentation says. *)

\* FusionRunner: "walks ``recommended_aci_commands`` and dispatches each one through the
\* supplied kernel engine".  A route that has ended has submitted them all.
EachIsDispatched ==
  route.stage \in {"raised", "answered"} /\ route.status # "planning_only" =>
    route.submitted = Len(stored[route.plan].steps)

=============================================================================
