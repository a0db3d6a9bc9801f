---------------------------- MODULE FusionProofs ----------------------------
(***************************************************************************)
(* Proofs about FusionRun, for any tasks, triggers, models and kernels:    *)
(* routes are advice only, and plans fit the evidence they rest on.  They  *)
(* start with facts about the transition table of agent sessions and about *)
(* command results, which the proofs about AgentSession use too.           *)
(***************************************************************************)
EXTENDS FusionRun, NumberLemmas, FiniteSetTheorems, TLAPS

\* The events of results that did not come about, and of any results.
Setbacks == {"approval_required", "policy_denied", "convergence_halt_blocked",
             "convergence_halt_failure", "syscall_failed", "convergence_replan"}

Responses == Setbacks \union {"progress_updated", "syscall_completed"}

Bad(r) == r.status \in {"failed", "blocked", "unsupported", "approval_required"}

-----------------------------------------------------------------------------
(* The transition table. *)

\* What After chooses is in the table.
LEMMA AfterIsInTable ==
  ASSUME NEW q, NEW e, Accepts(q, e)
  PROVE  \E row \in Table : row[1] = q /\ row[2] = e /\ row[3] = After(q, e)
BY DEF Accepts, After

\* A session that has ended takes no event.
LEMMA ClosedTakesNothing ==
  ASSUME NEW q \in Closed, NEW e
  PROVE  ~Accepts(q, e)
BY DEF Accepts, Table, Closed, Haltable, Halts, Notes

\* Events lead from states to states.
LEMMA AfterIsState ==
  ASSUME NEW q, NEW e, Accepts(q, e)
  PROVE  After(q, e) \in States
BY AfterIsInTable DEF Table, States, Haltable, Halts, Notes

\* Progress is noted while running, and changes nothing.
LEMMA ProgressIsNoted ==
  ASSUME NEW q, Accepts(q, "progress_updated")
  PROVE  q = "RUNNING" /\ After(q, "progress_updated") = "RUNNING"
BY AfterIsInTable DEF Table, Haltable, Halts, Notes

\* While running, every setback can be taken.
LEMMA RunningTakesSetbacks ==
  ASSUME NEW e \in Setbacks
  PROVE  Accepts("RUNNING", e)
<1>1. CASE e \in {"convergence_halt_blocked", "convergence_halt_failure"}
  <2>1. CASE e = "convergence_halt_blocked"
    <3>1. <<"RUNNING", e, "HALTED_BLOCKED">> \in Table
      BY <2>1 DEF Table, Haltable, Halts
    <3> QED  BY <3>1 DEF Accepts
  <2>2. CASE e = "convergence_halt_failure"
    <3>1. <<"RUNNING", e, "HALTED_FAILURE">> \in Table
      BY <2>2 DEF Table, Haltable, Halts
    <3> QED  BY <3>1 DEF Accepts
  <2> QED  BY <1>1, <2>1, <2>2
<1>2. CASE e = "approval_required"
  <2>1. <<"RUNNING", e, "WAITING_APPROVAL">> \in Table  BY <1>2 DEF Table
  <2> QED  BY <2>1 DEF Accepts
<1>3. CASE e = "policy_denied"
  <2>1. <<"RUNNING", e, "HALTED_BLOCKED">> \in Table  BY <1>3 DEF Table
  <2> QED  BY <2>1 DEF Accepts
<1>4. CASE e = "syscall_failed"
  <2>1. <<"RUNNING", e, "REPAIRING">> \in Table  BY <1>4 DEF Table
  <2> QED  BY <2>1 DEF Accepts
<1>5. CASE e = "convergence_replan"
  <2>1. <<"RUNNING", e, "REPLANNING">> \in Table  BY <1>5 DEF Table
  <2> QED  BY <2>1 DEF Accepts
<1> QED  BY <1>1, <1>2, <1>3, <1>4, <1>5 DEF Setbacks

\* No setback leaves a session running, nor ends it as a success.
LEMMA SetbacksStop ==
  ASSUME NEW q, NEW e \in Setbacks, Accepts(q, e)
  PROVE  After(q, e) # "RUNNING"
BY AfterIsInTable DEF Table, Setbacks, Haltable, Halts, Notes

\* No event of a result declares success, and none ends a wait but by closing the session.
LEMMA ResponsesDecideNothing ==
  ASSUME NEW q, NEW e \in Responses, Accepts(q, e)
  PROVE  /\ After(q, e) # "HALTED_SUCCESS"
         /\ q = "WAITING_APPROVAL" => After(q, e) \in Closed
BY AfterIsInTable DEF Table, Responses, Setbacks, Haltable, Halts, Notes, Closed

-----------------------------------------------------------------------------
(* Results. *)

\* What the runner returns for a command is a result.
LEMMA RunCommandType ==
  ASSUME NEW c \in Commands, NEW auto \in BOOLEAN
  PROVE  RunCommand(c, auto) \subseteq CommandResults
<1>1. \A status \in CommandStatuses, success \in BOOLEAN, dry \in BOOLEAN :
        Result(c, status, success, dry) \in CommandResults
  BY DEF Result, CommandResults
<1>2. c.dry \in BOOLEAN /\ c.valid \in BOOLEAN /\ c.call \in Calls
  BY DEF Commands
<1>3. ASSUME NEW verdict, NEW r \in ResultsOf(c.call, verdict, {})
      PROVE  Materialize(c, verdict, r) \in CommandResults
  <2>1. r.success \in BOOLEAN
    <3>1. ResultRisk(c.call) \in Risks /\ (c.call.ask \/ c.call.policy = "approve") \in BOOLEAN
      BY <1>2 DEF Calls, ResultRisk, Risks
    <3>2. PICK ok \in BOOLEAN, asks \in BOOLEAN, ev \in {NoEvidence} :
            r = [success |-> ok, asks |-> asks, risk |-> ResultRisk(c.call), evidence |-> ev]
      <4>1. CASE verdict = "refused"  BY <3>1, <4>1 DEF ResultsOf
      <4>2. CASE verdict = "asks"     BY <3>1, <4>2 DEF ResultsOf
      <4>3. CASE verdict = "planned"  BY <3>1, <4>3 DEF ResultsOf
      <4>4. CASE verdict \notin {"refused", "asks", "planned"}
        BY <3>1, <4>4 DEF ResultsOf
      <4> QED  BY <4>1, <4>2, <4>3, <4>4
    <3> QED  BY <3>2
  <2>2. \A status \in CommandStatuses :
          [Result(c, status, r.success, verdict = "planned") EXCEPT
             !.ran = (verdict = "runs"),
             !.denied = @ \/ (status = "blocked")] \in CommandResults
    BY <2>1 DEF Result, CommandResults
  <2> QED  BY <2>2 DEF Materialize, CommandStatuses
<1>4. Dispatched(c, auto) \subseteq CommandResults
  BY <1>3 DEF Dispatched
<1>5. {Explain(c), Metadata(c), Blocked(c), ProviderFailed(c), NoRouter(c),
       Result(c, "unsupported", FALSE, FALSE)} \subseteq CommandResults
  BY <1>1, <1>2 DEF Explain, Metadata, Blocked, ProviderFailed, NoRouter, CommandStatuses
<1> QED  BY <1>4, <1>5 DEF RunCommand

\* A result asks for one or two events, the first of two being progress, and the last
\* being a setback when the result did not come about.
LEMMA DesiredShape ==
  ASSUME NEW r \in CommandResults
  PROVE  /\ DOMAIN Desired(r) = {1} \/ DOMAIN Desired(r) = {1, 2}
         /\ \A i \in DOMAIN Desired(r) : Desired(r)[i] \in Responses
         /\ 2 \in DOMAIN Desired(r) => Desired(r)[1] = "progress_updated"
         /\ Bad(r) => Desired(r)[IF 2 \in DOMAIN Desired(r) THEN 2 ELSE 1] \in Setbacks
<1>1. r.status \in CommandStatuses
  BY DEF CommandResults
<1>2. CASE r.status = "completed"
  BY <1>2 DEF Desired, Completion, Responses, Bad
<1>3. CASE r.status = "dry_run"
  BY <1>3 DEF Desired, Responses, Bad
<1>4. CASE r.status = "approval_required"
  BY <1>4 DEF Desired, Responses, Setbacks
<1>5. CASE r.status = "blocked"
  BY <1>5 DEF Desired, Block, Responses, Setbacks
<1>6. CASE r.status = "unsupported"
  BY <1>6 DEF Desired, Responses, Setbacks
<1>7. CASE r.status = "failed"
  BY <1>7 DEF Desired, Failure, FailureEvent, Responses, Setbacks
<1> QED  BY <1>1, <1>2, <1>3, <1>4, <1>5, <1>6, <1>7 DEF CommandStatuses

LastOf(r) == IF 2 \in DOMAIN Desired(r) THEN 2 ELSE 1

-----------------------------------------------------------------------------
(* Routes of fusion plans, whose commands are submitted to sessions too. *)

\* The states of sessions for some of the roles.
RoleSessions == UNION {[some -> States] : some \in SUBSET FusionRoles}

Plans == {FusionPlan(task, trigger) : task \in TaskProfiles, trigger \in FusionTriggers}

RouteRecords ==
  [stage : {"idle", "dispatch", "raised", "answered"}, plan : Nat,
   handling : [StepKinds -> Treatments] \union {NoRoute.handling}, sessions : RoleSessions,
   submitted : Nat, results : Seq(CommandResults),
   status : VerdictStatuses \union {"none", "planning_only"}]

AdviceRecords ==
  [verdict : VerdictStatuses \union {"none"}, dry : BOOLEAN, ran : BOOLEAN,
   next : {NextState[verdict] : verdict \in VerdictStatuses} \union {"none"},
   status : {"none", "submitted", "halted", "no_action"}]

StepsOf(id) == stored[id].steps

\* Each result is one of a session that runs on.
RunsOn(n) ==
  \A i \in 1..n : /\ StepsOf(route.plan)[i].role \in DOMAIN route.sessions
                  /\ route.sessions[StepsOf(route.plan)[i].role] = "RUNNING"

Succeeded(results) == \A i \in DOMAIN results : results[i].success

FusionTypes ==
  /\ stored \in Seq(Plans)
  /\ \A i \in DOMAIN stored : stored[i].task \in Tasks \/ stored[i].trigger.source = "kernel"
  /\ route \in RouteRecords
  /\ advice \in AdviceRecords

\* A route has a result for each command it submitted, and as long as none
\* failed the sessions that took them run.
Routed ==
  /\ route.stage = "dispatch" =>
       /\ route.plan \in DOMAIN stored /\ route.handling \in Handlings /\ route.status = "none"
       /\ Len(route.results) = route.submitted /\ route.submitted <= Len(StepsOf(route.plan))
       /\ Succeeded(route.results) => RunsOn(Len(route.results))
  /\ route.stage \in {"idle", "raised"} => route.status = "none"
  /\ route.stage = "answered" /\ route.status = "accepted" =>
       /\ route.plan \in DOMAIN stored
       /\ Len(route.results) = Len(StepsOf(route.plan)) /\ RunsOn(Len(route.results))

Dry ==
  /\ \A i \in DOMAIN route.results : ~route.results[i].ran
  /\ advice.dry => ~advice.ran

FusionInv == FusionTypes /\ Routed /\ Dry

-----------------------------------------------------------------------------
(* Plans. *)

Passed(score) == {limit \in {8, 15, 25, 35} : score >= limit}

\* A score passes four thresholds at most.
LEMMA PassedCount ==
  ASSUME NEW score
  PROVE  /\ IsFiniteSet(Passed(score)) /\ Cardinality(Passed(score)) \in Nat
         /\ 1 + Cardinality(Passed(score)) \in 1..5
<1>1. PICK limits : limits = {8, 15, 25, 35}
  OBVIOUS
<1>2. IsFiniteSet(limits) /\ Cardinality(limits) <= 4
  <2>1. PICK f : f = <<8, 15, 25, 35>>
    OBVIOUS
  <2>2. f \in [1..4 -> limits] /\ f[1] = 8 /\ f[2] = 15 /\ f[3] = 25 /\ f[4] = 35
    BY <1>1, <2>1
  <2>3. f \in Surjection(1..4, limits)
    BY <1>1, <2>2 DEF Surjection
  <2>4. PICK n \in Nat : n = 4
    OBVIOUS
  <2>5. IsFiniteSet(1..n) /\ Cardinality(1..n) = n
    <3>1. IsFiniteSet(1..n)
      BY FS_Interval
    <3>2. Cardinality(1..n) = IF 1 > n THEN 0 ELSE n - 1 + 1
      BY FS_Interval
    <3> QED  BY <3>1, <3>2
  <2>6. f \in Surjection(1..n, limits)
    BY <2>3, <2>4
  <2>7. IsFiniteSet(limits) /\ Cardinality(limits) <= Cardinality(1..n)
    BY <2>5, <2>6, FS_Surjection
  <2> QED  BY <2>4, <2>5, <2>7
<1>3. PICK passed : passed = Passed(score)
  OBVIOUS
<1>4. passed \subseteq limits
  BY <1>1, <1>3 DEF Passed
<1>5. IsFiniteSet(passed) /\ Cardinality(passed) <= Cardinality(limits)
  BY <1>2, <1>4, FS_Subset
<1>6. Cardinality(passed) \in Nat /\ Cardinality(limits) \in Nat
  BY <1>2, <1>5, FS_CardinalityType
<1>7. 1 + Cardinality(passed) \in 1..5
  BY <1>2, <1>5, <1>6
<1> QED  BY <1>3, <1>5, <1>6, <1>7

\* Whatever the score and the trigger, the mode is one of the modes.
LEMMA ModeSelected ==
  ASSUME NEW score, NEW trigger \in FusionTriggers
  PROVE  SelectMode(score, trigger) \in ModeNames
<1>1. CASE Explicit(trigger) /\ trigger.requested # "none"
  BY <1>1 DEF SelectMode, FusionTriggers
<1>2. CASE ~(Explicit(trigger) /\ trigger.requested # "none")
  <2>1. PICK n \in 1..5 : n = 1 + Cardinality(Passed(score))
    BY PassedCount
  <2>2. SelectMode(score, trigger) = Modes[n]
    BY <1>2, <2>1 DEF SelectMode, Passed
  <2> QED  BY <2>2 DEF ModeNames, Modes
<1> QED  BY <1>1, <1>2

LEMMA ModeCases == ModeNames = {"single", "pair", "committee", "attack", "mad_dog"}
<1>1. DOMAIN Modes = 1..5
  BY DEF Modes
<1> QED  BY <1>1 DEF ModeNames, Modes

\* The commands of a mode are for known roles.
LEMMA StepsTyped ==
  ASSUME NEW mode \in ModeNames
  PROVE  /\ Steps[mode] \in Seq([kind : StepKinds, role : FusionRoles]) /\ Len(Steps[mode]) \in Nat
         /\ \A i \in 1..Len(Steps[mode]) :
              Steps[mode][i].kind \in StepKinds /\ Steps[mode][i].role \in FusionRoles
<1> DEFINE K == [kind : StepKinds, role : FusionRoles]
<1>1. /\ \A kind \in StepKinds, role \in {"primary", "coder", "reviewer", "planner", "bug_hunter",
              "test_breaker", "judge", "architect", "security_guard", "simplifier", "summarizer"} :
           Step(kind, role) \in K
  BY DEF Step, FusionRoles, Talents
<1>2. "noop" \in StepKinds /\ "file.read" \in StepKinds /\ "file.patch" \in StepKinds
  BY DEF StepKinds
<1> HIDE DEF K
<1>3. Steps[mode] \in Seq(K)
  <2>1. CASE mode = "single"
    BY <1>1, <1>2, <2>1 DEF Steps
  <2>2. CASE mode = "pair"
    BY <1>1, <1>2, <2>2 DEF Steps
  <2>3. CASE mode = "committee"
    BY <1>1, <1>2, <2>3 DEF Steps
  <2>4. CASE mode = "attack"
    BY <1>1, <1>2, <2>4 DEF Steps
  <2>5. CASE mode = "mad_dog"
    BY <1>1, <1>2, <2>5 DEF Steps
  <2> QED  BY <2>1, <2>2, <2>3, <2>4, <2>5, ModeCases
<1>4. PICK steps : steps = Steps[mode]
  OBVIOUS
<1>5. steps \in Seq(K)
  BY <1>3, <1>4
<1>6. Len(steps) \in Nat /\ \A i \in 1..Len(steps) : steps[i] \in K
  BY <1>5
<1> QED  BY <1>4, <1>5, <1>6 DEF K

\* Of any plan, too.
LEMMA PlanParts ==
  ASSUME NEW task, NEW trigger \in FusionTriggers
  PROVE  LET p == FusionPlan(task, trigger)
         IN  /\ p.task = task /\ p.trigger = trigger /\ p.mode \in ModeNames
             /\ Len(p.steps) \in Nat
             /\ \A i \in 1..Len(p.steps) : p.steps[i].kind \in StepKinds /\ p.steps[i].role \in FusionRoles
<1>1. PICK mode : mode = SelectMode(Score(task, trigger), trigger)
  OBVIOUS
<1>2. PICK staff : staff = AssignRoles(RequiredRoles(mode, task, trigger))
  OBVIOUS
<1>3. PICK steps : steps = Steps[mode]
  OBVIOUS
<1>4. mode \in ModeNames
  BY <1>1, ModeSelected
<1>5. FusionPlan(task, trigger) =
        [task |-> task, trigger |-> trigger, mode |-> mode, staff |-> staff, steps |-> steps]
  BY <1>1, <1>2, <1>3 DEF FusionPlan
<1>6. Len(steps) \in Nat /\ \A i \in 1..Len(steps) : steps[i].kind \in StepKinds /\ steps[i].role \in FusionRoles
  BY <1>3, <1>4, StepsTyped
<1> QED  BY <1>4, <1>5, <1>6

LEMMA PlansTyped ==
  ASSUME NEW p \in Plans
  PROVE  /\ p.mode \in ModeNames /\ Len(p.steps) \in Nat
         /\ \A i \in 1..Len(p.steps) : p.steps[i].kind \in StepKinds /\ p.steps[i].role \in FusionRoles
<1>1. PICK task \in TaskProfiles : \E trigger \in FusionTriggers : p = FusionPlan(task, trigger)
  BY DEF Plans
<1>2. PICK trigger \in FusionTriggers : p = FusionPlan(task, trigger)
  BY <1>1
<1> QED  BY <1>2, PlanParts

-----------------------------------------------------------------------------
(* Commands of plans, and the sessions that take them. *)

\* No handler runs for a dry run, and a success of one says that it was dry.
LEMMA DryIsPlanned ==
  ASSUME NEW c \in Commands, c.dry, c.kind \in {"syscall", "unsupported"},
         NEW r \in RunCommand(c, FALSE)
  PROVE  r \in CommandResults /\ r.ran = FALSE /\ (r.success => r.status = "dry_run")
<1>1. r \in CommandResults
  BY RunCommandType
<1>2. ASSUME NEW v \in {"refused", "planned"}, NEW x \in ResultsOf(c.call, v, {})
      PROVE  LET m == Materialize(c, v, x)
             IN  m.ran = FALSE /\ (m.success => m.status = "dry_run")
  <2>1. PICK ok \in BOOLEAN : x.success = ok /\ (ok => v = "planned")
    <3>1. CASE v = "refused"
      <4>1. x.success = FALSE
        BY <1>2, <3>1 DEF ResultsOf
      <4> QED  BY <4>1
    <3>2. CASE v = "planned"
      <4>1. x.success = TRUE
        BY <1>2, <3>2 DEF ResultsOf
      <4> QED  BY <3>2, <4>1
    <3> QED  BY <3>1, <3>2
  <2>2. PICK runs : runs = (v = "runs")
    OBVIOUS
  <2>3. runs = FALSE
    BY <2>2
  <2>4. PICK m : m = Materialize(c, v, x)
    OBVIOUS
  <2>5. PICK status : m = [Result(c, status, ok, v = "planned") EXCEPT
                             !.ran = runs, !.denied = @ \/ (status = "blocked")]
                      /\ (ok => status = "dry_run")
    <3>1. CASE ok
      BY <2>1, <2>2, <2>4, <3>1, Zenon DEF Materialize
    <3>2. CASE ~ok
      BY <2>1, <2>2, <2>4, <3>2, Zenon DEF Materialize
    <3> QED  BY <3>1, <3>2
  <2>6. m.ran = FALSE /\ m.success = ok /\ m.status = status
    BY <2>3, <2>5 DEF Result
  <2> QED  BY <2>4, <2>5, <2>6
<1>3. CallVerdict(c, FALSE) \in {"refused", "planned"}
  <2>1. CallVerdict(c, FALSE) = Verdict(c.call, "dry_run", FALSE, c.approved)
    BY DEF CallVerdict
  <2>2. Verdict(c.call, "dry_run", FALSE, c.approved)
          = IF Refused(c.call) THEN "refused" ELSE "planned"
    BY DEF Verdict
  <2> QED  BY <2>1, <2>2
<1>4. CASE r \in Dispatched(c, FALSE)
  <2>1. PICK v \in {"refused", "planned"} : v = CallVerdict(c, FALSE)
    BY <1>3
  <2>2. PICK x \in ResultsOf(c.call, v, {}) : r = Materialize(c, v, x)
    BY <1>4, <2>1 DEF Dispatched
  <2>3. r.ran = FALSE /\ (r.success => r.status = "dry_run")
    BY <1>2, <2>2
  <2> QED  BY <1>1, <2>3, Zenon
<1>5. CASE r \in {Blocked(c), ProviderFailed(c), Result(c, "unsupported", FALSE, FALSE), NoRouter(c)}
  <2>1. /\ \A status, dry : Result(c, status, FALSE, dry).ran = FALSE
                            /\ Result(c, status, FALSE, dry).success = FALSE
        /\ Result(c, "dry_run", TRUE, c.dry).ran = FALSE
        /\ Result(c, "dry_run", TRUE, c.dry).status = "dry_run"
    BY DEF Result
  <2>2. \/ r = Result(c, "blocked", FALSE, c.dry) \/ r = Result(c, "failed", FALSE, c.dry)
        \/ r = Result(c, "unsupported", FALSE, FALSE) \/ r = Result(c, "dry_run", TRUE, c.dry)
    <3>1. NoRouter(c) \in {Blocked(c), Result(c, "dry_run", TRUE, c.dry)}
      <4>1. (IF c.dry THEN "dry_run" ELSE "completed") = "dry_run"
        OBVIOUS
      <4>2. NoRouter(c) = Blocked(c) \/ NoRouter(c) = Result(c, "dry_run", TRUE, c.dry)
        BY <4>1, Zenon DEF NoRouter
      <4> QED  BY <4>2
    <3>2. /\ Blocked(c) = Result(c, "blocked", FALSE, c.dry)
          /\ ProviderFailed(c) = Result(c, "failed", FALSE, c.dry)
      BY Zenon DEF Blocked, ProviderFailed
    <3>3. r \in {Blocked(c), ProviderFailed(c), Result(c, "unsupported", FALSE, FALSE),
                 Result(c, "dry_run", TRUE, c.dry)}
      BY <1>5, <3>1
    <3> QED  BY <3>2, <3>3
  <2>3. r.ran = FALSE /\ (r.success = FALSE \/ r.status = "dry_run")
    BY <2>1, <2>2
  <2> QED  BY <1>1, <2>3
<1> QED  BY <1>1, <1>4, <1>5 DEF RunCommand

LEMMA AciCommandType ==
  ASSUME NEW kind \in StepKinds, NEW handling \in Handlings
  PROVE  /\ AciCommand(kind, handling) \in Commands /\ AciCommand(kind, handling).dry = TRUE
         /\ AciCommand(kind, handling).kind \in {"syscall", "unsupported"}
<1>1. handling[kind] \in Treatments
  BY FusionAssumptions
<1> QED  BY <1>1 DEF AciCommand, Commands, Treatments

\* A dry success is taken by a session that runs, and leaves it running.
LEMMA SuccessRunsOn ==
  ASSUME NEW q, NEW r \in CommandResults, r.status = "dry_run", Kept(q, r) # {}
  PROVE  q = "RUNNING" /\ Consumed(q, r) = "RUNNING"
<1>1. Desired(r) = <<"progress_updated">>
  BY DEF Desired
<1>2. PICK i \in Kept(q, r) : TRUE
  OBVIOUS
<1>3. i = 1 /\ Accepts(q, "progress_updated") /\ 1 \in Kept(q, r)
  BY <1>1, <1>2 DEF Kept
<1>4. q = "RUNNING" /\ After(q, "progress_updated") = "RUNNING"
  BY <1>3, ProgressIsNoted
<1> QED  BY <1>1, <1>3, <1>4 DEF Consumed

LEMMA ConsumedType ==
  ASSUME NEW q \in States, NEW r \in CommandResults
  PROVE  Consumed(q, r) \in States
<1> DEFINE Taken(at, i) == IF i \in Kept(q, r) THEN After(at, Desired(r)[i]) ELSE at
<1>1. Taken(q, 1) \in States
  BY AfterIsState DEF Kept
<1>2. Taken(Taken(q, 1), 2) \in States
  <2>1. CASE 2 \in Kept(q, r)
    <3>1. 2 \in DOMAIN Desired(r) /\ Accepts(q, Desired(r)[2]) /\ Desired(r)[1] = "progress_updated"
      BY <2>1, DesiredShape DEF Kept
    <3>2. 1 \in Kept(q, r) => Taken(q, 1) = q
      BY <3>1, ProgressIsNoted DEF Kept
    <3>3. Taken(q, 1) = q
      BY <3>2
    <3> QED  BY <2>1, <3>1, <3>3, AfterIsState
  <2> QED  BY <1>1, <2>1
<1>3. Consumed(q, r) = IF Len(Desired(r)) = 1 THEN Taken(q, 1) ELSE Taken(Taken(q, 1), 2)
  BY DEF Consumed
<1> HIDE DEF Taken
<1> QED  BY <1>1, <1>2, <1>3

\* The sessions of roles, and one that has only been given its goal does not run.
LEMMA RoleSessionsAre ==
  ASSUME NEW f
  PROVE  f \in RoleSessions <=> DOMAIN f \subseteq FusionRoles /\ f \in [DOMAIN f -> States]
<1>1. ASSUME f \in RoleSessions
      PROVE  DOMAIN f \subseteq FusionRoles /\ f \in [DOMAIN f -> States]
  <2>1. PICK some \in SUBSET FusionRoles : f \in [some -> States]
    BY <1>1 DEF RoleSessions
  <2> QED  BY <2>1
<1>2. ASSUME DOMAIN f \subseteq FusionRoles, f \in [DOMAIN f -> States]
      PROVE  f \in RoleSessions
  BY <1>2 DEF RoleSessions
<1> QED  BY <1>1, <1>2

LEMMA OpenedType ==
  ASSUME NEW sessions \in RoleSessions, NEW role
  PROVE  /\ Opened(sessions, role) \in States
         /\ Opened(sessions, role) = "RUNNING" => role \in DOMAIN sessions /\ sessions[role] = "RUNNING"
<1>1. After("CREATED", "goal_submitted") = "READY"
  <2>1. <<"CREATED", "goal_submitted", "READY">> \in Table
    BY DEF Table
  <2>2. Accepts("CREATED", "goal_submitted")
    BY <2>1 DEF Accepts
  <2> QED  BY <2>2, AfterIsInTable DEF Table, Haltable, Halts, Notes
<1>2. sessions \in [DOMAIN sessions -> States]
  BY RoleSessionsAre
<1>3. "READY" \in States
  BY DEF States
<1>4. CASE role \notin DOMAIN sessions \/ sessions[role] = "CREATED"
  BY <1>1, <1>3, <1>4 DEF Opened
<1>5. CASE role \in DOMAIN sessions /\ sessions[role] # "CREATED"
  BY <1>2, <1>5 DEF Opened
<1> QED  BY <1>4, <1>5

-----------------------------------------------------------------------------
(* The invariant of routes, action by action. *)

\* Storing a plan leaves the plans stored before it where they are.
LEMMA StoreStep ==
  ASSUME FusionInv, NEW task \in TaskProfiles, NEW trigger \in FusionTriggers,
         task \in Tasks \/ trigger.source = "kernel", Store(FusionPlan(task, trigger))
  PROVE  FusionInv'
<1>1. PICK p : p = FusionPlan(task, trigger)
  OBVIOUS
<1>2. p \in Plans /\ p.task = task /\ p.trigger = trigger
  BY <1>1, PlanParts DEF Plans
<1>3. stored \in Seq(Plans) /\ stored' = Append(stored, p) /\ UNCHANGED <<route, advice>>
  BY <1>1 DEF FusionInv, FusionTypes, Store
<1>4. PICK old : old = stored
  OBVIOUS
<1>5. PICK new : new = Append(old, p)
  OBVIOUS
<1>6. /\ new \in Seq(Plans) /\ DOMAIN old \subseteq DOMAIN new
      /\ \A i \in DOMAIN old : new[i] = old[i]
      /\ \A i \in DOMAIN new : i \notin DOMAIN old => new[i] = p
  BY <1>2, <1>3, <1>4, <1>5
<1>7. stored' = new
  BY <1>3, <1>4, <1>5
<1>8. FusionTypes'
  BY <1>2, <1>3, <1>4, <1>6, <1>7 DEF FusionInv, FusionTypes
<1>9. route.plan \in DOMAIN stored => StepsOf(route.plan)' = StepsOf(route.plan) /\ route.plan \in DOMAIN stored'
  BY <1>3, <1>4, <1>6, <1>7 DEF StepsOf
<1>10. ASSUME NEW n, route.plan \in DOMAIN stored, RunsOn(n) PROVE RunsOn(n)'
  BY <1>3, <1>9, <1>10 DEF RunsOn
<1>11. Routed'
  BY <1>3, <1>9, <1>10 DEF FusionInv, Routed
<1> QED  BY <1>3, <1>8, <1>11 DEF FusionInv, Dry

LEMMA BeginRouteStep ==
  ASSUME FusionInv, NEW id \in DOMAIN stored, NEW wired \in BOOLEAN, NEW handling \in Handlings,
         NEW sessions \in Supplies, BeginRoute(id, wired, handling, sessions)
  PROVE  FusionInv'
<1>1. /\ route' = [stage |-> IF wired THEN "dispatch" ELSE "answered", plan |-> id,
                   handling |-> handling, sessions |-> sessions, submitted |-> 0, results |-> <<>>,
                   status |-> IF wired THEN "none" ELSE "planning_only"]
      /\ advice' = NoStep /\ stored' = stored
  BY DEF BeginRoute, NoRoute
<1>2. id \in Nat /\ Len(StepsOf(id)) \in Nat
  <2>1. stored[id] \in Plans /\ id \in Nat
    BY DEF FusionInv, FusionTypes
  <2> QED  BY <2>1, PlansTyped DEF StepsOf
<1>3. sessions \in RoleSessions /\ handling \in [StepKinds -> Treatments]
  BY FusionAssumptions, RoleSessionsAre
<1>4. route' \in RouteRecords
  BY <1>1, <1>2, <1>3 DEF RouteRecords
<1>5. advice' \in AdviceRecords
  BY <1>1 DEF NoStep, AdviceRecords
<1>6. FusionTypes'
  BY <1>1, <1>4, <1>5 DEF FusionInv, FusionTypes
<1>7. RunsOn(0)'
  BY DEF RunsOn
<1>8. Len(route.results)' = 0 /\ route'.results = <<>> /\ route'.status # "accepted"
  BY <1>1
<1>9. StepsOf(route.plan)' = StepsOf(id)
  BY <1>1 DEF StepsOf
<1>10. Routed'
  BY <1>1, <1>2, <1>7, <1>8, <1>9 DEF Routed
<1>11. Dry'
  BY <1>1 DEF NoStep, Dry
<1> QED  BY <1>6, <1>10, <1>11 DEF FusionInv

LEMMA AnswerRouteStep == FusionInv /\ AnswerRoute => FusionInv'
<1> SUFFICES ASSUME FusionInv, AnswerRoute PROVE FusionInv'
  OBVIOUS
<1>1. PICK status : status = DecideStatus(route.results)
  OBVIOUS
<1>2. status \in VerdictStatuses
  BY <1>1 DEF DecideStatus, VerdictStatuses
<1>3. status = "accepted" => Succeeded(route.results)
  BY <1>1 DEF DecideStatus, Succeeded
<1>4. /\ route' = [route EXCEPT !.stage = "answered", !.status = status]
      /\ UNCHANGED <<stored, advice>> /\ route.stage = "dispatch"
      /\ route.submitted = Len(StepsOf(route.plan))
  BY <1>1 DEF AnswerRoute, StepsOf
<1>5. route \in RouteRecords
  BY DEF FusionInv, FusionTypes
<1>6. /\ route' \in RouteRecords /\ route'.stage = "answered" /\ route'.status = status
      /\ route'.plan = route.plan /\ route'.results = route.results
      /\ route'.sessions = route.sessions
  BY <1>2, <1>4, <1>5 DEF RouteRecords
<1>7. FusionTypes'
  BY <1>4, <1>6 DEF FusionInv, FusionTypes
<1>8. StepsOf(route.plan)' = StepsOf(route.plan)
  BY <1>4, <1>6 DEF StepsOf
<1>9. RunsOn(Len(route.results)) => RunsOn(Len(route.results))'
  BY <1>6, <1>8 DEF RunsOn
<1>10. Routed'
  BY <1>3, <1>4, <1>6, <1>8, <1>9 DEF FusionInv, Routed
<1>11. Dry'
  BY <1>4, <1>6 DEF FusionInv, Dry
<1> QED  BY <1>7, <1>10, <1>11 DEF FusionInv

\* A submit that the session takes and that succeeds leaves the sessions of the
\* submits before it running, for they ran already.
LEMMA DispatchStep == FusionInv /\ Dispatch => FusionInv'
<1> SUFFICES ASSUME FusionInv, Dispatch PROVE FusionInv'
  OBVIOUS
<1>1. PICK steps : steps = StepsOf(route.plan)
  OBVIOUS
<1>2. PICK n : n = route.submitted + 1
  OBVIOUS
<1>3. /\ route \in RouteRecords /\ route.plan \in DOMAIN stored /\ route.handling \in Handlings
      /\ route.status = "none" /\ route.stage = "dispatch"
      /\ Len(route.results) = route.submitted /\ route.submitted < Len(steps)
      /\ Succeeded(route.results) => RunsOn(Len(route.results))
  BY <1>1 DEF FusionInv, FusionTypes, Routed, Dispatch, StepsOf
<1>4. /\ Len(steps) \in Nat
      /\ \A i \in 1..Len(steps) : steps[i].kind \in StepKinds /\ steps[i].role \in FusionRoles
  <2>1. stored[route.plan] \in Plans
    BY <1>3 DEF FusionInv, FusionTypes
  <2> QED  BY <1>1, <2>1, PlansTyped DEF StepsOf
<1>5. route.submitted \in Nat /\ route.sessions \in RoleSessions /\ route.results \in Seq(CommandResults)
  BY <1>3 DEF RouteRecords
<1>6. n \in 1..Len(steps) /\ n = Len(route.results) + 1
  BY <1>2, <1>3, <1>4, <1>5
<1>7. PICK role \in FusionRoles : role = steps[n].role
  BY <1>4, <1>6
<1>8. PICK kind \in StepKinds : kind = steps[n].kind
  BY <1>4, <1>6
<1>9. PICK q : q = Opened(route.sessions, role)
  OBVIOUS
<1>10. PICK r \in RunCommand(AciCommand(kind, route.handling), FALSE) :
         route' = [route EXCEPT
             !.submitted = @ + 1,
             !.stage = IF Kept(q, r) = {} THEN "raised" ELSE "dispatch",
             !.results = IF Kept(q, r) = {} THEN @ ELSE Append(@, r),
             !.sessions = IF role \in DOMAIN @ THEN [@ EXCEPT ![role] = Consumed(q, r)] ELSE @]
  BY <1>1, <1>2, <1>7, <1>8, <1>9 DEF Dispatch, StepsOf
<1>11. r \in CommandResults /\ r.ran = FALSE /\ (r.success => r.status = "dry_run")
  <2>1. AciCommand(kind, route.handling) \in Commands /\ AciCommand(kind, route.handling).dry
          /\ AciCommand(kind, route.handling).kind \in {"syscall", "unsupported"}
    BY <1>3, AciCommandType
  <2> QED  BY <2>1, DryIsPlanned
<1>12. q \in States /\ (q = "RUNNING" => role \in DOMAIN route.sessions)
  BY <1>5, <1>9, OpenedType
<1>13. PICK then \in States : then = Consumed(q, r)
  BY <1>11, <1>12, ConsumedType
<1>14. PICK old : old = route.results
  OBVIOUS
<1>15. PICK results : results = IF Kept(q, r) = {} THEN old ELSE Append(old, r)
  OBVIOUS
<1>16. PICK before : before = route.sessions
  OBVIOUS
<1>17. PICK after : after = IF role \in DOMAIN before THEN [before EXCEPT ![role] = then] ELSE before
  OBVIOUS
<1>18. /\ after \in RoleSessions /\ DOMAIN after = DOMAIN before
       /\ \A other \in DOMAIN before : other # role => after[other] = before[other]
       /\ role \in DOMAIN before => after[role] = then
  <2>1. DOMAIN before \subseteq FusionRoles /\ before \in [DOMAIN before -> States]
    BY <1>5, <1>16, RoleSessionsAre
  <2>2. after \in [DOMAIN before -> States] /\ DOMAIN after = DOMAIN before
    BY <1>17, <2>1
  <2>3. after \in RoleSessions
    BY <2>1, <2>2, RoleSessionsAre
  <2> QED  BY <1>17, <2>1, <2>2, <2>3
<1>19. results \in Seq(CommandResults)
  BY <1>5, <1>11, <1>14, <1>15
<1>20. PICK stage \in {"raised", "dispatch"} : stage = IF Kept(q, r) = {} THEN "raised" ELSE "dispatch"
  OBVIOUS
<1>21. route' = [route EXCEPT !.submitted = n, !.stage = stage, !.results = results, !.sessions = after]
  BY <1>2, <1>3, <1>10, <1>13, <1>14, <1>15, <1>16, <1>17, <1>20 DEF RouteRecords
<1>22. /\ route' \in RouteRecords /\ route'.submitted = n /\ route'.stage = stage
       /\ route'.results = results /\ route'.sessions = after /\ route'.plan = route.plan
       /\ route'.handling = route.handling /\ route'.status = "none"
  <2>1. n \in Nat
    BY <1>4, <1>6
  <2> QED  BY <1>3, <1>18, <1>19, <1>21, <2>1 DEF RouteRecords
<1>23. UNCHANGED <<stored, advice>>
  BY DEF Dispatch
<1>24. FusionTypes'
  BY <1>22, <1>23 DEF FusionInv, FusionTypes
<1>25. StepsOf(route.plan)' = steps
  BY <1>1, <1>22, <1>23 DEF StepsOf
<1>26. stage = "dispatch" => Len(results) = n /\ results = Append(old, r)
  BY <1>5, <1>6, <1>14, <1>15, <1>20
<1>27. ASSUME stage = "dispatch", Succeeded(results) PROVE RunsOn(Len(results))'
  <2>1. \A i \in 1..Len(old) : results[i] = old[i]
    BY <1>5, <1>14, <1>26, <1>27
  <2>2. results[n] = r /\ DOMAIN results = 1..n /\ n \in Nat /\ Len(old) = n - 1 /\ DOMAIN old = 1..Len(old)
    BY <1>5, <1>6, <1>14, <1>19, <1>26, <1>27
  <2>3. Succeeded(old) /\ r.success
    BY <2>1, <2>2, <1>27 DEF Succeeded
  <2>4. RunsOn(Len(old))
    BY <1>3, <1>14, <2>3
  <2>5. q = "RUNNING" /\ then = "RUNNING"
    BY <1>11, <1>13, <1>20, <1>27, <2>3, SuccessRunsOn
  <2>6. role \in DOMAIN before /\ after[role] = "RUNNING"
    BY <1>12, <1>16, <1>18, <2>5
  <2>7. ASSUME NEW i \in 1..n PROVE steps[i].role \in DOMAIN after /\ after[steps[i].role] = "RUNNING"
    <3>1. CASE i = n
      BY <1>7, <1>18, <2>6, <3>1
    <3>2. CASE i # n
      <4>1. i \in 1..Len(old)
        BY <2>2, <3>2
      <4>2. steps[i].role \in DOMAIN before /\ before[steps[i].role] = "RUNNING"
        BY <1>1, <1>16, <2>4, <4>1 DEF RunsOn
      <4> QED  BY <1>18, <2>6, <4>2
    <3> QED  BY <3>1, <3>2
  <2> QED  BY <1>22, <1>25, <1>26, <1>27, <2>7 DEF RunsOn
<1>28. Routed'
  <2>1. CASE stage = "dispatch"
    <3>1. n <= Len(steps)
      BY <1>4, <1>6
    <3> QED  BY <1>3, <1>22, <1>23, <1>25, <1>26, <1>27, <2>1, <3>1 DEF Routed
  <2>2. CASE stage = "raised"
    BY <1>22, <2>2 DEF Routed
  <2> QED  BY <2>1, <2>2
<1>29. Dry'
  <2>1. \A i \in DOMAIN old : ~old[i].ran
    BY <1>14 DEF FusionInv, Dry
  <2>2. \A i \in DOMAIN results : (i \in DOMAIN old /\ results[i] = old[i]) \/ results[i] = r
    BY <1>5, <1>14, <1>15, <1>11
  <2>3. \A i \in DOMAIN results : ~results[i].ran
    BY <1>11, <2>1, <2>2
  <2> QED  BY <1>22, <1>23, <2>3 DEF FusionInv, Dry
<1> QED  BY <1>24, <1>28, <1>29 DEF FusionInv

LEMMA OrchestrateStep ==
  ASSUME FusionInv, NEW verdict \in VerdictStatuses, NEW dry \in BOOLEAN, NEW handling \in Handlings,
         Orchestrate(verdict, dry, handling)
  PROVE  FusionInv'
<1>1. PICK c : c = [AciCommand("noop", handling) EXCEPT !.dry = dry]
  OBVIOUS
<1>2. PICK submits \in BOOLEAN : submits = (verdict \in {"needs_repair", "needs_replan"})
  <2>1. (verdict \in {"needs_repair", "needs_replan"}) \in BOOLEAN
    OBVIOUS
  <2> QED  BY <2>1, Zenon
<1>3. c \in Commands
  <2>1. AciCommand("noop", handling) \in Commands
    BY AciCommandType DEF StepKinds
  <2> QED  BY <1>1, <2>1 DEF Commands
<1>4. PICK r \in (IF dry THEN {Explain(c)} ELSE RunCommand(c, FALSE)) :
        advice' = [verdict |-> verdict, dry |-> dry, next |-> NextState[verdict],
                   status |-> IF submits THEN "submitted"
                              ELSE IF verdict = "rejected" THEN "halted" ELSE "no_action",
                   ran |-> submits /\ r.ran]
  BY <1>1, <1>2, Zenon DEF Orchestrate
<1>5. r.ran \in BOOLEAN /\ (dry => r.ran = FALSE)
  <2>1. Explain(c).ran = FALSE
    BY DEF Explain, Result
  <2>2. CASE dry
    BY <1>4, <2>1, <2>2
  <2>3. CASE ~dry
    <3>1. r \in CommandResults
      BY <1>3, <1>4, <2>3, RunCommandType
    <3> QED  BY <2>3, <3>1 DEF CommandResults
  <2> QED  BY <2>2, <2>3
<1>6. PICK ran \in BOOLEAN : ran = (submits /\ r.ran)
  OBVIOUS
<1>7. dry => ~ran
  BY <1>5, <1>6
<1>8. advice' = [verdict |-> verdict, dry |-> dry, next |-> NextState[verdict],
                 status |-> IF submits THEN "submitted"
                            ELSE IF verdict = "rejected" THEN "halted" ELSE "no_action",
                 ran |-> ran]
  BY <1>4, <1>6, Zenon
<1>9. advice' \in AdviceRecords /\ advice'.dry = dry /\ advice'.ran = ran
  BY <1>8 DEF AdviceRecords
<1>10. UNCHANGED <<stored, route>>
  BY DEF Orchestrate
<1>11. FusionTypes'
  BY <1>9, <1>10 DEF FusionInv, FusionTypes
<1>12. Routed'
  BY <1>10 DEF FusionInv, Routed, RunsOn, StepsOf
<1>13. Dry'
  BY <1>7, <1>9, <1>10 DEF FusionInv, Dry
<1> QED  BY <1>11, <1>12, <1>13 DEF FusionInv

-----------------------------------------------------------------------------
(* Theorems about routes. *)

\* Every step of the fusion router keeps the invariant.
LEMMA FusionStep == FusionInv /\ [FusionNext]_fusionVars => FusionInv'
<1> SUFFICES ASSUME FusionInv, [FusionNext]_fusionVars PROVE FusionInv'
  OBVIOUS
<1>1. ASSUME NEW task \in Tasks, NEW trigger \in Triggers, PlanTask(task, trigger) PROVE FusionInv'
  BY <1>1, RoutingAssumptions, StoreStep DEF PlanTask
<1>2. ASSUME NEW trigger \in Triggers, Escalate(trigger.reason) PROVE FusionInv'
  <2>1. PICK task : task = [type |-> "debugging", complexity |-> 0, risk |-> 0, failures |-> 1,
                            complaints |-> 0, stalls |-> 0, files |-> 0]
    OBVIOUS
  <2>2. PICK why : why = [source |-> "kernel", reason |-> trigger.reason, severity |-> "high",
                          requested |-> "none"]
    OBVIOUS
  <2>3. task \in TaskProfiles
    BY <2>1 DEF TaskProfiles, TaskTypes
  <2>4. why \in FusionTriggers /\ why.source = "kernel"
    BY <2>2, RoutingAssumptions DEF FusionTriggers, TriggerSources
  <2>5. Store(FusionPlan(task, why))
    BY <1>2, <2>1, <2>2 DEF Escalate, Escalation
  <2> QED  BY <2>3, <2>4, <2>5, StoreStep
<1>3. ASSUME NEW task \in Tasks, NEW severity \in DOMAIN Percent, PlanMadDog(task, severity)
      PROVE  FusionInv'
  <2>1. PICK why : why = [source |-> "user", reason |-> "explicit_user_request",
                          severity |-> severity, requested |-> "mad_dog"]
    OBVIOUS
  <2>2. why \in FusionTriggers
    <3>1. severity \in {"low", "medium", "high", "critical"}
      BY DEF Percent
    <3>2. "mad_dog" \in ModeNames
      BY ModeCases
    <3> QED  BY <2>1, <3>1, <3>2 DEF FusionTriggers, TriggerSources, TriggerReasons
  <2>3. Store(FusionPlan(task, why))
    BY <1>3, <2>1 DEF PlanMadDog, MadDog
  <2> QED  BY <2>2, <2>3, RoutingAssumptions, StoreStep
<1>4. CASE Dispatch
  BY <1>4, DispatchStep
<1>5. CASE AnswerRoute
  BY <1>5, AnswerRouteStep
<1>6. CASE UNCHANGED fusionVars
  <2>1. FusionTypes'
    BY <1>6 DEF FusionInv, FusionTypes, fusionVars
  <2>2. Routed'
    BY <1>6 DEF FusionInv, Routed, RunsOn, StepsOf, fusionVars
  <2>3. Dry'
    BY <1>6 DEF FusionInv, Dry, fusionVars
  <2> QED  BY <2>1, <2>2, <2>3 DEF FusionInv
<1> QED  BY <1>1, <1>2, <1>3, <1>4, <1>5, <1>6, BeginRouteStep, OrchestrateStep DEF FusionNext

\* It holds of every behaviour of the router, whatever is planned and supplied.
LEMMA FusionInvariant == FusionSpec => []FusionInv
<1>1. FusionInit => FusionInv
  <2> SUFFICES ASSUME FusionInit PROVE FusionInv
    OBVIOUS
  <2>1. NoRoute.sessions \in RoleSessions
    <3>1. PICK f : f = [role \in {} |-> "CREATED"]
      OBVIOUS
    <3>2. DOMAIN f \subseteq FusionRoles /\ f \in [DOMAIN f -> States]
      BY <3>1
    <3> QED  BY <3>1, <3>2, RoleSessionsAre DEF NoRoute
  <2>2. route \in RouteRecords
    BY <2>1 DEF FusionInit, NoRoute, RouteRecords
  <2>3. FusionTypes
    BY <2>2 DEF FusionInit, FusionTypes, AdviceRecords, NoStep
  <2>4. Routed /\ Dry
    BY DEF FusionInit, Routed, Dry, NoRoute, NoStep
  <2> QED  BY <2>3, <2>4 DEF FusionInv
<1> QED  BY <1>1, FusionStep, PTL DEF FusionSpec

\* Types hold for any registry of models, any tasks and triggers, and whatever the
\* sessions and the kernel of a route do.
THEOREM FusionTypeCorrect == FusionSpec => []FusionTypeOK
<1>1. FusionInv => FusionTypeOK
  <2> SUFFICES ASSUME FusionInv PROVE FusionTypeOK
    OBVIOUS
  <2>1. ASSUME NEW i \in DOMAIN stored
        PROVE  \E m \in DOMAIN Modes : stored[i].mode = Modes[m]
    <3>1. stored[i] \in Plans
      BY DEF FusionInv, FusionTypes
    <3>2. stored[i].mode \in ModeNames
      BY <3>1, PlansTyped
    <3> QED  BY <3>2 DEF ModeNames
  <2>2. route \in RouteRecords /\ advice \in AdviceRecords
    BY DEF FusionInv, FusionTypes
  <2>3. /\ route.stage \in {"idle", "dispatch", "raised", "answered"}
        /\ \A i \in DOMAIN route.results : route.results[i] \in CommandResults
        /\ route.status \in VerdictStatuses \union {"none", "planning_only"}
    BY <2>2 DEF RouteRecords
  <2>4. \A role \in DOMAIN route.sessions : route.sessions[role] \in States
    <3>1. route.sessions \in RoleSessions
      BY <2>2 DEF RouteRecords
    <3>2. PICK f : f = route.sessions
      OBVIOUS
    <3>3. f \in [DOMAIN f -> States]
      BY <3>1, <3>2, RoleSessionsAre
    <3> QED  BY <3>2, <3>3
  <2>5. advice.verdict \in VerdictStatuses \union {"none"}
    BY <2>2 DEF AdviceRecords
  <2> QED  BY <2>1, <2>3, <2>4, <2>5 DEF FusionTypeOK, FusionInv, FusionTypes
<1> QED  BY <1>1, FusionInvariant, PTL

\* Routing gives advice only: however kernel and policies treat the commands of a plan
\* no handler runs for it, and it is accepted only after every command went, in order,
\* to a session that runs on.
THEOREM RoutesAreAdvice == FusionSpec => []RoutedIsAdvice
<1>1. FusionInv => RoutedIsAdvice
  <2> SUFFICES ASSUME FusionInv PROVE RoutedIsAdvice
    OBVIOUS
  <2>1. route \in RouteRecords
    BY DEF FusionInv, FusionTypes
  <2>2. ASSUME route.status = "accepted"
        PROVE  /\ Len(route.results) = Len(stored[route.plan].steps)
               /\ \A i \in DOMAIN route.results :
                    LET role == stored[route.plan].steps[i].role
                    IN  role \in DOMAIN route.sessions /\ route.sessions[role] = "RUNNING"
    <3>1. route.stage = "answered"
      BY <2>1, <2>2 DEF RouteRecords, FusionInv, Routed
    <3>2. Len(route.results) = Len(StepsOf(route.plan)) /\ RunsOn(Len(route.results))
      BY <2>2, <3>1 DEF FusionInv, Routed
    <3>3. DOMAIN route.results = 1..Len(route.results)
      BY <2>1 DEF RouteRecords
    <3> QED  BY <3>2, <3>3 DEF RunsOn, StepsOf
  <2> QED  BY <2>2 DEF FusionInv, Dry, RoutedIsAdvice
<1> QED  BY <1>1, FusionInvariant, PTL

-----------------------------------------------------------------------------
(* Score and mode. *)

\* Rounding half to even keeps the order.
LEMMA RoundedGrows ==
  ASSUME NEW a \in Nat, NEW b \in Nat, a <= b
  PROVE  Rounded(a) \in Nat /\ Rounded(b) \in Nat /\ Rounded(a) <= Rounded(b)
<1>1. PICK v \in Nat, w \in Nat : v = a \div 100 /\ w = b \div 100
  OBVIOUS
<1>2. PICK r \in 0..99, s \in 0..99 : r = a % 100 /\ s = b % 100
  OBVIOUS
<1>3. a = 100 * v + r /\ b = 100 * w + s
  BY <1>1, <1>2
<1>4. v < w \/ (v = w /\ r <= s)
  BY <1>3
<1>5. /\ Rounded(a) = IF r > 50 \/ (r = 50 /\ v % 2 = 1) THEN v + 1 ELSE v
      /\ Rounded(b) = IF s > 50 \/ (s = 50 /\ w % 2 = 1) THEN w + 1 ELSE w
  BY <1>1, <1>2 DEF Rounded
<1>6. CASE v < w
  BY <1>5, <1>6
<1>7. CASE v = w /\ r <= s
  BY <1>5, <1>7
<1> QED  BY <1>4, <1>6, <1>7

\* So does the score.
LEMMA ScoreGrows ==
  ASSUME NEW less \in TaskProfiles, NEW more \in TaskProfiles, NEW trigger \in FusionTriggers,
         \A field \in Evidence : less[field] <= more[field]
  PROVE  /\ Score(less, trigger) \in Nat /\ Score(more, trigger) \in Nat
         /\ Score(less, trigger) <= Score(more, trigger)
<1>1. PICK bonus \in Nat : bonus = IF trigger.reason \in DOMAIN Bonus THEN Bonus[trigger.reason] ELSE 0
  BY DEF Bonus
<1>2. PICK p \in {100, 110, 125, 150} : p = Percent[trigger.severity]
  BY DEF Percent, FusionTriggers
<1> DEFINE Pressure(t) == 2 * t.complexity + 3 * t.failures + 4 * t.complaints + 2 * t.risk
                       + t.files + 3 * t.stalls + bonus
<1>3. \A t \in TaskProfiles : /\ t.complexity \in Nat /\ t.failures \in Nat /\ t.complaints \in Nat
                              /\ t.risk \in Nat /\ t.files \in Nat /\ t.stalls \in Nat
  BY DEF TaskProfiles
<1>4. /\ less.complexity <= more.complexity /\ less.failures <= more.failures
      /\ less.complaints <= more.complaints /\ less.risk <= more.risk
      /\ less.files <= more.files /\ less.stalls <= more.stalls
  BY DEF Evidence, TaskProfiles
<1>5. PICK m \in Nat, n \in Nat : m = Pressure(less) /\ n = Pressure(more) /\ m <= n
  <2>1. PICK c1 \in Nat : c1 = less.complexity
    BY <1>3
  <2>2. PICK f1 \in Nat : f1 = less.failures
    BY <1>3
  <2>3. PICK a1 \in Nat : a1 = less.complaints
    BY <1>3
  <2>4. PICK r1 \in Nat : r1 = less.risk
    BY <1>3
  <2>5. PICK l1 \in Nat : l1 = less.files
    BY <1>3
  <2>6. PICK s1 \in Nat : s1 = less.stalls
    BY <1>3
  <2>7. PICK c2 \in Nat : c2 = more.complexity
    BY <1>3
  <2>8. PICK f2 \in Nat : f2 = more.failures
    BY <1>3
  <2>9. PICK a2 \in Nat : a2 = more.complaints
    BY <1>3
  <2>10. PICK r2 \in Nat : r2 = more.risk
    BY <1>3
  <2>11. PICK l2 \in Nat : l2 = more.files
    BY <1>3
  <2>12. PICK s2 \in Nat : s2 = more.stalls
    BY <1>3
  <2>13. /\ Pressure(less) = 2 * c1 + 3 * f1 + 4 * a1 + 2 * r1 + l1 + 3 * s1 + bonus
         /\ Pressure(more) = 2 * c2 + 3 * f2 + 4 * a2 + 2 * r2 + l2 + 3 * s2 + bonus
    BY <2>1, <2>2, <2>3, <2>4, <2>5, <2>6, <2>7, <2>8, <2>9, <2>10, <2>11, <2>12
  <2>14. c1 <= c2 /\ f1 <= f2 /\ a1 <= a2 /\ r1 <= r2 /\ l1 <= l2 /\ s1 <= s2
    BY <1>4, <2>1, <2>2, <2>3, <2>4, <2>5, <2>6, <2>7, <2>8, <2>9, <2>10, <2>11, <2>12
  <2>15. Pressure(less) \in Nat /\ Pressure(more) \in Nat
    BY <2>13
  <2>16. Pressure(less) <= Pressure(more)
    BY <2>13, <2>14
  <2> HIDE DEF Pressure
  <2> QED  BY <2>15, <2>16
<1>6. p * m \in Nat /\ p * n \in Nat /\ p * m <= p * n
  BY <1>2, <1>5
<1>7. Score(less, trigger) = Rounded(p * m) /\ Score(more, trigger) = Rounded(p * n)
  BY <1>1, <1>2, <1>5 DEF Score
<1> QED  BY <1>6, <1>7, RoundedGrows

LEMMA RankOfMode ==
  ASSUME NEW n \in 1..5
  PROVE  Rank(Modes[n]) = n
<1>1. DOMAIN Modes = 1..5 /\ \A m \in 1..5 : Modes[m] = Modes[n] => m = n
  BY DEF Modes
<1> QED  BY <1>1 DEF Rank

\* And the mode the score means.
LEMMA ModeGrows ==
  ASSUME NEW x \in Nat, NEW y \in Nat, x <= y, NEW trigger \in FusionTriggers
  PROVE  Rank(SelectMode(x, trigger)) <= Rank(SelectMode(y, trigger))
<1>1. CASE Explicit(trigger) /\ trigger.requested # "none"
  <2>1. trigger.requested \in ModeNames
    BY <1>1 DEF FusionTriggers
  <2>2. PICK n \in DOMAIN Modes : trigger.requested = Modes[n]
    BY <2>1 DEF ModeNames
  <2>3. n \in 1..5
    BY DEF Modes
  <2>4. Rank(trigger.requested) = n
    BY <2>2, <2>3, RankOfMode
  <2>5. SelectMode(x, trigger) = trigger.requested /\ SelectMode(y, trigger) = trigger.requested
    BY <1>1 DEF SelectMode
  <2> QED  BY <2>3, <2>4, <2>5
<1>2. CASE ~(Explicit(trigger) /\ trigger.requested # "none")
  <2>1. PICK m \in 1..5 : m = 1 + Cardinality(Passed(x)) /\ SelectMode(x, trigger) = Modes[m]
    BY <1>2, PassedCount DEF SelectMode, Passed
  <2>2. PICK n \in 1..5 : n = 1 + Cardinality(Passed(y)) /\ SelectMode(y, trigger) = Modes[n]
    BY <1>2, PassedCount DEF SelectMode, Passed
  <2>3. Cardinality(Passed(x)) <= Cardinality(Passed(y))
    <3>1. Passed(x) \subseteq Passed(y)
      BY DEF Passed
    <3>2. IsFiniteSet(Passed(y))
      BY PassedCount
    <3> QED  BY <3>1, <3>2, FS_Subset
  <2>4. Cardinality(Passed(x)) \in Nat /\ Cardinality(Passed(y)) \in Nat
    BY PassedCount
  <2>5. Rank(Modes[m]) = m /\ Rank(Modes[n]) = n /\ m <= n
    BY <2>1, <2>2, <2>3, <2>4, RankOfMode
  <2> QED  BY <2>1, <2>2, <2>5
<1> QED  BY <1>1, <1>2

-----------------------------------------------------------------------------
(* Roles. *)

LEMMA TableRoles ==
  /\ \A mode \in ModeNames : ModeRoles[mode] \in Seq(FusionRoles)
  /\ \A key : AlsoFor(TypeRoles, key) \in Seq(FusionRoles)
  /\ \A key : AlsoFor(ForcedRoles, key) \in Seq(FusionRoles)
<1>1. PICK roles : roles = FusionRoles
  OBVIOUS
<1>2. /\ {"primary", "planner", "architect", "coder", "bug_hunter", "test_breaker", "reviewer",
          "security_guard", "simplifier", "judge", "summarizer"} \subseteq roles
  BY <1>1 DEF FusionRoles, Talents
<1>3. \A mode \in ModeNames : mode \in {"single", "pair", "committee", "attack", "mad_dog"}
  BY DEF ModeNames, Modes
<1>4. \A mode \in ModeNames : ModeRoles[mode] \in Seq(roles)
  <2> SUFFICES ASSUME NEW mode \in ModeNames PROVE ModeRoles[mode] \in Seq(roles)
    OBVIOUS
  <2>1. CASE mode = "single"
    BY <1>2, <2>1 DEF ModeRoles
  <2>2. CASE mode = "pair"
    BY <1>2, <2>2 DEF ModeRoles
  <2>3. CASE mode = "committee"
    BY <1>2, <2>3 DEF ModeRoles
  <2>4. CASE mode = "attack"
    BY <1>2, <2>4 DEF ModeRoles
  <2>5. CASE mode = "mad_dog"
    BY <1>2, <2>5 DEF ModeRoles
  <2> QED  BY <1>3, <2>1, <2>2, <2>3, <2>4, <2>5
<1>5. \A key \in DOMAIN TypeRoles : TypeRoles[key] \in Seq(roles)
  <2>1. /\ Hunt \in Seq(roles) /\ Shape \in Seq(roles) /\ <<"security_guard">> \in Seq(roles)
        /\ <<"reviewer", "judge">> \in Seq(roles)
        /\ <<"test_breaker", "bug_hunter">> \in Seq(roles)
    BY <1>2 DEF Hunt, Shape
  <2>2. <<"security_guard", "reviewer", "summarizer">> \in Seq(roles)
    BY <1>2
  <2>3. \A key \in DOMAIN TypeRoles :
          TypeRoles[key] \in {Hunt, Shape, <<"security_guard">>, <<"reviewer", "judge">>,
             <<"test_breaker", "bug_hunter">>, <<"security_guard", "reviewer", "summarizer">>}
    BY DEF TypeRoles
  <2> QED  BY <2>1, <2>2, <2>3
<1>6. \A key \in DOMAIN ForcedRoles : ForcedRoles[key] \in Seq(roles)
  <2>1. /\ Hunt \in Seq(roles) /\ <<"security_guard">> \in Seq(roles)
        /\ <<"reviewer", "judge">> \in Seq(roles)
    BY <1>2 DEF Hunt
  <2>2. /\ <<"reviewer", "judge", "summarizer">> \in Seq(roles)
        /\ <<"security_guard", "reviewer", "judge">> \in Seq(roles)
    BY <1>2
  <2>3. \A key \in DOMAIN ForcedRoles :
          ForcedRoles[key] \in {Hunt, <<"security_guard">>, <<"reviewer", "judge">>,
             <<"reviewer", "judge", "summarizer">>, <<"security_guard", "reviewer", "judge">>}
    BY DEF ForcedRoles
  <2> QED  BY <2>1, <2>2, <2>3
<1>7. <<>> \in Seq(roles)
  OBVIOUS
<1> QED  BY <1>1, <1>4, <1>5, <1>6, <1>7 DEF AlsoFor

\* The roles of the mode are among those required.
LEMMA RolesRequired ==
  ASSUME NEW mode \in ModeNames, NEW task \in TaskProfiles, NEW trigger \in FusionTriggers
  PROVE  /\ RequiredRoles(mode, task, trigger) \in Seq(FusionRoles)
         /\ \A i \in 1..Len(ModeRoles[mode]) :
              Contains(RequiredRoles(mode, task, trigger), ModeRoles[mode][i])
<1>1. PICK base \in Seq(FusionRoles) : base = ModeRoles[mode]
  BY TableRoles
<1>2. PICK also \in Seq(FusionRoles) :
        also = AlsoFor(TypeRoles, task.type) \o AlsoFor(ForcedRoles, trigger.reason)
  <2>1. PICK v \in Seq(FusionRoles), w \in Seq(FusionRoles) :
          v = AlsoFor(TypeRoles, task.type) /\ w = AlsoFor(ForcedRoles, trigger.reason)
    BY TableRoles
  <2>2. v \o w \in Seq(FusionRoles)
    OBVIOUS
  <2> QED  BY <2>1, <2>2
<1>3. PICK N \in Nat : N = Len(also)
  OBVIOUS
<1> DEFINE Grown(x, n) == IF Contains(x, also[n]) THEN x ELSE Append(x, also[n])
           Follows(f)  == f = [n \in 0..Len(also) |-> IF n = 0 THEN ModeRoles[mode]
                                ELSE IF Contains(f[n - 1], also[n]) THEN f[n - 1]
                                     ELSE Append(f[n - 1], also[n])]
<1>4. PICK Good : Good = {x \in Seq(FusionRoles) : \A i \in 1..Len(base) : Contains(x, base[i])}
  OBVIOUS
<1>5. base \in Good
  BY <1>4 DEF Contains
<1>6. ASSUME NEW n \in 1..N, NEW x \in Good  PROVE Grown(x, n) \in Good
  <2>1. CASE Contains(x, also[n])
    BY <2>1
  <2>2. CASE ~Contains(x, also[n])
    <3>1. PICK e \in FusionRoles : e = also[n]
      BY <1>3
    <3>2. PICK y : y = Append(x, e)
      OBVIOUS
    <3>3. x \in Seq(FusionRoles) /\ \A i \in 1..Len(base) : Contains(x, base[i])
      BY <1>4
    <3>4. y \in Seq(FusionRoles) /\ Len(y) = Len(x) + 1 /\ \A j \in 1..Len(x) : y[j] = x[j]
      BY <3>2, <3>3
    <3>5. \A i \in 1..Len(base) : Contains(y, base[i])
      BY <3>3, <3>4 DEF Contains
    <3>6. Grown(x, n) = y
      BY <2>2, <3>1, <3>2
    <3> QED  BY <1>4, <3>4, <3>5, <3>6
  <2> QED  BY <2>1, <2>2
<1>7. \E f : Follows(f)
  <2>1. PICK step : step = [n \in 1..N |-> [x \in Good |-> Grown(x, n)]]
    OBVIOUS
  <2>2. PICK J : J = [n \in 0..N |-> Good]
    OBVIOUS
  <2>3. /\ base \in J[0]
        /\ \A n \in 1..N : n - 1 \in 0..N /\ n \in 0..N /\ J[n - 1] = Good /\ J[n] = Good
    BY <1>5, <2>2
  <2>4. \A n \in 1..N : \A x \in Good : step[n][x] = Grown(x, n)
    BY <2>1
  <2>5. StepsStay(N, step, J)
    <3> HIDE DEF Grown
    <3> QED  BY <1>6, <2>3, <2>4 DEF StepsStay
  <2>6. PICK f : /\ f = [n \in 0..N |-> f[n]] /\ f[0] = base
                 /\ \A n \in 1..N : f[n] = step[n][f[n - 1]]
                 /\ \A n \in 0..N : f[n] \in J[n]
    <3>1. PICK f : IsPath(f, N, base, step) /\ \A n \in 0..N : f[n] \in J[n]
      BY <2>3, <2>5, Stepwise
    <3> QED  BY <3>1 DEF IsPath
  <2>7. \A n \in 1..N : f[n] = Grown(f[n - 1], n)
    <3> HIDE DEF Grown
    <3> QED  BY <2>3, <2>4, <2>6
  <2>8. \A n \in 0..N : f[n] = IF n = 0 THEN ModeRoles[mode]
                               ELSE IF Contains(f[n - 1], also[n]) THEN f[n - 1]
                                    ELSE Append(f[n - 1], also[n])
    <3>1. \A n \in 0..N : n # 0 => n \in 1..N
      OBVIOUS
    <3> QED  BY <1>1, <2>6, <2>7, <3>1
  <2>9. Follows(f)
    BY <1>3, <2>6, <2>8
  <2> QED  BY <2>9
<1>8. PICK at : at = CHOOSE f : Follows(f)
  OBVIOUS
<1>9. Follows(at)
  <2> HIDE DEF Follows
  <2> QED  BY <1>7, <1>8
<1>10. at[0] = base /\ \A n \in 1..N : at[n] = Grown(at[n - 1], n)
  <2>1. \A n \in 1..N : n \in 0..Len(also) /\ n # 0
    BY <1>3
  <2>2. at[0] = base
    BY <1>1, <1>9
  <2> QED  BY <1>9, <2>1, <2>2
<1>11. at[N] \in Good
  <2>1. PICK J : J = [n \in 0..N |-> Good]
    OBVIOUS
  <2>2. /\ at[0] \in J[0] /\ N \in 0..N /\ J[N] = Good
        /\ \A n \in 1..N : J[n - 1] = Good /\ J[n] = Good
    BY <1>5, <1>10, <2>1
  <2>3. \A n \in 1..N : at[n - 1] \in J[n - 1] => at[n] \in J[n]
    <3> HIDE DEF Grown
    <3> QED  BY <1>6, <1>10, <2>2
  <2>4. \A n \in 0..N : at[n] \in J[n]
    BY <2>2, <2>3, Along
  <2> QED  BY <2>2, <2>4
<1>12. RequiredRoles(mode, task, trigger) = at[Len(also)]
  BY <1>2, <1>8 DEF RequiredRoles
<1> QED  BY <1>1, <1>3, <1>4, <1>11, <1>12

\* Every command is recommended for a role of its mode.
LEMMA StepsHaveRoles ==
  ASSUME NEW mode \in ModeNames, NEW s \in DOMAIN Steps[mode]
  PROVE  \E i \in 1..Len(ModeRoles[mode]) : ModeRoles[mode][i] = Steps[mode][s].role
<1>1. mode \in {"single", "pair", "committee", "attack", "mad_dog"}
  BY DEF ModeNames, Modes
<1>2. CASE mode = "single"
  BY <1>2 DEF ModeRoles, Steps, Step
<1>3. CASE mode = "pair"
  BY <1>3 DEF ModeRoles, Steps, Step
<1>4. CASE mode = "committee"
  BY <1>4 DEF ModeRoles, Steps, Step
<1>5. CASE mode = "attack"
  BY <1>5 DEF ModeRoles, Steps, Step
<1>6. CASE mode = "mad_dog"
  BY <1>6 DEF ModeRoles, Steps, Step
<1> QED  BY <1>1, <1>2, <1>3, <1>4, <1>5, <1>6

-----------------------------------------------------------------------------
(* Models. *)

LEMMA FitIsScore ==
  ASSUME NEW role \in FusionRoles, NEW profile \in CapabilityProfiles
  PROVE  Fit(role, profile) \in 0..180
<1>1. PICK skills : skills = Talents[role]
  OBVIOUS
<1>2. skills \in Seq(Abilities) /\ Len(skills) \in 1..3
  <2>1. PICK able : able = Abilities
    OBVIOUS
  <2>2. {"reasoning", "coding", "review", "debugging", "architecture", "security", "tests",
         "context", "speed", "reliability"} \subseteq able
    BY <2>1 DEF Abilities
  <2>3. /\ <<"reasoning">> \in Seq(able) /\ <<"coding">> \in Seq(able)
        /\ <<"reasoning", "architecture">> \in Seq(able)
        /\ <<"architecture", "context">> \in Seq(able)
        /\ <<"debugging", "reasoning">> \in Seq(able) /\ <<"tests", "review">> \in Seq(able)
    BY <2>2
  <2>4. /\ <<"review", "reasoning">> \in Seq(able) /\ <<"security", "review">> \in Seq(able)
        /\ <<"review", "coding">> \in Seq(able) /\ <<"speed", "coding">> \in Seq(able)
        /\ <<"reasoning", "review", "reliability">> \in Seq(able)
    BY <2>2
  <2>5. skills \in {<<"reasoning">>, <<"coding">>, <<"reasoning", "architecture">>,
          <<"architecture", "context">>, <<"debugging", "reasoning">>, <<"tests", "review">>,
          <<"review", "reasoning">>, <<"security", "review">>, <<"review", "coding">>,
          <<"speed", "coding">>, <<"reasoning", "review", "reliability">>}
    BY <1>1 DEF FusionRoles, Talents
  <2>6. skills \in Seq(able)
    BY <2>3, <2>4, <2>5
  <2>7. Len(skills) \in 1..3
    BY <2>5
  <2> QED  BY <2>1, <2>6, <2>7
<1> DEFINE score(i) == IF i \in DOMAIN skills THEN profile.scores[skills[i]] ELSE 0
<1>3. \A i : score(i) \in 0..10
  BY <1>2 DEF CapabilityProfiles
<1>4. PICK s1 \in 0..10 : s1 = score(1)
  BY <1>3
<1>5. PICK s2 \in 0..10 : s2 = score(2)
  BY <1>3
<1>6. PICK s3 \in 0..10 : s3 = score(3)
  BY <1>3
<1>7. PICK k \in {1, 2, 3} : k = Len(skills)
  BY <1>2
<1>8. (6 * (s1 + s2 + s3)) \div k \in 0..180
  <2>1. PICK t \in 0..180 : t = 6 * (s1 + s2 + s3)
    OBVIOUS
  <2>2. t \div 1 \in 0..180 /\ t \div 2 \in 0..180 /\ t \div 3 \in 0..180
    OBVIOUS
  <2> QED  BY <1>7, <2>1, <2>2
<1>9. PICK minus \in {0, 3} : minus = IF Feature(role) \subseteq profile.features THEN 0 ELSE 3
  OBVIOUS
<1>10. PICK mean \in 0..180 : mean = (6 * (s1 + s2 + s3)) \div k
  BY <1>8
<1>11. Fit(role, profile) = IF mean < minus THEN 0 ELSE mean - minus
  BY <1>1, <1>4, <1>5, <1>6, <1>7, <1>9, <1>10 DEF Fit
<1> QED  BY <1>11

\* Among some models there is a best one.
LEMMA BestIsOne ==
  ASSUME NEW role \in FusionRoles, NEW models, models \subseteq DOMAIN Profiles, models # {}
  PROVE  Best(role, models) \in models
<1> DEFINE Of(m) == Fit(role, Profiles[m])
<1>1. /\ models \subseteq Nat
      /\ \A m \in models : Of(m) \in 0..180
  <2>1. models \subseteq Nat
    BY RoutingAssumptions
  <2>2. \A m \in models : Profiles[m] \in CapabilityProfiles
    BY RoutingAssumptions
  <2>3. \A m \in models : Of(m) \in 0..180
    BY <2>2, FitIsScore
  <2> QED  BY <2>1, <2>3
<1> HIDE DEF Of
<1>2. PICK t \in {180 - Of(m) : m \in models} : \A u \in {180 - Of(m) : m \in models} : t <= u
  <2>1. PICK T : T = {180 - Of(m) : m \in models}
    OBVIOUS
  <2>2. T \subseteq Nat /\ T # {}
    BY <1>1, <2>1
  <2> QED  BY <2>1, <2>2, Least
<1>3. PICK best \in {m \in models : 180 - Of(m) = t} :
        \A n \in {m \in models : 180 - Of(m) = t} : best <= n
  <2>1. PICK T : T = {m \in models : 180 - Of(m) = t}
    OBVIOUS
  <2>2. T \subseteq Nat /\ T # {}
    BY <1>1, <1>2, <2>1
  <2> QED  BY <2>1, <2>2, Least
<1>4. \A n \in models : Of(best) > Of(n) \/ (Of(best) = Of(n) /\ best <= n)
  <2> SUFFICES ASSUME NEW n \in models
               PROVE  Of(best) > Of(n) \/ (Of(best) = Of(n) /\ best <= n)
    OBVIOUS
  <2>1. PICK v \in 0..180, w \in 0..180 : v = Of(best) /\ w = Of(n)
    BY <1>1, <1>3
  <2>2. 180 - v = t /\ t <= 180 - w
    BY <1>2, <1>3, <2>1
  <2>3. v > w \/ (v = w /\ 180 - w = t)
    BY <2>2
  <2>4. v = w /\ 180 - w = t => best <= n
    BY <1>3, <2>1
  <2> QED  BY <2>1, <2>3, <2>4
<1> QED  BY <1>3, <1>4 DEF Best, Of

\* A model that is free is preferred.
LEMMA PickIsModel ==
  ASSUME NEW role \in FusionRoles, NEW taken
  PROVE  /\ Pick(role, taken) \in Nat
         /\ Profiles # <<>> => Pick(role, taken) \in DOMAIN Profiles
         /\ Profiles # <<>> /\ ~(DOMAIN Profiles \subseteq taken) => Pick(role, taken) \notin taken
<1>1. CASE Profiles = <<>>
  BY <1>1 DEF Pick, NoModel
<1>2. CASE Profiles # <<>>
  <2>1. DOMAIN Profiles \subseteq Nat /\ DOMAIN Profiles # {}
    BY <1>2, RoutingAssumptions
  <2>2. Best(role, DOMAIN Profiles) \in DOMAIN Profiles
    BY <2>1, BestIsOne
  <2>3. PICK free : free = DOMAIN Profiles \ taken
    OBVIOUS
  <2>4. free # {} => Best(role, free) \in free
    BY <2>3, BestIsOne
  <2> QED  BY <1>2, <2>1, <2>2, <2>3, <2>4 DEF Pick
<1> QED  BY <1>1, <1>2

-----------------------------------------------------------------------------
(* Staff. *)

Assignments == [role : FusionRoles, model : Nat]

UsesAll(staff) == {staff[c].model : c \in DOMAIN staff} = DOMAIN Profiles \/ Profiles = <<>>

\* The first n roles have their models, and nobody has two roles while a model is free.
Staffed(staff, roles, n) ==
  /\ staff \in Seq(Assignments) /\ Len(staff) = n
  /\ \A i \in 1..n : staff[i].role = roles[i]
  /\ \A i \in 1..n : staff[i].model \in DOMAIN Profiles \/ Profiles = <<>>
  /\ \A a, b \in 1..n : a # b /\ staff[a].model = staff[b].model => UsesAll(staff)

LEMMA StaffedStep ==
  ASSUME NEW roles \in Seq(FusionRoles), NEW n \in 1..Len(roles), NEW before,
         Staffed(before, roles, n - 1)
  PROVE  Staffed(Append(before, [role  |-> roles[n],
                                 model |-> Pick(roles[n], {before[i].model : i \in DOMAIN before})]),
                 roles, n)
<1>1. PICK taken : taken = {before[i].model : i \in DOMAIN before}
  OBVIOUS
<1>2. PICK role \in FusionRoles : role = roles[n]
  OBVIOUS
<1>3. PICK p \in Nat : p = Pick(role, taken)
  BY PickIsModel
<1>4. /\ Profiles # <<>> => p \in DOMAIN Profiles
      /\ Profiles # <<>> /\ ~(DOMAIN Profiles \subseteq taken) => p \notin taken
  BY <1>3, PickIsModel
<1>5. PICK new \in Assignments : new = [role |-> role, model |-> p]
  BY DEF Assignments
<1>6. new.role = role /\ new.model = p
  BY <1>5
<1>7. PICK R : R = Assignments
  OBVIOUS
<1>8. PICK k \in Nat : k = n - 1
  OBVIOUS
<1>9. /\ before \in Seq(R) /\ Len(before) = k
      /\ \A i \in 1..k : before[i].role = roles[i]
      /\ \A i \in 1..k : before[i].model \in DOMAIN Profiles \/ Profiles = <<>>
      /\ \A a, b \in 1..k : a # b /\ before[a].model = before[b].model => UsesAll(before)
  BY <1>7, <1>8 DEF Staffed
<1>10. PICK after : after = Append(before, new)
  OBVIOUS
<1>11. /\ after \in Seq(R) /\ Len(after) = n /\ DOMAIN after = 1..n /\ DOMAIN before = 1..k
       /\ after[n] = new /\ \A i \in 1..k : after[i] = before[i]
  BY <1>5, <1>7, <1>8, <1>9, <1>10
<1>12. \A i \in 1..n : i = n \/ i \in 1..k
  BY <1>8
<1>13. \A i \in 1..n : after[i].role = roles[i]
  BY <1>2, <1>6, <1>9, <1>11, <1>12
<1>14. \A i \in 1..n : after[i].model \in DOMAIN Profiles \/ Profiles = <<>>
  BY <1>4, <1>6, <1>9, <1>11, <1>12
<1>15. taken = {before[i].model : i \in 1..k}
  BY <1>1, <1>11
<1>16. {after[c].model : c \in DOMAIN after} = taken \union {p}
  BY <1>6, <1>8, <1>11, <1>12, <1>15
<1>17. ASSUME NEW a \in 1..n, NEW b \in 1..n, a # b, after[a].model = after[b].model
       PROVE  UsesAll(after)
  <2>1. CASE Profiles = <<>>
    BY <2>1 DEF UsesAll
  <2>2. CASE Profiles # <<>> /\ DOMAIN Profiles \subseteq taken
    <3>1. taken \subseteq DOMAIN Profiles
      BY <1>9, <1>15, <2>2
    <3> QED  BY <1>4, <1>16, <2>2, <3>1 DEF UsesAll
  <2>3. CASE Profiles # <<>> /\ ~(DOMAIN Profiles \subseteq taken)
    <3>1. p \notin taken
      BY <1>4, <2>3
    <3>2. a \in 1..k /\ b \in 1..k
      BY <1>6, <1>11, <1>12, <1>15, <1>17, <3>1
    <3>3. UsesAll(before)
      BY <1>9, <1>11, <1>17, <3>2
    <3>4. taken = DOMAIN Profiles
      BY <1>1, <2>3, <3>3 DEF UsesAll
    <3> QED  BY <2>3, <3>4
  <2> QED  BY <2>1, <2>2, <2>3
<1>18. Staffed(after, roles, n)
  BY <1>7, <1>11, <1>13, <1>14, <1>17 DEF Staffed
<1> QED  BY <1>1, <1>2, <1>3, <1>5, <1>10, <1>18

\* Every role is given a model.
LEMMA EverybodyStaffed ==
  ASSUME NEW roles \in Seq(FusionRoles)
  PROVE  Staffed(AssignRoles(roles), roles, Len(roles))
<1>1. PICK N \in Nat : N = Len(roles)
  OBVIOUS
<1> DEFINE Grown(x, n) == Append(x, [role  |-> roles[n],
                                     model |-> Pick(roles[n], {x[i].model : i \in DOMAIN x})])
           Follows(f)  == f = [n \in 0..Len(roles) |->
                                 IF n = 0 THEN <<>>
                                 ELSE Append(f[n - 1], [role  |-> roles[n],
                                        model |-> Pick(roles[n],
                                           {f[n - 1][i].model : i \in DOMAIN f[n - 1]})])]
           Good(n) == {x \in Seq(Assignments) : Staffed(x, roles, n)}
<1>2. <<>> \in Good(0)
  BY DEF Staffed
<1>3. ASSUME NEW n \in 1..N, NEW x \in Good(n - 1)  PROVE Grown(x, n) \in Good(n)
  <2>1. Staffed(Grown(x, n), roles, n)
    BY <1>1, StaffedStep
  <2> HIDE DEF Grown
  <2> QED  BY <2>1 DEF Staffed
<1>4. PICK J : J = [n \in 0..N |-> Good(n)]
  OBVIOUS
<1> HIDE DEF Good
<1>5. /\ <<>> \in J[0] /\ \A n \in 0..N : J[n] = Good(n)
      /\ \A n \in 1..N : J[n - 1] = Good(n - 1) /\ J[n] = Good(n)
  BY <1>2, <1>4
<1>6. \E f : Follows(f)
  <2>1. PICK step : step = [n \in 1..N |-> [x \in Good(n - 1) |-> Grown(x, n)]]
    OBVIOUS
  <2>2. \A n \in 1..N : \A x \in Good(n - 1) : step[n][x] = Grown(x, n)
    BY <2>1
  <2>3. StepsStay(N, step, J)
    <3> HIDE DEF Grown
    <3> QED  BY <1>3, <1>5, <2>2 DEF StepsStay
  <2>4. PICK f : IsPath(f, N, <<>>, step) /\ \A n \in 0..N : f[n] \in J[n]
    BY <1>5, <2>3, Stepwise
  <2>5. f = [n \in 0..N |-> f[n]] /\ f[0] = <<>>
    BY <2>4 DEF IsPath
  <2>6. \A n \in 1..N : f[n] = Grown(f[n - 1], n)
    <3>1. \A n \in 1..N : n - 1 \in 0..N
      OBVIOUS
    <3> HIDE DEF Grown
    <3> QED  BY <1>5, <2>2, <2>4, <3>1 DEF IsPath
  <2>7. \A n \in 0..N : f[n] = IF n = 0 THEN <<>>
                               ELSE Append(f[n - 1], [role  |-> roles[n],
                                      model |-> Pick(roles[n],
                                         {f[n - 1][i].model : i \in DOMAIN f[n - 1]})])
    <3>1. \A n \in 0..N : n # 0 => n \in 1..N
      OBVIOUS
    <3> QED  BY <2>5, <2>6, <3>1
  <2>8. Follows(f)
    BY <1>1, <2>5, <2>7
  <2> QED  BY <2>8
<1>7. PICK at : at = CHOOSE f : Follows(f)
  OBVIOUS
<1>8. Follows(at)
  <2> HIDE DEF Follows
  <2> QED  BY <1>6, <1>7
<1>9. at[0] = <<>> /\ \A n \in 1..N : at[n] = Grown(at[n - 1], n)
  <2>1. \A n \in 1..N : n \in 0..Len(roles) /\ n # 0
    BY <1>1
  <2>2. at[0] = <<>>
    BY <1>8
  <2> QED  BY <1>8, <2>1, <2>2
<1>10. at[N] \in Good(N)
  <2>1. \A n \in 1..N : at[n - 1] \in J[n - 1] => at[n] \in J[n]
    <3> HIDE DEF Grown
    <3> QED  BY <1>3, <1>5, <1>9
  <2>2. \A n \in 0..N : at[n] \in J[n]
    BY <1>5, <1>9, <2>1, Along
  <2> QED  BY <1>5, <2>2
<1>11. AssignRoles(roles) = at[Len(roles)]
  BY <1>7 DEF AssignRoles
<1> QED  BY <1>1, <1>10, <1>11 DEF Good

\* What a plan is, as far as evidence goes.
FitPlan(p) ==
  /\ p.task \in TaskProfiles /\ p.trigger \in FusionTriggers
  /\ p.mode = SelectMode(Score(p.task, p.trigger), p.trigger)
  /\ \A s \in DOMAIN p.steps : \E a \in DOMAIN p.staff : p.staff[a].role = p.steps[s].role
  /\ \A a, b \in DOMAIN p.staff :
       a # b /\ p.staff[a].model = p.staff[b].model => UsesAll(p.staff)

LEMMA PlansFit ==
  ASSUME NEW task \in TaskProfiles, NEW trigger \in FusionTriggers
  PROVE  FitPlan(FusionPlan(task, trigger))
<1>1. PICK mode \in ModeNames : mode = SelectMode(Score(task, trigger), trigger)
  BY ModeSelected
<1>2. PICK roles \in Seq(FusionRoles) : roles = RequiredRoles(mode, task, trigger)
  BY RolesRequired
<1>3. PICK staff : staff = AssignRoles(roles)
  OBVIOUS
<1>4. PICK steps : steps = Steps[mode]
  OBVIOUS
<1>5. PICK p : p = [task |-> task, trigger |-> trigger, mode |-> mode, staff |-> staff,
                    steps |-> steps]
  OBVIOUS
<1>6. p = FusionPlan(task, trigger)
  BY <1>1, <1>2, <1>3, <1>4, <1>5 DEF FusionPlan
<1>7. /\ p.task = task /\ p.trigger = trigger /\ p.mode = mode /\ p.staff = staff
      /\ p.steps = steps
  BY <1>5
<1>8. PICK R : R = Assignments
  OBVIOUS
<1>9. /\ staff \in Seq(R) /\ Len(staff) = Len(roles)
      /\ \A i \in 1..Len(roles) : staff[i].role = roles[i]
      /\ \A a, b \in 1..Len(roles) :
           a # b /\ staff[a].model = staff[b].model => UsesAll(staff)
  BY <1>3, <1>8, EverybodyStaffed DEF Staffed
<1>10. DOMAIN staff = 1..Len(roles)
  BY <1>9
<1>11. ASSUME NEW s \in DOMAIN steps
       PROVE  \E a \in DOMAIN staff : staff[a].role = steps[s].role
  <2>1. PICK i \in 1..Len(ModeRoles[mode]) : ModeRoles[mode][i] = steps[s].role
    BY <1>4, <1>11, StepsHaveRoles
  <2>2. Contains(roles, ModeRoles[mode][i])
    BY <1>2, <2>1, RolesRequired
  <2>3. PICK a \in 1..Len(roles) : roles[a] = steps[s].role
    BY <2>1, <2>2 DEF Contains
  <2> QED  BY <1>9, <1>10, <2>3
<1>12. FitPlan(p)
  BY <1>1, <1>7, <1>9, <1>10, <1>11 DEF FitPlan
<1> QED  BY <1>6, <1>12

\* More evidence never leads to a weaker mode, every recommended command is for a role
\* some model has been given, and no model has two roles while another is free.
THEOREM PlansAreFit == FusionSpec => []PlansFitEvidence
<1>1. FusionInv => PlansFitEvidence
  <2> SUFFICES ASSUME FusionInv PROVE PlansFitEvidence
    OBVIOUS
  <2>1. \A i \in DOMAIN stored : FitPlan(stored[i])
    <3> SUFFICES ASSUME NEW i \in DOMAIN stored PROVE FitPlan(stored[i])
      OBVIOUS
    <3>1. PICK P : P = Plans
      OBVIOUS
    <3>2. stored \in Seq(P)
      BY <3>1 DEF FusionInv, FusionTypes
    <3>3. stored[i] \in P
      BY <3>2
    <3>4. PICK task \in TaskProfiles, trigger \in FusionTriggers :
            stored[i] = FusionPlan(task, trigger)
      BY <3>1, <3>3 DEF Plans
    <3> QED  BY <3>4, PlansFit
  <2>2. ASSUME NEW i \in DOMAIN stored, NEW task \in Tasks,
               \A field \in Evidence : stored[i].task[field] <= task[field]
        PROVE  Rank(stored[i].mode)
                 <= Rank(SelectMode(Score(task, stored[i].trigger), stored[i].trigger))
    <3>1. PICK less \in TaskProfiles, trigger \in FusionTriggers :
            less = stored[i].task /\ trigger = stored[i].trigger
      BY <2>1 DEF FitPlan
    <3>2. task \in TaskProfiles
      BY RoutingAssumptions
    <3>3. \A field \in Evidence : less[field] <= task[field]
      BY <2>2, <3>1
    <3>4. PICK x \in Nat, y \in Nat :
            x = Score(less, trigger) /\ y = Score(task, trigger) /\ x <= y
      BY <3>2, <3>3, ScoreGrows
    <3>5. stored[i].mode = SelectMode(x, trigger)
      BY <2>1, <3>1, <3>4 DEF FitPlan
    <3>6. Rank(SelectMode(x, trigger)) <= Rank(SelectMode(y, trigger))
      BY <3>4, ModeGrows
    <3> QED  BY <3>1, <3>4, <3>5, <3>6
  <2>3. ASSUME NEW i \in DOMAIN stored
        PROVE  LET staff == stored[i].staff
               IN  /\ \A s \in DOMAIN stored[i].steps : \E a \in DOMAIN staff :
                        staff[a].role = stored[i].steps[s].role
                   /\ \A a, b \in DOMAIN staff :
                        a # b /\ staff[a].model = staff[b].model =>
                          {staff[c].model : c \in DOMAIN staff} = DOMAIN Profiles \/ Profiles = <<>>
    BY <2>1, <2>3 DEF FitPlan, UsesAll
  <2> QED  BY <2>2, <2>3 DEF PlansFitEvidence
<1> QED  BY <1>1, FusionInvariant, PTL

=============================================================================
