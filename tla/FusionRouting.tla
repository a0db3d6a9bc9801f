---------------------------- MODULE FusionRouting ----------------------------
(***************************************************************************)
(* The fusion router's plans: the score of a task's evidence, the mode it  *)
(* leads to, the roles of the mode, the models that take them and the      *)
(* commands that are recommended.  There is no state here.                 *)
(*                                                                         *)
(* Scores of models are compared exactly, in sixtieths; the code compares  *)
(* floats.  Confidence, budgets and the gaps a low score leaves are left   *)
(* out.                                                                    *)
(***************************************************************************)
EXTENDS Integers, FiniteSets, SequencesExt

CONSTANTS
  Profiles, \* the registry: the profiles, in the order of their ids
  Tasks,    \* what callers plan for
  Triggers  \* why they do

TaskTypes == {"bugfix", "refactor", "feature", "audit", "release", "security", "debugging",
              "architecture", "test_repair"}

TaskProfiles == [type : TaskTypes, complexity : 0..10, risk : 0..10, failures : Nat,
                 complaints : Nat, stalls : Nat, files : Nat]

Modes == <<"single", "pair", "committee", "attack", "mad_dog">>

ModeNames == {Modes[i] : i \in DOMAIN Modes}

TriggerSources == {"user", "ali", "kernel", "convergence", "review", "test", "release"}

TriggerReasons == {"explicit_user_request", "repeated_failure", "no_progress",
                   "user_dissatisfaction", "high_complexity", "large_refactor", "nasty_bug",
                   "low_confidence", "high_risk", "release_blocker", "security_sensitive",
                   "test_flake_or_hidden_failure", "model_mismatch"}

FusionTriggers == [source : TriggerSources, reason : TriggerReasons,
                   severity : {"low", "medium", "high", "critical"},
                   requested : ModeNames \union {"none"}]

Abilities == {"reasoning", "coding", "review", "debugging", "architecture", "security", "tests",
           "context", "speed", "reliability"}

CapabilityProfiles == [scores : [Abilities -> 0..10], features : SUBSET {"tools", "json", "long_context"}]

ASSUME RoutingAssumptions ==
  /\ Profiles \in Seq(CapabilityProfiles)
  /\ Tasks \subseteq TaskProfiles
  /\ Triggers \subseteq FusionTriggers

Rank(mode) == CHOOSE i \in DOMAIN Modes : Modes[i] = mode

-----------------------------------------------------------------------------
(* Score and mode. *)

\* Halves are rounded to even.  A float product may be just above a half where
\* the exact one is a half, but only for scores that mean mad_dog either way.
Rounded(percent) ==
  LET whole == percent \div 100
      rest  == percent % 100
  IN  IF rest > 50 \/ (rest = 50 /\ whole % 2 = 1) THEN whole + 1 ELSE whole

Bonus == [release_blocker |-> 20, security_sensitive |-> 12, model_mismatch |-> 8]

Percent == [low |-> 100, medium |-> 110, high |-> 125, critical |-> 150]

Score(task, trigger) ==
  LET bonus == IF trigger.reason \in DOMAIN Bonus THEN Bonus[trigger.reason] ELSE 0
  IN  Rounded(Percent[trigger.severity]
                * (2 * task.complexity + 3 * task.failures + 4 * task.complaints
                     + 2 * task.risk + task.files + 3 * task.stalls + bonus))

Explicit(trigger) == trigger.source = "user" /\ trigger.reason = "explicit_user_request"

\* Mutant: a threshold is tested too late.
SelectModeSwapped(score, trigger) ==
  IF Explicit(trigger) /\ trigger.requested # "none" THEN trigger.requested
  ELSE IF score < 8 THEN "single" ELSE IF score < 15 THEN "pair"
  ELSE IF score >= 25 /\ score < 35 THEN "committee"
  ELSE IF score >= 35 THEN "mad_dog" ELSE "attack"

SelectMode(score, trigger) ==
  IF Explicit(trigger) /\ trigger.requested # "none" THEN trigger.requested
  ELSE Modes[1 + Cardinality({limit \in {8, 15, 25, 35} : score >= limit})]

-----------------------------------------------------------------------------
(* Roles and commands. *)

Step(kind, role) == [kind |-> kind, role |-> role]

\* The recommended commands of a mode, in order.
Steps ==
  [single    |-> <<Step("noop", "primary")>>,
   pair      |-> <<Step("file.read", "coder"), Step("noop", "reviewer")>>,
   committee |-> <<Step("file.read", "planner"), Step("file.patch", "coder"),
                   Step("noop", "reviewer")>>,
   attack    |-> <<Step("file.read", "planner"), Step("file.patch", "coder"),
                   Step("noop", "bug_hunter"), Step("noop", "test_breaker"),
                   Step("noop", "judge")>>,
   mad_dog   |-> <<Step("file.read", "planner"), Step("noop", "architect"),
                   Step("noop", "bug_hunter"), Step("file.patch", "coder"),
                   Step("noop", "test_breaker"), Step("noop", "security_guard"),
                   Step("noop", "simplifier"), Step("noop", "reviewer"),
                   Step("noop", "judge"), Step("noop", "summarizer")>>]

ModeRoles ==
  [single    |-> <<"primary">>,
   pair      |-> <<"coder", "reviewer">>,
   committee |-> <<"planner", "coder", "reviewer">>,
   attack    |-> <<"planner", "coder", "bug_hunter", "test_breaker", "judge">>,
   mad_dog   |-> <<"planner", "architect", "bug_hunter", "coder", "test_breaker",
                   "security_guard", "simplifier", "reviewer", "judge", "summarizer">>]

Hunt == <<"bug_hunter", "test_breaker">>

Shape == <<"architect", "simplifier">>

TypeRoles ==
  [security |-> <<"security_guard">>, refactor |-> Shape, bugfix |-> Hunt, debugging |-> Hunt,
   release |-> <<"security_guard", "reviewer", "summarizer">>, audit |-> <<"reviewer", "judge">>,
   architecture |-> Shape, test_repair |-> <<"test_breaker", "bug_hunter">>]

ForcedRoles ==
  [user_dissatisfaction |-> <<"reviewer", "judge", "summarizer">>, repeated_failure |-> Hunt,
   no_progress |-> <<"reviewer", "judge">>, security_sensitive |-> <<"security_guard">>,
   release_blocker |-> <<"security_guard", "reviewer", "judge">>]

AlsoFor(table, key) == IF key \in DOMAIN table THEN table[key] ELSE <<>>

\* Those of the mode come first; a role that is there already is not repeated.
RequiredRoles(mode, task, trigger) ==
  LET also == AlsoFor(TypeRoles, task.type) \o AlsoFor(ForcedRoles, trigger.reason)
      roles[n \in 0..Len(also)] ==
        IF n = 0 THEN ModeRoles[mode]
        ELSE IF Contains(roles[n - 1], also[n]) THEN roles[n - 1] ELSE Append(roles[n - 1], also[n])
  IN  roles[Len(also)]

-----------------------------------------------------------------------------
(* Models. *)

\* The scores a role is judged by, three at most.
Talents ==
  [primary |-> <<"reasoning">>, planner |-> <<"reasoning", "architecture">>,
   architect |-> <<"architecture", "context">>, coder |-> <<"coding">>,
   bug_hunter |-> <<"debugging", "reasoning">>, test_breaker |-> <<"tests", "review">>,
   reviewer |-> <<"review", "reasoning">>, security_guard |-> <<"security", "review">>,
   simplifier |-> <<"review", "coding">>, judge |-> <<"reasoning", "review", "reliability">>,
   summarizer |-> <<"speed", "coding">>]

\* The feature a role is better off with.
Feature(role) ==
  CASE role \in {"coder", "bug_hunter"} -> {"tools"}
    [] role = "reviewer"                -> {"json"}
    [] role = "architect"               -> {"long_context"}
    [] OTHER                            -> {}

Fit(role, profile) ==
  LET skills   == Talents[role]
      score(i) == IF i \in DOMAIN skills THEN profile.scores[skills[i]] ELSE 0
      mean     == (6 * (score(1) + score(2) + score(3))) \div Len(skills)
      minus    == IF Feature(role) \subseteq profile.features THEN 0 ELSE 3
  IN  IF mean < minus THEN 0 ELSE mean - minus

\* The highest score, and among equals the lowest id.
Best(role, models) ==
  CHOOSE m \in models : \A n \in models :
    Fit(role, Profiles[m]) > Fit(role, Profiles[n])
    \/ (Fit(role, Profiles[m]) = Fit(role, Profiles[n]) /\ m <= n)

NoModel == 0

\* Mutant: nobody keeps track of the models that are taken.
PickAny(role, taken) == IF Profiles = <<>> THEN NoModel ELSE Best(role, DOMAIN Profiles)

\* A model that is not taken, and when all are the best of them.
Pick(role, taken) ==
  LET free == DOMAIN Profiles \ taken
  IN  IF Profiles = <<>> THEN NoModel
      ELSE IF free # {} THEN Best(role, free) ELSE Best(role, DOMAIN Profiles)

AssignRoles(roles) ==
  LET staff[n \in 0..Len(roles)] ==
        IF n = 0 THEN <<>>
        ELSE LET before == staff[n - 1]
                 taken  == {before[i].model : i \in DOMAIN before}
             IN  Append(before, [role |-> roles[n], model |-> Pick(roles[n], taken)])
  IN  staff[Len(roles)]

-----------------------------------------------------------------------------
(* Plans. *)

FusionPlan(task, trigger) ==
  LET mode == SelectMode(Score(task, trigger), trigger)
  IN  [task |-> task, trigger |-> trigger, mode |-> mode,
       staff |-> AssignRoles(RequiredRoles(mode, task, trigger)), steps |-> Steps[mode]]

\* cli_escalate: of the run, only that it failed.
Escalation(reason) ==
  FusionPlan([type |-> "debugging", complexity |-> 0, risk |-> 0, failures |-> 1, complaints |-> 0,
        stalls |-> 0, files |-> 0],
       [source |-> "kernel", reason |-> reason, severity |-> "high", requested |-> "none"])

\* mad-dog: the user asks for it.
MadDog(task, severity) ==
  FusionPlan(task, [source |-> "user", reason |-> "explicit_user_request", severity |-> severity,
              requested |-> "mad_dog"])

=============================================================================
