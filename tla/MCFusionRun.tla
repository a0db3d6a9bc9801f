----------------------------- MODULE MCFusionRun -----------------------------
(***************************************************************************)
(* Values for TLC of the fusion router: tasks and triggers on both sides   *)
(* of the thresholds, two models of different strengths, kernels of        *)
(* different policies, and sessions that run, that have ended or that      *)
(* nobody supplied.                                                        *)
(***************************************************************************)
EXTENDS FusionRun

\* Two models to choose from, the second better at reading.
SomeProfiles ==
  LET Scores(read, write) ==
        [reasoning |-> read, architecture |-> 5, context |-> 5, coding |-> write, debugging |-> 5,
         tests |-> 5, review |-> read, security |-> 5, reliability |-> 5, speed |-> write]
  IN  <<[scores |-> Scores(5, 5), features |-> {}],
        [scores |-> Scores(8, 5), features |-> {"tools"}]>>

Task(type, complexity, failures, stalls) ==
  [type |-> type, complexity |-> complexity, risk |-> 2, failures |-> failures, complaints |-> 1,
   stalls |-> stalls, files |-> 1]

SomeTasks == {Task("feature", 0, 0, 0), Task("refactor", 2, 1, 0), Task("feature", 3, 1, 2),
              Task("bugfix", 5, 2, 2)}

Trigger(reason, severity, requested) ==
  [source |-> "user", reason |-> reason, severity |-> severity, requested |-> requested]

SomeTriggers == {Trigger("repeated_failure", "low", "none"), Trigger("no_progress", "medium", "pair"),
                 Trigger("release_blocker", "critical", "none"),
                 Trigger("explicit_user_request", "high", "committee")}

Handling(read, routed) ==
  LET Call(action) == [form |-> "ok", risk |-> "low", ask |-> FALSE, policy |-> action]
      Meets(action) == [policy |-> action, routed |-> routed, call |-> Call(action)]
  IN  ("noop" :> Meets("allow") @@ "file.read" :> Meets(read) @@ "file.patch" :> Meets("approve"))

SomeHandlings == {Handling("allow", TRUE), Handling("approve", TRUE), Handling("deny", TRUE),
                  Handling("allow", FALSE)}

AllRoles == {ModeRoles["mad_dog"][i] : i \in DOMAIN ModeRoles["mad_dog"]} \union {"primary"}

SomeSupplies == {[role \in {} |-> "CREATED"], [role \in AllRoles |-> "RUNNING"],
                 [role \in AllRoles |-> IF role = "reviewer" THEN "REPAIRING" ELSE "RUNNING"],
                 [role \in {"primary", "coder"} |-> "HALTED_FAILURE"]}

=============================================================================
