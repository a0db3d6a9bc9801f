----------------------------- MODULE MCServices -----------------------------
(***************************************************************************)
(* Values for TLC of nine components that share no state: the training    *)
(* loop, provider calls, the backup vault, the approval cards, the merge   *)
(* review, the memory repository, the policy engine, the patch applier and *)
(* the fusion router.  A behaviour is one of any of them; part says of     *)
(* which.                                                                  *)
(***************************************************************************)
EXTENDS ProviderCalls, BackupVault, ApprovalCards, MergeReview, MCTrainingLoop,
        MemoryStore, PolicyEngine, MCPatchApplier, MCFusionRun

VARIABLE part \* the component that runs

Init ==
  /\ part \in {"calls", "vault", "cards", "review", "training", "memory", "policy", "patch",
                "fusion"}
  /\ CallsInit /\ VaultInit /\ CardsInit /\ ReviewInit
  /\ TrainingInit /\ MemoryInit /\ PolicyInit /\ PatchInit /\ FusionInit
  /\ part # "vault" => source = CHOOSE any \in Versions : TRUE
  /\ part # "patch" => tree = CHOOSE any \in Trees : TRUE

Next ==
  \/ /\ part = "calls" /\ CallsNext
     /\ UNCHANGED <<part, vaultVars, cardsVars, reviewVars, trainingVars,
                    memoryVars, policyVars, patchVars, fusionVars>>
  \/ /\ part = "vault" /\ VaultNext
     /\ UNCHANGED <<part, callsVars, cardsVars, reviewVars, trainingVars,
                    memoryVars, policyVars, patchVars, fusionVars>>
  \/ /\ part = "cards" /\ CardsNext
     /\ UNCHANGED <<part, callsVars, vaultVars, reviewVars, trainingVars,
                    memoryVars, policyVars, patchVars, fusionVars>>
  \/ /\ part = "review" /\ ReviewNext
     /\ UNCHANGED <<part, callsVars, vaultVars, cardsVars, trainingVars,
                    memoryVars, policyVars, patchVars, fusionVars>>
  \/ /\ part = "training" /\ TrainingNext
     /\ UNCHANGED <<part, callsVars, vaultVars, cardsVars, reviewVars,
                    memoryVars, policyVars, patchVars, fusionVars>>
  \/ /\ part = "memory" /\ MemoryNext
     /\ UNCHANGED <<part, callsVars, vaultVars, cardsVars, reviewVars,
                    trainingVars, policyVars, patchVars, fusionVars>>
  \/ /\ part = "policy" /\ PolicyNext
     /\ UNCHANGED <<part, callsVars, vaultVars, cardsVars, reviewVars,
                    trainingVars, memoryVars, patchVars, fusionVars>>
  \/ /\ part = "patch" /\ PatchNext
     /\ UNCHANGED <<part, callsVars, vaultVars, cardsVars, reviewVars,
                    trainingVars, memoryVars, policyVars, fusionVars>>
  \/ /\ part = "fusion" /\ FusionNext
     /\ UNCHANGED <<part, callsVars, vaultVars, cardsVars, reviewVars,
                    trainingVars, memoryVars, policyVars, patchVars>>

Spec ==
  Init /\ [][Next]_<<part, callsVars, vaultVars, cardsVars, reviewVars, trainingVars,
                   memoryVars, policyVars, patchVars, fusionVars>>

\* Of the component that runs; the others stay as they begin.
TypeOK ==
  CASE part = "calls"    -> CallsTypeOK
    [] part = "vault"    -> VaultTypeOK
    [] part = "cards"    -> CardsTypeOK
    [] part = "review"   -> ReviewTypeOK
    [] part = "training" -> TrainingTypeOK
    [] part = "memory"   -> MemoryTypeOK
    [] part = "policy"   -> PolicyTypeOK
    [] part = "patch"    -> PatchTypeOK
    [] part = "fusion"   -> FusionTypeOK

-----------------------------------------------------------------------------
(* Changes to review. *)

Change(types, upkeep) == [types |-> types, flagged |-> FALSE, upkeep |-> upkeep,
                          blockers |-> FALSE, bypass |-> FALSE]

SomeDiffs == {Change({"code"}, "approve"), Change({"core", "code"}, "refactor_required"),
              [Change({"code"}, "approve") EXCEPT !.bypass = TRUE]}

-----------------------------------------------------------------------------
(* Two memories that share a tag and contradict each other. *)

Says(type, kind, text, normal, tags) ==
  [type |-> type, kind |-> kind, text |-> text, normal |-> normal, tags |-> tags,
   permitted |-> TRUE, sound |-> TRUE]

SomeContents ==
  {Says("fact", "project", "Tests pass", "tests pass", {"run"}),
   Says("fact", "project", "tests fail", "tests fail", {"run"})}

SkillSays == [name \in SkillNames |-> Says("skill", "skill", name, name, {"skill"})]

ProfileSays == [value \in Values |-> Says("user_model", "user", value, value, {"profile"})]

-----------------------------------------------------------------------------
(* Policy packs: one rule for each kind of action, of different priorities  *)
(* and conditions, one that is disabled and one without actions.            *)

Test(field, value) == [field |-> field, value |-> value]

Always == [all |-> {}, any |-> {}, test |-> Test("none", "none")]

OnRisk(risk) == [Always EXCEPT !.test = Test("risk", risk)]

OnBoth == [Always EXCEPT !.all = {Test("fact", "writes"), Test("risk", "medium")},
                         !.any = {Test("fact", "reads")}]

OnEither == [Always EXCEPT !.any = {Test("fact", "writes"), Test("risk", "high")}]

Does(kind, level) == [kind |-> kind, level |-> level, human |-> FALSE, rollback |-> FALSE]

Rule(priority, condition, actions) ==
  [scope |-> "syscall", enabled |-> TRUE, priority |-> priority, conditions |-> {condition},
   actions |-> actions]

SomePacks ==
  {{Rule(100, OnRisk("high"), {Does("deny", 0)})},
   {Rule(900, Always, {Does("allow", 1)}),
    Rule(300, OnEither, {[Does("require_approval", 2) EXCEPT !.rollback = TRUE]})},
   {Rule(500, OnBoth, {[Does("require_review", 3) EXCEPT !.human = TRUE]}),
    [Rule(990, Always, {Does("deny", 5)}) EXCEPT !.enabled = FALSE]},
   {Rule(700, Always, {}), Rule(600, OnRisk("medium"), {Does("modify", 0), Does("prefer_tool", 4)})},
   {[Rule(950, Always, {Does("deny", 0)}) EXCEPT !.scope = "memory"]}}

Asks(risk, facts, text) == [scope |-> "syscall", risk |-> risk, facts |-> facts, text |-> text]

SomeRequests == {Asks("low", {"reads"}, 1), Asks("medium", {"writes"}, 4), Asks("high", {}, 0)}
=============================================================================
