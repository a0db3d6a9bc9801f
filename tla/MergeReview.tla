---------------------------- MODULE MergeReview ----------------------------
(***************************************************************************)
(* loopos review artifact and loopos review gate: may what a run changed   *)
(* be merged?                                                              *)
(*                                                                         *)
(* An artifact is put together from the run's record, its trace and a      *)
(* diff, and stored; the gate judges the stored artifact and reads neither *)
(* the run nor its trace.  The artifacts of all runs share one file, which *)
(* a save reads, truncates and writes back; text that is not JSON is read  *)
(* as no artifact at all, so a file that was truncated or torn counts as   *)
(* an empty one.  The trace is the set of facts the artifact looks for in  *)
(* it.  A policy decision that asks for approval is recorded as not        *)
(* allowed; none has the severity "blocker".                               *)
(***************************************************************************)
EXTENDS Integers, FiniteSets

CONSTANTS
  ReviewRuns,      \* runs
  Reviewing,       \* processes that build and save an artifact
  Diffs,           \* the diffs handed to review artifact
  NoArtifact,      \* none stored
  MaxFacts,        \* bound on the facts traced
  MaxArtifacts,    \* bound on the artifacts built
  MaxReviewDeaths  \* bound on the processes that die

VARIABLES
  runStatus, \* the record of each run
  trace,     \* the facts in the trace of each run
  artifacts, \* the file: the artifact of each run
  saving,    \* what each process still has to save
  reviewed   \* how many facts, artifacts and deaths there were, for the bounds

reviewVars == <<runStatus, trace, artifacts, saving, reviewed>>

Facts == {"test_passed", "test_failed", "policy_allowed", "policy_refused", "data_failed"}

\* "core" stands for the kernel, policy, data, syscall and memory directories.
ChangeTypes == {"docs", "tests", "code", "config", "plugin", "provider", "core"}

Recommendations == {"approve", "request_changes", "refactor_required", "block"}

\* No types means that no diff was given or that none of its paths is known.
\* upkeep is the report's recommendation, by its score ("approve" with warnings
\* or without); blockers says that a finding is one, which costs all the score;
\* bypass that the findings of bypassed governance weigh 1 in all, as one that
\* is a blocker does, and as two errors do that leave the score at 90.
DiffRecords == [types : SUBSET ChangeTypes, flagged : BOOLEAN,
                upkeep : Recommendations, blockers : BOOLEAN, bypass : BOOLEAN]

ASSUME ReviewAssumptions ==
  /\ ReviewRuns # {}
  /\ Diffs \subseteq DiffRecords
  /\ \A d \in Diffs : d.blockers => d.upkeep = "block"
  /\ MaxFacts \in Nat
  /\ MaxArtifacts \in Nat
  /\ MaxReviewDeaths \in Nat

NotSaving == [stage |-> "idle", run |-> CHOOSE r \in ReviewRuns : TRUE,
              artifact |-> NoArtifact, listed |-> [r \in ReviewRuns |-> NoArtifact]]

ReviewInit ==
  /\ runStatus = [r \in ReviewRuns |-> "running"]
  /\ trace = [r \in ReviewRuns |-> {}]
  /\ artifacts = [r \in ReviewRuns |-> NoArtifact]
  /\ saving = [p \in Reviewing |-> NotSaving]
  /\ reviewed = [facts |-> 0, built |-> 0, deaths |-> 0]

-----------------------------------------------------------------------------
(* The artifact. *)

\* Mutant: bypasses count only by what they cost the score.
UpkeepByScore(diff) ==
  [blocks |-> diff.blockers \/ diff.upkeep = "block",
   required |-> diff.blockers \/ diff.upkeep \in {"request_changes", "refactor_required"}]

\* What the maintainability gate makes of the report on a diff: whether it
\* blocks the merge, and whether it requires anything of the author.
Upkeep(diff) ==
  [blocks |-> diff.blockers \/ diff.upkeep = "block" \/ diff.bypass,
   required |-> \/ diff.blockers \/ diff.bypass
                \/ diff.upkeep \in {"request_changes", "refactor_required"}]

Risk(diff) ==
  IF diff.flagged \/ "core" \in diff.types THEN "high"
  ELSE IF diff.types \cap {"code", "provider", "plugin"} # {} THEN "medium" ELSE "low"

\* Mutant: the run's status is stored as it is; nothing would validate it.
AcceptanceAsIs(status) == status

\* A run that has not ended is neither accepted nor rejected.
Acceptance(status) ==
  IF status = "succeeded" THEN "passed" ELSE IF status = "running" THEN "unknown" ELSE "failed"

ArtifactDecision(facts, acceptance, diff) ==
  IF "policy_refused" \in facts THEN "blocked"
  ELSE IF acceptance = "failed" THEN "reject"
  ELSE IF Upkeep(diff).required THEN "request_changes" ELSE "approve"

\* The artifact of run r; reviewer says whether its command named one.
Artifact(r, diff, reviewer) ==
  [run |-> r, facts |-> trace[r], acceptance |-> Acceptance(runStatus[r]), diff |-> diff,
   reviewer |-> reviewer,
   decision |-> ArtifactDecision(trace[r], Acceptance(runStatus[r]), diff)]

-----------------------------------------------------------------------------
(* The merge gate. *)

NeedsTests(diff) == diff.types \cap {"code", "config", "plugin", "provider", "core"} # {}

HighRisk(a, flag) == flag \/ Risk(a.diff) = "high"

Tests(a) == a.facts \cap {"test_passed", "test_failed"}

\* What the gate's command says of the change: that its risk is high, that its
\* upkeep is refused, that its producer is its reviewer.
GateFlags == [high : BOOLEAN, blocked : BOOLEAN, self : BOOLEAN]

\* Mutant: changes of high risk need a reviewer only when the caller says so.
WantsReviewerIfTold(a, flags) == flags.high

WantsReviewer(a, flags) == HighRisk(a, flags.high)

\* Who produced and who reviewed the change is taken from the gate's own
\* arguments.  The verifier is not asked about, and changes requested stop no
\* merge: only a decision of "blocked" does.
MergeBlocked(a, flags) ==
  \/ "test_failed" \in Tests(a)
  \/ Tests(a) = {} /\ NeedsTests(a.diff) /\ HighRisk(a, flags.high)
  \/ flags.blocked \/ Upkeep(a.diff).blocks
  \/ "policy_refused" \in a.facts
  \/ "data_failed" \in a.facts
  \/ a.acceptance = "failed"
  \/ WantsReviewer(a, flags) /\ ~a.reviewer
  \/ flags.self /\ HighRisk(a, flags.high)
  \/ a.decision = "blocked"

\* Code that is not of high risk and has no tests is asked for some.
TestsAsked(a, flags) ==
  Tests(a) = {} /\ NeedsTests(a.diff) /\ ~HighRisk(a, flags.high)

AllowedToMerge(a, flags) == ~MergeBlocked(a, flags) /\ ~TestsAsked(a, flags)

-----------------------------------------------------------------------------
(* The commands. *)

TraceFact(r, fact) ==
  /\ runStatus[r] = "running"
  /\ fact \notin trace[r]
  /\ reviewed.facts < MaxFacts
  /\ trace' = [trace EXCEPT ![r] = @ \union {fact}]
  /\ reviewed' = [reviewed EXCEPT !.facts = @ + 1]
  /\ UNCHANGED <<runStatus, artifacts, saving>>

EndRun(r, status) ==
  /\ runStatus[r] = "running"
  /\ runStatus' = [runStatus EXCEPT ![r] = status]
  /\ UNCHANGED <<trace, artifacts, saving, reviewed>>

Build(p, r, diff, reviewer) ==
  /\ saving[p].stage = "idle"
  /\ reviewed.built < MaxArtifacts
  /\ saving' = [saving EXCEPT ![p] =
                  [stage |-> "list", run |-> r, artifact |-> Artifact(r, diff, reviewer),
                   listed |-> NotSaving.listed]]
  /\ reviewed' = [reviewed EXCEPT !.built = @ + 1]
  /\ UNCHANGED <<runStatus, trace, artifacts>>

List(p) ==
  /\ saving[p].stage = "list"
  /\ saving' = [saving EXCEPT ![p].stage = "truncate",
                              ![p].listed = [artifacts EXCEPT ![saving[p].run] = saving[p].artifact]]
  /\ UNCHANGED <<runStatus, trace, artifacts, reviewed>>

Truncate(p) ==
  /\ saving[p].stage = "truncate"
  /\ artifacts' = [r \in ReviewRuns |-> NoArtifact]
  /\ saving' = [saving EXCEPT ![p].stage = "write"]
  /\ UNCHANGED <<runStatus, trace, reviewed>>

WriteAll(p) ==
  /\ saving[p].stage = "write"
  /\ artifacts' = saving[p].listed
  /\ saving' = [saving EXCEPT ![p] = NotSaving]
  /\ UNCHANGED <<runStatus, trace, reviewed>>

ReviewDeath(p) ==
  /\ saving[p].stage # "idle"
  /\ reviewed.deaths < MaxReviewDeaths
  /\ saving' = [saving EXCEPT ![p] = NotSaving]
  /\ reviewed' = [reviewed EXCEPT !.deaths = @ + 1]
  /\ UNCHANGED <<runStatus, trace, artifacts>>

ReviewNext ==
  \/ \E r \in ReviewRuns, fact \in Facts : TraceFact(r, fact)
  \/ \E r \in ReviewRuns, status \in {"succeeded", "failed"} : EndRun(r, status)
  \/ \E p \in Reviewing, r \in ReviewRuns, diff \in Diffs, reviewer \in BOOLEAN :
        Build(p, r, diff, reviewer)
  \/ \E p \in Reviewing : List(p) \/ Truncate(p) \/ WriteAll(p) \/ ReviewDeath(p)

ReviewSpec == ReviewInit /\ [][ReviewNext]_reviewVars

-----------------------------------------------------------------------------
(* Properties. *)

ArtifactRecords ==
  [run : ReviewRuns, facts : SUBSET Facts, acceptance : {"passed", "failed", "unknown"},
   diff : Diffs, reviewer : BOOLEAN, decision : {"approve", "request_changes", "reject", "blocked"}]

StoredArtifacts == [ReviewRuns -> ArtifactRecords \union {NoArtifact}]

ReviewTypeOK ==
  /\ runStatus \in [ReviewRuns -> {"running", "succeeded", "failed"}]
  /\ trace \in [ReviewRuns -> SUBSET Facts]
  /\ artifacts \in StoredArtifacts
  /\ \A p \in Reviewing :
       /\ saving[p].stage \in {"idle", "list", "truncate", "write"}
       /\ saving[p].run \in ReviewRuns
       /\ saving[p].artifact \in ArtifactRecords \union {NoArtifact}
       /\ saving[p].listed \in StoredArtifacts

\* The stored artifact of run r is what would be built of it now.
Current(r) ==
  /\ artifacts[r] # NoArtifact
  /\ artifacts[r].facts = trace[r]
  /\ artifacts[r].acceptance = Acceptance(runStatus[r])

\* Whatever the gate's command is told, a merge is allowed on an artifact that
\* the run has not overtaken only if no test failed, no policy or data check
\* refused, the run has not failed, the diff neither scores too low nor bypasses
\* the governance, a change that wants tests has passed some, and one of high
\* risk names a reviewer - from the trace, over the file that all runs share, to
\* the verdict.  (An artifact the run has overtaken is judged all the same, and
\* one that nobody verified too, though docs/review-artifact.md:11 has the gate
\* reject missing verification.)
MergedWasSound ==
  \A r \in ReviewRuns, flags \in GateFlags :
    Current(r) /\ AllowedToMerge(artifacts[r], flags) =>
      LET diff == artifacts[r].diff
      IN  /\ trace[r] \cap {"test_failed", "policy_refused", "data_failed"} = {}
          /\ runStatus[r] # "failed"
          /\ diff.upkeep # "block" /\ ~diff.blockers /\ ~diff.bypass
          /\ NeedsTests(diff) => "test_passed" \in trace[r]
          /\ Risk(diff) = "high" => artifacts[r].reviewer
=============================================================================
