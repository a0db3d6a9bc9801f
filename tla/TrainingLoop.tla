---------------------------- MODULE TrainingLoop ----------------------------
(***************************************************************************)
(* loopos loop run: the project training loop and the directory it keeps.  *)
(*                                                                         *)
(* A run plans, builds, tests and reviews, asks the convergence engine     *)
(* whether to go on, and writes what it did: iterations are appended to a  *)
(* log, line by line, while the report, checkpoint, state and candidate    *)
(* are each replaced by a rename.  The process may die between two writes, *)
(* or in the middle of an append, even of a character: texts are written   *)
(* as they are, in UTF-8.  Starting again with the same run                *)
(* identifier keeps the directory and begins at the first iteration.  The  *)
(* other logs of the directory are appended to in the same way, no command *)
(* concludes anything from them, and they are left out.                    *)
(***************************************************************************)
EXTENDS QualityGate

CONSTANTS
  Goals,       \* the sets of criteria a goal's text may ask for
  Encounters,  \* what the real executor may meet
  Limits,      \* the values of --max-iterations
  Nothing,     \* no file
  MaxAttempts, \* bound on the times the run is started
  MaxCrashes   \* bound on the processes that die

ASSUME TrainingAssumptions ==
  /\ \A goal \in Goals : goal # {} /\ goal \subseteq Criteria
  /\ Encounters \subseteq Executions
  /\ Limits \subseteq Nat \ {0}
  /\ MaxAttempts \in Nat
  /\ MaxCrashes \in Nat

VARIABLES
  phase,     \* what the process does next; "idle" when there is none
  attempt,   \* how this run was started
  satisfied, \* the criteria satisfied so far
  trials,    \* what this run's iterations produced
  verdict,   \* the latest convergence decision
  disk,      \* the run's directory
  history    \* what happened, for the properties only

trainingVars == <<phase, attempt, satisfied, trials, verdict, disk, history>>

Phases == {"idle", "drive", "decide", "append", "report", "checkpoint", "state", "candidate"}

Attempts == [number : 0..MaxAttempts, goal : Goals \union {{}}, real : BOOLEAN,
             limit : Limits \union {0}, promise : BOOLEAN]

Decisions == {"continue", "deliver", "blocked", "iteration_budget_exhausted"}

Verdicts == [status : {"none"} \union Decisions, fake : BOOLEAN, promised : BOOLEAN]

Reports == [number : 1..MaxAttempts, fake : BOOLEAN, status : Decisions]

LoopStates == [number : 1..MaxAttempts,
               status : {"ready_to_deliver", "blocked", "failed", "initialized"}]

Candidates == [number : 1..MaxAttempts, ready : BOOLEAN,
               status : {"ready", "blocked", "deferred", "not_ready"}]

\* A line that is not JSON.
TornLine == <<>>

\* The line iteration i of the given attempt is written as.
Line(number, i) == <<number, i>>

Lines == (1..MaxAttempts) \X (Nat \ {0})

\* open: the log does not end with a line end; text: its bytes are UTF-8.
Disks == [log : Seq({TornLine} \union Lines), open : BOOLEAN, text : BOOLEAN,
          report : {Nothing} \union Reports,
          checkpoint : {Nothing} \union Lines, state : {Nothing} \union LoopStates,
          candidate : {Nothing} \union Candidates]

ASSUME NothingIsNoRecord == Nothing \notin Reports \union LoopStates \union Candidates

NoVerdict == [status |-> "none", fake |-> FALSE, promised |-> FALSE]

NewAttempt == [number |-> 0, goal |-> {}, real |-> FALSE, limit |-> 0, promise |-> FALSE]

TrainingInit ==
  /\ phase = "idle"
  /\ attempt = NewAttempt
  /\ satisfied = {}
  /\ trials = <<>>
  /\ verdict = NoVerdict
  /\ disk = [log |-> <<>>, open |-> FALSE, text |-> TRUE, report |-> Nothing,
             checkpoint |-> Nothing, state |-> Nothing, candidate |-> Nothing]
  /\ history = [appended |-> 0, crashes |-> 0, settled |-> FALSE]

Trial == trials[Len(trials)]

Overalls == [i \in DOMAIN trials |-> Overall(attempt.goal, trials[i])]

-----------------------------------------------------------------------------
(* One run. *)

\* The directory is created or kept; the state starts afresh.
Begin(goal, real, limit, promise) ==
  /\ phase = "idle"
  /\ attempt.number < MaxAttempts
  /\ phase' = "drive"
  /\ attempt' = [number |-> attempt.number + 1, goal |-> goal, real |-> real,
                 limit |-> limit, promise |-> promise]
  /\ satisfied' = {}
  /\ trials' = <<>>
  /\ verdict' = NoVerdict
  /\ history' = [history EXCEPT !.settled = FALSE]
  /\ UNCHANGED disk

\* Plan, build, test, and note which criteria the tests satisfy.
Drive(trial) ==
  /\ phase = "drive"
  /\ phase' = "decide"
  /\ trials' = Append(trials, trial)
  /\ satisfied' = Satisfied(attempt.goal, satisfied, trial)
  /\ UNCHANGED <<attempt, verdict, disk, history>>

\* Mutant: the checkpoint is written before the log.
ConcludeAndCheckpoint(promised) ==
  /\ phase = "decide"
  /\ promised => attempt.promise
  /\ phase' = "append"
  /\ LET decided == Decide(attempt.goal, satisfied, Trial, Overalls, attempt.limit)
     IN  verdict' = IF promised
                    THEN [status |-> "deliver", fake |-> FALSE, promised |-> TRUE]
                    ELSE [status |-> decided.status, fake |-> decided.fake,
                          promised |-> FALSE]
  /\ disk' = [disk EXCEPT !.checkpoint = Line(attempt.number, Len(trials))]
  /\ UNCHANGED <<attempt, satisfied, trials, history>>

\* The completion promise, when the iteration's text contains it, replaces
\* what the convergence engine decided.
Conclude(promised) ==
  /\ phase = "decide"
  /\ promised => attempt.promise
  /\ phase' = "append"
  /\ LET decided == Decide(attempt.goal, satisfied, Trial, Overalls, attempt.limit)
     IN  verdict' = IF promised
                    THEN [status |-> "deliver", fake |-> FALSE, promised |-> TRUE]
                    ELSE [status |-> decided.status, fake |-> decided.fake,
                          promised |-> FALSE]
  /\ UNCHANGED <<attempt, satisfied, trials, disk, history>>

\* What a line appended after a torn one ends up as: the two become one line.
Appended(log, open, line) ==
  IF open THEN [log EXCEPT ![Len(log)] = TornLine] ELSE Append(log, line)

AppendIteration ==
  /\ phase = "append"
  /\ phase' = "report"
  /\ disk' = [disk EXCEPT !.log = Appended(disk.log, disk.open,
                                           Line(attempt.number, Len(trials))),
                          !.open = FALSE]
  /\ history' = [history EXCEPT !.appended = @ + 1]
  /\ UNCHANGED <<attempt, satisfied, trials, verdict>>

WriteReport ==
  /\ phase = "report"
  /\ phase' = "checkpoint"
  /\ disk' = [disk EXCEPT !.report = [number |-> attempt.number, status |-> verdict.status,
                                      fake |-> verdict.fake]]
  /\ UNCHANGED <<attempt, satisfied, trials, verdict, history>>

Final == {"deliver", "blocked", "iteration_budget_exhausted"}

\* The loop goes on unless the decision ends it or the iterations are used up.
WriteCheckpoint ==
  /\ phase = "checkpoint"
  /\ phase' = IF verdict.status \in Final \/ Len(trials) = attempt.limit
              THEN "state" ELSE "drive"
  /\ disk' = [disk EXCEPT !.checkpoint = Line(attempt.number, Len(trials))]
  /\ UNCHANGED <<attempt, satisfied, trials, verdict, history>>

RunStatus ==
  IF verdict.status = "deliver" THEN "ready_to_deliver"
  ELSE IF verdict.status = "blocked" THEN "blocked"
  ELSE IF verdict.status = "iteration_budget_exhausted" THEN "failed"
  ELSE "initialized"

WriteState ==
  /\ phase = "state"
  /\ phase' = "candidate"
  /\ disk' = [disk EXCEPT !.state = [number |-> attempt.number, status |-> RunStatus]]
  /\ UNCHANGED <<attempt, satisfied, trials, verdict, history>>

\* Mutant: only a candidate that is ready is written.
WriteCandidateIfReady ==
  /\ phase = "candidate"
  /\ phase' = "idle"
  /\ disk' = IF Candidate(attempt.goal, satisfied, Trial, verdict).ready
             THEN [disk EXCEPT !.candidate = [number |-> attempt.number, ready |-> TRUE,
                                              status |-> "ready"]]
             ELSE disk
  /\ history' = [history EXCEPT !.settled = TRUE]
  /\ UNCHANGED <<attempt, satisfied, trials, verdict>>

WriteCandidate ==
  /\ phase = "candidate"
  /\ phase' = "idle"
  /\ LET candidate == Candidate(attempt.goal, satisfied, Trial, verdict)
     IN  disk' = [disk EXCEPT !.candidate = [number |-> attempt.number,
                                             ready |-> candidate.ready,
                                             status |-> candidate.status]]
  /\ history' = [history EXCEPT !.settled = TRUE]
  /\ UNCHANGED <<attempt, satisfied, trials, verdict>>

\* The process dies.  What an append leaves behind may be nothing, part of the
\* line, part of it up to the middle of a character, or all of it but the end
\* of line.  Whatever is appended after half a character, it is no text.
Crash(left) ==
  /\ phase # "idle"
  /\ history.crashes < MaxCrashes
  /\ phase' = "idle"
  /\ left # "nothing" => phase = "append"
  /\ LET line == IF left = "all" THEN Line(attempt.number, Len(trials)) ELSE TornLine
     IN  disk' = IF left = "nothing" THEN disk
                 ELSE [disk EXCEPT !.log = Appended(disk.log, disk.open, line),
                                   !.open = TRUE,
                                   !.text = @ /\ left # "character"]
  /\ history' = [history EXCEPT !.crashes = @ + 1]
  /\ UNCHANGED <<attempt, satisfied, trials, verdict>>

\* A dry run of the real executor is one that ends well and counts no test.
Iterate ==
  \/ ~attempt.real /\ Drive(Simulated(attempt.goal))
  \/ attempt.real /\ \E run \in Encounters : Drive(Executed(run))

TrainingNext ==
  \/ \E goal \in Goals, real, promise \in BOOLEAN, limit \in Limits :
        Begin(goal, real, limit, promise)
  \/ Iterate
  \/ \E promised \in BOOLEAN : Conclude(promised)
  \/ AppendIteration
  \/ WriteReport
  \/ WriteCheckpoint
  \/ WriteState
  \/ WriteCandidate
  \/ \E left \in {"nothing", "part", "character", "all"} : Crash(left)

TrainingSpec == TrainingInit /\ [][TrainingNext]_trainingVars

-----------------------------------------------------------------------------
(* What the commands that read the directory conclude. *)

\* Mutant: a corrupt line ends the reading.
ReadableUntilTorn ==
  {i \in DOMAIN disk.log : disk.text /\ \A j \in 1..i : disk.log[j] # TornLine}

\* The lines that are JSON.
Whole(log) == {i \in DOMAIN log : log[i] # TornLine}

\* A line that is not JSON is skipped.  Bytes that are no text raise, whatever
\* the lines before and after them hold, and nothing is read.
Readable == IF disk.text THEN Whole(disk.log) ELSE {}

\* loop deliver reads the log as well, and shows nothing when that raises.
DeliveryStatus ==
  IF ~disk.text THEN "unreadable"
  ELSE IF disk.candidate # Nothing /\ disk.candidate.ready THEN "ready"
  ELSE IF disk.report # Nothing /\ disk.report.fake THEN "blocked_by_fake_convergence"
  ELSE IF disk.report # Nothing /\ disk.report.status = "blocked" THEN "blocked"
  ELSE IF disk.report # Nothing /\ disk.report.status = "iteration_budget_exhausted"
  THEN "budget_exhausted"
  ELSE "incomplete"

-----------------------------------------------------------------------------
(* Properties. *)

\* Everything keeps its type.
TrainingTypeOK ==
  /\ phase \in Phases
  /\ attempt \in Attempts
  /\ satisfied \subseteq attempt.goal
  /\ trials \in Seq(Trials)
  /\ verdict \in Verdicts
  /\ disk \in Disks
  /\ history \in [appended : Nat, crashes : 0..MaxCrashes, settled : BOOLEAN]

\* However failures, empty test runs and repairs follow each other, the gates
\* deliver only when the last tests did not fail, some iteration tested
\* successfully, and no failure has since put the test criterion in doubt.
\* (ConvergenceEngine.decide; the completion promise goes around it.)
DeliveredWasTested ==
  verdict.status = "deliver" /\ ~verdict.promised =>
    /\ Trial.failed = 0
    /\ \E i \in DOMAIN trials :
         /\ trials[i].passed > 0 /\ trials[i].failed = 0
         /\ \A j \in i..Len(trials) : trials[j].failed > 0 => "test" \notin attempt.goal

\* A run that comes to its end is to be delivered, or it has failed with its
\* iterations used up.  It is never left undecided, and never blocked: the
\* branches of loop_run_command for these two are never taken.  (The guide
\* lets a blocking finding at the end of the budget end blocked,
\* docs/convergence-and-delivery.md:37-42: the engine has no such decision.)
EndsDecided ==
  history.settled =>
    /\ disk.state # Nothing
    /\ \/ disk.state.status = "ready_to_deliver" /\ verdict.status = "deliver"
       \/ disk.state.status = "failed" /\ Len(trials) >= attempt.limit

\* Once a run has come to its end, what loop deliver shows is about that run,
\* whatever an earlier attempt left in the directory, unless that is a log that
\* is no text: then nothing is shown.
SettledDiskAgrees ==
  history.settled =>
    /\ disk.candidate # Nothing /\ disk.candidate.number = attempt.number
    /\ disk.report.number = attempt.number
    /\ DeliveryStatus = "ready" => disk.state.status = "ready_to_deliver"
    /\ ~verdict.promised =>
         (disk.state.status = "ready_to_deliver" => DeliveryStatus \in {"ready", "unreadable"})

\* An iteration the checkpoint names stands in the log, unless a torn line is
\* there to say why not.
CheckpointIsLogged ==
  disk.checkpoint = Nothing
    \/ \E i \in DOMAIN disk.log : disk.log[i] \in {disk.checkpoint, TornLine}

\* A process that dies while it appends costs the log one completed line, at
\* most, unless it dies inside a character: what the next appends and deaths
\* make of the torn line never takes a second one with it (append_iteration
\* and _read_jsonl).  After a death inside a character nothing can be read.
TornAppendsLoseOne ==
  disk.text => history.appended - Cardinality(Readable) <= history.crashes

\* docs/convergence-and-delivery.md:77-82: a candidate is ready only when the
\* required criteria are satisfied, nothing blocks and the quality suffices.
ReadyMeetsGates ==
  history.settled /\ disk.candidate.ready =>
    /\ Required(attempt.goal) \subseteq satisfied
    /\ Blocking(Trial) = 0
    /\ Overall(attempt.goal, Trial) >= QualityThreshold
=============================================================================
