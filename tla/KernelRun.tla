----------------------------- MODULE KernelRun -----------------------------
(***************************************************************************)
(* One kernel run: KernelLoopEngine.run, resume and submit_agent_command   *)
(* over a RunRecord that RunManager keeps in one JSON file.                *)
(*                                                                         *)
(* The record exists twice.  `disk' is the saved file; every process that  *)
(* works on the run has a private copy `mem[p]', read once when it starts  *)
(* and written back whole at its save points.  Nothing locks the file, and *)
(* a save is not atomic: it truncates the file, then writes the text.      *)
(* Between two saves a process performs syscalls and appends trace events; *)
(* it can die at any point, also inside a save, and then only the trace    *)
(* and what is left of the file survive.                                   *)
(*                                                                         *)
(* A position is an index of the plan, 1..Len(plan); the code's cursor is  *)
(* the number of positions already passed.                                 *)
(*                                                                         *)
(* Left out: trace payloads other than the lifecycle state they record,    *)
(* error strings, timestamps, phase (a function of status), and the skill  *)
(* proposal made after LOOP.HALT (a memory-repository operation).          *)
(***************************************************************************)
EXTENDS KernelDecisions, Sequences, FiniteSets

CONSTANTS
  Procs,      \* the processes that may run or resume the run (CLI invocations)
  Clients,    \* the processes that may call submit_agent_command
  Specs,      \* the run specifications considered: [plan, max, mode, auto]
  Evidence,   \* progress scores a handler may report
  MaxOutcomes,  \* bound on the ACI outcomes appended to the record
  MaxApprovals  \* bound on the approve signals of one run

Ops == {"SYSCALL", "EVAL.APPLY", "PROGRESS.MEASURE", "LOOP.HALT", "OTHER"}

Hints == [accept : BOOLEAN, satisfied : BOOLEAN, failed : BOOLEAN,
          repairable : BOOLEAN, missing : BOOLEAN, score : Int]

\* An AIL instruction: two are equal exactly when their op and args are equal, so
\* equality of these records stands for the equality of their fingerprints.
Instructions == [id : Nat, op : Ops, gate : {"allow", "approve", "deny"},
                 call : Calls, hints : Hints]

IsSpec(s) == /\ s.plan \in Seq(Instructions)
             /\ s.max \in Nat \ {0}
             /\ s.mode \in {"guarded", "dry_run"}
             /\ s.auto \in BOOLEAN

ASSUME Assumptions ==
  /\ \A s \in Specs : IsSpec(s)
  /\ Evidence \subseteq Int \ {NoEvidence}
  /\ MaxOutcomes \in Nat
  /\ MaxApprovals \in Nat
  /\ Procs \cap Clients = {}

VARIABLES
  spec,      \* the RunSpec and compiled plan of this run; never changes
  disk,      \* the saved RunRecord
  mem,       \* mem[p] is the copy process p works on
  pc,        \* where each process is
  grant,     \* grant[p] is approve_pending in p's _execute
  reply,     \* reply[p] is the syscall result p has not acted on yet
  replay,    \* the lifecycle state the trace's last transition records
  ran,       \* history: positions whose handler ran, in order
  approvals, \* history: the pending position of every approve signal
  refused,   \* history: positions the router refused because policy denied them
  sawFailure,\* history: the latest syscall observation was a failure
  crashed    \* history: some process died in the middle of its work

recordVars == <<disk, mem, replay>>
history    == <<ran, approvals, refused, sawFailure, crashed>>
vars       == <<spec, disk, mem, pc, grant, reply, replay,
                ran, approvals, refused, sawFailure, crashed>>

plan  == spec.plan
Positions == 1..Len(plan)

NoInstruction == [id |-> 0]

NoAccumulator == [seen |-> FALSE, score |-> 0, noProgress |-> 0, failures |-> 0,
                  repeats |-> 0, last |-> NoInstruction]

\* RunRecord.from_spec; pending = 0 means there is no pending approval.
Fresh == [status |-> "pending", step |-> 0, cursor |-> 0, score |-> 0, pending |-> 0,
          accepted |-> FALSE, judged |-> FALSE, latest |-> Neutral,
          acc |-> NoAccumulator, aci |-> 0]

\* There is no file yet.
Absent == [Fresh EXCEPT !.status = "absent"]

\* The file is there and holds no text, or text that is no record: load raises on both.
Empty   == [Fresh EXCEPT !.status = "empty"]
Garbled == [Fresh EXCEPT !.status = "garbled"]

Torn == {"empty", "garbled"}

NoReply == [success |-> FALSE, asks |-> FALSE, risk |-> "low", evidence |-> NoEvidence]

Init ==
  /\ spec \in Specs
  /\ disk = Absent
  /\ mem = [p \in Procs \cup Clients |-> Absent]
  /\ pc = [p \in Procs \cup Clients |-> "idle"]
  /\ grant = [p \in Procs |-> FALSE]
  /\ reply = [p \in Procs |-> NoReply]
  /\ replay = [status |-> "absent", step |-> 0]
  /\ ran = <<>>
  /\ approvals = <<>>
  /\ refused = {}
  /\ sawFailure = FALSE
  /\ crashed = FALSE

-----------------------------------------------------------------------------
(* The hand-off every judgement goes through: accumulate, converge, schedule. *)

Judge(r, i, e, score, approval) ==
  LET before == LoadAccumulator(r.acc, r.score, NoInstruction)
      after  == Accumulate(before, e, plan[i], score)
      action == Converge(e, after, score - before.score, approval)
  IN  [record |-> [r EXCEPT !.acc = after, !.latest = e, !.judged = TRUE],
       action |-> Schedule(SchedulerInput[action], r.step, spec.max)]

\* Mutant: the transition is traced before it is applied.
ConcludeTracedFirst(p, r, action) ==
  LET status == IF Stops(action) THEN StatusAfter[action] ELSE "running"
  IN  /\ CanMove(r.status, StatusAfter[action])
      /\ mem' = [mem EXCEPT ![p] = [r EXCEPT !.status = status]]
      /\ replay' = [status |-> mem[p].status, step |-> mem[p].step]
      /\ pc' = [pc EXCEPT ![p] = IF Stops(action) THEN "saveStop" ELSE "saveGo"]

(***************************************************************************)
(* Apply a scheduler decision to p's copy and say where p goes: a halt or  *)
(* a wait is saved and ends the call; repair and replan resume at once, so *)
(* the status p saves before its next instruction is "running".            *)
(***************************************************************************)
Conclude(p, r, action) ==
  LET status == IF Stops(action) THEN StatusAfter[action] ELSE "running"
  IN  /\ CanMove(r.status, StatusAfter[action])
      /\ mem' = [mem EXCEPT ![p] = [r EXCEPT !.status = status]]
      /\ replay' = [status |-> status, step |-> r.step]
      /\ pc' = [pc EXCEPT ![p] = IF Stops(action) THEN "saveStop" ELSE "saveGo"]

HandOff(p, r, i, e, score, approval) ==
  \E j \in {Judge(r, i, e, score, approval)} : Conclude(p, j.record, j.action)

\* The record after position i: step, cursor and the planned share of the score.
Advance(r, i) == [r EXCEPT !.step = i, !.cursor = i]

Planned(r, i) == IF r.score >= i THEN r.score ELSE i

\* Mutant: a negative score is kept.
ClampAbove(n) == IF n > Len(plan) THEN Len(plan) ELSE n

\* A reported score is clamped to the plan's own scale.
Clamp(n) == IF n < 0 THEN 0 ELSE IF n > Len(plan) THEN Len(plan) ELSE n

\* Mutant: approve_pending is never reset.
SpendNothing(p, verdict) == grant

\* approve_pending is used up by the first dispatch, whatever its verdict.
Spend(p, verdict) == [grant EXCEPT ![p] = FALSE]

-----------------------------------------------------------------------------
(* KernelLoopEngine.run *)

\* RunManager.create saves the pending record: the file appears, still without text.
Create(p) ==
  /\ pc[p] = "idle"
  /\ disk.status = "absent"
  /\ disk' = Empty
  /\ mem' = [mem EXCEPT ![p] = Fresh]
  /\ pc' = [pc EXCEPT ![p] = "writeNew"]
  /\ grant' = [grant EXCEPT ![p] = FALSE]
  /\ UNCHANGED <<spec, reply, replay, history>>

\* The move to running is traced, and saved with the compiled plan.
Begin(p) ==
  /\ pc[p] = "created"
  /\ mem' = [mem EXCEPT ![p].status = "running"]
  /\ replay' = [status |-> "running", step |-> 0]
  /\ pc' = [pc EXCEPT ![p] = "saveGo"]
  /\ UNCHANGED <<spec, disk, grant, reply, history>>

-----------------------------------------------------------------------------
(* KernelLoopEngine.resume *)

\* Mutant: resume looks at nothing but that the record can be read.
LoadUnchecked(p) ==
  /\ pc[p] = "idle"
  /\ disk.status \in Statuses
  /\ Len(approvals) < MaxApprovals
  /\ mem' = [mem EXCEPT ![p] = disk]
  /\ pc' = [pc EXCEPT ![p] = "loaded"]
  /\ UNCHANGED <<spec, disk, grant, reply, replay, history>>

Load(p) ==
  /\ pc[p] = "idle"
  /\ disk.status = "waiting_approval"
  /\ Len(approvals) < MaxApprovals
  /\ mem' = [mem EXCEPT ![p] = disk]
  /\ pc' = [pc EXCEPT ![p] = "loaded"]
  /\ UNCHANGED <<spec, disk, grant, reply, replay, history>>

Deny(p) ==
  /\ pc[p] = "loaded"
  /\ mem' = [mem EXCEPT ![p].status = "blocked"]
  /\ replay' = [status |-> "blocked", step |-> mem[p].step]
  /\ pc' = [pc EXCEPT ![p] = "saveStop"]
  /\ UNCHANGED <<spec, disk, grant, reply, history>>

\* Mutant: resume leaves the pending approval in the record.
ApproveKeepsPending(p) ==
  /\ pc[p] = "loaded"
  /\ approvals' = Append(approvals, mem[p].pending)
  /\ mem' = [mem EXCEPT ![p].status = "running"]
  /\ replay' = [status |-> "running", step |-> mem[p].step]
  /\ grant' = [grant EXCEPT ![p] = TRUE]
  /\ pc' = [pc EXCEPT ![p] = "saveGo"]
  /\ UNCHANGED <<spec, disk, reply, ran, refused, sawFailure, crashed>>

Approve(p) ==
  /\ pc[p] = "loaded"
  /\ approvals' = Append(approvals, mem[p].pending)
  /\ mem' = [mem EXCEPT ![p].status = "running", ![p].pending = 0]
  /\ replay' = [status |-> "running", step |-> mem[p].step]
  /\ grant' = [grant EXCEPT ![p] = TRUE]
  /\ pc' = [pc EXCEPT ![p] = "saveGo"]
  /\ UNCHANGED <<spec, disk, reply, ran, refused, sawFailure, crashed>>

-----------------------------------------------------------------------------
(***************************************************************************)
(* RunManager.save, reached after every piece of work and by the clients:  *)
(* opening the file for writing empties it, then the text goes in.  While  *)
(* somebody is between the two the record is only in that copy.            *)
(***************************************************************************)

Writing == {"writeNew", "writeGo", "writeStop", "writeOutcome"}

Truncate(q) ==
  /\ pc[q] \in {"saveGo", "saveStop", "saveOutcome"}
  /\ disk' = Empty
  /\ pc' = [pc EXCEPT ![q] = CASE pc[q] = "saveGo"      -> "writeGo"
                              [] pc[q] = "saveStop"    -> "writeStop"
                              [] pc[q] = "saveOutcome" -> "writeOutcome"]
  /\ UNCHANGED <<spec, mem, grant, reply, replay, history>>

\* Text written over the text of another save may leave the tail of the longer one.
Write(q) ==
  /\ pc[q] \in Writing
  /\ \/ disk' = mem[q]
     \/ disk.status # "empty" /\ disk' = Garbled
  /\ pc' = [pc EXCEPT ![q] = CASE pc[q] = "writeNew" -> "created"
                              [] pc[q] = "writeGo"  -> "head"
                              [] OTHER              -> "idle"]
  /\ mem' = IF pc[q] \in {"writeNew", "writeGo"} THEN mem ELSE [mem EXCEPT ![q] = Absent]
  /\ UNCHANGED <<spec, grant, reply, replay, history>>

-----------------------------------------------------------------------------
(* The loop of KernelLoopEngine._execute *)

\* Mutant: one step too many.
AtHeadInclusive(p, i) ==
  /\ pc[p] = "head"
  /\ i = mem[p].cursor + 1
  /\ i \in Positions
  /\ mem[p].step <= spec.max

\* The instruction at the head of the loop, when there is one and steps are left.
AtHead(p, i) ==
  /\ pc[p] = "head"
  /\ i = mem[p].cursor + 1
  /\ i \in Positions
  /\ mem[p].step < spec.max

\* The plan ran out without LOOP.HALT: _execute returns without saving.
Exhausted(p) ==
  /\ pc[p] = "head"
  /\ mem[p].cursor >= Len(plan)
  /\ pc' = [pc EXCEPT ![p] = "idle"]
  /\ mem' = [mem EXCEPT ![p] = Absent]
  /\ UNCHANGED <<spec, disk, grant, reply, replay, history>>

OverBudget(p) ==
  /\ pc[p] = "head"
  /\ mem[p].cursor < Len(plan)
  /\ mem[p].step >= spec.max
  /\ Conclude(p, mem[p], Schedule(Idle, mem[p].step, spec.max))
  /\ UNCHANGED <<spec, disk, grant, reply, history>>

\* Policy OS denies the instruction itself.
Refuse(p) ==
  \E i \in Positions :
    /\ AtHead(p, i)
    /\ plan[i].gate = "deny"
    /\ HandOff(p, [mem[p] EXCEPT !.step = i], i, EvaluateDenial, mem[p].score, "none")
    /\ UNCHANGED <<spec, disk, grant, reply, history>>

(***************************************************************************)
(* Syscall dispatch.  The effect happens here, before the record says      *)
(* anything about it.  An instruction-level "approve" verdict passes: only *)
(* the router's own policy evaluation asks.                                *)
(***************************************************************************)
Dispatch(p) ==
  \E i \in Positions :
    LET call    == plan[i].call
        verdict == Verdict(call, spec.mode, spec.auto, grant[p])
    IN  /\ AtHead(p, i)
        /\ plan[i].gate # "deny"
        /\ plan[i].op = "SYSCALL"
        /\ \E result \in ResultsOf(call, verdict, Evidence) :
             /\ reply' = [reply EXCEPT ![p] = result]
             /\ sawFailure' = (~result.success /\ ~result.asks)
        /\ ran' = IF verdict = "runs" THEN Append(ran, i) ELSE ran
        /\ refused' = IF call.form = "ok" /\ call.policy = "deny"
                      THEN refused \cup {i} ELSE refused
        /\ grant' = Spend(p, verdict)
        /\ pc' = [pc EXCEPT ![p] = "returned"]
        /\ UNCHANGED <<spec, disk, mem, replay, approvals, crashed>>

\* The result asks for approval: remember the position, do not pass it.
Await(p) ==
  LET i == mem[p].cursor + 1
      r == [mem[p] EXCEPT !.pending = i, !.step = i]
      e == EvaluateResult(reply[p], plan[i].hints)
  IN  /\ pc[p] = "returned"
      /\ reply[p].asks /\ ~reply[p].success
      /\ HandOff(p, r, i, e, r.score, "required")
      /\ reply' = [reply EXCEPT ![p] = NoReply]
      /\ UNCHANGED <<spec, disk, grant, history>>

ResultScore(r, i, result) ==
  IF ~result.success THEN r.score
  ELSE IF result.evidence # NoEvidence THEN Clamp(result.evidence)
  ELSE Planned(r, i)

Settle(p) ==
  LET i == mem[p].cursor + 1
      a == Advance(mem[p], i)
      r == [a EXCEPT !.score = ResultScore(mem[p], i, reply[p])]
      e == EvaluateResult(reply[p], plan[i].hints)
  IN  /\ pc[p] = "returned"
      /\ ~(reply[p].asks /\ ~reply[p].success)
      /\ HandOff(p, r, i, e, r.score, "none")
      /\ reply' = [reply EXCEPT ![p] = NoReply]
      /\ UNCHANGED <<spec, disk, grant, history>>

\* GOAL.*, PLAN.CREATE, CTX.COMPILE and the rest only advance.
Handle(p) ==
  \E i \in Positions :
    /\ AtHead(p, i)
    /\ plan[i].gate # "deny"
    /\ plan[i].op = "OTHER"
    /\ LET a == Advance(mem[p], i)
       IN  mem' = [mem EXCEPT ![p] = [a EXCEPT !.score = Planned(a, i)]]
    /\ pc' = [pc EXCEPT ![p] = "saveGo"]
    /\ UNCHANGED <<spec, disk, grant, reply, replay, history>>

Apply(p) ==
  \E i \in Positions :
    LET a == Advance(mem[p], i)
        r == [a EXCEPT !.score = Planned(a, i),
                       !.accepted = a.accepted \/ plan[i].hints.accept]
    IN  /\ AtHead(p, i)
        /\ plan[i].gate # "deny"
        /\ plan[i].op = "EVAL.APPLY"
        /\ HandOff(p, r, i, EvaluateHints(plan[i].hints), r.score, "none")
        /\ UNCHANGED <<spec, disk, grant, reply, history>>

\* The latest evaluation is judged again, whatever it was about.
Measure(p) ==
  \E i \in Positions :
    LET a     == Advance(mem[p], i)
        h     == plan[i].hints
        score == IF h.score # NoEvidence THEN Clamp(h.score) ELSE Planned(a, i)
        r     == [a EXCEPT !.score = score]
        e     == IF r.judged THEN r.latest ELSE EvaluateHints(h)
    IN  /\ AtHead(p, i)
        /\ plan[i].gate # "deny"
        /\ plan[i].op = "PROGRESS.MEASURE"
        /\ HandOff(p, r, i, e, score, "none")
        /\ UNCHANGED <<spec, disk, grant, reply, history>>

\* Mutant: a full progress score counts as acceptance.
HaltVerdictByScore(r) ==
  IF r.judged /\ (r.latest.failed \/ r.latest.blocked)
  THEN [r.latest EXCEPT !.repairable = FALSE]
  ELSE [Neutral EXCEPT !.satisfied = (r.score = Len(plan)), !.failed = (r.score # Len(plan))]

(***************************************************************************)
(* LOOP.HALT.  A failed or blocked latest evaluation stands, no longer     *)
(* repairable; otherwise acceptance alone decides.  The call returns       *)
(* whatever the decision, so a wait here is left with the plan used up.    *)
(***************************************************************************)
HaltVerdict(r) ==
  IF r.judged /\ (r.latest.failed \/ r.latest.blocked)
  THEN [r.latest EXCEPT !.repairable = FALSE]
  ELSE [Neutral EXCEPT !.satisfied = r.accepted, !.failed = ~r.accepted]

Halt(p) ==
  \E i \in Positions :
    LET a == Advance(mem[p], i)
        r == [a EXCEPT !.score = Planned(a, i)]
    IN  /\ AtHead(p, i)
        /\ plan[i].gate # "deny"
        /\ plan[i].op = "LOOP.HALT"
        /\ \E j \in {Judge(r, i, HaltVerdict(r), r.score, "none")} :
             LET status == StatusAfter[j.action]
             IN  /\ CanMove(r.status, status)
                 /\ mem' = [mem EXCEPT ![p] = [j.record EXCEPT !.status = status]]
                 /\ replay' = [status |-> status, step |-> i]
        /\ pc' = [pc EXCEPT ![p] = "saveStop"]
        /\ UNCHANGED <<spec, disk, grant, reply, history>>

-----------------------------------------------------------------------------
(* submit_agent_command: _record_aci_outcome loads, appends and saves. *)

\* A record that cannot be read is no record: the outcome is dropped.
LoadOutcome(c) ==
  /\ pc[c] = "idle"
  /\ disk.status \in Statuses
  /\ disk.aci < MaxOutcomes
  /\ mem' = [mem EXCEPT ![c] = [disk EXCEPT !.aci = @ + 1]]
  /\ pc' = [pc EXCEPT ![c] = "saveOutcome"]
  /\ UNCHANGED <<spec, disk, grant, reply, replay, history>>

-----------------------------------------------------------------------------
(***************************************************************************)
(* The process dies, or a handler or the write itself raises: its copy is  *)
(* gone and the trace stays.  Inside a save the file stays as it is, or    *)
(* holds a part of the text.                                               *)
(***************************************************************************)
Crash(q) ==
  /\ pc[q] # "idle"
  /\ pc' = [pc EXCEPT ![q] = "idle"]
  /\ mem' = [mem EXCEPT ![q] = Absent]
  /\ reply' = [p \in Procs |-> IF p = q THEN NoReply ELSE reply[p]]
  /\ disk' = disk \/ (pc[q] \in Writing /\ disk' = Garbled)
  /\ crashed' = TRUE
  /\ UNCHANGED <<spec, grant, replay, ran, approvals, refused, sawFailure>>

\* What a live process does next by itself, with no further input.
Work(p) ==
  \/ Begin(p) \/ Deny(p) \/ Approve(p) \/ Truncate(p) \/ Write(p) \/ Exhausted(p)
  \/ OverBudget(p) \/ Refuse(p) \/ Dispatch(p)
  \/ Await(p) \/ Settle(p) \/ Handle(p) \/ Apply(p) \/ Measure(p) \/ Halt(p)

Step(p) == Create(p) \/ Load(p) \/ Work(p) \/ Crash(p)

Submit(c) == LoadOutcome(c) \/ Truncate(c) \/ Write(c) \/ Crash(c)

Next == (\E p \in Procs : Step(p)) \/ (\E c \in Clients : Submit(c))

\* The discipline the code relies on and does not enforce: one process at a time.
Alone(p) == \A q \in (Procs \cup Clients) \ {p} : pc[q] = "idle"

SoloNext ==
  \/ \E p \in Procs : Alone(p) /\ Step(p)
  \/ \E c \in Clients : Alone(c) /\ Submit(c)

SoloSpec == Init /\ [][SoloNext]_vars

\* A call that is not killed keeps executing; nobody need ever resume a waiting run.
Fairness == \A p \in Procs : WF_vars(Work(p))

FairSoloSpec == SoloSpec /\ Fairness

SharedSpec == Init /\ [][Next]_vars

-----------------------------------------------------------------------------
(* Properties. *)

Records ==
  [status : Statuses \cup {"absent"} \cup Torn, step : Nat, cursor : 0..Len(plan),
   score : 0..Len(plan), pending : 0..Len(plan), accepted : BOOLEAN, judged : BOOLEAN,
   latest : Evaluations, aci : Nat,
   acc : [seen : BOOLEAN, score : 0..Len(plan), noProgress : Nat, failures : Nat,
          repeats : Nat, last : Instructions \cup {NoInstruction}]]

PCs == {"idle", "created", "loaded", "head", "returned",
        "saveGo", "saveStop", "saveOutcome"} \cup Writing

\* Every variable stays in its type; in particular a score never leaves the plan's scale,
\* whatever a handler reports (the clamp before every write of progress_score).
TypeOK ==
  /\ IsSpec(spec)
  /\ disk \in Records
  /\ mem \in [Procs \cup Clients -> Records]
  /\ pc \in [Procs \cup Clients -> PCs]
  /\ grant \in [Procs -> BOOLEAN]
  /\ reply \in [Procs -> Results]
  /\ replay \in [status : Statuses \cup {"absent"}, step : Nat]
  /\ ran \in Seq(Positions)
  /\ approvals \in Seq(0..Len(plan))
  /\ refused \in SUBSET Positions
  /\ sawFailure \in BOOLEAN
  /\ crashed \in BOOLEAN

Gated == {i \in Positions : AsksFirst(plan[i].call, spec.auto)}

Times(seq, i) == Cardinality({k \in DOMAIN seq : seq[k] = i})

\* A plan where the only way to wait is a syscall that asks (no missing-information hint).
AsksOnlyForSyscalls == \A i \in Positions : ~plan[i].hints.missing

\* Handlers run in plan order and no handler runs twice, even when a process dies after
\* the effect and before the save: a run saved as running can never be resumed.
InOrderAtMostOnce == \A k, l \in DOMAIN ran : k < l => ran[k] < ran[l]

\* No handler runs at a position beyond max_steps or in a dry run, approved or not.
EffectsWithinBudget ==
  \A k \in DOMAIN ran : ran[k] <= spec.max /\ spec.mode = "guarded"

\* A call that needs approval runs at most as often as somebody approved that very
\* position: one approval is never carried over to the next gated call.
RunsOnlyAsApproved ==
  AsksOnlyForSyscalls => \A i \in Gated : Times(ran, i) <= Times(approvals, i)

\* The pending approval of a waiting run names the instruction that resume will execute,
\* and that instruction has had no effect yet.
PendingNamesNext ==
  disk.status = "waiting_approval" /\ disk.pending # 0 =>
    /\ disk.pending = disk.cursor + 1
    /\ disk.pending = disk.step
    /\ \A k \in DOMAIN ran : ran[k] < disk.pending

\* Between calls, replaying the trace of a run that waits or is over gives its durable status
\* and step, unless a process died between tracing a transition and saving it.
ReplayAgrees ==
  /\ \A p \in Procs \cup Clients : pc[p] = "idle"
  /\ disk.status \in Terminal \cup {"waiting_approval"}
  /\ ~crashed
  => replay = [status |-> disk.status, step |-> disk.step]

\* A third failure in a row ends the run or hands it to a person; it is never saved as
\* running with such a streak.
FailureStreakStops ==
  AsksOnlyForSyscalls /\ disk.acc.failures > RepeatedFailureLimit =>
    disk.status # "running"

\* The plan has said, at a position that was reached, that the goal is met: progress
\* alone, exhausted steps or a person's approval never make a run succeed.
SuccessWasClaimed ==
  disk.status = "succeeded" =>
    \E i \in 1..disk.cursor : plan[i].hints.accept \/ plan[i].hints.satisfied

Writers == {q \in Procs \cup Clients : pc[q] \in Writing}

\* What is kept of the run: the file, or, inside a save, the copy that is being written.
Kept == IF Writers = {} THEN disk ELSE mem[CHOOSE q \in Writers : TRUE]

\* One process at a time, what is kept of a finished run keeps its status through every
\* later save (a client's outcome is saved over it), unless a process dies inside such a
\* save; and a record that was destroyed that way never comes back as another one.
TerminalIsFinal ==
  [][/\ Kept.status \in Terminal =>
          Kept'.status = Kept.status \/ (Kept'.status \in Torn /\ crashed')
     /\ Kept.status \in Torn => Kept'.status \in Torn]_vars

\* A plan that ends in LOOP.HALT, with no hint that is both failed and missing.
Conclusive ==
  /\ plan # <<>> /\ plan[Len(plan)].op = "LOOP.HALT"
  /\ \A i \in Positions : ~(plan[i].hints.failed /\ plan[i].hints.missing)

\* Every started run with a conclusive plan comes to wait or to end, unless its process dies.
Settles ==
  disk.status \in {"pending", "running"} /\ Conclusive ~>
    disk.status \in Terminal \cup {"waiting_approval"} \/ crashed

-----------------------------------------------------------------------------
(* Refinement of GovernedRun. *)

Executing == \E p \in Procs : pc[p] \notin {"idle", "loaded"}

Phase ==
  IF Kept.status = "absent" THEN "unborn"
  ELSE IF Kept.status = "waiting_approval" THEN "asking"
  ELSE IF Kept.status \in Terminal THEN "over"
  ELSE IF Kept.status \in Torn \/ ~Executing THEN "lost"
  ELSE IF Kept.status = "pending" THEN "unborn"
  ELSE "live"

Governed == INSTANCE GovernedRun WITH
  contract <- [max |-> spec.max, gated |-> Gated],
  phase    <- Phase,
  log      <- ran,
  leave    <- Phase = "live" /\ \E p \in Procs : pc[p] # "idle" /\ grant[p],
  killed   <- crashed

\* One process at a time, deaths included, the engine keeps the promises of GovernedRun.
GovernedSpec == Governed!Spec

-----------------------------------------------------------------------------
(* What the documentation says. *)

\* docs/architecture-kernel.md: "Policy denial halts as blocked".
PolicyDenialHaltsBlocked == disk.status = "succeeded" => refused = {}

\* docs/agent-loop-interface.md: "A plan hint cannot override a real failed observation".
HintsDoNotOverrideFailures == disk.status = "succeeded" => ~sawFailure

=============================================================================
