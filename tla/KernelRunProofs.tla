-------------------------- MODULE KernelRunProofs --------------------------
(***************************************************************************)
(* Proofs about KernelRun, for every set of processes and clients, every   *)
(* set of well-formed run specifications and every bound: what holds       *)
(* however many processes share the record and however they interleave.    *)
(* The second half is about one process at a time: the order of effects,   *)
(* pending approvals, finished records, what the trace tells, and the      *)
(* refinement of GovernedRun.                                              *)
(***************************************************************************)
EXTENDS KernelRun, FiniteSetTheorems, TLAPS

All == Procs \cup Clients

-----------------------------------------------------------------------------
(* Facts about the pure operators. *)

\* Each evaluation the engine builds is a well-formed evaluation record.
LEMMA EvaluationTypes ==
  ASSUME NEW h \in Hints
  PROVE  /\ EvaluateDenial \in Evaluations
         /\ EvaluateHints(h) \in Evaluations
         /\ \A result \in Results : EvaluateResult(result, h) \in Evaluations
  BY DEF Hints, Results, EvaluateDenial, EvaluateHints, EvaluateResult, Evaluations, Neutral

\* The scheduler always reaches one of its actions.
LEMMA ScheduleType ==
  ASSUME NEW v, NEW step, NEW max
  PROVE  Schedule(v, step, max) \in ScheduleActions
  BY DEF Schedule, ScheduleActions

\* A decision that stops the call leaves the run waiting or over.
LEMMA StopStatus ==
  ASSUME NEW action \in ScheduleActions, Stops(action)
  PROVE  StatusAfter[action] \in Terminal \cup {"waiting_approval"}
  BY DEF ScheduleActions, Stops, StatusAfter, Terminal

\* Every result of a dispatch is well formed, and only a run that did not happen asks.
LEMMA ResultTypes ==
  ASSUME NEW call \in Calls, NEW verdict, Evidence \subseteq Int,
         NEW result \in ResultsOf(call, verdict, Evidence)
  PROVE  /\ result \in Results
         /\ verdict = "runs" => ~(result.asks /\ ~result.success)
<1>1. ResultRisk(call) \in Risks /\ NoEvidence \in Int
      /\ (call.ask \/ call.policy = "approve") \in BOOLEAN
  BY DEF Calls, ResultRisk, Risks, NoEvidence
<1>2. PICK ok \in BOOLEAN, asks \in BOOLEAN, ev \in Int :
        /\ result = [success |-> ok, asks |-> asks, risk |-> ResultRisk(call), evidence |-> ev]
        /\ verdict = "runs" => ~asks
  <2>1. CASE verdict = "refused"  BY <1>1, <2>1 DEF ResultsOf
  <2>2. CASE verdict = "asks"     BY <1>1, <2>2 DEF ResultsOf
  <2>3. CASE verdict = "planned"  BY <1>1, <2>3 DEF ResultsOf
  <2>4. CASE verdict \notin {"refused", "asks", "planned"}
    BY <1>1, <2>4 DEF ResultsOf
  <2> QED BY <2>1, <2>2, <2>3, <2>4
<1> QED BY <1>1, <1>2 DEF Results

\* The hand-off changes the accounting and nothing else of the record.
LEMMA JudgeFacts ==
  ASSUME IsSpec(spec), NEW r \in Records, NEW i \in Positions, NEW e \in Evaluations,
         NEW score \in 0..Len(plan), NEW approval
  PROVE  LET j == Judge(r, i, e, score, approval)
         IN  /\ j.record \in Records
             /\ j.record.status = r.status /\ j.record.step = r.step
             /\ j.record.cursor = r.cursor /\ j.record.pending = r.pending
             /\ j.action \in ScheduleActions
<1> DEFINE before == LoadAccumulator(r.acc, r.score, NoInstruction)
           after  == Accumulate(before, e, plan[i], score)
           Accs   == [seen : BOOLEAN, score : 0..Len(plan), noProgress : Nat,
                      failures : Nat, repeats : Nat,
                      last : Instructions \cup {NoInstruction}]
<1>1. before \in Accs
  BY DEF Records, LoadAccumulator, IsSpec, plan
<1>2. plan[i] \in Instructions
  BY DEF IsSpec, Positions, plan
<1>3. after \in Accs
  <2> HIDE DEF before
  <2> QED BY <1>1, <1>2 DEF Accumulate
<1> DEFINE rec   == [r EXCEPT !.acc = after, !.latest = e, !.judged = TRUE]
           input == SchedulerInput[Converge(e, after, score - before.score, approval)]
           act   == Schedule(input, r.step, spec.max)
<1>4. /\ rec \in Records
      /\ rec.status = r.status /\ rec.step = r.step
      /\ rec.cursor = r.cursor /\ rec.pending = r.pending
  <2> HIDE DEF after
  <2> QED BY <1>3 DEF Records
<1>5. act \in ScheduleActions
  <2> HIDE DEF input
  <2> QED BY ScheduleType
<1>6. Judge(r, i, e, score, approval) = [record |-> rec, action |-> act]
  BY DEF Judge
<1> HIDE DEF before, after, input, rec, act
<1> QED BY <1>4, <1>5, <1>6

\* An approval request always stops the call: the run waits, it never resumes by itself.
LEMMA AskingWaits ==
  ASSUME IsSpec(spec), NEW r \in Records, NEW i \in Positions, NEW h \in Hints,
         NEW result \in Results, result.asks, ~result.success, NEW score \in 0..Len(plan)
  PROVE  Judge(r, i, EvaluateResult(result, h), score, "required").action = "wait_approval"
<1> DEFINE e == EvaluateResult(result, h)
<1>1. ~e.blocked
  BY DEF EvaluateResult, Neutral
<1>2. \A acc, delta : Converge(e, acc, delta, "required") = "wait_approval"
  <2> HIDE DEF e
  <2> QED BY <1>1 DEF Converge
<1>3. Schedule(SchedulerInput["wait_approval"], r.step, spec.max) = "wait_approval"
  BY DEF Schedule, SchedulerInput, Idle
<1> DEFINE before == LoadAccumulator(r.acc, r.score, NoInstruction)
           after  == Accumulate(before, e, plan[i], score)
           delta  == score - before.score
           choice == Converge(e, after, delta, "required")
<1>4. Judge(r, i, e, score, "required").action = Schedule(SchedulerInput[choice], r.step, spec.max)
  BY DEF Judge
<1>5. choice = "wait_approval"
  <2> HIDE DEF e, after, delta
  <2> QED BY <1>2
<1> HIDE DEF choice
<1> QED BY <1>3, <1>4, <1>5 DEF e

\* A denied instruction always stops the call: nothing weighs against the denial.
LEMMA DenialBlocks ==
  ASSUME NEW r, NEW i, NEW score, NEW approval
  PROVE  Judge(r, i, EvaluateDenial, score, approval).action = "halt_blocked"
<1>1. \A acc, delta : Converge(EvaluateDenial, acc, delta, approval) = "halt_blocked"
  BY DEF Converge, EvaluateDenial, Neutral
<1>2. Schedule(SchedulerInput["halt_blocked"], r.step, spec.max) = "halt_blocked"
  BY DEF Schedule, SchedulerInput, Idle
<1> DEFINE before == LoadAccumulator(r.acc, r.score, NoInstruction)
           after  == Accumulate(before, EvaluateDenial, plan[i], score)
           choice == Converge(EvaluateDenial, after, score - before.score, approval)
<1>3. Judge(r, i, EvaluateDenial, score, approval).action
        = Schedule(SchedulerInput[choice], r.step, spec.max)
  BY DEF Judge
<1>4. choice = "halt_blocked"
  BY <1>1
<1> HIDE DEF choice
<1> QED BY <1>2, <1>3, <1>4

\* LOOP.HALT always stops the call: its verdict is satisfied, failed beyond repair, or
\* blocked, and none of these repairs, replans or goes on.
LEMMA HaltStops ==
  ASSUME IsSpec(spec), NEW r \in Records, NEW i \in Positions, NEW score \in 0..Len(plan)
  PROVE  Stops(Judge(r, i, HaltVerdict(r), score, "none").action)
<1> DEFINE e == HaltVerdict(r)
<1>1. /\ e.blocked \/ e.satisfied \/ (e.failed /\ ~e.repairable)
      /\ ~e.regression
  <2>1. CASE r.judged /\ (r.latest.failed \/ r.latest.blocked)
    <3>1. e = [r.latest EXCEPT !.repairable = FALSE] /\ r.latest \in Evaluations
      BY <2>1 DEF HaltVerdict, Records
    <3> HIDE DEF e
    <3> QED BY <2>1, <3>1 DEF Evaluations
  <2>2. CASE ~(r.judged /\ (r.latest.failed \/ r.latest.blocked))
    <3>1. e = [Neutral EXCEPT !.satisfied = r.accepted, !.failed = ~r.accepted]
      BY <2>2 DEF HaltVerdict
    <3>2. r.accepted \in BOOLEAN
      BY DEF Records
    <3> HIDE DEF e
    <3> QED BY <3>1, <3>2 DEF Neutral
  <2> QED BY <2>1, <2>2
<1>2. \A acc, delta : Converge(e, acc, delta, "none") \in
                        {"halt_blocked", "ask_user", "halt_success", "halt_failure"}
  <2> HIDE DEF e
  <2> QED BY <1>1 DEF Converge
<1>3. \A c \in {"halt_blocked", "ask_user", "halt_success", "halt_failure"} :
        Stops(Schedule(SchedulerInput[c], r.step, spec.max))
  BY DEF Schedule, SchedulerInput, Idle, Stops
<1> DEFINE before == LoadAccumulator(r.acc, r.score, NoInstruction)
           after  == Accumulate(before, e, plan[i], score)
           delta  == score - before.score
           choice == Converge(e, after, delta, "none")
<1>4. Judge(r, i, e, score, "none").action = Schedule(SchedulerInput[choice], r.step, spec.max)
  BY DEF Judge
<1>5. choice \in {"halt_blocked", "ask_user", "halt_success", "halt_failure"}
  <2> HIDE DEF e, after, delta
  <2> QED BY <1>2
<1> HIDE DEF choice
<1> QED BY <1>3, <1>4, <1>5 DEF e

-----------------------------------------------------------------------------
(* What every piece of work leaves behind. *)

\* p's copy becomes r; p saves it and goes on, or traces it, saves it and is done.
Concluded(p, r) ==
  /\ mem' = [mem EXCEPT ![p] = r]
  /\ replay' \in {replay, [status |-> r.status, step |-> r.step]}
  /\ \/ r.status = "running" /\ pc' = [pc EXCEPT ![p] = "saveGo"]
     \/ /\ r.status \in Terminal \cup {"waiting_approval"}
        /\ pc' = [pc EXCEPT ![p] = "saveStop"]
        /\ replay' = [status |-> r.status, step |-> r.step]

\* Applying a decision changes only the status of the record.
LEMMA ConcludeFacts ==
  ASSUME IsSpec(spec), NEW p, NEW r \in Records, NEW action \in ScheduleActions,
         Conclude(p, r, action)
  PROVE  \E rec \in Records :
           /\ Concluded(p, rec)
           /\ rec.step = r.step /\ rec.cursor = r.cursor /\ rec.pending = r.pending
           /\ Stops(action) => rec.status = StatusAfter[action]
<1> DEFINE status == IF Stops(action) THEN StatusAfter[action] ELSE "running"
           rec    == [r EXCEPT !.status = status]
<1>1. /\ status \in Statuses
      /\ Stops(action) => status \in Terminal \cup {"waiting_approval"}
  BY StopStatus DEF Statuses, Terminal
<1>2. /\ mem' = [mem EXCEPT ![p] = rec]
      /\ replay' = [status |-> status, step |-> r.step]
      /\ pc' = [pc EXCEPT ![p] = IF Stops(action) THEN "saveStop" ELSE "saveGo"]
  BY DEF Conclude
<1>3. Stops(action) => status = StatusAfter[action]
  OBVIOUS
<1>4. ~Stops(action) => status = "running"
  OBVIOUS
<1> HIDE DEF status
<1>5. /\ rec \in Records
      /\ rec.step = r.step /\ rec.cursor = r.cursor /\ rec.pending = r.pending
      /\ rec.status = status /\ r.step \in Nat
  BY <1>1 DEF Records
<1> HIDE DEF rec
<1>6. replay' = [status |-> rec.status, step |-> rec.step]
  BY <1>2, <1>5
<1>7. Concluded(p, rec)
  BY <1>1, <1>2, <1>4, <1>5, <1>6 DEF Concluded
<1> QED BY <1>3, <1>5, <1>7

\* So does a whole hand-off.
LEMMA HandOffFacts ==
  ASSUME IsSpec(spec), NEW p, NEW r \in Records, NEW i \in Positions, NEW e \in Evaluations,
         NEW score \in 0..Len(plan), NEW approval, HandOff(p, r, i, e, score, approval)
  PROVE  \E rec \in Records :
           /\ Concluded(p, rec)
           /\ rec.step = r.step /\ rec.cursor = r.cursor /\ rec.pending = r.pending
           /\ LET action == Judge(r, i, e, score, approval).action
              IN  Stops(action) => rec.status = StatusAfter[action]
<1> DEFINE j == Judge(r, i, e, score, approval)
<1>1. Conclude(p, j.record, j.action)
  BY DEF HandOff
<1>2. /\ j.record \in Records /\ j.action \in ScheduleActions
      /\ j.record.step = r.step /\ j.record.cursor = r.cursor
      /\ j.record.pending = r.pending
  BY JudgeFacts
<1> HIDE DEF j
<1>3. PICK rec \in Records :
        /\ Concluded(p, rec)
        /\ rec.step = r.step /\ rec.cursor = r.cursor /\ rec.pending = r.pending
        /\ Stops(j.action) => rec.status = StatusAfter[j.action]
  BY <1>1, <1>2, ConcludeFacts
<1> QED BY <1>3 DEF j

\* What a process's copy holds at each place in the code.
Matches(r, at) ==
  /\ at \notin {"saveOutcome", "writeOutcome"}
  /\ at \in {"writeNew", "created"} => r = Fresh
  /\ at = "loaded" => r.status = "waiting_approval"
  /\ at \in {"saveGo", "writeGo", "head", "returned"} => r.status = "running" /\ r.pending = 0
  /\ at \in {"saveStop", "writeStop"} => r.status \in Terminal \cup {"waiting_approval"}
  /\ at = "returned" => r.cursor < Len(plan)

CopyOK(p) == Matches(mem[p], pc[p])

\* The cursor never overtakes the step that the limit is compared with, and a pending
\* approval of a waiting record is the next position.
RecordOK(r) ==
  /\ r.cursor <= r.step
  /\ r.status = "waiting_approval" /\ r.pending # 0 =>
       r.pending = r.cursor + 1 /\ r.pending = r.step

\* What any action that handles an instruction, or the step limit, does to p's copy.
Executed(p) ==
  /\ pc[p] \in {"head", "returned"}
  /\ reply' \in {reply, [reply EXCEPT ![p] = NoReply]}
  /\ UNCHANGED <<spec, disk, grant, history>>
  /\ \E rec \in Records :
       /\ Concluded(p, rec)
       /\ rec.cursor <= rec.step
       /\ rec.cursor >= mem[p].cursor
       /\ rec.status = "running" => rec.cursor = mem[p].cursor + 1
       /\ pc[p] = "returned" =>
            \/ rec.cursor = mem[p].cursor + 1
            \/ reply[p].asks /\ ~reply[p].success
       /\ \/ rec.pending = mem[p].pending
          \/ /\ rec.status = "waiting_approval"
             /\ rec.pending = rec.cursor + 1 /\ rec.pending = rec.step

\* Passing a position keeps a record well formed.
LEMMA AdvanceTypes ==
  ASSUME IsSpec(spec), NEW r \in Records, NEW i \in Positions
  PROVE  /\ Advance(r, i) \in Records
         /\ Advance(r, i).step = i /\ Advance(r, i).cursor = i
         /\ Advance(r, i).pending = r.pending /\ Advance(r, i).status = r.status
         /\ Advance(r, i).score = r.score
         /\ Planned(r, i) \in 0..Len(plan)
         /\ \A n \in Int : Clamp(n) \in 0..Len(plan)
<1>1. Len(plan) \in Nat /\ i \in 0..Len(plan) /\ i \in Nat
  BY DEF IsSpec, Positions, plan
<1>2. Advance(r, i) \in Records
  BY <1>1 DEF Advance, Records
<1>3. /\ Advance(r, i).step = i /\ Advance(r, i).cursor = i
      /\ Advance(r, i).pending = r.pending /\ Advance(r, i).status = r.status
      /\ Advance(r, i).score = r.score
  BY DEF Advance, Records
<1>4. Planned(r, i) \in 0..Len(plan)
  BY <1>1 DEF Planned, Records
<1>5. \A n \in Int : Clamp(n) \in 0..Len(plan)
  BY <1>1 DEF Clamp
<1> QED BY <1>2, <1>3, <1>4, <1>5

\* The parts of an instruction have their types.
LEMMA InstructionTypes ==
  ASSUME IsSpec(spec), NEW i \in Positions
  PROVE  /\ plan[i].hints \in Hints /\ plan[i].call \in Calls
         /\ i \in Nat /\ i \in 0..Len(plan)
<1>1. plan[i] \in Instructions /\ i \in Nat /\ i \in 0..Len(plan)
  BY DEF IsSpec, Positions, plan
<1> QED BY <1>1 DEF Instructions

\* Every action of the loop except dispatching a syscall and leaving at the end of the
\* plan is Executed.
LEMMA WorkExecutes ==
  ASSUME IsSpec(spec), NEW p \in Procs, mem[p] \in Records, reply[p] \in Results,
         CopyOK(p), mem[p].cursor <= mem[p].step,
         \/ OverBudget(p) \/ Refuse(p) \/ Await(p) \/ Settle(p)
         \/ Handle(p) \/ Apply(p) \/ Measure(p) \/ Halt(p)
  PROVE  Executed(p)
<1> DEFINE m == mem[p]
<1>a. /\ m \in Records /\ m.cursor \in Nat /\ m.step \in Nat /\ m.cursor <= m.step
      /\ m.score \in 0..Len(plan) /\ Len(plan) \in Nat
  BY DEF Records, IsSpec, plan
<1>1. CASE OverBudget(p)
  <2>1. PICK rec \in Records :
          Concluded(p, rec) /\ rec.step = m.step /\ rec.cursor = m.cursor
          /\ rec.pending = m.pending /\ rec.status = "failed"
    <3>1. Schedule(Idle, m.step, spec.max) = "halt_failed"
      BY <1>1 DEF OverBudget, Schedule, Idle
    <3>2. Conclude(p, m, "halt_failed")
      BY <1>1, <3>1 DEF OverBudget
    <3> QED BY <1>a, <3>2, ConcludeFacts DEF ScheduleActions, Stops, StatusAfter
  <2> QED BY <1>1, <1>a, <2>1 DEF OverBudget, Executed
<1>2. CASE Refuse(p)
  <2>1. PICK i \in Positions :
          /\ AtHead(p, i)
          /\ HandOff(p, [m EXCEPT !.step = i], i, EvaluateDenial, m.score, "none")
          /\ UNCHANGED <<spec, disk, grant, reply, history>>
    BY <1>2 DEF Refuse
  <2> DEFINE r == [m EXCEPT !.step = i]
  <2>2. /\ r \in Records /\ r.step = i /\ r.cursor = m.cursor /\ r.pending = m.pending
        /\ i = m.cursor + 1
    BY <1>a, <2>1, InstructionTypes DEF Records, AtHead
  <2> HIDE DEF r
  <2>3. PICK rec \in Records :
          Concluded(p, rec) /\ rec.step = i /\ rec.cursor = m.cursor
          /\ rec.pending = m.pending /\ rec.status = "blocked"
    <3>1. HandOff(p, r, i, EvaluateDenial, m.score, "none")
      BY <2>1 DEF r
    <3>2. EvaluateDenial \in Evaluations
      BY DEF EvaluateDenial, Evaluations, Neutral
    <3>3. Judge(r, i, EvaluateDenial, m.score, "none").action = "halt_blocked"
      BY DenialBlocks
    <3> QED BY <1>a, <2>2, <3>1, <3>2, <3>3, HandOffFacts DEF Stops, StatusAfter
  <2> QED BY <1>a, <2>1, <2>2, <2>3 DEF Executed, AtHead
<1>3. CASE Await(p)
  <2> DEFINE i == m.cursor + 1
             r == [m EXCEPT !.pending = i, !.step = i]
             e == EvaluateResult(reply[p], plan[i].hints)
  <2>1. /\ pc[p] = "returned" /\ reply[p].asks /\ ~reply[p].success
        /\ HandOff(p, r, i, e, r.score, "required")
        /\ reply' = [reply EXCEPT ![p] = NoReply]
        /\ UNCHANGED <<spec, disk, grant, history>>
    BY <1>3 DEF Await
  <2>2. i \in Positions
    BY <1>a, <2>1 DEF CopyOK, Matches, Positions
  <2>3. plan[i].hints \in Hints /\ i \in 0..Len(plan) /\ i \in Nat /\ e \in Evaluations
    BY <2>2, InstructionTypes, EvaluationTypes
  <2>4. Judge(r, i, e, r.score, "required").action = "wait_approval"
    <3>1. r \in Records /\ r.score \in 0..Len(plan)
      <4> HIDE DEF i
      <4> QED BY <1>a, <2>3 DEF Records
    <3> HIDE DEF r
    <3> QED BY <2>1, <2>2, <2>3, <3>1, AskingWaits
  <2>5. /\ r \in Records /\ r.score \in 0..Len(plan)
        /\ r.step = i /\ r.pending = i /\ r.cursor = m.cursor
    <3> HIDE DEF i
    <3> QED BY <1>a, <2>3 DEF Records
  <2> HIDE DEF r, e
  <2>6. PICK rec \in Records :
          /\ Concluded(p, rec) /\ rec.step = i /\ rec.cursor = m.cursor /\ rec.pending = i
          /\ rec.status = "waiting_approval"
    <3> HIDE DEF i
    <3> QED BY <2>1, <2>2, <2>3, <2>4, <2>5, HandOffFacts DEF Stops, StatusAfter
  <2> QED BY <1>a, <2>1, <2>6 DEF Executed
<1>4. CASE Settle(p)
  <2> DEFINE i == m.cursor + 1
             a == Advance(m, i)
             r == [a EXCEPT !.score = ResultScore(m, i, reply[p])]
             e == EvaluateResult(reply[p], plan[i].hints)
  <2>1. /\ pc[p] = "returned"
        /\ HandOff(p, r, i, e, r.score, "none")
        /\ reply' = [reply EXCEPT ![p] = NoReply]
        /\ UNCHANGED <<spec, disk, grant, history>>
    BY <1>4 DEF Settle
  <2>2. i \in Positions
    BY <1>a, <2>1 DEF CopyOK, Matches, Positions
  <2>3. plan[i].hints \in Hints /\ e \in Evaluations
    BY <2>2, InstructionTypes, EvaluationTypes
  <2>4. ResultScore(m, i, reply[p]) \in 0..Len(plan)
    <3> HIDE DEF i
    <3>1. Planned(m, i) \in 0..Len(plan) /\ Clamp(reply[p].evidence) \in 0..Len(plan)
      BY <1>a, <2>2, AdvanceTypes DEF Results
    <3> QED BY <1>a, <3>1 DEF ResultScore
  <2>5. /\ r \in Records /\ r.score \in 0..Len(plan)
        /\ r.step = i /\ r.cursor = i /\ r.pending = m.pending
    <3>1. /\ a \in Records /\ a.step = i /\ a.cursor = i /\ a.pending = m.pending
      BY <1>a, <2>2, AdvanceTypes
    <3> HIDE DEF a, i
    <3> QED BY <2>4, <3>1 DEF Records
  <2> HIDE DEF r, e
  <2>6. PICK rec \in Records :
          Concluded(p, rec) /\ rec.step = i /\ rec.cursor = i /\ rec.pending = m.pending
    <3> HIDE DEF i
    <3> QED BY <2>1, <2>2, <2>3, <2>5, HandOffFacts
  <2> QED BY <1>a, <2>1, <2>6 DEF Executed
<1>5. CASE Handle(p)
  <2>1. PICK i \in Positions :
          /\ AtHead(p, i)
          /\ LET a == Advance(m, i)
             IN  mem' = [mem EXCEPT ![p] = [a EXCEPT !.score = Planned(a, i)]]
          /\ pc' = [pc EXCEPT ![p] = "saveGo"]
          /\ UNCHANGED <<spec, disk, grant, reply, replay, history>>
    BY <1>5 DEF Handle
  <2> DEFINE a   == Advance(m, i)
             rec == [a EXCEPT !.score = Planned(a, i)]
  <2>2. /\ rec \in Records /\ rec.step = i /\ rec.cursor = i
        /\ rec.pending = m.pending /\ rec.status = m.status
    <3>1. /\ a \in Records /\ a.step = i /\ a.cursor = i
          /\ a.pending = m.pending /\ a.status = m.status
          /\ Planned(a, i) \in 0..Len(plan)
      BY <1>a, AdvanceTypes
    <3> HIDE DEF a
    <3> QED BY <3>1 DEF Records
  <2>3. mem' = [mem EXCEPT ![p] = rec] /\ rec.status = "running" /\ i = m.cursor + 1
    BY <2>1, <2>2 DEF AtHead, CopyOK, Matches
  <2> HIDE DEF rec
  <2>4. Concluded(p, rec)
    BY <2>1, <2>3 DEF Concluded
  <2> QED BY <1>a, <2>1, <2>2, <2>3, <2>4, InstructionTypes DEF Executed, AtHead
<1>6. CASE Apply(p)
  <2>1. PICK i \in Positions :
          LET a == Advance(m, i)
              r == [a EXCEPT !.score = Planned(a, i),
                             !.accepted = a.accepted \/ plan[i].hints.accept]
          IN  /\ AtHead(p, i)
              /\ HandOff(p, r, i, EvaluateHints(plan[i].hints), r.score, "none")
              /\ UNCHANGED <<spec, disk, grant, reply, history>>
    BY <1>6 DEF Apply
  <2> DEFINE a == Advance(m, i)
             r == [a EXCEPT !.score = Planned(a, i),
                            !.accepted = a.accepted \/ plan[i].hints.accept]
             e == EvaluateHints(plan[i].hints)
  <2>2. e \in Evaluations
    BY InstructionTypes, EvaluationTypes
  <2>3. /\ r \in Records /\ r.score \in 0..Len(plan)
        /\ r.step = i /\ r.cursor = i /\ r.pending = m.pending
    <3>1. /\ a \in Records /\ a.step = i /\ a.cursor = i /\ a.pending = m.pending
          /\ Planned(a, i) \in 0..Len(plan)
      BY <1>a, AdvanceTypes
    <3>2. (a.accepted \/ plan[i].hints.accept) \in BOOLEAN
      OBVIOUS
    <3> HIDE DEF a
    <3> QED BY <3>1, <3>2 DEF Records
  <2>4. HandOff(p, r, i, e, r.score, "none") /\ i = m.cursor + 1
    BY <2>1 DEF AtHead
  <2> HIDE DEF r, e
  <2>5. PICK rec \in Records :
          Concluded(p, rec) /\ rec.step = i /\ rec.cursor = i /\ rec.pending = m.pending
    BY <2>2, <2>3, <2>4, HandOffFacts
  <2> QED BY <1>a, <2>1, <2>4, <2>5, InstructionTypes DEF Executed, AtHead
<1>7. CASE Measure(p)
  <2>1. PICK i \in Positions :
          LET a     == Advance(m, i)
              h     == plan[i].hints
              score == IF h.score # NoEvidence THEN Clamp(h.score) ELSE Planned(a, i)
              r     == [a EXCEPT !.score = score]
              e     == IF r.judged THEN r.latest ELSE EvaluateHints(h)
          IN  /\ AtHead(p, i)
              /\ HandOff(p, r, i, e, score, "none")
              /\ UNCHANGED <<spec, disk, grant, reply, history>>
    BY <1>7 DEF Measure
  <2> DEFINE a     == Advance(m, i)
             h     == plan[i].hints
             score == IF h.score # NoEvidence THEN Clamp(h.score) ELSE Planned(a, i)
             r     == [a EXCEPT !.score = score]
             e     == IF r.judged THEN r.latest ELSE EvaluateHints(h)
  <2>2. /\ score \in 0..Len(plan)
        /\ a \in Records /\ a.step = i /\ a.cursor = i /\ a.pending = m.pending
    <3>1. h.score \in Int
      BY InstructionTypes DEF Hints
    <3>2. a \in Records /\ a.step = i /\ a.cursor = i /\ a.pending = m.pending
      BY <1>a, AdvanceTypes
    <3>3. Planned(a, i) \in 0..Len(plan) /\ Clamp(h.score) \in 0..Len(plan)
      BY <3>1, <3>2, AdvanceTypes
    <3> HIDE DEF a, h
    <3> QED BY <3>2, <3>3
  <2>3. /\ r \in Records /\ r.step = i /\ r.cursor = i /\ r.pending = m.pending
    <3> HIDE DEF a, score
    <3> QED BY <2>2 DEF Records
  <2>4. e \in Evaluations
    <3>1. EvaluateHints(h) \in Evaluations
      BY <1>a, InstructionTypes, EvaluationTypes
    <3>2. r.latest \in Evaluations
      <4> HIDE DEF r
      <4> QED BY <2>3 DEF Records
    <3> HIDE DEF r, h
    <3> QED BY <3>1, <3>2
  <2>5. HandOff(p, r, i, e, score, "none") /\ i = m.cursor + 1
    BY <2>1 DEF AtHead
  <2> HIDE DEF r, e, score
  <2>6. PICK rec \in Records :
          Concluded(p, rec) /\ rec.step = i /\ rec.cursor = i /\ rec.pending = m.pending
    BY <2>2, <2>3, <2>4, <2>5, HandOffFacts
  <2> QED BY <1>a, <2>1, <2>5, <2>6, InstructionTypes DEF Executed, AtHead
<1>8. CASE Halt(p)
  <2>1. PICK i \in Positions :
          LET a == Advance(m, i)
              r == [a EXCEPT !.score = Planned(a, i)]
          IN  /\ AtHead(p, i)
              /\ \E j \in {Judge(r, i, HaltVerdict(r), r.score, "none")} :
                   LET status == StatusAfter[j.action]
                   IN  /\ mem' = [mem EXCEPT ![p] = [j.record EXCEPT !.status = status]]
                       /\ replay' = [status |-> status, step |-> i]
              /\ pc' = [pc EXCEPT ![p] = "saveStop"]
              /\ UNCHANGED <<spec, disk, grant, reply, history>>
    BY <1>8 DEF Halt
  <2> DEFINE a      == Advance(m, i)
             r      == [a EXCEPT !.score = Planned(a, i)]
             j      == Judge(r, i, HaltVerdict(r), r.score, "none")
             status == StatusAfter[j.action]
             rec    == [j.record EXCEPT !.status = status]
  <2>2. /\ mem' = [mem EXCEPT ![p] = rec]
        /\ replay' = [status |-> status, step |-> i]
        /\ i = m.cursor + 1
    BY <2>1 DEF AtHead
  <2>3. /\ r \in Records /\ r.score \in 0..Len(plan)
        /\ r.step = i /\ r.cursor = i /\ r.pending = m.pending
    <3>1. /\ a \in Records /\ a.step = i /\ a.cursor = i /\ a.pending = m.pending
          /\ Planned(a, i) \in 0..Len(plan)
      BY <1>a, AdvanceTypes
    <3> HIDE DEF a
    <3> QED BY <3>1 DEF Records
  <2>4. HaltVerdict(r) \in Evaluations
    <3> HIDE DEF r
    <3> QED BY <2>3 DEF HaltVerdict, Records, Evaluations, Neutral
  <2>5. Stops(j.action)
    <3> HIDE DEF r
    <3> QED BY <2>3, HaltStops
  <2>6. /\ j.record \in Records /\ j.action \in ScheduleActions
        /\ j.record.step = i /\ j.record.cursor = i /\ j.record.pending = m.pending
    <3> HIDE DEF r
    <3> QED BY <2>3, <2>4, JudgeFacts
  <2>7. status \in Terminal \cup {"waiting_approval"} /\ status \in Statuses
    <3> HIDE DEF j
    <3> QED BY <2>5, <2>6, StopStatus DEF Statuses, Terminal
  <2>8. /\ rec \in Records /\ rec.status = status
        /\ rec.step = i /\ rec.cursor = i /\ rec.pending = m.pending
    <3> HIDE DEF j, status
    <3> QED BY <2>6, <2>7 DEF Records
  <2> HIDE DEF rec, status
  <2>9. Concluded(p, rec)
    BY <2>1, <2>2, <2>7, <2>8, InstructionTypes DEF Concluded
  <2> QED BY <1>a, <2>1, <2>2, <2>8, <2>9, InstructionTypes DEF Executed, AtHead
<1> QED BY <1>1, <1>2, <1>3, <1>4, <1>5, <1>6, <1>7, <1>8

-----------------------------------------------------------------------------
(* The invariant of any number of processes sharing the run. *)

SharedInv ==
  /\ TypeOK
  /\ RecordOK(disk) /\ \A q \in All : RecordOK(mem[q])
  /\ \A p \in Procs : CopyOK(p)
  /\ EffectsWithinBudget

LEMMA BlankRecords ==
  ASSUME IsSpec(spec)
  PROVE  /\ Fresh \in Records /\ Absent \in Records
         /\ Empty \in Records /\ Garbled \in Records
         /\ [Fresh EXCEPT !.status = "running"] \in Records
         /\ RecordOK(Fresh) /\ RecordOK(Absent) /\ RecordOK(Empty) /\ RecordOK(Garbled)
         /\ RecordOK([Fresh EXCEPT !.status = "running"])
<1>1. Len(plan) \in Nat /\ 0 \in 0..Len(plan)
  BY DEF IsSpec, plan
<1>2. NoAccumulator \in [seen : BOOLEAN, score : 0..Len(plan), noProgress : Nat,
                         failures : Nat, repeats : Nat,
                         last : Instructions \cup {NoInstruction}]
  BY <1>1 DEF NoAccumulator
<1>3. Neutral \in Evaluations
  BY DEF Neutral, Evaluations
<1> HIDE DEF NoAccumulator, Neutral
<1>4. Fresh \in Records /\ Fresh.cursor = 0 /\ Fresh.step = 0 /\ Fresh.pending = 0
  BY <1>1, <1>2, <1>3 DEF Fresh, Records, Statuses
<1>5. /\ Absent \in Records /\ Absent.cursor = 0 /\ Absent.step = 0 /\ Absent.pending = 0
      /\ [Fresh EXCEPT !.status = "running"] \in Records
  BY <1>1, <1>2, <1>3 DEF Absent, Fresh, Records, Statuses
<1>6. [Fresh EXCEPT !.status = "running"].cursor = 0
      /\ [Fresh EXCEPT !.status = "running"].step = 0
      /\ [Fresh EXCEPT !.status = "running"].pending = 0
  BY DEF Fresh
<1>7. /\ Empty \in Records /\ Empty.cursor = 0 /\ Empty.step = 0 /\ Empty.pending = 0
      /\ Garbled \in Records /\ Garbled.cursor = 0 /\ Garbled.step = 0 /\ Garbled.pending = 0
  BY <1>1, <1>2, <1>3 DEF Empty, Garbled, Torn, Fresh, Records, Statuses
<1> QED BY <1>4, <1>5, <1>6, <1>7 DEF RecordOK

LEMMA SharedInit == Init => SharedInv
<1> SUFFICES ASSUME Init PROVE SharedInv
  OBVIOUS
<1>1. IsSpec(spec)
  BY Assumptions DEF Init
<1>2. NoReply \in Results
  BY DEF NoReply, Results, Risks, NoEvidence
<1>3. TypeOK
  <2>1. disk \in Records /\ mem \in [Procs \cup Clients -> Records]
    BY <1>1, BlankRecords DEF Init
  <2>2. /\ pc \in [Procs \cup Clients -> PCs]
        /\ grant \in [Procs -> BOOLEAN]
        /\ reply \in [Procs -> Results]
    BY <1>2 DEF Init, PCs
  <2>3. replay \in [status : Statuses \cup {"absent"}, step : Nat]
    BY DEF Init
  <2>4. /\ ran \in Seq(Positions) /\ approvals \in Seq(0..Len(plan))
        /\ refused \in SUBSET Positions /\ sawFailure \in BOOLEAN /\ crashed \in BOOLEAN
    <3>1. \A S : <<>> \in Seq(S)
      OBVIOUS
    <3> QED BY <3>1 DEF Init
  <2> QED BY <1>1, <2>1, <2>2, <2>3, <2>4 DEF TypeOK
<1>4. RecordOK(disk) /\ \A q \in All : RecordOK(mem[q])
  BY <1>1, BlankRecords DEF Init, All
<1>5. \A p \in Procs : CopyOK(p)
  BY DEF Init, CopyOK, Matches
<1> QED BY <1>3, <1>4, <1>5 DEF SharedInv, EffectsWithinBudget, Init

\* No action changes the specification of the run, so its plan and types stay.
LEMMA SpecIsFixed ==
  ASSUME Next
  PROVE  /\ spec' = spec /\ plan' = plan /\ Records' = Records /\ Positions' = Positions
<1>1. ASSUME NEW p \in Procs, Create(p) \/ Begin(p) \/ Load(p) PROVE spec' = spec
  BY <1>1 DEF Create, Begin, Load
<1>2. ASSUME NEW p \in Procs, Deny(p) \/ Approve(p) \/ Exhausted(p) PROVE spec' = spec
  BY <1>2 DEF Deny, Approve, Exhausted
<1>3. ASSUME NEW p \in Procs, OverBudget(p) \/ Refuse(p) \/ Dispatch(p) PROVE spec' = spec
  BY <1>3 DEF OverBudget, Refuse, Dispatch
<1>4. ASSUME NEW p \in Procs, Await(p) \/ Settle(p) \/ Handle(p) PROVE spec' = spec
  BY <1>4 DEF Await, Settle, Handle
<1>5. ASSUME NEW p \in Procs, Apply(p) \/ Measure(p) \/ Halt(p) PROVE spec' = spec
  BY <1>5 DEF Apply, Measure, Halt
<1>6. ASSUME NEW q, LoadOutcome(q) \/ Truncate(q) \/ Write(q) \/ Crash(q) PROVE spec' = spec
  BY <1>6 DEF LoadOutcome, Truncate, Write, Crash
<1>7. spec' = spec
  BY <1>1, <1>2, <1>3, <1>4, <1>5, <1>6 DEF Next, Step, Work, Submit
<1> QED BY <1>7 DEF plan, Records, Positions

\* Process q's copy becomes r and q goes to `at'.
Moved(q, r, at) ==
  /\ q \in All /\ r \in Records /\ at \in PCs
  /\ RecordOK(r) /\ (q \in Procs => Matches(r, at))
  /\ mem' = [mem EXCEPT ![q] = r]
  /\ pc' = [pc EXCEPT ![q] = at]

LEMMA MovedTypes ==
  ASSUME TypeOK, spec' = spec, \A q \in All : RecordOK(mem[q]), \A p \in Procs : CopyOK(p),
         NEW q, NEW r, NEW at, Moved(q, r, at)
  PROVE  /\ mem' \in [Procs \cup Clients -> Records] /\ pc' \in [Procs \cup Clients -> PCs]
         /\ \A x \in All : RecordOK(mem'[x])
         /\ \A p \in Procs : CopyOK(p)'
<1>1. /\ mem' \in [Procs \cup Clients -> Records] /\ pc' \in [Procs \cup Clients -> PCs]
      /\ mem'[q] = r /\ pc'[q] = at
      /\ \A x \in All : x # q => mem'[x] = mem[x] /\ pc'[x] = pc[x]
  BY DEF Moved, TypeOK, All
<1>2. \A x \in All : RecordOK(mem'[x])
  BY <1>1 DEF Moved
<1>3. ASSUME NEW p \in Procs PROVE CopyOK(p)'
  <2>1. Matches(mem'[p], pc'[p])
    BY <1>1 DEF Moved, All, CopyOK
  <2> QED BY <2>1 DEF CopyOK, Matches, plan
<1> QED BY <1>1, <1>2, <1>3

\* The two halves of a save: q's copy becomes r, q goes to `at'.
Saving(q, r, at) ==
  /\ \/ pc[q] = "saveGo"      /\ at = "writeGo"      /\ r = mem[q] /\ disk' = Empty
     \/ pc[q] = "saveStop"    /\ at = "writeStop"    /\ r = mem[q] /\ disk' = Empty
     \/ pc[q] = "saveOutcome" /\ at = "writeOutcome" /\ r = mem[q] /\ disk' = Empty
     \/ pc[q] = "writeNew"    /\ at = "created"      /\ r = mem[q] /\ disk' \in {mem[q], Garbled}
     \/ pc[q] = "writeGo"     /\ at = "head"         /\ r = mem[q] /\ disk' \in {mem[q], Garbled}
     \/ /\ pc[q] \in {"writeStop", "writeOutcome"}
        /\ at = "idle" /\ r = Absent /\ disk' \in {mem[q], Garbled}
  /\ mem' = [mem EXCEPT ![q] = r]
  /\ pc' = [pc EXCEPT ![q] = at]
  /\ UNCHANGED <<spec, grant, reply, replay, history>>

\* There is no third kind of half.
LEMMA SaveMoves ==
  ASSUME TypeOK, NEW q \in All, Truncate(q) \/ Write(q)
  PROVE  \E r, at : Saving(q, r, at)
<1>1. mem = [mem EXCEPT ![q] = mem[q]]
  BY DEF TypeOK, All
<1>3. CASE Truncate(q)
  <2>1. CASE pc[q] = "saveGo"       BY <1>1, <1>3, <2>1 DEF Truncate, Saving
  <2>2. CASE pc[q] = "saveStop"     BY <1>1, <1>3, <2>2 DEF Truncate, Saving
  <2>3. CASE pc[q] = "saveOutcome"  BY <1>1, <1>3, <2>3 DEF Truncate, Saving
  <2> QED BY <1>3, <2>1, <2>2, <2>3 DEF Truncate
<1>4. CASE Write(q)
  <2>1. CASE pc[q] = "writeNew"     BY <1>1, <1>4, <2>1 DEF Write, Writing, Saving
  <2>2. CASE pc[q] = "writeGo"      BY <1>1, <1>4, <2>2 DEF Write, Writing, Saving
  <2>3. CASE pc[q] \in {"writeStop", "writeOutcome"}
    BY <1>4, <2>3 DEF Write, Writing, Saving
  <2> QED BY <1>4, <2>1, <2>2, <2>3 DEF Write, Writing
<1> QED BY <1>3, <1>4

LEMMA SharedStep ==
  ASSUME SharedInv, Next
  PROVE  SharedInv'
<1>a. /\ TypeOK /\ IsSpec(spec) /\ EffectsWithinBudget
      /\ RecordOK(disk) /\ (\A q \in All : RecordOK(mem[q]))
      /\ (\A p \in Procs : CopyOK(p))
  BY DEF SharedInv, TypeOK
<1>b. /\ spec' = spec /\ plan' = plan /\ Records' = Records /\ Positions' = Positions
  BY SpecIsFixed
<1>c. /\ Absent \in Records /\ RecordOK(Absent) /\ Fresh \in Records /\ RecordOK(Fresh)
      /\ Empty \in Records /\ RecordOK(Empty) /\ Garbled \in Records /\ RecordOK(Garbled)
      /\ \A at \in {"idle"} : Matches(Absent, at)
  BY <1>a, BlankRecords DEF Matches
<1>1. ASSUME NEW p \in Procs, Create(p) PROVE SharedInv'
  <2>1. Matches(Fresh, "writeNew")
    BY DEF Matches
  <2>2. /\ disk' = Empty /\ mem' = [mem EXCEPT ![p] = Fresh]
        /\ pc' = [pc EXCEPT ![p] = "writeNew"]
        /\ grant' = [grant EXCEPT ![p] = FALSE]
        /\ UNCHANGED <<spec, reply, replay, history>>
    BY <1>1 DEF Create
  <2>3. Moved(p, Fresh, "writeNew")
    BY <1>c, <2>1, <2>2 DEF Moved, PCs, Writing, All
  <2>4. TypeOK'
    BY <1>a, <1>b, <1>c, <2>2, <2>3, MovedTypes DEF TypeOK, history
  <2> QED BY <1>a, <1>b, <1>c, <2>2, <2>3, <2>4, MovedTypes
          DEF SharedInv, RecordOK, EffectsWithinBudget, history
<1>12. ASSUME NEW p \in Procs, Begin(p) PROVE SharedInv'
  <2> DEFINE rec == [Fresh EXCEPT !.status = "running"]
  <2>1. rec \in Records /\ RecordOK(rec) /\ Matches(rec, "saveGo")
    BY <1>a, BlankRecords DEF Fresh, Matches
  <2>2. /\ mem' = [mem EXCEPT ![p] = rec]
        /\ pc' = [pc EXCEPT ![p] = "saveGo"]
        /\ replay' = [status |-> "running", step |-> 0]
        /\ UNCHANGED <<spec, disk, grant, reply, history>>
    <3>1. mem[p] = Fresh
      BY <1>a, <1>12 DEF Begin, CopyOK, Matches
    <3> QED BY <1>a, <1>12, <3>1 DEF Begin, TypeOK
  <2> HIDE DEF rec
  <2>3. Moved(p, rec, "saveGo")
    BY <2>1, <2>2 DEF Moved, PCs, All
  <2>4. TypeOK'
    BY <1>a, <1>b, <2>2, <2>3, MovedTypes DEF TypeOK, Statuses, history
  <2> QED BY <1>a, <1>b, <2>2, <2>3, <2>4, MovedTypes
          DEF SharedInv, RecordOK, EffectsWithinBudget, history
<1>2. ASSUME NEW p \in Procs, Load(p) PROVE SharedInv'
  <2>1. Moved(p, disk, "loaded")
    BY <1>a, <1>2 DEF Load, Moved, Matches, TypeOK, PCs, All
  <2>2. TypeOK'
    BY <1>a, <1>b, <1>2, <2>1, MovedTypes DEF Load, TypeOK, history
  <2> QED BY <1>a, <1>b, <1>2, <2>1, <2>2, MovedTypes
          DEF Load, SharedInv, EffectsWithinBudget, history
<1>3. ASSUME NEW p \in Procs, Deny(p) PROVE SharedInv'
  <2> DEFINE rec == [mem[p] EXCEPT !.status = "blocked"]
  <2>1. mem[p] \in Records /\ RecordOK(mem[p]) /\ p \in All
    BY <1>a DEF TypeOK, All
  <2>2. rec \in Records /\ RecordOK(rec) /\ Matches(rec, "saveStop")
    BY <2>1 DEF Records, RecordOK, Matches, Statuses, Terminal
  <2>3. mem' = [mem EXCEPT ![p] = rec]
    BY <1>3, <1>a DEF Deny, TypeOK
  <2> HIDE DEF rec
  <2>4. Moved(p, rec, "saveStop")
    BY <1>3, <2>1, <2>2, <2>3 DEF Deny, Moved, PCs
  <2>5. replay' \in [status : Statuses \cup {"absent"}, step : Nat]
    BY <1>3, <2>1 DEF Deny, Records, Statuses
  <2>6. TypeOK'
    BY <1>a, <1>b, <1>3, <2>4, <2>5, MovedTypes DEF Deny, TypeOK, history
  <2> QED BY <1>a, <1>b, <1>3, <2>4, <2>6, MovedTypes
          DEF Deny, SharedInv, EffectsWithinBudget, history
<1>4. ASSUME NEW p \in Procs, Approve(p) PROVE SharedInv'
  <2> DEFINE rec == [mem[p] EXCEPT !.status = "running", !.pending = 0]
  <2>1. mem[p] \in Records /\ RecordOK(mem[p]) /\ p \in All
    BY <1>a DEF TypeOK, All
  <2>2. rec \in Records /\ RecordOK(rec) /\ Matches(rec, "saveGo")
    <3>1. 0 \in 0..Len(plan)
      BY <1>a DEF IsSpec, plan
    <3> QED BY <2>1, <3>1 DEF Records, RecordOK, Matches, Statuses
  <2>3. mem' = [mem EXCEPT ![p] = rec]
    BY <1>4, <1>a DEF Approve, TypeOK
  <2> HIDE DEF rec
  <2>4. Moved(p, rec, "saveGo")
    BY <1>4, <2>1, <2>2, <2>3 DEF Approve, Moved, PCs
  <2>5. /\ replay' \in [status : Statuses \cup {"absent"}, step : Nat]
        /\ approvals' \in Seq(0..Len(plan))
    BY <1>a, <1>4, <2>1 DEF Approve, Records, Statuses, TypeOK
  <2>6. TypeOK'
    BY <1>a, <1>b, <1>4, <2>4, <2>5, MovedTypes DEF Approve, TypeOK
  <2> QED BY <1>a, <1>b, <1>4, <2>4, <2>6, MovedTypes
          DEF Approve, SharedInv, EffectsWithinBudget
<1>5. ASSUME NEW q \in All, Truncate(q) \/ Write(q) PROVE SharedInv'
  <2>1. /\ mem[q] \in Records /\ RecordOK(mem[q])
        /\ q \in Procs => CopyOK(q)
    BY <1>a DEF TypeOK, All
  <2>2. PICK r, at : Saving(q, r, at)
    BY <1>a, <1>5, SaveMoves
  <2>3. Moved(q, r, at)
    <3>1. r \in Records /\ RecordOK(r) /\ at \in PCs
      BY <1>c, <2>1, <2>2 DEF Saving, PCs, Writing
    <3>2. q \in Procs => Matches(r, at)
      BY <1>c, <2>1, <2>2 DEF Saving, CopyOK, Matches
    <3> QED BY <2>2, <3>1, <3>2 DEF Moved, Saving
  <2>4. disk' \in Records /\ RecordOK(disk')
    BY <1>c, <2>1, <2>2 DEF Saving
  <2>5. TypeOK'
    BY <1>a, <1>b, <2>2, <2>3, <2>4, MovedTypes DEF Saving, TypeOK, history
  <2> QED BY <1>a, <1>b, <2>2, <2>3, <2>4, <2>5, MovedTypes
          DEF Saving, SharedInv, EffectsWithinBudget, history
<1>6. ASSUME NEW p \in Procs, Exhausted(p) PROVE SharedInv'
  <2>1. Moved(p, Absent, "idle")
    BY <1>c, <1>6 DEF Exhausted, Moved, PCs, All
  <2>2. TypeOK'
    BY <1>a, <1>b, <1>6, <2>1, MovedTypes DEF Exhausted, TypeOK, history
  <2> QED BY <1>a, <1>b, <1>6, <2>1, <2>2, MovedTypes
          DEF Exhausted, SharedInv, EffectsWithinBudget, history
<1>7. ASSUME NEW p \in Procs, Dispatch(p) PROVE SharedInv'
  <2>1. PICK i \in Positions :
          LET call    == plan[i].call
              verdict == Verdict(call, spec.mode, spec.auto, grant[p])
          IN  /\ AtHead(p, i)
              /\ \E result \in ResultsOf(call, verdict, Evidence) :
                   /\ reply' = [reply EXCEPT ![p] = result]
                   /\ sawFailure' = (~result.success /\ ~result.asks)
              /\ ran' = IF verdict = "runs" THEN Append(ran, i) ELSE ran
              /\ refused' = IF call.form = "ok" /\ call.policy = "deny"
                            THEN refused \cup {i} ELSE refused
              /\ grant' = Spend(p, verdict)
              /\ pc' = [pc EXCEPT ![p] = "returned"]
              /\ UNCHANGED <<spec, disk, mem, replay, approvals, crashed>>
    BY <1>7 DEF Dispatch
  <2> DEFINE verdict == Verdict(plan[i].call, spec.mode, spec.auto, grant[p])
  <2>2. PICK result \in Results :
          /\ reply' = [reply EXCEPT ![p] = result]
          /\ sawFailure' = (~result.success /\ ~result.asks)
    <3>1. plan[i].call \in Calls
      BY <1>a, InstructionTypes
    <3> HIDE DEF verdict
    <3> QED BY <2>1, <3>1, ResultTypes, Assumptions DEF verdict
  <2>3. Moved(p, mem[p], "returned")
    <3>1. mem[p] \in Records /\ RecordOK(mem[p]) /\ p \in All /\ CopyOK(p)
      BY <1>a DEF TypeOK, All
    <3>2. mem' = [mem EXCEPT ![p] = mem[p]]
      BY <1>a, <2>1 DEF TypeOK
    <3>3. mem[p].cursor < Len(plan)
      BY <1>a, <2>1, <3>1 DEF AtHead, Positions, Records, IsSpec, plan
    <3> QED BY <2>1, <3>1, <3>2, <3>3 DEF Moved, CopyOK, Matches, AtHead, PCs
  <2>4. /\ ran' \in Seq(Positions) /\ refused' \in SUBSET Positions
        /\ sawFailure' \in BOOLEAN
        /\ grant' \in [Procs -> BOOLEAN] /\ reply' \in [Procs -> Results]
    BY <1>a, <2>1, <2>2 DEF TypeOK, Spend
  <2>5. TypeOK'
    BY <1>a, <1>b, <2>1, <2>3, <2>4, MovedTypes DEF TypeOK
  <2>6. EffectsWithinBudget'
    <3>1. verdict = "runs" => i <= spec.max /\ spec.mode = "guarded"
      <4>1. mem[p].cursor \in Nat /\ mem[p].step \in Nat /\ mem[p].cursor <= mem[p].step
        BY <1>a DEF TypeOK, Records, RecordOK, All, IsSpec, plan
      <4>2. i <= spec.max
        BY <1>a, <2>1, <4>1 DEF AtHead, IsSpec
      <4>3. verdict = "runs" => spec.mode = "guarded"
        BY <1>a DEF Verdict, IsSpec
      <4> QED BY <4>2, <4>3
    <3>2. ran' = IF verdict = "runs" THEN Append(ran, i) ELSE ran
      BY <2>1
    <3>3. ran \in Seq(Positions)
      BY <1>a DEF TypeOK
    <3> HIDE DEF verdict
    <3>4. CASE verdict = "runs"
      <4>1. \A k \in DOMAIN ran' : (k \in DOMAIN ran /\ ran'[k] = ran[k]) \/ ran'[k] = i
        BY <3>2, <3>3, <3>4
      <4> QED BY <1>a, <1>b, <3>1, <3>4, <4>1 DEF EffectsWithinBudget
    <3>5. CASE verdict # "runs"
      BY <1>a, <1>b, <3>2, <3>5 DEF EffectsWithinBudget
    <3> QED BY <3>4, <3>5
  <2> QED BY <1>a, <1>b, <2>1, <2>3, <2>5, <2>6, MovedTypes DEF SharedInv
<1>8. ASSUME NEW p \in Procs, Executed(p) PROVE SharedInv'
  <2>1. PICK rec \in Records :
          /\ Concluded(p, rec)
          /\ rec.cursor <= rec.step
          /\ \/ rec.pending = mem[p].pending
             \/ /\ rec.status = "waiting_approval"
                /\ rec.pending = rec.cursor + 1 /\ rec.pending = rec.step
    BY <1>8 DEF Executed
  <2>2. p \in All /\ CopyOK(p) /\ mem[p].pending = 0 /\ rec.pending \in Nat
    <3>1. p \in All /\ CopyOK(p)
      BY <1>a DEF All
    <3>2. mem[p].pending = 0
      BY <1>8, <3>1 DEF Executed, CopyOK, Matches
    <3>3. rec.pending \in Nat
      BY <1>a DEF Records, IsSpec, plan
    <3> QED BY <3>1, <3>2, <3>3
  <2>3. RecordOK(rec)
    BY <2>1, <2>2 DEF RecordOK
  <2>4. \/ Moved(p, rec, "saveGo")
        \/ Moved(p, rec, "saveStop")
    <3>1. rec.status = "running" => rec.pending = 0
      BY <2>1, <2>2
    <3> QED BY <2>1, <2>2, <2>3, <3>1 DEF Moved, Concluded, Matches, PCs, Terminal
  <2>5. reply' \in [Procs -> Results]
    <3>1. NoReply \in Results
      BY DEF NoReply, Results, Risks, NoEvidence
    <3> HIDE DEF NoReply
    <3> QED BY <1>a, <1>8, <3>1 DEF Executed, TypeOK
  <2>6. replay' \in [status : Statuses \cup {"absent"}, step : Nat]
    <3>1. rec.status \in Statuses \cup {"absent"} /\ rec.step \in Nat
      BY <2>1 DEF Records, Concluded, Statuses, Terminal
    <3> HIDE DEF Statuses
    <3> QED BY <1>a, <2>1, <3>1 DEF Concluded, TypeOK
  <2>7. TypeOK'
    BY <1>a, <1>b, <1>8, <2>4, <2>5, <2>6, MovedTypes DEF Executed, TypeOK, history
  <2> QED BY <1>a, <1>b, <1>8, <2>4, <2>7, MovedTypes
          DEF Executed, SharedInv, EffectsWithinBudget, history
<1>9. ASSUME NEW q \in All, Crash(q) PROVE SharedInv'
  <2>1. Moved(q, Absent, "idle")
    BY <1>c, <1>9 DEF Crash, Moved, PCs
  <2>2. reply' \in [Procs -> Results]
    BY <1>a, <1>9 DEF Crash, TypeOK, NoReply, Results, Risks, NoEvidence
  <2>3. disk' \in Records /\ RecordOK(disk')
    BY <1>a, <1>c, <1>9 DEF Crash, TypeOK
  <2>4. TypeOK'
    BY <1>a, <1>b, <1>9, <2>1, <2>2, <2>3, MovedTypes DEF Crash, TypeOK
  <2> QED BY <1>a, <1>b, <1>9, <2>1, <2>3, <2>4, MovedTypes
          DEF Crash, SharedInv, EffectsWithinBudget
<1>10. ASSUME NEW c \in Clients, LoadOutcome(c) PROVE SharedInv'
  <2> DEFINE r == [disk EXCEPT !.aci = @ + 1]
  <2>1. r \in Records /\ RecordOK(r)
    <3>1. disk \in Records /\ RecordOK(disk)
      BY <1>a DEF TypeOK
    <3> QED BY <3>1 DEF Records, RecordOK
  <2>2. mem' = [mem EXCEPT ![c] = r] /\ pc' = [pc EXCEPT ![c] = "saveOutcome"]
    BY <1>10 DEF LoadOutcome
  <2> HIDE DEF r
  <2>3. Moved(c, r, "saveOutcome")
    BY <2>1, <2>2, Assumptions DEF Moved, PCs, All
  <2>4. TypeOK'
    BY <1>a, <1>b, <1>10, <2>3, MovedTypes DEF LoadOutcome, TypeOK, history
  <2> QED BY <1>a, <1>b, <1>10, <2>3, <2>4, MovedTypes
          DEF LoadOutcome, SharedInv, EffectsWithinBudget, history
<1> QED
  BY <1>a, <1>1, <1>2, <1>3, <1>4, <1>5, <1>6, <1>7, <1>8, <1>9, <1>10, <1>12, WorkExecutes
  DEF Next, Step, Submit, Work, All, TypeOK, RecordOK

\* The invariant does not look at anything outside vars.
LEMMA SharedStutter == SharedInv /\ UNCHANGED vars => SharedInv'
  BY DEF SharedInv, TypeOK, Records, Positions, plan, CopyOK, Matches, RecordOK,
         EffectsWithinBudget, vars

\* Type correctness, however many processes share the record and however they interleave.
THEOREM SharedTypeCorrect == SharedSpec => []TypeOK
<1>1. SharedInv /\ [Next]_vars => SharedInv'
  BY SharedStutter, SharedStep
<1>2. SharedInv => TypeOK
  BY DEF SharedInv
<1> QED BY <1>1, <1>2, SharedInit, PTL DEF SharedSpec

\* No effect beyond max_steps or in a dry run, however many processes share the record:
\* the limit is compared with a step that every copy keeps at or above its cursor.
THEOREM SharedEffectsWithinBudget == SharedSpec => []EffectsWithinBudget
<1>1. SharedInv /\ [Next]_vars => SharedInv'
  BY SharedStutter, SharedStep
<1>2. SharedInv => EffectsWithinBudget
  BY DEF SharedInv
<1> QED BY <1>1, <1>2, SharedInit, PTL DEF SharedSpec

-----------------------------------------------------------------------------
(* What the judgements leave in a record, whoever works on it. *)

\* A position up to n says that the goal is met.
Claimed(n) == \E i \in 1..n : plan[i].hints.accept \/ plan[i].hints.satisfied

\* Acceptance, a satisfied evaluation and success all rest on such a position.
ClaimOK(r) == r.accepted \/ r.latest.satisfied \/ r.status = "succeeded" => Claimed(r.cursor)

\* Position i is a syscall that Policy OS lets through to the router.
IsCall(i) == i \in Positions /\ plan[i].op = "SYSCALL" /\ plan[i].gate # "deny"

\* Where only syscalls ask, the record waits for the next position, a syscall, and
\* neither waits nor runs with a streak of failures behind it.
StreakOK(r) ==
  /\ r.latest.missing => IsCall(r.cursor + 1)
  /\ r.status = "waiting_approval" => IsCall(r.cursor + 1) /\ r.pending = r.cursor + 1
  /\ r.acc.failures > RepeatedFailureLimit => r.status \notin {"running", "waiting_approval"}

Sound(r) == ClaimOK(r) /\ (AsksOnlyForSyscalls => StreakOK(r))

\* On the way to the head of the loop, or there.
Going == {"saveGo", "writeGo", "head"}

\* A process that waits for a reply has dispatched the call at its cursor and used up its
\* approval; one that still holds an approval has that call before it.
CallOK(p) ==
  /\ pc[p] = "returned" => IsCall(mem[p].cursor + 1) /\ ~grant[p]
  /\ pc[p] \in {"writeNew", "created"} => ~grant[p]
  /\ AsksOnlyForSyscalls /\ pc[p] \in Going /\ grant[p] => IsCall(mem[p].cursor + 1)

\* What the judgement of e leaves of the record r in rec.
Decided(r, e, approval, rec) ==
  /\ rec.latest = e /\ rec.accepted = r.accepted
  /\ rec.cursor = r.cursor /\ rec.pending = r.pending
  /\ rec.status = "succeeded" => e.satisfied
  /\ rec.status = "waiting_approval" => approval = "required" \/ e.missing
  /\ rec.status = "running" => ~(rec.acc.failures > RepeatedFailureLimit)
  /\ ~e.failed /\ ~e.blocked => rec.acc.failures = 0

\* Convergence goes on only below the failure limit, waits only for a question, and
\* succeeds only on a satisfied evaluation; the scheduler adds no success and no wait.
LEMMA ConvergeFacts ==
  ASSUME NEW e \in Evaluations, NEW acc, acc.failures \in Nat, NEW delta,
         NEW approval \in {"none", "required"}, NEW step, NEW max
  PROVE  LET action == Schedule(SchedulerInput[Converge(e, acc, delta, approval)], step, max)
         IN  /\ action = "halt_succeeded" => e.satisfied
             /\ action = "wait_approval" => approval = "required" \/ e.missing
             /\ ~Stops(action) => ~(acc.failures > RepeatedFailureLimit)
<1> DEFINE choice == Converge(e, acc, delta, approval)
<1>1. /\ choice \in ConvergenceActions
      /\ choice = "halt_success" => e.satisfied
      /\ choice \in {"ask_user", "wait_approval"} => approval = "required" \/ e.missing
      /\ choice \in {"continue", "repair", "replan"} => ~(acc.failures > RepeatedFailureLimit)
  <2>1. e.regression = FALSE
    BY DEF Evaluations
  <2>2. CASE e.blocked \/ approval = "required" \/ e.missing \/ e.satisfied
    BY <2>2 DEF Converge, ConvergenceActions
  <2>3. CASE acc.failures > RepeatedFailureLimit
    BY <2>1, <2>3 DEF Converge, ConvergenceActions
  <2>4. CASE /\ ~(e.blocked \/ approval = "required" \/ e.missing \/ e.satisfied)
             /\ ~(acc.failures > RepeatedFailureLimit)
    BY <2>1, <2>4 DEF Converge, ConvergenceActions
  <2> QED BY <2>2, <2>3, <2>4
<1> HIDE DEF choice
<1>2. LET after(c) == Schedule(SchedulerInput[c], step, max)
      IN  /\ after("continue") \in {"continue", "halt_failed"}
          /\ after("repair") = "repair" /\ after("replan") = "replan"
          /\ after("ask_user") = "wait_approval" /\ after("wait_approval") = "wait_approval"
          /\ after("halt_success") = "halt_succeeded"
          /\ after("halt_failure") = "halt_failed" /\ after("halt_blocked") = "halt_blocked"
  BY DEF SchedulerInput, Schedule, Idle
<1> QED BY <1>1, <1>2 DEF choice, ConvergenceActions, Stops

\* A judgement with its consequence for the status decides the record.
LEMMA JudgeDecides ==
  ASSUME IsSpec(spec), NEW r \in Records, NEW i \in Positions, NEW e \in Evaluations,
         NEW score \in 0..Len(plan), NEW approval \in {"none", "required"}
  PROVE  LET j == Judge(r, i, e, score, approval)
         IN  Decided(r, e, approval,
               [j.record EXCEPT !.status = IF Stops(j.action) THEN StatusAfter[j.action]
                                                              ELSE "running"])
<1> DEFINE before == LoadAccumulator(r.acc, r.score, NoInstruction)
           after  == Accumulate(before, e, plan[i], score)
           choice == Converge(e, after, score - before.score, approval)
           action == Schedule(SchedulerInput[choice], r.step, spec.max)
           judged == [r EXCEPT !.acc = after, !.latest = e, !.judged = TRUE]
           status == IF Stops(action) THEN StatusAfter[action] ELSE "running"
           rec    == [judged EXCEPT !.status = status]
<1>1. Judge(r, i, e, score, approval) = [record |-> judged, action |-> action]
  BY DEF Judge
<1>2. before.failures \in Nat
  BY DEF Records, LoadAccumulator
<1>3. /\ after.failures \in Nat
      /\ ~e.failed /\ ~e.blocked => after.failures = 0
  <2> HIDE DEF before
  <2> QED BY <1>2 DEF Accumulate, Evaluations
<1>4. /\ action \in ScheduleActions
      /\ action = "halt_succeeded" => e.satisfied
      /\ action = "wait_approval" => approval = "required" \/ e.missing
      /\ ~Stops(action) => ~(after.failures > RepeatedFailureLimit)
  <2> HIDE DEF after, before
  <2> QED BY <1>3, ConvergeFacts, ScheduleType
<1> HIDE DEF action
<1>5. /\ status = "succeeded" => action = "halt_succeeded"
      /\ status = "waiting_approval" => action = "wait_approval"
      /\ status = "running" => ~Stops(action)
  BY <1>4 DEF ScheduleActions, StatusAfter, Stops
<1> HIDE DEF status, after
<1>6. /\ rec.latest = e /\ rec.accepted = r.accepted
      /\ rec.cursor = r.cursor /\ rec.pending = r.pending
      /\ rec.status = status /\ rec.acc = after
  BY DEF Records
<1>7. Decided(r, e, approval, rec)
  <2> HIDE DEF rec
  <2> QED BY <1>3, <1>4, <1>5, <1>6 DEF Decided
<1> HIDE DEF judged
<1> QED BY <1>1, <1>7 DEF status

\* A record that was decided on sound grounds is sound.
LEMMA DecidedIsSound ==
  ASSUME NEW r, NEW e, NEW approval, NEW rec, Decided(r, e, approval, rec),
         r.accepted \/ e.satisfied => Claimed(r.cursor),
         AsksOnlyForSyscalls /\ (e.missing \/ approval = "required") =>
           /\ IsCall(r.cursor + 1) /\ r.pending = r.cursor + 1
           /\ ~e.failed /\ ~e.blocked
  PROVE  Sound(rec)
<1>1. ClaimOK(rec)
  BY DEF Decided, ClaimOK
<1>2. ASSUME AsksOnlyForSyscalls PROVE StreakOK(rec)
  <2>1. rec.latest.missing \/ rec.status = "waiting_approval" =>
          IsCall(rec.cursor + 1) /\ rec.pending = rec.cursor + 1 /\ rec.acc.failures = 0
    BY <1>2 DEF Decided
  <2> QED BY <2>1 DEF Decided, StreakOK, RepeatedFailureLimit
<1> QED BY <1>1, <1>2 DEF Sound

\* A hand-off on sound grounds leaves a sound copy.
LEMMA HandOffSound ==
  ASSUME IsSpec(spec), NEW p, NEW r \in Records, NEW i \in Positions, NEW e \in Evaluations,
         NEW score \in 0..Len(plan), NEW approval \in {"none", "required"},
         HandOff(p, r, i, e, score, approval),
         r.accepted \/ e.satisfied => Claimed(r.cursor),
         AsksOnlyForSyscalls /\ (e.missing \/ approval = "required") =>
           /\ IsCall(r.cursor + 1) /\ r.pending = r.cursor + 1
           /\ ~e.failed /\ ~e.blocked
  PROVE  \E rec : mem' = [mem EXCEPT ![p] = rec] /\ Sound(rec)
<1> DEFINE j   == Judge(r, i, e, score, approval)
           rec == [j.record EXCEPT !.status = IF Stops(j.action) THEN StatusAfter[j.action]
                                                                 ELSE "running"]
<1>1. mem' = [mem EXCEPT ![p] = rec]
  BY DEF HandOff, Conclude
<1>2. Decided(r, e, approval, rec)
  BY JudgeDecides
<1> HIDE DEF rec
<1>3. Sound(rec)
  BY <1>2, DecidedIsSound
<1> QED BY <1>1, <1>3

\* The hints of a plan where only syscalls ask never ask.
LEMMA HintFacts ==
  ASSUME IsSpec(spec), NEW i \in Positions
  PROVE  /\ EvaluateHints(plan[i].hints) \in Evaluations
         /\ EvaluateHints(plan[i].hints).satisfied => Claimed(i)
         /\ AsksOnlyForSyscalls => ~EvaluateHints(plan[i].hints).missing
         /\ plan[i].hints.accept => Claimed(i)
<1>1. plan[i].hints \in Hints /\ i \in Nat /\ i \in 1..i
  BY InstructionTypes DEF Positions
<1>2. EvaluateHints(plan[i].hints) \in Evaluations
  BY <1>1, EvaluationTypes
<1>3. plan[i].hints.accept \/ plan[i].hints.satisfied => Claimed(i)
  BY <1>1 DEF Claimed
<1>4. /\ EvaluateHints(plan[i].hints).satisfied = plan[i].hints.satisfied
      /\ EvaluateHints(plan[i].hints).missing = plan[i].hints.missing
  BY DEF EvaluateHints, Neutral
<1>5. AsksOnlyForSyscalls => ~plan[i].hints.missing
  BY DEF AsksOnlyForSyscalls
<1> QED BY <1>2, <1>3, <1>4, <1>5

\* What was claimed before a position is claimed after it.
LEMMA ClaimedGrows ==
  ASSUME NEW n \in Nat, Claimed(n)
  PROVE  Claimed(n + 1)
  BY DEF Claimed

\* Every judgement of the loop, and the step limit, leaves a sound copy.
LEMMA WorkKeepsSound ==
  ASSUME IsSpec(spec), NEW p \in Procs, mem[p] \in Records, reply[p] \in Results,
         CallOK(p), Sound(mem[p]),
         \/ OverBudget(p) \/ Refuse(p) \/ Await(p) \/ Settle(p)
         \/ Handle(p) \/ Apply(p) \/ Measure(p) \/ Halt(p)
  PROVE  \E rec : mem' = [mem EXCEPT ![p] = rec] /\ Sound(rec)
<1> DEFINE m == mem[p]
<1>a. /\ m \in Records /\ m.cursor \in Nat /\ m.score \in 0..Len(plan) /\ Len(plan) \in Nat
      /\ m.latest \in Evaluations
  BY DEF Records, IsSpec, plan
<1>b. /\ m.accepted \/ m.latest.satisfied \/ m.status = "succeeded" => Claimed(m.cursor)
      /\ AsksOnlyForSyscalls /\ m.latest.missing => IsCall(m.cursor + 1)
      /\ AsksOnlyForSyscalls => StreakOK(m)
  BY DEF Sound, ClaimOK, StreakOK
<1>1. CASE OverBudget(p)
  <2> DEFINE rec == [m EXCEPT !.status = "failed"]
  <2>1. mem' = [mem EXCEPT ![p] = rec]
    <3>1. Conclude(p, m, Schedule(Idle, m.step, spec.max)) /\ m.step >= spec.max
      BY <1>1 DEF OverBudget
    <3>2. Schedule(Idle, m.step, spec.max) = "halt_failed"
      BY <3>1 DEF Schedule, Idle
    <3> QED BY <3>1, <3>2 DEF Conclude, Stops, StatusAfter
  <2>2. /\ rec.status = "failed" /\ rec.cursor = m.cursor /\ rec.accepted = m.accepted
        /\ rec.latest = m.latest /\ rec.acc = m.acc
    BY <1>a DEF Records
  <2> HIDE DEF rec
  <2>3. Sound(rec)
    BY <1>b, <2>2 DEF Sound, ClaimOK, StreakOK
  <2> QED BY <2>1, <2>3
<1>2. CASE Refuse(p)
  <2>1. PICK i \in Positions :
          /\ AtHead(p, i)
          /\ HandOff(p, [m EXCEPT !.step = i], i, EvaluateDenial, m.score, "none")
    BY <1>2 DEF Refuse
  <2> DEFINE r == [m EXCEPT !.step = i]
  <2>2. r \in Records /\ r.cursor = m.cursor /\ r.accepted = m.accepted
    BY <1>a, InstructionTypes DEF Records
  <2>3. /\ EvaluateDenial \in Evaluations
        /\ ~EvaluateDenial.satisfied /\ ~EvaluateDenial.missing
    BY DEF EvaluateDenial, Evaluations, Neutral
  <2>4. HandOff(p, r, i, EvaluateDenial, m.score, "none")
    BY <2>1
  <2> HIDE DEF r
  <2> QED BY <1>a, <1>b, <2>2, <2>3, <2>4, HandOffSound
<1>3. CASE Await(p)
  <2> DEFINE i == m.cursor + 1
             r == [m EXCEPT !.pending = i, !.step = i]
             e == EvaluateResult(reply[p], plan[i].hints)
  <2>1. /\ pc[p] = "returned" /\ reply[p].asks /\ ~reply[p].success
        /\ HandOff(p, r, i, e, r.score, "required")
    BY <1>3 DEF Await
  <2>2. IsCall(i) /\ i \in Positions
    BY <2>1 DEF CallOK, IsCall
  <2>3. e \in Evaluations /\ i \in 0..Len(plan) /\ i \in Nat
    BY <2>2, InstructionTypes, EvaluationTypes
  <2>4. ~e.satisfied /\ ~e.failed /\ ~e.blocked
    BY <2>1 DEF EvaluateResult, Neutral
  <2> HIDE DEF i, e
  <2>5. /\ r \in Records /\ r.score \in 0..Len(plan) /\ r.pending = i
        /\ r.cursor = m.cursor /\ r.accepted = m.accepted
    BY <1>a, <2>3 DEF Records
  <2> HIDE DEF r
  <2>6. r.cursor + 1 = i
    BY <2>5 DEF i
  <2> QED BY <1>b, <2>1, <2>2, <2>3, <2>4, <2>5, <2>6, HandOffSound
<1>4. CASE Settle(p)
  <2> DEFINE i == m.cursor + 1
             a == Advance(m, i)
             r == [a EXCEPT !.score = ResultScore(m, i, reply[p])]
             e == EvaluateResult(reply[p], plan[i].hints)
  <2>1. /\ pc[p] = "returned" /\ ~(reply[p].asks /\ ~reply[p].success)
        /\ HandOff(p, r, i, e, r.score, "none")
    BY <1>4 DEF Settle
  <2>2. i \in Positions
    BY <2>1 DEF CallOK, IsCall
  <2>3. e \in Evaluations
    BY <2>2, InstructionTypes, EvaluationTypes
  <2>4. ~e.missing /\ (e.satisfied => plan[i].hints.satisfied)
    BY <2>1 DEF EvaluateResult, Neutral
  <2>5. ResultScore(m, i, reply[p]) \in 0..Len(plan)
    <3> HIDE DEF i
    <3>1. Planned(m, i) \in 0..Len(plan) /\ Clamp(reply[p].evidence) \in 0..Len(plan)
      BY <1>a, <2>2, AdvanceTypes DEF Results
    <3> QED BY <1>a, <3>1 DEF ResultScore
  <2>6. /\ r \in Records /\ r.score \in 0..Len(plan) /\ r.cursor = i
        /\ r.accepted = m.accepted
    <3>1. a \in Records /\ a.cursor = i
      BY <1>a, <2>2, AdvanceTypes
    <3>2. a.accepted = m.accepted
      BY <1>a DEF Advance, Records
    <3> HIDE DEF a, i
    <3> QED BY <2>5, <3>1, <3>2 DEF Records
  <2>7. m.accepted \/ e.satisfied => Claimed(i)
    <3>1. plan[i].hints.satisfied => Claimed(i)
      BY <1>a DEF Claimed
    <3> HIDE DEF e
    <3> QED BY <1>a, <1>b, <2>4, <3>1, ClaimedGrows
  <2> HIDE DEF r, e, i
  <2> QED BY <2>1, <2>2, <2>3, <2>4, <2>6, <2>7, HandOffSound
<1>5. CASE Handle(p)
  <2>1. PICK i \in Positions :
          /\ AtHead(p, i) /\ plan[i].op = "OTHER"
          /\ LET a == Advance(m, i)
             IN  mem' = [mem EXCEPT ![p] = [a EXCEPT !.score = Planned(a, i)]]
    BY <1>5 DEF Handle
  <2> DEFINE rec == [Advance(m, i) EXCEPT !.score = Planned(Advance(m, i), i)]
  <2>2. /\ rec.cursor = i /\ rec.status = m.status /\ rec.accepted = m.accepted
        /\ rec.latest = m.latest /\ rec.acc = m.acc /\ rec.pending = m.pending
    BY <1>a DEF Advance, Records
  <2>3. mem' = [mem EXCEPT ![p] = rec]
    BY <2>1
  <2> HIDE DEF rec
  <2>4. i = m.cursor + 1 /\ ~IsCall(m.cursor + 1)
    BY <2>1 DEF AtHead, IsCall
  <2>5. AsksOnlyForSyscalls => ~rec.latest.missing /\ rec.status # "waiting_approval"
    BY <1>b, <2>2, <2>4 DEF StreakOK
  <2>6. Sound(rec)
    BY <1>a, <1>b, <2>2, <2>4, <2>5, ClaimedGrows DEF Sound, ClaimOK, StreakOK
  <2> QED BY <2>3, <2>6
<1>6. CASE Apply(p)
  <2>1. PICK i \in Positions :
          LET a == Advance(m, i)
              r == [a EXCEPT !.score = Planned(a, i),
                             !.accepted = a.accepted \/ plan[i].hints.accept]
          IN  AtHead(p, i) /\ HandOff(p, r, i, EvaluateHints(plan[i].hints), r.score, "none")
    BY <1>6 DEF Apply
  <2> DEFINE a == Advance(m, i)
             r == [a EXCEPT !.score = Planned(a, i),
                            !.accepted = a.accepted \/ plan[i].hints.accept]
             e == EvaluateHints(plan[i].hints)
  <2>2. /\ r \in Records /\ r.score \in 0..Len(plan) /\ r.cursor = i
        /\ r.accepted = (m.accepted \/ plan[i].hints.accept)
    <3>1. a \in Records /\ a.cursor = i /\ Planned(a, i) \in 0..Len(plan)
      BY <1>a, AdvanceTypes
    <3>2. a.accepted = m.accepted
      BY <1>a DEF Advance, Records
    <3>3. (a.accepted \/ plan[i].hints.accept) \in BOOLEAN
      OBVIOUS
    <3> HIDE DEF a
    <3> QED BY <3>1, <3>2, <3>3 DEF Records
  <2>3. HandOff(p, r, i, e, r.score, "none") /\ i = m.cursor + 1
    BY <2>1 DEF AtHead
  <2>4. e \in Evaluations /\ (AsksOnlyForSyscalls => ~e.missing)
    BY HintFacts
  <2>5. r.accepted \/ e.satisfied => Claimed(i)
    <3>1. /\ e.satisfied => Claimed(i)
          /\ plan[i].hints.accept => Claimed(i)
      BY HintFacts
    <3>2. m.accepted => Claimed(i)
      BY <1>a, <1>b, <2>3, ClaimedGrows
    <3> HIDE DEF r, e
    <3> QED BY <2>2, <3>1, <3>2
  <2> HIDE DEF r, e
  <2> QED BY <2>2, <2>3, <2>4, <2>5, HandOffSound
<1>7. CASE Measure(p)
  <2>1. PICK i \in Positions :
          LET a     == Advance(m, i)
              h     == plan[i].hints
              score == IF h.score # NoEvidence THEN Clamp(h.score) ELSE Planned(a, i)
              r     == [a EXCEPT !.score = score]
              e     == IF r.judged THEN r.latest ELSE EvaluateHints(h)
          IN  /\ AtHead(p, i) /\ plan[i].op = "PROGRESS.MEASURE"
              /\ HandOff(p, r, i, e, score, "none")
    BY <1>7 DEF Measure
  <2> DEFINE a     == Advance(m, i)
             h     == plan[i].hints
             score == IF h.score # NoEvidence THEN Clamp(h.score) ELSE Planned(a, i)
             r     == [a EXCEPT !.score = score]
             e     == IF r.judged THEN r.latest ELSE EvaluateHints(h)
  <2>2. /\ score \in 0..Len(plan) /\ a \in Records /\ a.cursor = i
    <3>1. h.score \in Int
      BY InstructionTypes DEF Hints
    <3>2. a \in Records /\ a.cursor = i
      BY <1>a, AdvanceTypes
    <3>3. Planned(a, i) \in 0..Len(plan) /\ Clamp(h.score) \in 0..Len(plan)
      BY <3>1, <3>2, AdvanceTypes
    <3> HIDE DEF a, h
    <3> QED BY <3>2, <3>3
  <2>3. /\ r \in Records /\ r.cursor = i /\ r.accepted = m.accepted /\ r.latest = m.latest
    <3>1. a.accepted = m.accepted /\ a.latest = m.latest
      BY <1>a DEF Advance, Records
    <3> HIDE DEF a, score
    <3> QED BY <2>2, <3>1 DEF Records
  <2>4. HandOff(p, r, i, e, score, "none") /\ i = m.cursor + 1 /\ ~IsCall(m.cursor + 1)
    BY <2>1 DEF AtHead, IsCall
  <2>5. e \in {m.latest, EvaluateHints(h)}
    <3> HIDE DEF r
    <3> QED BY <2>3
  <2>6. m.accepted \/ m.latest.satisfied => Claimed(i)
    BY <1>a, <1>b, <2>4, ClaimedGrows
  <2>7. /\ e \in Evaluations
        /\ r.accepted \/ e.satisfied => Claimed(i)
        /\ AsksOnlyForSyscalls => ~e.missing
    <3>1. /\ EvaluateHints(h) \in Evaluations
          /\ EvaluateHints(h).satisfied => Claimed(i)
          /\ AsksOnlyForSyscalls => ~EvaluateHints(h).missing
      BY HintFacts
    <3>2. AsksOnlyForSyscalls => ~m.latest.missing
      BY <1>b, <2>4
    <3> HIDE DEF r, e, h
    <3> QED BY <1>a, <2>3, <2>5, <2>6, <3>1, <3>2
  <2> HIDE DEF r, e, score
  <2> QED BY <2>2, <2>3, <2>4, <2>7, HandOffSound
<1>8. CASE Halt(p)
  <2>1. PICK i \in Positions :
          LET a == Advance(m, i)
              r == [a EXCEPT !.score = Planned(a, i)]
          IN  /\ AtHead(p, i) /\ plan[i].op = "LOOP.HALT"
              /\ \E j \in {Judge(r, i, HaltVerdict(r), r.score, "none")} :
                   LET status == StatusAfter[j.action]
                   IN  mem' = [mem EXCEPT ![p] = [j.record EXCEPT !.status = status]]
    BY <1>8 DEF Halt
  <2> DEFINE a   == Advance(m, i)
             r   == [a EXCEPT !.score = Planned(a, i)]
             e   == HaltVerdict(r)
             j   == Judge(r, i, e, r.score, "none")
             rec == [j.record EXCEPT !.status = IF Stops(j.action) THEN StatusAfter[j.action]
                                                                   ELSE "running"]
  <2>2. /\ r \in Records /\ r.score \in 0..Len(plan) /\ r.cursor = i
        /\ r.accepted = m.accepted /\ r.latest = m.latest
    <3>1. a \in Records /\ a.cursor = i /\ Planned(a, i) \in 0..Len(plan)
      BY <1>a, AdvanceTypes
    <3>2. a.accepted = m.accepted /\ a.latest = m.latest
      BY <1>a DEF Advance, Records
    <3> HIDE DEF a
    <3> QED BY <3>1, <3>2 DEF Records
  <2>3. mem' = [mem EXCEPT ![p] = rec]
    <3>1. Stops(j.action)
      <4> HIDE DEF r
      <4> QED BY <2>2, HaltStops
    <3>2. mem' = [mem EXCEPT ![p] = [j.record EXCEPT !.status = StatusAfter[j.action]]]
      BY <2>1
    <3> HIDE DEF j
    <3> QED BY <3>1, <3>2
  <2>4. /\ e \in Evaluations
        /\ e.satisfied => m.latest.satisfied \/ m.accepted
        /\ e.missing => m.latest.missing
    <3> HIDE DEF r
    <3> QED BY <1>a, <2>2 DEF HaltVerdict, Records, Evaluations, Neutral
  <2>5. i = m.cursor + 1 /\ ~IsCall(m.cursor + 1)
    BY <2>1 DEF AtHead, IsCall
  <2>6. /\ m.accepted \/ m.latest.satisfied => Claimed(i)
        /\ AsksOnlyForSyscalls => ~m.latest.missing
    BY <1>a, <1>b, <2>5, ClaimedGrows
  <2> HIDE DEF r, e
  <2>7. Decided(r, e, "none", rec)
    BY <2>2, <2>4, JudgeDecides
  <2> HIDE DEF rec
  <2>8. Sound(rec)
    BY <2>2, <2>4, <2>6, <2>7, DecidedIsSound
  <2> QED BY <2>3, <2>8
<1> QED BY <1>1, <1>2, <1>3, <1>4, <1>5, <1>6, <1>7, <1>8

\* A process that still holds an approval and is kept from the call before it stops.
LEMMA HeldGrantStops ==
  ASSUME NEW p \in Procs, CallOK(p), AsksOnlyForSyscalls, grant[p],
         \/ OverBudget(p) \/ Refuse(p) \/ Await(p) \/ Settle(p)
         \/ Handle(p) \/ Apply(p) \/ Measure(p) \/ Halt(p)
  PROVE  pc' = [pc EXCEPT ![p] = "saveStop"]
<1>1. CASE OverBudget(p)
  <2>1. Conclude(p, mem[p], Schedule(Idle, mem[p].step, spec.max)) /\ mem[p].step >= spec.max
    BY <1>1 DEF OverBudget
  <2>2. Schedule(Idle, mem[p].step, spec.max) = "halt_failed"
    BY <2>1 DEF Schedule, Idle
  <2> QED BY <2>1, <2>2 DEF Conclude, Stops
<1>2. ~(pc[p] = "returned")
  BY DEF CallOK
<1>3. pc[p] = "head" => IsCall(mem[p].cursor + 1)
  BY DEF CallOK, Going
<1> QED BY <1>1, <1>2, <1>3
        DEF Refuse, Await, Settle, Handle, Apply, Measure, Halt, AtHead, IsCall

-----------------------------------------------------------------------------
(* The invariant of sound records, for any number of processes. *)

SoundInv ==
  /\ SharedInv
  /\ Sound(disk) /\ \A q \in All : Sound(mem[q])
  /\ \A p \in Procs : CallOK(p)

LEMMA BlankSound ==
  /\ Sound(Fresh) /\ Sound(Absent) /\ Sound(Empty) /\ Sound(Garbled)
  /\ Sound([Fresh EXCEPT !.status = "running"])
  BY DEF Sound, ClaimOK, StreakOK, Fresh, Absent, Empty, Garbled, Neutral, NoAccumulator,
         RepeatedFailureLimit

LEMMA SoundInit == Init => SoundInv
  BY SharedInit, BlankSound DEF Init, SoundInv, CallOK, All

\* Soundness depends on the record and the plan, which does not change.
LEMMA SoundFixed ==
  ASSUME spec' = spec
  PROVE  /\ \A r : Sound(r) /\ disk' = r => Sound(disk)'
         /\ \A q \in All : \A r : Sound(r) /\ mem'[q] = r => Sound(mem[q])'
         /\ \A i : IsCall(i) <=> IsCall(i)'
         /\ AsksOnlyForSyscalls' <=> AsksOnlyForSyscalls
  BY DEF Sound, ClaimOK, StreakOK, Claimed, IsCall, AsksOnlyForSyscalls, Positions, plan

\* Copies and places of everybody after q's copy becomes r, at `at', with grant g.
LEMMA SoundMoved ==
  ASSUME SoundInv, spec' = spec, NEW q \in All, NEW r, NEW at,
         mem' = [mem EXCEPT ![q] = r], pc' = [pc EXCEPT ![q] = at],
         \A p \in Procs : p # q => grant'[p] = grant[p],
         Sound(r),
         q \in Procs => /\ at = "returned" => IsCall(r.cursor + 1) /\ ~grant'[q]
                        /\ at \in {"writeNew", "created"} => ~grant'[q]
                        /\ AsksOnlyForSyscalls /\ at \in Going /\ grant'[q] =>
                             IsCall(r.cursor + 1)
  PROVE  /\ \A x \in All : Sound(mem[x])'
         /\ \A p \in Procs : CallOK(p)'
<1>1. /\ mem'[q] = r /\ pc'[q] = at
      /\ \A x \in All : x # q => mem'[x] = mem[x] /\ pc'[x] = pc[x]
  BY DEF SoundInv, SharedInv, TypeOK, All
<1>2. \A x \in All : Sound(mem[x])'
  BY <1>1, SoundFixed DEF SoundInv
<1>3. ASSUME NEW p \in Procs PROVE CallOK(p)'
  <2>1. p \in All
    BY DEF All
  <2>2. CASE p = q
    BY <1>1, <2>1, <2>2, SoundFixed DEF CallOK
  <2>3. CASE p # q
    BY <1>1, <2>1, <2>3, SoundFixed DEF CallOK, SoundInv
  <2> QED BY <2>2, <2>3
<1> QED BY <1>2, <1>3

\* What resume and the agent client write into a sound record keeps it sound.
LEMMA EditsSound ==
  ASSUME NEW r \in Records, Sound(r)
  PROVE  /\ Sound([r EXCEPT !.status = "blocked"])
         /\ r.status = "waiting_approval" => Sound([r EXCEPT !.status = "running", !.pending = 0])
         /\ Sound([r EXCEPT !.aci = @ + 1])
  BY DEF Records, Sound, ClaimOK, StreakOK

LEMMA SoundStep ==
  ASSUME SoundInv, Next
  PROVE  SoundInv'
<1>a. /\ SharedInv' /\ TypeOK /\ IsSpec(spec) /\ spec' = spec
      /\ mem \in [All -> Records] /\ pc \in [All -> PCs] /\ disk \in Records
  BY SharedStep, SpecIsFixed DEF SoundInv, SharedInv, TypeOK, All
<1>b. Sound(disk) /\ \A q \in All : Sound(mem[q])
  BY DEF SoundInv
<1>1. ASSUME NEW p \in Procs, Create(p) PROVE SoundInv'
  <2>1. /\ disk' = Empty /\ mem' = [mem EXCEPT ![p] = Fresh]
        /\ pc' = [pc EXCEPT ![p] = "writeNew"] /\ grant' = [grant EXCEPT ![p] = FALSE]
    BY <1>1 DEF Create
  <2>2. ~grant'[p] /\ \A q \in Procs : q # p => grant'[q] = grant[q]
    BY <1>a, <2>1 DEF TypeOK
  <2>3. (\A x \in All : Sound(mem[x])') /\ (\A q \in Procs : CallOK(q)')
    BY <1>a, <2>1, <2>2, BlankSound, SoundMoved DEF All, Going
  <2> QED BY <1>a, <2>1, <2>3, BlankSound, SoundFixed DEF SoundInv
<1>11. ASSUME NEW p \in Procs, Begin(p) PROVE SoundInv'
  <2>1. mem[p] = Fresh /\ ~grant[p]
    BY <1>11 DEF Begin, SoundInv, SharedInv, CopyOK, Matches, CallOK
  <2>2. /\ disk' = disk /\ mem' = [mem EXCEPT ![p] = [Fresh EXCEPT !.status = "running"]]
        /\ pc' = [pc EXCEPT ![p] = "saveGo"] /\ grant' = grant
    BY <1>11, <1>a, <2>1 DEF Begin, All
  <2>3. (\A x \in All : Sound(mem[x])') /\ (\A q \in Procs : CallOK(q)')
    BY <1>a, <2>1, <2>2, BlankSound, SoundMoved DEF All
  <2> QED BY <1>a, <1>b, <2>2, <2>3, SoundFixed DEF SoundInv
<1>2. ASSUME NEW p \in Procs, Load(p) PROVE SoundInv'
  <2>1. /\ disk' = disk /\ mem' = [mem EXCEPT ![p] = disk]
        /\ pc' = [pc EXCEPT ![p] = "loaded"] /\ grant' = grant
    BY <1>2 DEF Load
  <2>2. (\A x \in All : Sound(mem[x])') /\ (\A q \in Procs : CallOK(q)')
    BY <1>a, <1>b, <2>1, SoundMoved DEF All, Going
  <2> QED BY <1>a, <1>b, <2>1, <2>2, SoundFixed DEF SoundInv
<1>3. ASSUME NEW p \in Procs, Deny(p) PROVE SoundInv'
  <2>1. /\ disk' = disk /\ mem' = [mem EXCEPT ![p] = [mem[p] EXCEPT !.status = "blocked"]]
        /\ pc' = [pc EXCEPT ![p] = "saveStop"] /\ grant' = grant
    BY <1>3, <1>a DEF Deny, All
  <2>2. Sound([mem[p] EXCEPT !.status = "blocked"])
    BY <1>a, <1>b, EditsSound DEF All
  <2>3. (\A x \in All : Sound(mem[x])') /\ (\A q \in Procs : CallOK(q)')
    BY <1>a, <2>1, <2>2, SoundMoved DEF All, Going
  <2> QED BY <1>a, <1>b, <2>1, <2>3, SoundFixed DEF SoundInv
<1>4. ASSUME NEW p \in Procs, Approve(p) PROVE SoundInv'
  <2> DEFINE rec == [mem[p] EXCEPT !.status = "running", !.pending = 0]
  <2>1. /\ disk' = disk /\ mem' = [mem EXCEPT ![p] = rec]
        /\ pc' = [pc EXCEPT ![p] = "saveGo"] /\ grant' = [grant EXCEPT ![p] = TRUE]
    BY <1>4, <1>a DEF Approve, All
  <2>2. mem[p].status = "waiting_approval" /\ mem[p] \in Records /\ Sound(mem[p])
    BY <1>4, <1>a, <1>b DEF Approve, SoundInv, SharedInv, CopyOK, Matches, All
  <2>3. Sound(rec) /\ rec.cursor = mem[p].cursor
    BY <2>2, EditsSound DEF Records
  <2>4. AsksOnlyForSyscalls => IsCall(rec.cursor + 1)
    BY <2>2, <2>3 DEF Sound, StreakOK
  <2>5. \A q \in Procs : q # p => grant'[q] = grant[q]
    BY <1>a, <2>1 DEF TypeOK
  <2> HIDE DEF rec
  <2>6. (\A x \in All : Sound(mem[x])') /\ (\A q \in Procs : CallOK(q)')
    BY <1>a, <2>1, <2>3, <2>4, <2>5, SoundMoved DEF All
  <2> QED BY <1>a, <1>b, <2>1, <2>6, SoundFixed DEF SoundInv
<1>5. ASSUME NEW q \in All, Truncate(q) \/ Write(q) PROVE SoundInv'
  <2>1. PICK r, at : Saving(q, r, at)
    BY <1>a, <1>5, SaveMoves
  <2>2. Sound(mem[q]) /\ (q \in Procs => CallOK(q))
    BY <1>b DEF SoundInv
  <2>3. /\ disk' \in {Empty, mem[q], Garbled} /\ r \in {mem[q], Absent}
        /\ mem' = [mem EXCEPT ![q] = r] /\ pc' = [pc EXCEPT ![q] = at] /\ grant' = grant
        /\ at \in Going => pc[q] \in Going /\ r = mem[q]
        /\ at = "created" => pc[q] = "writeNew"
        /\ at \notin {"returned", "writeNew"}
    BY <2>1 DEF Saving, Going
  <2>4. (\A x \in All : Sound(mem[x])') /\ (\A p \in Procs : CallOK(p)')
    BY <1>a, <2>2, <2>3, BlankSound, SoundMoved DEF CallOK
  <2>5. Sound(disk)'
    BY <1>a, <2>2, <2>3, BlankSound, SoundFixed
  <2> QED BY <1>a, <2>4, <2>5 DEF SoundInv
<1>6. ASSUME NEW q \in All, Exhausted(q) \/ Crash(q) PROVE SoundInv'
  <2>1. /\ disk' \in {disk, Garbled} /\ mem' = [mem EXCEPT ![q] = Absent]
        /\ pc' = [pc EXCEPT ![q] = "idle"] /\ grant' = grant
    BY <1>6 DEF Exhausted, Crash
  <2>2. (\A x \in All : Sound(mem[x])') /\ (\A p \in Procs : CallOK(p)')
    BY <1>a, <2>1, BlankSound, SoundMoved DEF Going
  <2> QED BY <1>a, <1>b, <2>1, <2>2, BlankSound, SoundFixed DEF SoundInv
<1>7. ASSUME NEW p \in Procs, Dispatch(p) PROVE SoundInv'
  <2>1. /\ disk' = disk /\ mem' = [mem EXCEPT ![p] = mem[p]]
        /\ pc' = [pc EXCEPT ![p] = "returned"] /\ grant' = [grant EXCEPT ![p] = FALSE]
        /\ IsCall(mem[p].cursor + 1)
    BY <1>7, <1>a DEF Dispatch, Spend, AtHead, IsCall, All
  <2>2. ~grant'[p] /\ \A q \in Procs : q # p => grant'[q] = grant[q]
    BY <1>a, <2>1 DEF TypeOK
  <2>3. (\A x \in All : Sound(mem[x])') /\ (\A q \in Procs : CallOK(q)')
    BY <1>a, <1>b, <2>1, <2>2, SoundMoved DEF All, Going
  <2> QED BY <1>a, <1>b, <2>1, <2>3, SoundFixed DEF SoundInv
<1>8. ASSUME NEW p \in Procs,
             \/ OverBudget(p) \/ Refuse(p) \/ Await(p) \/ Settle(p)
             \/ Handle(p) \/ Apply(p) \/ Measure(p) \/ Halt(p)
      PROVE  SoundInv'
  <2>1. /\ mem[p] \in Records /\ reply[p] \in Results /\ CopyOK(p)
        /\ mem[p].cursor <= mem[p].step /\ CallOK(p) /\ Sound(mem[p]) /\ p \in All
    BY <1>a, <1>b DEF TypeOK, SoundInv, SharedInv, RecordOK, All
  <2>2. PICK rec : mem' = [mem EXCEPT ![p] = rec] /\ Sound(rec)
    BY <1>a, <1>8, <2>1, WorkKeepsSound
  <2>3. /\ disk' = disk /\ grant' = grant
        /\ \E at \in {"saveGo", "saveStop"} : pc' = [pc EXCEPT ![p] = at]
    BY <1>a, <1>8, <2>1, WorkExecutes DEF Executed, Concluded
  <2>4. PICK at \in {"saveGo", "saveStop"} : pc' = [pc EXCEPT ![p] = at]
    BY <2>3
  <2>5. pc'[p] = at
    BY <1>a, <2>1, <2>4
  <2>6. AsksOnlyForSyscalls /\ grant[p] => at = "saveStop"
    <3>1. AsksOnlyForSyscalls /\ grant[p] => pc' = [pc EXCEPT ![p] = "saveStop"]
      BY <1>8, <2>1, HeldGrantStops
    <3>2. pc' = [pc EXCEPT ![p] = "saveStop"] => pc'[p] = "saveStop"
      BY <1>a, <2>1
    <3> QED BY <2>5, <3>1, <3>2
  <2>7. (\A x \in All : Sound(mem[x])') /\ (\A q \in Procs : CallOK(q)')
    BY <1>a, <2>1, <2>2, <2>3, <2>4, <2>6, SoundMoved DEF Going
  <2> QED BY <1>a, <1>b, <2>3, <2>7, SoundFixed DEF SoundInv
<1>9. ASSUME NEW c \in Clients, LoadOutcome(c) PROVE SoundInv'
  <2>1. /\ disk' = disk /\ mem' = [mem EXCEPT ![c] = [disk EXCEPT !.aci = @ + 1]]
        /\ pc' = [pc EXCEPT ![c] = "saveOutcome"] /\ grant' = grant /\ c \in All
    BY <1>9 DEF LoadOutcome, All
  <2>2. Sound([disk EXCEPT !.aci = @ + 1])
    BY <1>a, <1>b, EditsSound
  <2>3. (\A x \in All : Sound(mem[x])') /\ (\A q \in Procs : CallOK(q)')
    BY <1>a, <2>1, <2>2, SoundMoved DEF Going
  <2> QED BY <1>a, <1>b, <2>1, <2>3, SoundFixed DEF SoundInv
<1> QED BY <1>1, <1>2, <1>3, <1>4, <1>5, <1>6, <1>7, <1>8, <1>9, <1>11
        DEF Next, Step, Work, Submit, All

LEMMA SoundStutter == SoundInv /\ UNCHANGED vars => SoundInv'
<1> SUFFICES ASSUME SoundInv, UNCHANGED vars PROVE SoundInv'
  OBVIOUS
<1>1. SharedInv'
  BY SharedStutter DEF SoundInv
<1> QED BY <1>1 DEF SoundInv, CallOK, Sound, ClaimOK, StreakOK, Claimed, IsCall,
                   AsksOnlyForSyscalls, Positions, plan, vars

\* However many processes share the record, a third failure in a row is never saved as running.
THEOREM SharedStreakStops == SharedSpec => []FailureStreakStops
<1>1. SoundInv /\ [Next]_vars => SoundInv'
  BY SoundStutter, SoundStep
<1>2. SoundInv => FailureStreakStops
  BY DEF SoundInv, Sound, StreakOK, FailureStreakStops
<1> QED BY <1>1, <1>2, SoundInit, PTL DEF SharedSpec

\* However many processes share the record, a saved success rests on a claim of the plan at a
\* position that was passed.
THEOREM SharedSuccessWasClaimed == SharedSpec => []SuccessWasClaimed
<1>1. SoundInv /\ [Next]_vars => SoundInv'
  BY SoundStutter, SoundStep
<1>2. SoundInv => SuccessWasClaimed
  BY DEF SoundInv, Sound, ClaimOK, Claimed, SuccessWasClaimed
<1> QED BY <1>1, <1>2, SoundInit, PTL DEF SharedSpec

-----------------------------------------------------------------------------
(* Approvals are spent, never carried over. *)

\* The processes whose approval for position i is given and not yet used up.
Owed(i) == {p \in Procs : pc[p] \in Going /\ grant[p] /\ mem[p].cursor + 1 = i}

\* Every run of a gated call, and every approval still held for it, was paid for.
PaidFor(i) ==
  /\ IsFiniteSet(Owed(i))
  /\ Times(ran, i) + Cardinality(Owed(i)) <= Times(approvals, i)

ApprovalInv == SoundInv /\ (AsksOnlyForSyscalls => \A i \in Gated : PaidFor(i))

\* Appending an element counts it once more, and no other.
LEMMA TimesAppend ==
  ASSUME NEW S, NEW s \in Seq(S), NEW x \in S, NEW i
  PROVE  /\ Times(s, i) \in Nat
         /\ Times(Append(s, x), i) = Times(s, i) + (IF x = i THEN 1 ELSE 0)
<1> DEFINE here == {k \in DOMAIN s : s[k] = i}
           n    == Len(s)
<1>1. n \in Nat /\ DOMAIN s = 1..n
  OBVIOUS
<1>2. IsFiniteSet(here) /\ Cardinality(here) \in Nat
  <2>1. IsFiniteSet(1..n)
    BY <1>1, FS_Interval
  <2>2. IsFiniteSet(here)
    BY <1>1, <2>1, FS_Subset
  <2> QED BY <2>2, FS_CardinalityType
<1>3. {k \in DOMAIN Append(s, x) : Append(s, x)[k] = i} =
        IF x = i THEN here \cup {n + 1} ELSE here
  <2>1. /\ DOMAIN Append(s, x) = 1..(n + 1) /\ Append(s, x)[n + 1] = x
        /\ \A k \in 1..n : Append(s, x)[k] = s[k]
    OBVIOUS
  <2> HIDE DEF n
  <2>2. 1..(n + 1) = (1..n) \cup {n + 1}
    BY <1>1
  <2> QED BY <1>1, <2>1, <2>2
<1>4. n + 1 \notin here
  BY <1>1
<1>5. Cardinality(here \cup {n + 1}) = Cardinality(here) + 1
  <2> HIDE DEF here, n
  <2> QED BY <1>2, <1>4, FS_AddElement
<1>6. /\ Times(s, i) = Cardinality(here)
      /\ Times(Append(s, x), i) =
           Cardinality({k \in DOMAIN Append(s, x) : Append(s, x)[k] = i})
  BY DEF Times
<1> HIDE DEF here
<1>7. Times(Append(s, x), i) =
        IF x = i THEN Cardinality(here \cup {n + 1}) ELSE Cardinality(here)
  BY <1>3, <1>6
<1>8. /\ Times(s, i) \in Nat
      /\ x = i => Times(Append(s, x), i) = Times(s, i) + 1
      /\ x # i => Times(Append(s, x), i) = Times(s, i)
  BY <1>2, <1>5, <1>6, <1>7
<1> QED BY <1>8

\* Who owes after p's copy, place and grant change.
LEMMA OwedAfter ==
  ASSUME TypeOK, NEW p \in Procs, NEW r, NEW at,
         mem' = [mem EXCEPT ![p] = r], pc' = [pc EXCEPT ![p] = at],
         \A q \in Procs : q # p => grant'[q] = grant[q], NEW i
  PROVE  /\ at \in Going /\ grant'[p] /\ r.cursor + 1 = i =>
              Owed(i)' = Owed(i) \cup {p}
         /\ ~(at \in Going /\ grant'[p] /\ r.cursor + 1 = i) =>
              Owed(i)' = Owed(i) \ {p}
<1>1. /\ mem'[p] = r /\ pc'[p] = at
      /\ \A q \in Procs : q # p => mem'[q] = mem[q] /\ pc'[q] = pc[q] /\ grant'[q] = grant[q]
  BY DEF TypeOK
<1> QED BY <1>1 DEF Owed

\* A step that runs nothing and gives nobody an approval keeps everything paid for.
LEMMA PaidStays ==
  ASSUME \A i \in Gated : PaidFor(i), spec' = spec, ran' = ran, approvals' = approvals,
         \A i : Owed(i)' \subseteq Owed(i), TypeOK
  PROVE  \A i \in Gated' : PaidFor(i)'
<1> SUFFICES ASSUME NEW i \in Gated PROVE PaidFor(i)'
  BY DEF Gated, Positions, plan
<1>1. IsFiniteSet(Owed(i)') /\ Cardinality(Owed(i)') <= Cardinality(Owed(i))
  BY FS_Subset DEF PaidFor
<1>2. Cardinality(Owed(i)) \in Nat /\ Cardinality(Owed(i)') \in Nat
  BY <1>1, FS_CardinalityType DEF PaidFor
<1>3. Times(ran, i)' = Times(ran, i) /\ Times(approvals, i)' = Times(approvals, i)
  BY DEF Times
<1>4. Times(ran, i) \in Nat /\ Times(approvals, i) \in Nat
  <2>1. i \in Positions /\ i \in 0..Len(plan)
    BY InstructionTypes DEF Gated, TypeOK
  <2> QED BY <2>1, TimesAppend DEF TypeOK
<1> QED BY <1>1, <1>2, <1>3, <1>4 DEF PaidFor

LEMMA ApprovalStep ==
  ASSUME ApprovalInv, Next
  PROVE  ApprovalInv'
<1>a. /\ SoundInv /\ SoundInv' /\ TypeOK /\ IsSpec(spec) /\ spec' = spec
      /\ mem \in [All -> Records] /\ pc \in [All -> PCs] /\ grant \in [Procs -> BOOLEAN]
      /\ (AsksOnlyForSyscalls' <=> AsksOnlyForSyscalls) /\ Gated' = Gated
  BY SoundStep, SpecIsFixed, SoundFixed
  DEF ApprovalInv, SoundInv, SharedInv, TypeOK, All, Gated
<1> SUFFICES ASSUME AsksOnlyForSyscalls, \A i \in Gated : PaidFor(i)
             PROVE  \A i \in Gated' : PaidFor(i)'
  BY <1>a DEF ApprovalInv
<1>b. \A p \in Procs : p \in All /\ mem[p] \in Records /\ CopyOK(p) /\ CallOK(p)
  BY <1>a DEF SoundInv, SharedInv, All
<1>c. ASSUME NEW p \in Procs, NEW r, NEW at,
             mem' = [mem EXCEPT ![p] = r], pc' = [pc EXCEPT ![p] = at],
             \A q \in Procs : q # p => grant'[q] = grant[q],
             ran' = ran, approvals' = approvals,
             at \in Going /\ grant'[p] =>
               pc[p] \in Going /\ grant[p] /\ r.cursor = mem[p].cursor
      PROVE  \A i \in Gated' : PaidFor(i)'
  <2>1. ASSUME NEW i PROVE Owed(i)' \subseteq Owed(i)
    <3>1. at \in Going /\ grant'[p] /\ r.cursor + 1 = i => p \in Owed(i)
      BY <1>c DEF Owed
    <3>2. Owed(i)' \in {Owed(i) \cup {p}, Owed(i) \ {p}}
      BY <1>a, <1>c, OwedAfter
    <3>3. ~(at \in Going /\ grant'[p] /\ r.cursor + 1 = i) =>
            Owed(i)' = Owed(i) \ {p}
      BY <1>a, <1>c, OwedAfter
    <3> QED BY <3>1, <3>2, <3>3
  <2> QED BY <1>a, <1>c, <2>1, PaidStays
<1>1. ASSUME NEW p \in Procs, Create(p) PROVE \A i \in Gated' : PaidFor(i)'
  <2>1. /\ mem' = [mem EXCEPT ![p] = Fresh]
        /\ pc' = [pc EXCEPT ![p] = "writeNew"] /\ grant' = [grant EXCEPT ![p] = FALSE]
        /\ ran' = ran /\ approvals' = approvals
    BY <1>1 DEF Create, history
  <2>2. ~grant'[p] /\ \A q \in Procs : q # p => grant'[q] = grant[q]
    BY <1>a, <2>1
  <2> QED BY <1>c, <2>1, <2>2 DEF Going
<1>9. ASSUME NEW p \in Procs, Begin(p) PROVE \A i \in Gated' : PaidFor(i)'
  <2>1. /\ mem' = [mem EXCEPT ![p] = mem'[p]] /\ pc' = [pc EXCEPT ![p] = "saveGo"]
        /\ grant' = grant /\ ~grant[p] /\ ran' = ran /\ approvals' = approvals
    BY <1>9, <1>a, <1>b DEF Begin, CallOK, history
  <2> QED BY <1>c, <2>1
<1>2. ASSUME NEW p \in Procs, Load(p) \/ Deny(p) PROVE \A i \in Gated' : PaidFor(i)'
  <2>1. grant' = grant
    BY <1>2 DEF Load, Deny
  <2>2. mem' = [mem EXCEPT ![p] = mem'[p]]
    BY <1>a, <1>b, <1>2 DEF Load, Deny
  <2>3. PICK at \in {"loaded", "saveStop"} : pc' = [pc EXCEPT ![p] = at]
    BY <1>2 DEF Load, Deny
  <2>4. ran' = ran /\ approvals' = approvals
    BY <1>2 DEF Load, Deny, history
  <2> QED BY <1>c, <2>1, <2>2, <2>3, <2>4 DEF Going
<1>3. ASSUME NEW p \in Procs, Approve(p) PROVE \A i \in Gated' : PaidFor(i)'
  <2> DEFINE rec == [mem[p] EXCEPT !.status = "running", !.pending = 0]
             j   == mem[p].pending
  <2>1. /\ mem' = [mem EXCEPT ![p] = rec] /\ pc' = [pc EXCEPT ![p] = "saveGo"]
        /\ grant' = [grant EXCEPT ![p] = TRUE]
        /\ approvals' = Append(approvals, j) /\ ran' = ran /\ pc[p] = "loaded"
    BY <1>3, <1>a, <1>b DEF Approve
  <2>2. j = mem[p].cursor + 1 /\ j \in 0..Len(plan) /\ rec.cursor = mem[p].cursor
    <3>1. mem[p].status = "waiting_approval" /\ Sound(mem[p])
      BY <1>a, <1>b, <2>1 DEF CopyOK, Matches, SoundInv
    <3> QED BY <1>b, <3>1 DEF Sound, StreakOK, Records
  <2> HIDE DEF rec, j
  <2>3. SUFFICES ASSUME NEW i \in Gated PROVE PaidFor(i)'
    BY <1>a
  <2>4. /\ j = i => Owed(i)' = Owed(i) \cup {p}
        /\ j # i => Owed(i)' = Owed(i) \ {p}
    <3>1. grant'[p] /\ \A q \in Procs : q # p => grant'[q] = grant[q]
      BY <1>a, <2>1
    <3>2. /\ rec.cursor + 1 = i => Owed(i)' = Owed(i) \cup {p}
          /\ rec.cursor + 1 # i => Owed(i)' = Owed(i) \ {p}
      BY <1>a, <2>1, <3>1, OwedAfter DEF Going
    <3> QED BY <2>2, <3>2
  <2>5. p \notin Owed(i) /\ IsFiniteSet(Owed(i)) /\ Cardinality(Owed(i)) \in Nat
    BY <2>1, FS_CardinalityType DEF Owed, PaidFor, Going
  <2>6. /\ IsFiniteSet(Owed(i)')
        /\ Cardinality(Owed(i)') = Cardinality(Owed(i)) + (IF j = i THEN 1 ELSE 0)
    <3>1. /\ IsFiniteSet(Owed(i) \cup {p}) /\ IsFiniteSet(Owed(i) \ {p})
          /\ Cardinality(Owed(i) \cup {p}) = Cardinality(Owed(i)) + 1
          /\ Cardinality(Owed(i) \ {p}) = Cardinality(Owed(i))
      BY <2>5, FS_AddElement, FS_RemoveElement
    <3>2. CASE j = i  BY <2>4, <3>1, <3>2
    <3>3. CASE j # i  BY <2>4, <2>5, <3>1, <3>3
    <3> QED BY <3>2, <3>3
  <2>7. /\ Times(approvals, i)' = Times(approvals, i) + (IF j = i THEN 1 ELSE 0)
        /\ Times(approvals, i) \in Nat
    <3>1. approvals \in Seq(0..Len(plan))
      BY <1>a DEF TypeOK
    <3>2. Times(approvals, i)' = Times(Append(approvals, j), i)
      BY <2>1 DEF Times
    <3> QED BY <2>2, <3>1, <3>2, TimesAppend
  <2>8. Times(ran, i)' = Times(ran, i) /\ Times(ran, i) \in Nat
    <3>1. ran \in Seq(Positions) /\ i \in Positions
      BY <1>a DEF TypeOK, Gated
    <3>2. Times(ran, i)' = Times(ran, i)
      BY <2>1 DEF Times
    <3> QED BY <3>1, <3>2, TimesAppend
  <2>9. Times(ran, i) + Cardinality(Owed(i)) <= Times(approvals, i)
    BY DEF PaidFor
  <2> QED BY <2>5, <2>6, <2>7, <2>8, <2>9 DEF PaidFor
<1>4. ASSUME NEW p \in Procs, Truncate(p) \/ Write(p) PROVE \A i \in Gated' : PaidFor(i)'
  <2>1. PICK r, at : Saving(p, r, at)
    BY <1>a, <1>b, <1>4, SaveMoves
  <2>2. /\ mem' = [mem EXCEPT ![p] = r] /\ pc' = [pc EXCEPT ![p] = at]
        /\ grant' = grant /\ ran' = ran /\ approvals' = approvals
        /\ at \in Going => pc[p] \in Going /\ r = mem[p]
    BY <2>1 DEF Saving, Going, history
  <2> QED BY <1>c, <2>2
<1>5. ASSUME NEW p \in Procs, Exhausted(p) \/ Crash(p) PROVE \A i \in Gated' : PaidFor(i)'
  <2>1. /\ mem' = [mem EXCEPT ![p] = Absent] /\ pc' = [pc EXCEPT ![p] = "idle"]
        /\ grant' = grant /\ ran' = ran /\ approvals' = approvals
    BY <1>5, <1>a DEF Exhausted, Crash, history
  <2> QED BY <1>c, <2>1 DEF Going
<1>6. ASSUME NEW p \in Procs, Dispatch(p) PROVE \A i \in Gated' : PaidFor(i)'
  <2>1. PICK j \in Positions :
          LET verdict == Verdict(plan[j].call, spec.mode, spec.auto, grant[p])
          IN  /\ AtHead(p, j)
              /\ ran' = IF verdict = "runs" THEN Append(ran, j) ELSE ran
              /\ grant' = [grant EXCEPT ![p] = FALSE]
              /\ pc' = [pc EXCEPT ![p] = "returned"]
              /\ mem' = mem /\ approvals' = approvals
    BY <1>6 DEF Dispatch, Spend
  <2> DEFINE verdict == Verdict(plan[j].call, spec.mode, spec.auto, grant[p])
  <2>2. /\ pc[p] = "head" /\ j = mem[p].cursor + 1
        /\ ran' = IF verdict = "runs" THEN Append(ran, j) ELSE ran
        /\ mem' = [mem EXCEPT ![p] = mem[p]]
    BY <1>a, <1>b, <2>1 DEF AtHead
  <2>3. verdict = "runs" /\ j \in Gated => p \in Owed(j)
    <3>1. verdict = "runs" /\ j \in Gated => grant[p]
      BY DEF Verdict, Gated
    <3> HIDE DEF verdict
    <3> QED BY <2>2, <3>1 DEF Owed, Going
  <2> HIDE DEF verdict
  <2>4. CASE verdict # "runs"
    <3>1. ran' = ran /\ \A q \in Procs : q # p => grant'[q] = grant[q]
      BY <1>a, <2>1, <2>2, <2>4
    <3> QED BY <1>c, <2>1, <2>2, <3>1 DEF Going
  <2>5. CASE verdict = "runs"
    <3>1. SUFFICES ASSUME NEW i \in Gated PROVE PaidFor(i)'
      BY <1>a
    <3>2. Owed(i)' = Owed(i) \ {p}
      <4>1. \A q \in Procs : q # p => grant'[q] = grant[q]
        BY <1>a, <2>1
      <4>2. "returned" \notin Going
        BY DEF Going
      <4>3. pc' = [pc EXCEPT ![p] = "returned"]
        BY <2>1
      <4>4. mem' = [mem EXCEPT ![p] = mem[p]]
        BY <2>2
      <4>5. ~("returned" \in Going /\ grant'[p] /\ mem[p].cursor + 1 = i) => Owed(i)' = Owed(i) \ {p}
        BY <1>a, <4>1, <4>3, <4>4, OwedAfter
      <4> QED BY <4>2, <4>5
    <3>3. IsFiniteSet(Owed(i)) /\ Cardinality(Owed(i)) \in Nat
      BY FS_CardinalityType DEF PaidFor
    <3>4. /\ IsFiniteSet(Owed(i)')
          /\ Cardinality(Owed(i)') <= Cardinality(Owed(i)) - (IF j = i THEN 1 ELSE 0)
      <4>1. /\ IsFiniteSet(Owed(i) \ {p})
            /\ p \in Owed(i) => Cardinality(Owed(i) \ {p}) = Cardinality(Owed(i)) - 1
            /\ p \notin Owed(i) => Cardinality(Owed(i) \ {p}) = Cardinality(Owed(i))
        BY <3>3, FS_RemoveElement
      <4>2. j = i => p \in Owed(i)
        BY <2>3, <2>5
      <4>3. CASE j = i  BY <3>2, <3>3, <4>1, <4>2, <4>3
      <4>4. CASE j # i  BY <3>2, <3>3, <4>1, <4>4
      <4> QED BY <4>3, <4>4
    <3>5. Cardinality(Owed(i)') \in Nat
      BY <3>4, FS_CardinalityType
    <3>6. /\ Times(ran, i)' = Times(ran, i) + (IF j = i THEN 1 ELSE 0)
          /\ Times(ran, i) \in Nat
      <4>1. ran \in Seq(Positions)
        BY <1>a DEF TypeOK
      <4>2. Times(ran, i)' = Times(Append(ran, j), i)
        BY <2>2, <2>5 DEF Times
      <4> QED BY <4>1, <4>2, TimesAppend
    <3>7. Times(approvals, i)' = Times(approvals, i) /\ Times(approvals, i) \in Nat
      <4>1. approvals \in Seq(0..Len(plan)) /\ i \in 0..Len(plan)
        BY <1>a, InstructionTypes DEF TypeOK, Gated
      <4>2. Times(approvals, i)' = Times(approvals, i)
        BY <2>1 DEF Times
      <4> QED BY <4>1, <4>2, TimesAppend
    <3>8. Times(ran, i) + Cardinality(Owed(i)) <= Times(approvals, i)
      BY DEF PaidFor
    <3> QED BY <3>3, <3>4, <3>5, <3>6, <3>7, <3>8 DEF PaidFor
  <2> QED BY <2>4, <2>5
<1>7. ASSUME NEW p \in Procs,
             \/ OverBudget(p) \/ Refuse(p) \/ Await(p) \/ Settle(p)
             \/ Handle(p) \/ Apply(p) \/ Measure(p) \/ Halt(p)
      PROVE  \A i \in Gated' : PaidFor(i)'
  <2>1. /\ mem[p] \in Records /\ reply[p] \in Results /\ CopyOK(p)
        /\ mem[p].cursor <= mem[p].step /\ CallOK(p)
    BY <1>a, <1>b DEF TypeOK, SoundInv, SharedInv, RecordOK
  <2>2. Executed(p)
    BY <1>a, <1>7, <2>1, WorkExecutes
  <2>3. PICK rec \in Records, at \in {"saveGo", "saveStop"} :
          mem' = [mem EXCEPT ![p] = rec] /\ pc' = [pc EXCEPT ![p] = at]
    BY <2>2 DEF Executed, Concluded
  <2>4. /\ grant' = grant /\ ran' = ran /\ approvals' = approvals
    BY <1>a, <2>2 DEF Executed, history
  <2>5. grant[p] => at = "saveStop"
    <3>1. grant[p] => pc' = [pc EXCEPT ![p] = "saveStop"]
      BY <1>7, <2>1, HeldGrantStops
    <3>2. pc'[p] = at
      BY <1>a, <1>b, <2>3
    <3>3. pc' = [pc EXCEPT ![p] = "saveStop"] => pc'[p] = "saveStop"
      BY <1>a, <1>b
    <3> QED BY <3>1, <3>2, <3>3
  <2> QED BY <1>c, <2>3, <2>4, <2>5 DEF Going
<1>8. ASSUME NEW c \in Clients, Submit(c) PROVE \A i \in Gated' : PaidFor(i)'
  <2>1. /\ grant' = grant /\ ran' = ran /\ approvals' = approvals
        /\ \A p \in Procs : mem'[p] = mem[p] /\ pc'[p] = pc[p]
    <3>1. CASE Truncate(c) \/ Write(c)
      <4>1. PICK r, at : Saving(c, r, at)
        BY <1>a, <3>1, SaveMoves DEF All
      <4> QED BY <1>a, <4>1, Assumptions DEF Saving, history, All
    <3>2. CASE LoadOutcome(c) \/ Crash(c)
      BY <3>2, <1>a, Assumptions DEF LoadOutcome, Crash, history, All
    <3> QED BY <1>8, <3>1, <3>2 DEF Submit
  <2>2. \A i : Owed(i)' = Owed(i)
    BY <2>1 DEF Owed
  <2> QED BY <1>a, <2>1, <2>2, PaidStays
<1> QED BY <1>1, <1>2, <1>3, <1>4, <1>5, <1>6, <1>7, <1>8, <1>9 DEF Next, Step, Work

\* However many processes share the record, a gated call runs no more often than somebody
\* approved its position: an approval that was lost, spent on another verdict or given to a
\* second process is never a second run.
THEOREM SharedApprovalsSpent == SharedSpec => []RunsOnlyAsApproved
<1>1. Init => ApprovalInv
  <2> SUFFICES ASSUME Init, NEW i \in Gated PROVE SoundInv /\ PaidFor(i)
    BY SoundInit DEF ApprovalInv
  <2>1. Owed(i) = {} /\ ran = <<>> /\ approvals = <<>>
    BY DEF Init, Owed
  <2>2. Times(ran, i) = 0 /\ Times(approvals, i) = 0
    <3>1. \A s : s = <<>> => {k \in DOMAIN s : s[k] = i} = {}
      OBVIOUS
    <3> QED BY <2>1, <3>1, FS_EmptySet DEF Times
  <2> QED BY <2>1, <2>2, SoundInit, FS_EmptySet DEF PaidFor
<1>2. ApprovalInv /\ [Next]_vars => ApprovalInv'
  <2>1. ApprovalInv /\ UNCHANGED vars => ApprovalInv'
    <3> SUFFICES ASSUME ApprovalInv, UNCHANGED vars PROVE ApprovalInv'
      OBVIOUS
    <3>1. SoundInv' /\ (AsksOnlyForSyscalls' <=> AsksOnlyForSyscalls) /\ Gated' = Gated
      BY SoundStutter DEF ApprovalInv, AsksOnlyForSyscalls, Gated, Positions, plan, vars
    <3>2. \A i : PaidFor(i)' = PaidFor(i)
      BY DEF PaidFor, Owed, Times, vars
    <3> QED BY <3>1, <3>2 DEF ApprovalInv
  <2> QED BY <2>1, ApprovalStep
<1>3. ApprovalInv => RunsOnlyAsApproved
  <2> SUFFICES ASSUME ApprovalInv, AsksOnlyForSyscalls, NEW i \in Gated
               PROVE  Times(ran, i) <= Times(approvals, i)
    BY DEF RunsOnlyAsApproved
  <2>1. PaidFor(i) /\ TypeOK
    BY DEF ApprovalInv, SoundInv, SharedInv
  <2>2. Cardinality(Owed(i)) \in Nat
    BY <2>1, FS_CardinalityType DEF PaidFor
  <2>3. Times(ran, i) \in Nat /\ Times(approvals, i) \in Nat
    <3>1. i \in Positions /\ i \in 0..Len(plan)
      BY <2>1, InstructionTypes DEF Gated, TypeOK
    <3> QED BY <2>1, <3>1, TimesAppend DEF TypeOK
  <2> QED BY <2>1, <2>2, <2>3 DEF PaidFor
<1> QED BY <1>1, <1>2, <1>3, PTL DEF SharedSpec

-----------------------------------------------------------------------------
(* A call runs out of steps. *)

\* The most steps a process can still take before its call returns, from the place it is
\* at: four for every position it has not passed, and the saves around them.
StepsLeft(r, at) ==
  LET left == Len(plan) - r.cursor
  IN  CASE at = "writeNew"  -> 4 * left + 7
        [] at = "created"   -> 4 * left + 6
        [] at = "loaded"    -> 4 * left + 6
        [] at = "saveGo"    -> 4 * left + 5
        [] at = "writeGo"   -> 4 * left + 4
        [] at = "head"      -> 4 * left + 3
        [] at = "returned"  -> 4 * left + 2
        [] at = "saveStop"  -> 2
        [] at = "writeStop" -> 1
        [] OTHER            -> 0

\* Whatever the other processes do meanwhile, every step of a call of run or resume brings
\* its return nearer, and no step of another process takes it further away: a repair or a
\* replan goes on with the next position and never comes back to the same one.
CallsRunOut ==
  [][\A p \in Procs :
       pc[p] # "idle" =>
         \/ UNCHANGED <<pc[p], mem[p]>>
         \/ StepsLeft(mem[p], pc[p])' < StepsLeft(mem[p], pc[p])]_vars

\* One step of process q: the others stay where they are, and q is nearer its return.
Nearer(q) ==
  /\ \A p \in Procs : p # q => UNCHANGED <<pc[p], mem[p]>>
  /\ q \in Procs /\ pc[q] # "idle" => StepsLeft(mem'[q], pc'[q]) < StepsLeft(mem[q], pc[q])

\* A step that replaces the copy and the place of one process leaves the others alone.
LEMMA OthersStay ==
  ASSUME TypeOK, NEW q \in All, NEW r, NEW at,
         mem' = [mem EXCEPT ![q] = r], pc' = [pc EXCEPT ![q] = at]
  PROVE  /\ mem'[q] = r /\ pc'[q] = at
         /\ \A p \in Procs : p # q => UNCHANGED <<pc[p], mem[p]>>
  BY DEF TypeOK, All

\* Process q's copy becomes r and q goes to `at', which is nearer its return.
Goes(q, r, at) ==
  /\ mem' = [mem EXCEPT ![q] = r] /\ pc' = [pc EXCEPT ![q] = at]
  /\ StepsLeft(r, at) < StepsLeft(mem[q], pc[q])

LEMMA GoesNearer ==
  ASSUME TypeOK, NEW q \in All, NEW r, NEW at, Goes(q, r, at)
  PROVE  Nearer(q)
<1>1. /\ mem'[q] = r /\ pc'[q] = at
      /\ \A p \in Procs : p # q => UNCHANGED <<pc[p], mem[p]>>
  BY OthersStay DEF Goes
<1> QED BY <1>1 DEF Goes, Nearer

\* The measure, place by place.
LEMMA StepsLeftAt ==
  ASSUME IsSpec(spec), NEW r \in Records
  PROVE  \E left \in Nat :
           /\ left = Len(plan) - r.cursor /\ Len(plan) \in Nat /\ r.cursor \in Nat
           /\ StepsLeft(r, "writeNew") = 4 * left + 7 /\ StepsLeft(r, "created") = 4 * left + 6
           /\ StepsLeft(r, "loaded") = 4 * left + 6 /\ StepsLeft(r, "saveGo") = 4 * left + 5
           /\ StepsLeft(r, "writeGo") = 4 * left + 4
           /\ StepsLeft(r, "head") = 4 * left + 3 /\ StepsLeft(r, "returned") = 4 * left + 2
           /\ StepsLeft(r, "saveStop") = 2 /\ StepsLeft(r, "writeStop") = 1
           /\ StepsLeft(r, "idle") = 0
<1>1. Len(plan) \in Nat /\ r.cursor \in 0..Len(plan)
  BY DEF IsSpec, plan, Records
<1>2. Len(plan) - r.cursor \in Nat /\ r.cursor \in Nat
  BY <1>1
<1> QED BY <1>1, <1>2 DEF StepsLeft

LEMMA NearerStep ==
  ASSUME SharedInv, Next
  PROVE  \E q \in All : Nearer(q)
<1>a. /\ TypeOK /\ IsSpec(spec) /\ Absent \in Records
      /\ \A p \in Procs : CopyOK(p) /\ mem[p] \in Records /\ p \in All /\ reply[p] \in Results
      /\ \A p \in Procs : mem[p].cursor <= mem[p].step
  BY BlankRecords DEF SharedInv, TypeOK, All, RecordOK
<1>b. \A x, y : StepsLeft(x, "idle") = 0 /\ StepsLeft(y, "saveStop") = 2
  BY DEF StepsLeft
<1>1. ASSUME NEW p \in Procs, Create(p) \/ Load(p) PROVE Nearer(p)
  <2>1. pc[p] = "idle"
    BY <1>1 DEF Create, Load
  <2>2. PICK r, at : mem' = [mem EXCEPT ![p] = r] /\ pc' = [pc EXCEPT ![p] = at]
    BY <1>1 DEF Create, Load
  <2> QED BY <1>a, <2>1, <2>2, OthersStay DEF Nearer
<1>2. ASSUME NEW p \in Procs, Deny(p) PROVE Nearer(p)
  <2>1. PICK r : mem' = [mem EXCEPT ![p] = r] /\ pc' = [pc EXCEPT ![p] = "saveStop"]
    BY <1>2 DEF Deny
  <2>2. PICK left \in Nat : StepsLeft(mem[p], "loaded") = 4 * left + 6
    BY <1>a, StepsLeftAt
  <2>3. pc[p] = "loaded" /\ StepsLeft(r, "saveStop") = 2
    BY <1>2, <1>b DEF Deny
  <2>4. Goes(p, r, "saveStop")
    BY <2>1, <2>2, <2>3 DEF Goes
  <2> QED BY <1>a, <2>4, GoesNearer
<1>3. ASSUME NEW p \in Procs, Approve(p) PROVE Nearer(p)
  <2> DEFINE r == [mem[p] EXCEPT !.status = "running", !.pending = 0]
  <2>1. /\ mem' = [mem EXCEPT ![p] = r] /\ pc' = [pc EXCEPT ![p] = "saveGo"]
        /\ pc[p] = "loaded"
    BY <1>a, <1>3 DEF Approve, TypeOK
  <2>2. r.cursor = mem[p].cursor
    BY <1>a DEF Records
  <2>3. PICK left \in Nat : /\ left = Len(plan) - mem[p].cursor
                            /\ StepsLeft(mem[p], "loaded") = 4 * left + 6
    BY <1>a, StepsLeftAt
  <2>4. StepsLeft(r, "saveGo") = 4 * left + 5
    BY <2>2, <2>3 DEF StepsLeft
  <2> HIDE DEF r
  <2>5. Goes(p, r, "saveGo")
    BY <2>1, <2>3, <2>4 DEF Goes
  <2> QED BY <1>a, <2>5, GoesNearer
<1>10. ASSUME NEW p \in Procs, Begin(p) PROVE Nearer(p)
  <2> DEFINE r == [mem[p] EXCEPT !.status = "running"]
  <2>1. /\ mem' = [mem EXCEPT ![p] = r] /\ pc' = [pc EXCEPT ![p] = "saveGo"]
        /\ pc[p] = "created"
    BY <1>a, <1>10 DEF Begin, TypeOK
  <2>2. r.cursor = mem[p].cursor
    BY <1>a DEF Records
  <2>3. PICK left \in Nat : /\ left = Len(plan) - mem[p].cursor
                            /\ StepsLeft(mem[p], "created") = 4 * left + 6
    BY <1>a, StepsLeftAt
  <2>4. StepsLeft(r, "saveGo") = 4 * left + 5
    BY <2>2, <2>3 DEF StepsLeft
  <2> HIDE DEF r
  <2>5. Goes(p, r, "saveGo")
    BY <2>1, <2>3, <2>4 DEF Goes
  <2> QED BY <1>a, <2>5, GoesNearer
<1>4. ASSUME NEW p \in Procs, Truncate(p) \/ Write(p) PROVE Nearer(p)
  <2>1. PICK r, at : Saving(p, r, at)
    BY <1>a, <1>4, SaveMoves
  <2>2. PICK left \in Nat :
          /\ StepsLeft(mem[p], "writeNew") = 4 * left + 7
          /\ StepsLeft(mem[p], "created") = 4 * left + 6
          /\ StepsLeft(mem[p], "saveGo") = 4 * left + 5
          /\ StepsLeft(mem[p], "writeGo") = 4 * left + 4
          /\ StepsLeft(mem[p], "head") = 4 * left + 3
          /\ StepsLeft(mem[p], "saveStop") = 2 /\ StepsLeft(mem[p], "writeStop") = 1
    BY <1>a, StepsLeftAt
  <2>3. pc[p] \notin {"saveOutcome", "writeOutcome"}
    BY <1>a DEF CopyOK, Matches
  <2>4. StepsLeft(r, at) < StepsLeft(mem[p], pc[p])
    <3>1. CASE at = "idle"
      <4>1. pc[p] = "writeStop" /\ StepsLeft(r, at) = 0
        BY <1>b, <2>1, <2>3, <3>1 DEF Saving
      <4> QED BY <2>2, <4>1
    <3>2. CASE at # "idle"
      <4>1. \/ pc[p] = "saveGo" /\ at = "writeGo"
            \/ pc[p] = "saveStop" /\ at = "writeStop"
            \/ pc[p] = "writeNew" /\ at = "created"
            \/ pc[p] = "writeGo" /\ at = "head"
        BY <2>1, <2>3, <3>2 DEF Saving
      <4>2. r = mem[p]
        BY <2>1, <3>2 DEF Saving
      <4> QED BY <2>2, <4>1, <4>2
    <3> QED BY <3>1, <3>2
  <2>5. Goes(p, r, at)
    BY <2>1, <2>4 DEF Goes, Saving
  <2> QED BY <1>a, <2>5, GoesNearer
<1>5. ASSUME NEW p \in Procs, Exhausted(p) PROVE Nearer(p)
  <2>1. /\ mem' = [mem EXCEPT ![p] = Absent] /\ pc' = [pc EXCEPT ![p] = "idle"]
        /\ pc[p] = "head"
    BY <1>5 DEF Exhausted
  <2>2. PICK left \in Nat : StepsLeft(mem[p], "head") = 4 * left + 3
    BY <1>a, StepsLeftAt
  <2>3. StepsLeft(Absent, "idle") = 0
    BY <1>b
  <2>4. Goes(p, Absent, "idle")
    BY <2>1, <2>2, <2>3 DEF Goes
  <2> QED BY <1>a, <2>4, GoesNearer
<1>6. ASSUME NEW p \in Procs, Dispatch(p) PROVE Nearer(p)
  <2>1. mem' = mem /\ pc' = [pc EXCEPT ![p] = "returned"] /\ pc[p] = "head"
    BY <1>6 DEF Dispatch, AtHead
  <2>2. pc'[p] = "returned" /\ \A x \in Procs : x # p => UNCHANGED <<pc[x], mem[x]>>
    BY <1>a, <2>1 DEF TypeOK
  <2>3. PICK left \in Nat : /\ StepsLeft(mem[p], "head") = 4 * left + 3
                            /\ StepsLeft(mem[p], "returned") = 4 * left + 2
    BY <1>a, StepsLeftAt
  <2> QED BY <2>1, <2>2, <2>3 DEF Nearer
<1>7. ASSUME NEW p \in Procs,
             \/ OverBudget(p) \/ Refuse(p) \/ Await(p) \/ Settle(p)
             \/ Handle(p) \/ Apply(p) \/ Measure(p) \/ Halt(p)
      PROVE  Nearer(p)
  <2>1. Executed(p)
    BY <1>a, <1>7, WorkExecutes
  <2>2. PICK rec \in Records :
          Concluded(p, rec) /\ (rec.status = "running" => rec.cursor = mem[p].cursor + 1)
    BY <2>1 DEF Executed
  <2>3. PICK left \in Nat : /\ left = Len(plan) - mem[p].cursor
                            /\ Len(plan) \in Nat /\ mem[p].cursor \in Nat
                            /\ StepsLeft(mem[p], "head") = 4 * left + 3
                            /\ StepsLeft(mem[p], "returned") = 4 * left + 2
    BY <1>a, StepsLeftAt
  <2>4. ~(StepsLeft(mem[p], pc[p]) < 4 * left + 2) /\ StepsLeft(mem[p], pc[p]) \in Nat
    <3>1. CASE pc[p] = "head"
      BY <2>3, <3>1
    <3>2. CASE pc[p] = "returned"
      <4>1. StepsLeft(mem[p], pc[p]) = 4 * left + 2
        BY <2>3, <3>2
      <4> HIDE <2>3
      <4> QED BY <4>1
    <3> QED BY <2>1, <3>1, <3>2 DEF Executed
  <2>5. CASE rec.status = "running"
    <3>1. mem' = [mem EXCEPT ![p] = rec] /\ pc' = [pc EXCEPT ![p] = "saveGo"]
      BY <2>2, <2>5 DEF Concluded, Terminal
    <3>2. PICK after \in Nat : /\ after = Len(plan) - rec.cursor /\ rec.cursor \in Nat
                               /\ StepsLeft(rec, "saveGo") = 4 * after + 5
      BY <1>a, StepsLeftAt
    <3>3. left = after + 1
      <4>2. PICK n \in Nat, c \in Nat : n = Len(plan) /\ c = mem[p].cursor
        BY <2>3
      <4>3. rec.cursor = c + 1
        BY <2>2, <2>5, <4>2
      <4>4. left = n - c
        BY <2>3, <4>2
      <4>5. after = n - (c + 1)
        BY <3>2, <4>2, <4>3
      <4> QED BY <4>4, <4>5
    <3>4. StepsLeft(rec, "saveGo") < StepsLeft(mem[p], pc[p])
      <4>1. PICK here \in Nat : here = StepsLeft(mem[p], pc[p]) /\ ~(here < 4 * left + 2)
        BY <2>4
      <4>2. 4 * after + 5 < here
        BY <3>3, <4>1
      <4>3. StepsLeft(rec, "saveGo") < here
        BY <3>2, <4>2
      <4> QED BY <4>1, <4>3
    <3>5. Goes(p, rec, "saveGo")
      BY <3>1, <3>4 DEF Goes
    <3> QED BY <1>a, <3>5, GoesNearer
  <2>6. CASE rec.status # "running"
    <3>1. mem' = [mem EXCEPT ![p] = rec] /\ pc' = [pc EXCEPT ![p] = "saveStop"]
      BY <2>2, <2>6 DEF Concluded
    <3>2. 2 < StepsLeft(mem[p], pc[p])
      <4>1. CASE pc[p] = "head"
        BY <2>3, <4>1
      <4>2. CASE pc[p] = "returned"
        <5>1. mem[p].cursor < Len(plan)
          BY <1>a, <4>2 DEF CopyOK, Matches
        <5>2. PICK n \in Nat, c \in Nat : n = Len(plan) /\ c = mem[p].cursor
          BY <2>3
        <5>3. left > 0
          BY <2>3, <5>1, <5>2
        <5> QED BY <2>3, <4>2, <5>3
      <4> QED BY <2>1, <4>1, <4>2 DEF Executed
    <3>3. StepsLeft(rec, "saveStop") = 2
      BY <1>b
    <3>4. Goes(p, rec, "saveStop")
      BY <3>1, <3>2, <3>3 DEF Goes
    <3> QED BY <1>a, <3>4, GoesNearer
  <2> QED BY <2>5, <2>6
<1>8. ASSUME NEW p \in Procs, Crash(p) PROVE Nearer(p)
  <2>1. /\ mem' = [mem EXCEPT ![p] = Absent] /\ pc' = [pc EXCEPT ![p] = "idle"]
        /\ pc[p] # "idle"
    BY <1>8 DEF Crash
  <2>2. PICK left \in Nat :
          /\ StepsLeft(mem[p], "writeNew") = 4 * left + 7
          /\ StepsLeft(mem[p], "created") = 4 * left + 6
          /\ StepsLeft(mem[p], "loaded") = 4 * left + 6
          /\ StepsLeft(mem[p], "saveGo") = 4 * left + 5
          /\ StepsLeft(mem[p], "writeGo") = 4 * left + 4
          /\ StepsLeft(mem[p], "head") = 4 * left + 3
          /\ StepsLeft(mem[p], "returned") = 4 * left + 2
          /\ StepsLeft(mem[p], "saveStop") = 2 /\ StepsLeft(mem[p], "writeStop") = 1
    BY <1>a, StepsLeftAt
  <2>3. pc[p] \in {"writeNew", "created", "loaded", "saveGo", "writeGo", "head", "returned",
                   "saveStop", "writeStop"}
    BY <1>a, <2>1 DEF CopyOK, Matches, TypeOK, PCs, Writing, All
  <2>4. 0 < StepsLeft(mem[p], pc[p])
    <3>1. CASE pc[p] \in {"saveStop", "writeStop"}
      BY <2>2, <3>1
    <3>2. CASE pc[p] \notin {"saveStop", "writeStop"}
      BY <2>2, <2>3, <3>2
    <3> QED BY <3>1, <3>2
  <2>5. StepsLeft(Absent, "idle") = 0
    BY <1>b
  <2>6. Goes(p, Absent, "idle")
    BY <2>1, <2>4, <2>5 DEF Goes
  <2> QED BY <1>a, <2>6, GoesNearer
<1>9. ASSUME NEW c \in Clients, Submit(c) PROVE Nearer(c)
  <2>1. PICK r, at : mem' = [mem EXCEPT ![c] = r] /\ pc' = [pc EXCEPT ![c] = at]
    <3>1. CASE Truncate(c) \/ Write(c)
      BY <1>a, <3>1, SaveMoves DEF Saving, All
    <3>2. CASE LoadOutcome(c) \/ Crash(c)
      BY <3>2 DEF LoadOutcome, Crash
    <3> QED BY <1>9, <3>1, <3>2 DEF Submit
  <2>2. c \notin Procs /\ c \in All
    BY Assumptions DEF All
  <2> QED BY <1>a, <2>1, <2>2, OthersStay DEF Nearer
<1> QED
  <2>1. ASSUME NEW p \in Procs, Step(p) PROVE Nearer(p)
    BY <1>1, <1>2, <1>3, <1>4, <1>5, <1>6, <1>7, <1>8, <1>10, <2>1 DEF Step, Work
  <2> QED BY <1>9, <2>1 DEF Next, All

\* A call of run or resume takes at most a number of steps fixed by the plan: four for
\* every position, and seven for the way in and out.
THEOREM SharedCallsRunOut == SharedSpec => CallsRunOut
<1>1. ASSUME SharedInv, Next, NEW p \in Procs, pc[p] # "idle"
      PROVE  \/ UNCHANGED <<pc[p], mem[p]>>
             \/ StepsLeft(mem[p], pc[p])' < StepsLeft(mem[p], pc[p])
  <2>1. PICK q \in All : Nearer(q)
    BY <1>1, NearerStep
  <2>2. StepsLeft(mem[p], pc[p])' = StepsLeft(mem'[p], pc'[p])
    BY <1>1, SpecIsFixed DEF StepsLeft
  <2> QED BY <1>1, <2>1, <2>2 DEF Nearer
<1>2. SharedInv /\ [Next]_vars =>
        [\A p \in Procs :
           pc[p] # "idle" =>
             \/ UNCHANGED <<pc[p], mem[p]>>
             \/ StepsLeft(mem[p], pc[p])' < StepsLeft(mem[p], pc[p])]_vars
  BY <1>1
<1> QED BY SharedInit, SharedStep, SharedStutter, <1>2, PTL DEF SharedSpec, CallsRunOut

\* The lifecycle table never refuses a decision of a live call: a call that judges, at the
\* head of the loop or on a result, may move its run to whatever the scheduler can decide,
\* and a resumed one may be denied or go on.  The transition error of the state machine is
\* never raised out of the loop.
TableNeverRefuses ==
  \A p \in Procs :
    /\ pc[p] \in {"head", "returned"} =>
         \A action \in ScheduleActions : CanMove(mem[p].status, StatusAfter[action])
    /\ pc[p] = "loaded" => CanMove(mem[p].status, "running") /\ CanMove(mem[p].status, "blocked")

\* However the calls interleave, none of them meets a transition error.
THEOREM SharedTableNeverRefuses == SharedSpec => []TableNeverRefuses
<1>1. SharedInv => TableNeverRefuses
  <2>1. \A action \in ScheduleActions : CanMove("running", StatusAfter[action])
    BY DEF ScheduleActions, CanMove, StatusAfter, Allowed, Terminal
  <2>2. CanMove("waiting_approval", "running") /\ CanMove("waiting_approval", "blocked")
    BY DEF CanMove, Allowed
  <2> QED BY <2>1, <2>2 DEF SharedInv, CopyOK, Matches, TableNeverRefuses
<1> QED BY <1>1, SharedInit, SharedStep, SharedStutter, PTL DEF SharedSpec

-----------------------------------------------------------------------------
(* The invariant of one process at a time. *)

\* A step taken alone is a step.
LEMMA SoloIsShared == SoloNext => Next
  BY DEF SoloNext, Next

RanUpTo(n) == \A k \in DOMAIN ran : ran[k] <= n

OneAtATime == \A q, r \in All : pc[q] # "idle" /\ pc[r] # "idle" => q = r

\* The effects so far are effects that the record r knows of.
EffectsFit(r) ==
  /\ r.status \in {"absent", "pending"} => ran = <<>>
  /\ r.status = "waiting_approval" => RanUpTo(r.cursor)

\* How the working copy of p, the file and the effects so far relate.
DiskOK(p) ==
  /\ pc[p] \in {"loaded", "head", "returned"} => mem[p] = disk
  /\ pc[p] \in {"writeNew", "created"} => ~grant[p]
  /\ pc[p] = "created" => disk = Fresh
  /\ pc[p] \in Writing => disk = Empty
  /\ pc[p] = "writeNew" => ran = <<>>
  /\ pc[p] = "saveGo" =>
       /\ disk.status \in {"pending", "running", "waiting_approval"}
       /\ disk.status = "pending" => ~grant[p]
       /\ disk.status = "waiting_approval" => grant[p]
  /\ pc[p] = "saveStop" => disk.status \in {"running", "waiting_approval"}
  /\ pc[p] \in {"head", "saveGo", "writeGo", "saveStop", "writeStop"} =>
       RanUpTo(mem[p].cursor)
  /\ pc[p] = "returned" =>
       /\ RanUpTo(mem[p].cursor + 1)
       /\ reply[p].asks /\ ~reply[p].success => RanUpTo(mem[p].cursor)

ClientOK(c) ==
  /\ pc[c] \in {"idle", "saveOutcome", "writeOutcome"}
  /\ pc[c] = "saveOutcome" =>
       disk.status \in Statuses /\ mem[c] = [disk EXCEPT !.aci = @ + 1]
  /\ pc[c] = "writeOutcome" =>
       disk = Empty /\ mem[c].status \in Statuses /\ EffectsFit(mem[c])

SoloInv ==
  /\ SharedInv
  /\ OneAtATime
  /\ \A p \in Procs : DiskOK(p)
  /\ \A c \in Clients : ClientOK(c)
  /\ EffectsFit(disk)
  /\ InOrderAtMostOnce

\* Before the run exists nothing ran and everybody is idle.
LEMMA SoloInit == Init => SoloInv
<1> SUFFICES ASSUME Init PROVE SoloInv
  OBVIOUS
<1>1. \A q \in All : pc[q] = "idle"
  BY DEF Init, All
<1>2. (\A p \in Procs : DiskOK(p)) /\ (\A c \in Clients : ClientOK(c)) /\ OneAtATime
  BY <1>1 DEF DiskOK, ClientOK, OneAtATime, All, Writing
<1>3. disk.status = "absent" /\ ran = <<>>
  BY DEF Init, Absent, Fresh
<1>4. InOrderAtMostOnce /\ EffectsFit(disk)
  BY <1>3 DEF InOrderAtMostOnce, EffectsFit
<1> QED BY <1>2, <1>3, <1>4, SharedInit DEF SoloInv

\* A later bound is a weaker one.
LEMMA RanUpToGrows ==
  ASSUME TypeOK, NEW m \in Nat, NEW n \in Nat, m <= n, RanUpTo(m)
  PROVE  RanUpTo(n)
<1>1. \A k \in DOMAIN ran : ran[k] \in Nat
  BY DEF TypeOK, Positions
<1> QED BY <1>1 DEF RanUpTo

\* While q works alone everybody else is idle, before and after its step.
LEMMA AloneStays ==
  ASSUME SoloInv, NEW q \in All, Alone(q), NEW at, pc' = [pc EXCEPT ![q] = at]
  PROVE  /\ pc'[q] = at
         /\ OneAtATime'
         /\ \A p \in Procs : p # q => DiskOK(p)'
         /\ \A c \in Clients : c # q => ClientOK(c)'
<1>1. pc \in [All -> PCs]
  BY DEF All, SoloInv, SharedInv, TypeOK
<1>2. /\ pc'[q] = at
      /\ \A x \in All : x # q => pc'[x] = "idle"
  BY <1>1 DEF Alone, All
<1> QED BY <1>2 DEF OneAtATime, DiskOK, ClientOK, All, Writing

\* The invariant does not look at anything outside vars.
LEMMA SoloStutter == SoloInv /\ UNCHANGED vars => SoloInv'
<1> SUFFICES ASSUME SoloInv, UNCHANGED vars PROVE SoloInv'
  OBVIOUS
<1>1. SharedInv'
  BY SharedStutter DEF SoloInv
<1> QED BY <1>1 DEF SoloInv, OneAtATime, DiskOK, ClientOK, EffectsFit, RanUpTo,
                   InOrderAtMostOnce, vars

\* A step of one process alone keeps the invariant.
LEMMA SoloStep ==
  ASSUME SoloInv, SoloNext
  PROVE  SoloInv'
<1>a. SharedInv /\ SharedInv' /\ TypeOK /\ IsSpec(spec) /\ Len(plan) \in Nat
  <2>1. SharedInv /\ Next
    BY SoloIsShared DEF SoloInv
  <2>2. SharedInv'
    BY <2>1, SharedStep
  <2>3. TypeOK /\ IsSpec(spec)
    BY <2>1 DEF SharedInv, TypeOK
  <2>4. Len(plan) \in Nat
    BY <2>3 DEF IsSpec, plan
  <2> QED BY <2>1, <2>2, <2>3, <2>4
<1>b. \A p \in Procs : p \in All /\ p \notin Clients
  BY Assumptions DEF All
<1>c. \A c \in Clients : c \in All /\ c \notin Procs
  BY Assumptions DEF All
<1>d. \A p \in Procs : CopyOK(p) /\ mem[p] \in Records /\ mem[p].cursor \in Nat
                       /\ DiskOK(p)
  BY <1>a DEF SharedInv, TypeOK, Records, SoloInv
<1>e. ASSUME NEW q \in All, Alone(q), NEW at, pc' = [pc EXCEPT ![q] = at],
             q \in Procs => DiskOK(q)', q \in Clients => ClientOK(q)',
             EffectsFit(disk)', InOrderAtMostOnce'
      PROVE  SoloInv'
  BY <1>a, <1>e, AloneStays DEF SoloInv
<1>f. /\ EffectsFit(disk)
      /\ ran' = ran => InOrderAtMostOnce'
      /\ ran' = ran /\ disk' \in {disk, Empty, Garbled} => EffectsFit(disk)'
  <2>1. Empty.status = "empty" /\ Garbled.status = "garbled"
    BY DEF Empty, Garbled, Fresh
  <2> QED BY <2>1 DEF SoloInv, InOrderAtMostOnce, EffectsFit, RanUpTo
<1>g. \A q \in All : \A at : pc' = [pc EXCEPT ![q] = at] => pc'[q] = at
  BY <1>a DEF TypeOK, All
<1>1. ASSUME NEW p \in Procs, Alone(p), Create(p) PROVE SoloInv'
  <2>1. /\ pc' = [pc EXCEPT ![p] = "writeNew"] /\ disk' = Empty
        /\ disk.status = "absent" /\ ran' = ran /\ ~grant'[p]
    BY <1>1, <1>a DEF Create, history, TypeOK
  <2>2. DiskOK(p)'
    BY <1>b, <1>f, <1>g, <2>1 DEF DiskOK, EffectsFit
  <2> QED BY <1>b, <1>e, <1>f, <1>1, <2>1, <2>2
<1>12. ASSUME NEW p \in Procs, Alone(p), Begin(p) PROVE SoloInv'
  <2>1. /\ pc' = [pc EXCEPT ![p] = "saveGo"] /\ disk' = disk /\ ran' = ran /\ grant' = grant
        /\ pc[p] = "created"
    BY <1>12 DEF Begin, history
  <2>2. disk = Fresh /\ disk.status = "pending" /\ ran = <<>>
    BY <1>d, <1>f, <2>1 DEF DiskOK, Fresh, EffectsFit
  <2>3. ~grant[p]
    BY <2>1, <1>d DEF DiskOK
  <2>4. DiskOK(p)'
    BY <1>b, <1>g, <2>1, <2>2, <2>3 DEF DiskOK, Writing, RanUpTo
  <2> QED BY <1>b, <1>e, <1>f, <1>12, <2>1, <2>4
<1>2. ASSUME NEW p \in Procs, Alone(p), Load(p) PROVE SoloInv'
  <2>1. /\ pc' = [pc EXCEPT ![p] = "loaded"] /\ mem' = [mem EXCEPT ![p] = disk]
        /\ disk' = disk /\ ran' = ran
    BY <1>2 DEF Load, history
  <2>2. mem'[p] = disk /\ pc'[p] = "loaded"
    BY <1>a, <1>b, <2>1 DEF TypeOK, All
  <2>3. DiskOK(p)'
    BY <2>1, <2>2 DEF DiskOK, Writing
  <2> QED BY <1>b, <1>e, <1>f, <1>2, <2>1, <2>3
<1>3. ASSUME NEW p \in Procs, Alone(p), Deny(p) PROVE SoloInv'
  <2>1. /\ pc' = [pc EXCEPT ![p] = "saveStop"] /\ mem' = [mem EXCEPT ![p].status = "blocked"]
        /\ disk' = disk /\ ran' = ran /\ pc[p] = "loaded"
    BY <1>3 DEF Deny, history
  <2>2. mem'[p].cursor = mem[p].cursor /\ pc'[p] = "saveStop"
    BY <1>a, <1>b, <2>1 DEF TypeOK, All, Records
  <2>3. disk.status = "waiting_approval" /\ RanUpTo(mem[p].cursor)
    BY <1>d, <1>f, <2>1 DEF DiskOK, CopyOK, Matches, EffectsFit
  <2>4. DiskOK(p)'
    BY <2>1, <2>2, <2>3 DEF DiskOK, RanUpTo, Writing
  <2> QED BY <1>b, <1>e, <1>f, <1>3, <2>1, <2>4
<1>4. ASSUME NEW p \in Procs, Alone(p), Approve(p) PROVE SoloInv'
  <2>1. /\ pc' = [pc EXCEPT ![p] = "saveGo"]
        /\ mem' = [mem EXCEPT ![p].status = "running", ![p].pending = 0]
        /\ grant' = [grant EXCEPT ![p] = TRUE]
        /\ disk' = disk /\ ran' = ran /\ pc[p] = "loaded"
    BY <1>4 DEF Approve
  <2>2. mem'[p].cursor = mem[p].cursor /\ pc'[p] = "saveGo" /\ grant'[p]
    BY <1>a, <1>b, <2>1 DEF TypeOK, All, Records
  <2>3. disk.status = "waiting_approval" /\ RanUpTo(mem[p].cursor)
    BY <1>d, <1>f, <2>1 DEF DiskOK, CopyOK, Matches, EffectsFit
  <2>4. DiskOK(p)'
    BY <2>1, <2>2, <2>3 DEF DiskOK, RanUpTo, Writing
  <2> QED BY <1>b, <1>e, <1>f, <1>4, <2>1, <2>4
<1>5. ASSUME NEW p \in Procs, Alone(p), Truncate(p) PROVE SoloInv'
  <2>1. PICK at : /\ pc' = [pc EXCEPT ![p] = at]
                  /\ \/ pc[p] = "saveGo" /\ at = "writeGo"
                     \/ pc[p] = "saveStop" /\ at = "writeStop"
    BY <1>5, <1>d DEF Truncate, CopyOK, Matches
  <2>2. disk' = Empty /\ mem' = mem /\ ran' = ran
    BY <1>5 DEF Truncate, history
  <2>3. DiskOK(p)'
    BY <1>b, <1>d, <1>g, <2>1, <2>2 DEF DiskOK, RanUpTo
  <2> QED BY <1>b, <1>e, <1>f, <1>5, <2>1, <2>2, <2>3
<1>13. ASSUME NEW p \in Procs, Alone(p), Write(p) PROVE SoloInv'
  <2>1. PICK r, at : Saving(p, r, at)
    BY <1>a, <1>b, <1>13, SaveMoves
  <2>2. /\ pc[p] \in Writing /\ disk = Empty /\ disk' = mem[p]
        /\ ran' = ran /\ grant' = grant
    <3>1. pc[p] \in Writing /\ disk = Empty
      BY <1>13, <1>d DEF Write, DiskOK
    <3>2. disk.status = "empty"
      BY <3>1 DEF Empty, Fresh
    <3> QED BY <1>13, <3>1, <3>2 DEF Write, history
  <2>3. \/ pc[p] = "writeNew" /\ at = "created"
        \/ pc[p] = "writeGo" /\ at = "head" /\ mem'[p] = mem[p]
        \/ pc[p] = "writeStop" /\ at = "idle"
    BY <1>a, <1>b, <1>d, <2>1, <2>2 DEF Saving, CopyOK, Matches, Writing, TypeOK, All
  <2>4. pc' = [pc EXCEPT ![p] = at]
    BY <2>1 DEF Saving
  <2>5. DiskOK(p)'
    BY <1>b, <1>d, <1>g, <2>2, <2>3, <2>4 DEF DiskOK, CopyOK, Matches, Writing, RanUpTo
  <2>6. EffectsFit(disk)'
    BY <1>d, <2>2, <2>3 DEF DiskOK, CopyOK, Matches, EffectsFit, RanUpTo, Terminal, Fresh
  <2> QED BY <1>b, <1>e, <1>f, <1>13, <2>2, <2>4, <2>5, <2>6
<1>6. ASSUME NEW p \in Procs, Alone(p), Exhausted(p) \/ Crash(p) PROVE SoloInv'
  <2>1. /\ pc' = [pc EXCEPT ![p] = "idle"] /\ disk' \in {disk, Garbled} /\ ran' = ran
    BY <1>6 DEF Exhausted, Crash, history
  <2>2. DiskOK(p)'
    BY <1>b, <1>g, <2>1 DEF DiskOK, Writing
  <2> QED BY <1>b, <1>e, <1>f, <1>6, <2>1, <2>2
<1>7. ASSUME NEW p \in Procs, Alone(p), Dispatch(p) PROVE SoloInv'
  <2>1. PICK i \in Positions :
          LET call    == plan[i].call
              verdict == Verdict(call, spec.mode, spec.auto, grant[p])
          IN  /\ AtHead(p, i)
              /\ \E result \in ResultsOf(call, verdict, Evidence) :
                   reply' = [reply EXCEPT ![p] = result]
              /\ ran' = IF verdict = "runs" THEN Append(ran, i) ELSE ran
              /\ pc' = [pc EXCEPT ![p] = "returned"]
              /\ UNCHANGED <<disk, mem>>
    BY <1>7 DEF Dispatch
  <2> DEFINE verdict == Verdict(plan[i].call, spec.mode, spec.auto, grant[p])
  <2>2. reply'[p].asks /\ ~reply'[p].success => verdict # "runs"
    <3>1. plan[i].call \in Calls
      BY <1>a, InstructionTypes
    <3>2. PICK result \in ResultsOf(plan[i].call, verdict, Evidence) :
            reply' = [reply EXCEPT ![p] = result]
      BY <2>1
    <3> HIDE DEF verdict
    <3>3. reply'[p] = result
      BY <1>a, <3>2 DEF TypeOK
    <3> QED BY <3>1, <3>2, <3>3, ResultTypes, Assumptions
  <2>3. ran' = IF verdict = "runs" THEN Append(ran, i) ELSE ran
    BY <2>1
  <2> HIDE DEF verdict
  <2>4. /\ i = mem[p].cursor + 1 /\ RanUpTo(mem[p].cursor) /\ mem[p] = disk
        /\ disk.status = "running" /\ i \in Nat /\ ran \in Seq(Positions)
    BY <1>a, <1>d, <2>1, InstructionTypes DEF AtHead, DiskOK, CopyOK, Matches, TypeOK
  <2>5. RanUpTo(mem[p].cursor + 1)
    BY <1>a, <1>d, <2>4, RanUpToGrows
  <2>6. /\ RanUpTo(i)' /\ InOrderAtMostOnce'
        /\ verdict # "runs" => RanUpTo(mem[p].cursor)'
    <3>1. CASE verdict = "runs"
      <4>1. /\ Len(ran) \in Nat /\ DOMAIN ran' = 1..(Len(ran) + 1)
            /\ ran'[Len(ran) + 1] = i
            /\ \A k \in 1..Len(ran) : ran'[k] = ran[k] /\ ran[k] < i /\ ran[k] \in Nat
        <5>1. \A k \in DOMAIN ran : ran[k] \in Nat
          BY <2>4 DEF Positions
        <5> QED BY <1>d, <2>3, <2>4, <3>1, <5>1 DEF RanUpTo
      <4>2. RanUpTo(i)'
        BY <2>4, <4>1 DEF RanUpTo
      <4>3. InOrderAtMostOnce'
        <5>1. \A k, l \in 1..Len(ran) : k < l => ran[k] < ran[l]
          BY <2>4 DEF SoloInv, InOrderAtMostOnce
        <5> QED BY <4>1, <5>1 DEF InOrderAtMostOnce
      <4> QED BY <3>1, <4>2, <4>3
    <3>2. CASE verdict # "runs"
      BY <2>1, <2>3, <2>4, <2>5, <3>2 DEF RanUpTo, InOrderAtMostOnce, SoloInv
    <3> QED BY <3>1, <3>2
  <2>7. DiskOK(p)'
    <3>1. pc'[p] = "returned" /\ disk' = disk /\ mem' = mem
      BY <1>b, <1>7, <2>1, AloneStays
    <3>2. RanUpTo(mem[p].cursor + 1)'
      BY <2>4, <2>6, <3>1 DEF RanUpTo
    <3>3. reply'[p].asks /\ ~reply'[p].success => RanUpTo(mem[p].cursor)'
      BY <2>2, <2>6
    <3> QED BY <2>4, <3>1, <3>2, <3>3 DEF DiskOK, Writing
  <2>8. EffectsFit(disk)'
    BY <2>1, <2>4 DEF EffectsFit
  <2> QED BY <1>b, <1>e, <1>7, <2>1, <2>6, <2>7, <2>8
<1>8. ASSUME NEW p \in Procs, Alone(p), Executed(p) PROVE SoloInv'
  <2>1. PICK rec \in Records :
          /\ Concluded(p, rec)
          /\ rec.cursor >= mem[p].cursor
          /\ pc[p] = "returned" =>
               \/ rec.cursor = mem[p].cursor + 1
               \/ reply[p].asks /\ ~reply[p].success
    BY <1>8 DEF Executed
  <2>2. /\ pc[p] \in {"head", "returned"} /\ disk' = disk /\ ran' = ran
        /\ disk.status = "running" /\ rec.cursor \in Nat /\ mem' = [mem EXCEPT ![p] = rec]
    <3>1. /\ pc[p] \in {"head", "returned"} /\ disk' = disk /\ ran' = ran
          /\ mem' = [mem EXCEPT ![p] = rec]
      BY <1>8, <2>1 DEF Executed, Concluded, history
    <3>2. disk.status = "running"
      BY <1>d, <3>1 DEF DiskOK, CopyOK, Matches
    <3>3. rec.cursor \in Nat
      BY <1>a DEF Records
    <3> QED BY <3>1, <3>2, <3>3
  <2>3. RanUpTo(rec.cursor)
    <3>1. CASE pc[p] = "head"
      BY <1>a, <1>d, <2>1, <2>2, <3>1, RanUpToGrows DEF DiskOK
    <3>2. CASE pc[p] = "returned" /\ rec.cursor = mem[p].cursor + 1
      BY <1>d, <3>2 DEF DiskOK
    <3>3. CASE pc[p] = "returned" /\ reply[p].asks /\ ~reply[p].success
      BY <1>a, <1>d, <2>1, <2>2, <3>3, RanUpToGrows DEF DiskOK
    <3> QED BY <2>1, <2>2, <3>1, <3>2, <3>3
  <2>4. PICK at \in {"saveGo", "saveStop"} : pc' = [pc EXCEPT ![p] = at]
    BY <2>1 DEF Concluded
  <2>5. mem'[p] = rec /\ pc'[p] = at
    BY <1>a, <1>b, <2>2, <2>4 DEF TypeOK, All
  <2>6. DiskOK(p)'
    BY <2>2, <2>3, <2>4, <2>5 DEF DiskOK, RanUpTo, Writing
  <2> QED BY <1>b, <1>e, <1>f, <1>8, <2>2, <2>4, <2>6
<1>9. ASSUME NEW c \in Clients, Alone(c), LoadOutcome(c) PROVE SoloInv'
  <2>1. /\ pc' = [pc EXCEPT ![c] = "saveOutcome"]
        /\ mem' = [mem EXCEPT ![c] = [disk EXCEPT !.aci = @ + 1]]
        /\ disk' = disk /\ ran' = ran /\ disk.status \in Statuses
    BY <1>9 DEF LoadOutcome, history
  <2>2. ClientOK(c)'
    BY <1>a, <1>c, <2>1 DEF ClientOK, TypeOK, All
  <2> QED BY <1>c, <1>e, <1>f, <1>9, <2>1, <2>2
<1>10. ASSUME NEW c \in Clients, Alone(c), Truncate(c) PROVE SoloInv'
  <2>1. /\ pc[c] = "saveOutcome" /\ pc' = [pc EXCEPT ![c] = "writeOutcome"]
        /\ disk' = Empty /\ mem' = mem /\ ran' = ran
        /\ disk.status \in Statuses /\ mem[c] = [disk EXCEPT !.aci = @ + 1]
    BY <1>10 DEF Truncate, history, SoloInv, ClientOK
  <2>2. mem[c].status = disk.status /\ mem[c].cursor = disk.cursor
    BY <1>a, <2>1 DEF TypeOK, Records
  <2>3. ClientOK(c)'
    BY <1>c, <1>f, <1>g, <2>1, <2>2 DEF ClientOK, EffectsFit, RanUpTo
  <2> QED BY <1>c, <1>e, <1>f, <1>10, <2>1, <2>3
<1>11. ASSUME NEW c \in Clients, Alone(c), Write(c) PROVE SoloInv'
  <2>1. pc[c] = "writeOutcome" /\ disk = Empty /\ EffectsFit(mem[c])
    BY <1>11 DEF Write, Writing, SoloInv, ClientOK
  <2>2. /\ pc' = [pc EXCEPT ![c] = "idle"] /\ ran' = ran /\ disk' = mem[c]
    <3>1. disk.status = "empty"
      BY <2>1 DEF Empty, Fresh
    <3> QED BY <1>11, <2>1, <3>1 DEF Write, Writing, history
  <2>3. ClientOK(c)'
    BY <1>c, <1>g, <2>2 DEF ClientOK
  <2>4. EffectsFit(disk)'
    BY <2>1, <2>2 DEF EffectsFit, RanUpTo
  <2> QED BY <1>c, <1>e, <1>f, <1>11, <2>2, <2>3, <2>4
<1>14. ASSUME NEW c \in Clients, Alone(c), Crash(c) PROVE SoloInv'
  <2>1. /\ pc' = [pc EXCEPT ![c] = "idle"] /\ disk' \in {disk, Garbled} /\ ran' = ran
    BY <1>14 DEF Crash
  <2>2. ClientOK(c)'
    BY <1>c, <1>g, <2>1 DEF ClientOK
  <2> QED BY <1>c, <1>e, <1>f, <1>14, <2>1, <2>2
<1>15. ASSUME NEW p \in Procs, Alone(p), Step(p) PROVE SoloInv'
  <2>1. reply[p] \in Results /\ mem[p].cursor <= mem[p].step
    BY <1>a, <1>b DEF TypeOK, SharedInv, RecordOK
  <2> QED BY <1>a, <1>d, <1>1, <1>2, <1>3, <1>4, <1>5, <1>6, <1>7, <1>8, <1>12, <1>13, <1>15,
             <2>1, WorkExecutes
          DEF Step, Work
<1> QED BY <1>9, <1>10, <1>11, <1>14, <1>15 DEF SoloNext, Submit

\* One process at a time, handlers run in plan order and none runs twice, also after a crash
\* between an effect and its save, an approval that was given again, or a lost process.
THEOREM SoloInOrder == SoloSpec => []InOrderAtMostOnce
<1>1. SoloInv /\ [SoloNext]_vars => SoloInv'
  BY SoloStutter, SoloStep
<1>2. SoloInv => InOrderAtMostOnce
  BY DEF SoloInv
<1> QED BY <1>1, <1>2, SoloInit, PTL DEF SoloSpec

\* The pending approval of a waiting run is the instruction resume will execute, and that
\* instruction has had no effect yet.
THEOREM SoloPending == SoloSpec => []PendingNamesNext
<1>1. SoloInv /\ [SoloNext]_vars => SoloInv'
  BY SoloStutter, SoloStep
<1>2. SoloInv => PendingNamesNext
  <2> SUFFICES ASSUME SoloInv, disk.status = "waiting_approval", disk.pending # 0
               PROVE  /\ disk.pending = disk.cursor + 1 /\ disk.pending = disk.step
                      /\ \A k \in DOMAIN ran : ran[k] < disk.pending
    BY DEF PendingNamesNext
  <2>1. disk.pending = disk.cursor + 1 /\ disk.pending = disk.step
    BY DEF SoloInv, SharedInv, RecordOK
  <2>2. /\ \A k \in DOMAIN ran : ran[k] <= disk.cursor /\ ran[k] \in Nat
        /\ disk.cursor \in Nat
    BY DEF SoloInv, SharedInv, TypeOK, EffectsFit, RanUpTo, Records, Positions
  <2> QED BY <2>1, <2>2
<1> QED BY <1>1, <1>2, SoloInit, PTL DEF SoloSpec

-----------------------------------------------------------------------------
(* What is kept of the run while one process at a time works on it. *)

\* The file, or the copy that q is writing.
HeldBy(q) == IF pc[q] \in Writing THEN mem[q] ELSE disk

\* While q works alone nobody else can be inside a save, before and after its step.
LEMMA AloneHolds ==
  ASSUME TypeOK, NEW q \in All, Alone(q), NEW at, pc' = [pc EXCEPT ![q] = at]
  PROVE  /\ Kept = HeldBy(q)
         /\ Kept' = IF at \in Writing THEN mem'[q] ELSE disk'
<1>1. /\ pc'[q] = at
      /\ \A x \in All : x # q => pc[x] = "idle" /\ pc'[x] = "idle"
  BY DEF TypeOK, Alone, All
<1>2. "idle" \notin Writing
  BY DEF Writing
<1>3. /\ Writers = IF pc[q] \in Writing THEN {q} ELSE {}
      /\ Writers' = IF at \in Writing THEN {q} ELSE {}
  BY <1>1, <1>2 DEF Writers, All
<1>4. (CHOOSE x \in {q} : TRUE) = q
  OBVIOUS
<1>5. Kept = HeldBy(q)
  BY <1>3, <1>4 DEF Kept, HeldBy
<1>6. Kept' = IF at \in Writing THEN mem'[q] ELSE disk'
  BY <1>3, <1>4 DEF Kept
<1> QED BY <1>5, <1>6

\* A client that records an outcome keeps everything but the outcomes, unless it dies in the
\* middle of its save.
LEMMA OutcomeKeeps ==
  ASSUME SoloInv, NEW c \in Clients, Alone(c), Submit(c)
  PROVE  /\ \E at : pc' = [pc EXCEPT ![c] = at]
         /\ UNCHANGED <<spec, grant, ran, replay>>
         /\ \A p \in Procs : pc[p] = "idle" /\ pc'[p] = "idle"
         /\ \/ ~Crash(c) /\ crashed' = crashed
               /\ Kept'.status = Kept.status /\ Kept'.step = Kept.step
            \/ /\ Crash(c) /\ crashed' = TRUE /\ Kept.status \in Statuses
               /\ Kept' = Kept \/ Kept'.status \in Torn
<1>a. /\ TypeOK /\ c \in All /\ ClientOK(c) /\ disk \in Records /\ mem \in [All -> Records]
      /\ mem[c] \in Records /\ pc \in [All -> PCs]
  BY DEF SoloInv, SharedInv, TypeOK, All
<1>b. Empty.status = "empty" /\ Garbled.status = "garbled" /\ "idle" \notin Writing
      /\ "saveOutcome" \notin Writing /\ "writeOutcome" \in Writing
      /\ Empty.status \in Torn /\ Garbled.status \in Torn
  BY DEF Empty, Garbled, Fresh, Writing, Torn
<1>c. \A p \in Procs : p \in All /\ p # c /\ pc[p] = "idle"
  BY Assumptions DEF Alone, All
<1>d. ASSUME NEW at, pc' = [pc EXCEPT ![c] = at]
      PROVE  /\ Kept = HeldBy(c) /\ Kept' = IF at \in Writing THEN mem'[c] ELSE disk'
             /\ \A p \in Procs : pc[p] = "idle" /\ pc'[p] = "idle"
  BY <1>a, <1>c, <1>d, AloneHolds
<1>1. CASE LoadOutcome(c)
  <2>1. /\ pc' = [pc EXCEPT ![c] = "saveOutcome"] /\ disk' = disk /\ pc[c] = "idle"
        /\ UNCHANGED <<spec, grant, ran, replay, crashed>>
    BY <1>1 DEF LoadOutcome, history
  <2>2. ~Crash(c)
    BY <2>1 DEF Crash
  <2> QED BY <1>b, <1>d, <2>1, <2>2 DEF HeldBy
<1>2. CASE Truncate(c)
  <2>1. /\ pc[c] = "saveOutcome" /\ pc' = [pc EXCEPT ![c] = "writeOutcome"] /\ mem' = mem
        /\ mem[c] = [disk EXCEPT !.aci = @ + 1]
        /\ UNCHANGED <<spec, grant, ran, replay, crashed>>
    BY <1>2, <1>a DEF Truncate, ClientOK, history
  <2>2. mem[c].status = disk.status /\ mem[c].step = disk.step
    BY <1>a, <2>1 DEF Records
  <2>3. ~Crash(c)
    <3>1. pc'[c] = "writeOutcome"
      BY <1>a, <2>1
    <3>2. Crash(c) => pc'[c] = "idle"
      BY <1>a DEF Crash
    <3> QED BY <3>1, <3>2
  <2> QED BY <1>b, <1>d, <2>1, <2>2, <2>3 DEF HeldBy
<1>3. CASE Write(c)
  <2>1. pc[c] = "writeOutcome" /\ disk = Empty
    BY <1>3, <1>a DEF Write, Writing, ClientOK
  <2>2. /\ pc' = [pc EXCEPT ![c] = "idle"] /\ disk' = mem[c]
        /\ UNCHANGED <<spec, grant, ran, replay, crashed>>
    BY <1>3, <1>b, <2>1 DEF Write, Writing, history
  <2>3. Kept = mem[c] /\ Kept' = mem[c]
    BY <1>b, <1>d, <2>1, <2>2 DEF HeldBy
  <2>4. ~Crash(c)
    <3>1. mem[c].status \in Statuses
      BY <1>a, <2>1 DEF ClientOK
    <3>2. Crash(c) => disk' \in {Empty, Garbled}
      BY <2>1 DEF Crash
    <3> QED BY <1>b, <2>2, <3>1, <3>2 DEF Statuses
  <2> QED BY <1>d, <2>2, <2>3, <2>4
<1>4. CASE Crash(c)
  <2>1. /\ pc[c] \in {"saveOutcome", "writeOutcome"} /\ pc' = [pc EXCEPT ![c] = "idle"]
        /\ disk' = disk \/ (pc[c] \in Writing /\ disk' = Garbled)
        /\ UNCHANGED <<spec, grant, ran, replay>> /\ crashed' = TRUE
    BY <1>4, <1>a DEF Crash, ClientOK
  <2>2. Kept' = disk' /\ Kept = HeldBy(c)
    BY <1>b, <1>d, <2>1
  <2>3. CASE pc[c] = "saveOutcome"
    BY <1>4, <1>a, <1>b, <1>d, <2>1, <2>2, <2>3 DEF HeldBy, ClientOK
  <2>4. CASE pc[c] = "writeOutcome"
    BY <1>4, <1>a, <1>b, <1>d, <2>1, <2>2, <2>4 DEF HeldBy, ClientOK
  <2> QED BY <2>1, <2>3, <2>4
<1> QED BY <1>1, <1>2, <1>3, <1>4 DEF Submit

\* A step of p moves p's place and nobody else's.
LEMMA StepMoves ==
  ASSUME SoloInv, NEW p \in Procs, Step(p)
  PROVE  \E at \in PCs : pc' = [pc EXCEPT ![p] = at]
<1>1. /\ TypeOK /\ IsSpec(spec) /\ mem[p] \in Records /\ reply[p] \in Results /\ CopyOK(p)
      /\ mem[p].cursor <= mem[p].step /\ p \in All
  BY DEF SoloInv, SharedInv, TypeOK, RecordOK, All
<1>2. CASE Create(p) \/ Load(p) \/ Begin(p) \/ Deny(p) \/ Approve(p) \/ Exhausted(p)
  BY <1>2 DEF Create, Load, Begin, Deny, Approve, Exhausted, PCs, Writing
<1>3. CASE Dispatch(p) \/ Crash(p)
  BY <1>3 DEF Dispatch, Crash, PCs
<1>4. CASE Truncate(p) \/ Write(p)
  BY <1>1, <1>4, SaveMoves DEF Saving, PCs, Writing
<1>5. CASE Executed(p)
  BY <1>5 DEF Executed, Concluded, PCs
<1> QED BY <1>1, <1>2, <1>3, <1>4, <1>5, WorkExecutes DEF Step, Work

\* A process of run or resume works on a record that is neither finished nor torn until it
\* saves the end.
LEMMA BusyHolds ==
  ASSUME SoloInv, NEW p \in Procs, Alone(p), NEW at, pc' = [pc EXCEPT ![p] = at]
  PROVE  /\ Kept = HeldBy(p) /\ Kept' = IF at \in Writing THEN mem'[p] ELSE disk'
         /\ pc[p] = "idle" => Kept = disk
         /\ pc[p] \notin {"idle", "writeStop"} =>
              Kept.status \in {"pending", "running", "waiting_approval"}
         /\ pc[p] = "writeStop" => Kept.status \in Terminal \cup {"waiting_approval"}
<1>1. p \in All /\ TypeOK /\ DiskOK(p) /\ CopyOK(p) /\ pc[p] \in PCs
  BY DEF SoloInv, SharedInv, TypeOK, All
<1>2. Kept = HeldBy(p) /\ Kept' = IF at \in Writing THEN mem'[p] ELSE disk'
  BY <1>1, AloneHolds
<1>3. pc[p] = "idle" => Kept = disk
  BY <1>2 DEF HeldBy, Writing
<1>4. Fresh.status = "pending"
  BY DEF Fresh
<1>5. pc[p] \in Writing => Kept = mem[p]
  BY <1>2 DEF HeldBy
<1>6. pc[p] \notin Writing => Kept = disk
  BY <1>2 DEF HeldBy
<1>7. CASE pc[p] \in {"writeNew", "writeGo", "writeStop"}
  BY <1>1, <1>2, <1>4, <1>5, <1>7 DEF CopyOK, Matches, Writing
<1>8. CASE pc[p] \notin Writing
  BY <1>1, <1>2, <1>3, <1>4, <1>6, <1>8 DEF DiskOK, CopyOK, Matches, PCs, Writing
<1>9. pc[p] # "writeOutcome"
  BY <1>1 DEF CopyOK, Matches
<1> QED BY <1>7, <1>8, <1>9 DEF Writing

\* One process at a time, what is kept of a finished run keeps its status through every later
\* save, unless a process dies inside the save; and a destroyed record stays destroyed.
THEOREM SoloTerminal == SoloSpec => TerminalIsFinal
<1>1. SoloInv /\ [SoloNext]_vars => SoloInv'
  BY SoloStutter, SoloStep
<1> DEFINE Kind == /\ Kept.status \in Terminal =>
                        Kept'.status = Kept.status \/ (Kept'.status \in Torn /\ crashed')
                   /\ Kept.status \in Torn => Kept'.status \in Torn
<1>2. ASSUME SoloInv, SoloNext PROVE Kind
  <2>1. ASSUME NEW p \in Procs, Alone(p), Step(p) PROVE Kind
    <3>1. CASE pc[p] = "idle"
      <4>1. \/ Create(p) /\ pc' = [pc EXCEPT ![p] = "writeNew"] /\ disk.status = "absent"
            \/ Load(p) /\ pc' = [pc EXCEPT ![p] = "loaded"] /\ disk.status = "waiting_approval"
        <5>1. ~Work(p) /\ ~Crash(p)
          BY <3>1 DEF Work, Begin, Deny, Approve, Truncate, Write, Writing, Exhausted, OverBudget,
                      Refuse, Dispatch, Await, Settle, Handle, Apply, Measure, Halt, AtHead, Crash
        <5> QED BY <2>1, <5>1 DEF Step, Create, Load
      <4>2. Kept.status \in {"absent", "waiting_approval"}
        BY <1>2, <2>1, <3>1, <4>1, BusyHolds
      <4> QED BY <4>2 DEF Terminal, Torn
    <3>2. CASE pc[p] = "writeStop"
      <4>1. /\ pc' = [pc EXCEPT ![p] = "idle"]
            /\ Write(p) \/ Crash(p)
        BY <2>1, <3>2 DEF Step, Work, Create, Load, Begin, Deny, Approve, Truncate, Write,
                      Exhausted, OverBudget, Refuse, Dispatch, Await, Settle, Handle, Apply,
                      Measure, Halt, AtHead, Crash
      <4>2. /\ Kept = mem[p] /\ Kept' = disk' /\ disk = Empty
            /\ Kept.status \in Terminal \cup {"waiting_approval"}
        <5>a. PICK at : pc' = [pc EXCEPT ![p] = at] /\ at = "idle"
          BY <4>1
        <5>b. /\ Kept = HeldBy(p) /\ Kept' = IF at \in Writing THEN mem'[p] ELSE disk'
              /\ pc[p] = "writeStop" => Kept.status \in Terminal \cup {"waiting_approval"}
          BY <1>2, <2>1, <5>a, BusyHolds
        <5>1. /\ Kept = HeldBy(p) /\ Kept' = disk'
              /\ Kept.status \in Terminal \cup {"waiting_approval"}
          BY <3>2, <5>a, <5>b DEF Writing
        <5>2. DiskOK(p)
          BY <1>2 DEF SoloInv
        <5> QED BY <3>2, <5>1, <5>2 DEF HeldBy, Writing, DiskOK
      <4>3. Empty.status = "empty" /\ Garbled.status = "garbled"
        BY DEF Empty, Garbled, Fresh
      <4>4. disk' = mem[p] \/ (disk'.status \in Torn /\ crashed')
        BY <4>1, <4>2, <4>3 DEF Write, Crash, Torn
      <4> QED BY <4>2, <4>4 DEF Terminal, Torn
    <3>3. CASE pc[p] \notin {"idle", "writeStop"}
      <4>2. PICK at : pc' = [pc EXCEPT ![p] = at]
        BY <1>2, <2>1, StepMoves
      <4>3. Kept.status \in {"pending", "running", "waiting_approval"}
        BY <1>2, <2>1, <3>3, <4>2, BusyHolds
      <4> QED BY <4>3 DEF Terminal, Torn
    <3> QED BY <3>1, <3>2, <3>3
  <2>2. ASSUME NEW c \in Clients, Alone(c), Submit(c) PROVE Kind
    <3>1. \/ Kept'.status = Kept.status
          \/ crashed' /\ Kept.status \in Statuses /\ (Kept' = Kept \/ Kept'.status \in Torn)
      BY <1>2, <2>2, OutcomeKeeps
    <3> QED BY <3>1 DEF Statuses, Torn
  <2> QED BY <1>2, <2>1, <2>2 DEF SoloNext
<1>3. SoloInv /\ [SoloNext]_vars => [Kind]_vars
  BY <1>2
<1> QED BY <1>1, <1>3, SoloInit, PTL DEF SoloSpec, TerminalIsFinal

-----------------------------------------------------------------------------
(* What the trace says of the record. *)

\* A process that is about to save and leave has traced the state it saves; when nobody
\* works on a run that waits or is over, and nobody died, the trace tells its state.
TraceOK ==
  /\ \A p \in Procs : pc[p] \in {"saveStop", "writeStop"} =>
       replay = [status |-> mem[p].status, step |-> mem[p].step]
  /\ /\ \A q \in Procs : pc[q] \in {"idle", "loaded"}
     /\ Kept.status \in Terminal \cup {"waiting_approval"}
     /\ ~crashed
     => replay = [status |-> Kept.status, step |-> Kept.step]

LEMMA TraceStep ==
  ASSUME SoloInv, TraceOK, SoloNext
  PROVE  TraceOK'
<1>a. /\ SharedInv /\ TypeOK /\ IsSpec(spec)
      /\ mem \in [All -> Records] /\ pc \in [All -> PCs] /\ disk \in Records
  BY DEF SoloInv, SharedInv, TypeOK, All
<1>b. \A p \in Procs : /\ p \in All /\ mem[p] \in Records /\ CopyOK(p) /\ DiskOK(p)
                       /\ reply[p] \in Results /\ mem[p].cursor <= mem[p].step
  BY <1>a DEF SoloInv, SharedInv, TypeOK, RecordOK, All
<1>c. ASSUME NEW p \in Procs, Alone(p), NEW r, NEW at,
             mem' = [mem EXCEPT ![p] = r], pc' = [pc EXCEPT ![p] = at],
             at \in {"saveStop", "writeStop"} =>
               replay' = [status |-> r.status, step |-> r.step],
             /\ at \in {"idle", "loaded"}
             /\ disk'.status \in Terminal \cup {"waiting_approval"}
             /\ ~crashed'
             => replay' = [status |-> disk'.status, step |-> disk'.step]
      PROVE  TraceOK'
  <2>1. /\ mem'[p] = r /\ pc'[p] = at
        /\ \A q \in Procs : q # p => pc'[q] = "idle"
    BY <1>a, <1>b, <1>c DEF Alone, All
  <2>2. at \in {"idle", "loaded"} => Kept' = disk'
    BY <1>b, <1>c, BusyHolds DEF Writing
  <2> QED BY <1>c, <2>1, <2>2 DEF TraceOK
<1>1. ASSUME NEW p \in Procs, Alone(p), Create(p) \/ Begin(p) \/ Approve(p) \/ Dispatch(p)
      PROVE  TraceOK'
  <2>1. PICK at \in {"writeNew", "saveGo", "returned"} : pc' = [pc EXCEPT ![p] = at]
    BY <1>1 DEF Create, Begin, Approve, Dispatch
  <2>2. \E r : mem' = [mem EXCEPT ![p] = r]
    <3>1. CASE Create(p)  BY <3>1 DEF Create
    <3>2. CASE Approve(p)
      <4>1. mem' = [mem EXCEPT ![p] = [mem[p] EXCEPT !.status = "running", !.pending = 0]]
        BY <1>a, <1>b, <3>2 DEF Approve
      <4> QED BY <4>1
    <3>3. CASE Dispatch(p)
      <4>1. mem' = [mem EXCEPT ![p] = mem[p]]
        BY <1>a, <3>3 DEF Dispatch
      <4> QED BY <4>1
    <3>4. CASE Begin(p)
      <4>1. mem' = [mem EXCEPT ![p] = [mem[p] EXCEPT !.status = "running"]]
        BY <1>a, <1>b, <3>4 DEF Begin
      <4> QED BY <4>1
    <3> QED BY <1>1, <3>1, <3>2, <3>3, <3>4
  <2> QED BY <1>1, <1>c, <2>1, <2>2
<1>2. ASSUME NEW p \in Procs, Alone(p), Load(p) PROVE TraceOK'
  <2>1. /\ \A q \in Procs : pc[q] = "idle"
        /\ mem' = [mem EXCEPT ![p] = disk] /\ pc' = [pc EXCEPT ![p] = "loaded"]
        /\ disk' = disk /\ replay' = replay /\ crashed' = crashed
    BY <1>2 DEF Load, Alone, history
  <2>2. Kept = disk
    BY <1>2, <2>1, BusyHolds
  <2> QED BY <1>2, <1>c, <2>1, <2>2 DEF TraceOK
<1>3. ASSUME NEW p \in Procs, Alone(p), Deny(p) PROVE TraceOK'
  <2> DEFINE rec == [mem[p] EXCEPT !.status = "blocked"]
  <2>1. /\ mem' = [mem EXCEPT ![p] = rec] /\ pc' = [pc EXCEPT ![p] = "saveStop"]
        /\ replay' = [status |-> "blocked", step |-> mem[p].step]
    BY <1>a, <1>b, <1>3 DEF Deny
  <2>2. rec.status = "blocked" /\ rec.step = mem[p].step
    BY <1>b DEF Records
  <2> HIDE DEF rec
  <2> QED BY <1>3, <1>c, <2>1, <2>2
<1>4. ASSUME NEW p \in Procs, Alone(p), Truncate(p) \/ Write(p) PROVE TraceOK'
  <2>1. PICK r, at : Saving(p, r, at)
    BY <1>a, <1>b, <1>4, SaveMoves
  <2>2. /\ mem' = [mem EXCEPT ![p] = r] /\ pc' = [pc EXCEPT ![p] = at] /\ replay' = replay
        /\ at \notin {"saveStop", "loaded"}
        /\ at = "writeStop" => pc[p] = "saveStop" /\ r = mem[p]
        /\ at = "idle" => pc[p] = "writeStop" /\ disk' \in {mem[p], Garbled}
    BY <1>b, <2>1 DEF Saving, CopyOK, Matches
  <2>3. at = "writeStop" => replay' = [status |-> r.status, step |-> r.step]
    BY <2>2 DEF TraceOK
  <2>4. Garbled.status \notin Terminal \cup {"waiting_approval"}
    BY DEF Garbled, Fresh, Terminal
  <2>5. at = "idle" /\ disk'.status \in Terminal \cup {"waiting_approval"} =>
          replay' = [status |-> disk'.status, step |-> disk'.step]
    BY <2>2, <2>4 DEF TraceOK
  <2> QED BY <1>4, <1>c, <2>2, <2>3, <2>5
<1>5. ASSUME NEW p \in Procs, Alone(p), Exhausted(p) PROVE TraceOK'
  <2>1. /\ disk' = disk /\ mem' = [mem EXCEPT ![p] = Absent] /\ pc' = [pc EXCEPT ![p] = "idle"]
        /\ pc[p] = "head"
    BY <1>5 DEF Exhausted
  <2>2. disk.status = "running"
    BY <1>b, <2>1 DEF DiskOK, CopyOK, Matches
  <2> QED BY <1>5, <1>c, <2>1, <2>2 DEF Terminal
<1>6. ASSUME NEW p \in Procs, Alone(p), Executed(p) PROVE TraceOK'
  <2>1. PICK rec \in Records : Concluded(p, rec)
    BY <1>6 DEF Executed
  <2>2. PICK at \in {"saveGo", "saveStop"} :
          /\ pc' = [pc EXCEPT ![p] = at]
          /\ at = "saveStop" => replay' = [status |-> rec.status, step |-> rec.step]
    BY <2>1 DEF Concluded
  <2>3. mem' = [mem EXCEPT ![p] = rec]
    BY <2>1 DEF Concluded
  <2> QED BY <1>6, <1>c, <2>2, <2>3
<1>7. ASSUME NEW p \in Procs, Alone(p), Crash(p) PROVE TraceOK'
  <2>1. /\ mem' = [mem EXCEPT ![p] = Absent] /\ pc' = [pc EXCEPT ![p] = "idle"] /\ crashed'
    BY <1>7 DEF Crash
  <2> QED BY <1>7, <1>c, <2>1
<1>8. ASSUME NEW c \in Clients, Alone(c), Submit(c) PROVE TraceOK'
  <2>1. /\ \A q \in Procs : pc[q] = "idle" /\ pc'[q] = "idle"
        /\ replay' = replay
        /\ ~crashed' => /\ Kept'.status = Kept.status /\ Kept'.step = Kept.step
                        /\ crashed' = crashed
    BY <1>8, OutcomeKeeps
  <2> QED BY <2>1 DEF TraceOK
<1>9. ASSUME NEW p \in Procs, Alone(p), Step(p) PROVE TraceOK'
  BY <1>a, <1>b, <1>1, <1>2, <1>3, <1>4, <1>5, <1>6, <1>7, <1>9, WorkExecutes DEF Step, Work
<1> QED BY <1>8, <1>9 DEF SoloNext

\* One process at a time, replaying the trace of a run that waits or is over gives its saved
\* status and step, unless a process died between tracing a transition and saving it.
THEOREM SoloReplayAgrees == SoloSpec => []ReplayAgrees
<1>1. Init => TraceOK
  <2> SUFFICES ASSUME Init PROVE TraceOK
    OBVIOUS
  <2>1. Writers = {} /\ disk.status = "absent" /\ \A p \in Procs : pc[p] = "idle"
    BY DEF Init, Writers, Writing, Absent, Fresh
  <2> QED BY <2>1 DEF TraceOK, Kept, Terminal
<1>2. SoloInv /\ TraceOK /\ [SoloNext]_vars => SoloInv' /\ TraceOK'
  <2>1. TraceOK /\ UNCHANGED vars => TraceOK'
    BY DEF TraceOK, Kept, Writers, vars
  <2> QED BY <2>1, SoloStutter, SoloStep, TraceStep
<1>3. TraceOK => ReplayAgrees
  <2> SUFFICES ASSUME TraceOK, \A p \in Procs \cup Clients : pc[p] = "idle"
               PROVE  ReplayAgrees
    BY DEF ReplayAgrees
  <2>1. Writers = {}
    BY DEF Writers, Writing
  <2> QED BY <2>1 DEF TraceOK, ReplayAgrees, Kept
<1> QED BY <1>1, <1>2, <1>3, SoloInit, PTL DEF SoloSpec

-----------------------------------------------------------------------------
(***************************************************************************)
(* The refinement mapping at the end of KernelRun takes initial states of  *)
(* KernelRun to initial states of GovernedRun and every step to a step of  *)
(* it or a stutter.                                                        *)
(*                                                                         *)
(* The mapped phase and leave quantify over the processes.  While only p   *)
(* is at work they depend on the saved status, on where p is and on its    *)
(* grant alone; PhaseAt and LeaveAt say how.                               *)
(***************************************************************************)

\* The value KernelRun maps `leave' to.
Leave == Phase = "live" /\ \E p \in Procs : pc[p] # "idle" /\ grant[p]

PhaseAt(status, at) ==
  IF status = "absent" THEN "unborn"
  ELSE IF status = "waiting_approval" THEN "asking"
  ELSE IF status \in Terminal THEN "over"
  ELSE IF status \in Torn \/ at \in {"idle", "loaded"} THEN "lost"
  ELSE IF status = "pending" THEN "unborn"
  ELSE "live"

LeaveAt(status, at, granted) == PhaseAt(status, at) = "live" /\ granted

\* What p's next state means abstractly, when p alone moves and its pc becomes `at'.
MapsTo(p, at) ==
  /\ Phase = PhaseAt(Kept.status, pc[p])
  /\ Leave = LeaveAt(Kept.status, pc[p], grant[p])
  /\ Phase' = PhaseAt(Kept'.status, at)
  /\ Leave' = LeaveAt(Kept'.status, at, grant'[p])

\* A step that GovernedRun allows or does not notice.
Allows == Governed!Next \/ UNCHANGED Governed!vars

\* With everybody else idle the mapped state is a function of p's own place and grant.
LEMMA AloneMaps ==
  ASSUME SoloInv, NEW p \in Procs, Alone(p), NEW at \in PCs, pc' = [pc EXCEPT ![p] = at]
  PROVE  MapsTo(p, at)
<1>1. /\ pc'[p] = at
      /\ \A q \in Procs : q # p => pc[q] = "idle" /\ pc'[q] = "idle"
  BY DEF SoloInv, SharedInv, TypeOK, Alone
<1>2. (Executing <=> pc[p] \notin {"idle", "loaded"})
      /\ (Executing' <=> at \notin {"idle", "loaded"})
  BY <1>1 DEF Executing
<1>3. Phase = PhaseAt(Kept.status, pc[p]) /\ Phase' = PhaseAt(Kept'.status, at)
  BY <1>2 DEF Phase, PhaseAt
<1>4. PhaseAt(Kept.status, pc[p]) = "live" => pc[p] # "idle"
  BY DEF PhaseAt
<1>5. PhaseAt(Kept'.status, at) = "live" => at # "idle"
  BY DEF PhaseAt
<1>6. Leave <=> LeaveAt(Kept.status, pc[p], grant[p])
  <2> HIDE DEF PhaseAt
  <2> QED BY <1>1, <1>3, <1>4 DEF Leave, LeaveAt
<1>7. Leave' <=> LeaveAt(Kept'.status, at, grant'[p])
  <2> HIDE DEF PhaseAt
  <2> QED BY <1>1, <1>3, <1>5 DEF Leave, LeaveAt
<1> QED BY <1>3, <1>6, <1>7 DEF MapsTo, Leave, LeaveAt

\* A step that leaves the mapped phase, the leave and the effects alone is a stutter.
LEMMA Unnoticed ==
  ASSUME spec' = spec, ran' = ran, crashed' = crashed, Phase' = Phase, Leave' = Leave
  PROVE  Allows
<1>1. Gated' = Gated
  BY DEF Gated, Positions, plan
<1> QED BY <1>1 DEF Allows, Governed!vars, Leave

\* Before the run exists nothing has been performed and no leave is given.
LEMMA GovernedInit == Init => Governed!Init
<1> SUFFICES ASSUME Init PROVE Governed!Init
  OBVIOUS
<1>1. IsSpec(spec)
  BY Assumptions DEF Init
<1>2. spec.max \in Nat /\ Gated \in SUBSET Nat
  BY <1>1 DEF IsSpec, Gated, Positions, plan
<1>3. Writers = {} /\ disk.status = "absent" /\ ran = <<>> /\ crashed = FALSE
  BY DEF Init, Writers, Writing, Absent, Fresh
<1>4. Phase = "unborn"
  BY <1>3 DEF Phase, Kept
<1> QED BY <1>2, <1>3, <1>4 DEF Governed!Init

-----------------------------------------------------------------------------
(* The steps that GovernedRun notices. *)

\* Emptying the file for the next text begins the run, records an approval, stops the run or
\* ends a wait: from there on the copy being written is what is kept.
LEMMA TruncateAllowed ==
  ASSUME SoloInv, NEW p \in Procs, Alone(p), Truncate(p)
  PROVE  Allows
<1>a. /\ DiskOK(p) /\ CopyOK(p) /\ UNCHANGED <<spec, ran, grant, crashed, mem>>
      /\ grant[p] \in BOOLEAN
  BY DEF SoloInv, SharedInv, TypeOK, Truncate, history
<1>b. Gated' = Gated
  BY <1>a DEF Gated, Positions, plan
<1>1. CASE pc[p] = "saveGo"
  <2>1. /\ pc' = [pc EXCEPT ![p] = "writeGo"] /\ mem[p].status = "running"
        /\ disk.status \in {"pending", "running", "waiting_approval"}
        /\ disk.status = "pending" => ~grant[p]
        /\ disk.status = "waiting_approval" => grant[p]
    BY <1>a, <1>1 DEF Truncate, DiskOK, CopyOK, Matches
  <2>2. MapsTo(p, "writeGo") /\ Kept = disk /\ Kept' = mem[p]
    BY <1>1, <1>a, <2>1, AloneMaps, BusyHolds DEF PCs, Writing, HeldBy
  <2>3. Phase' = "live" /\ Leave' = grant[p]
    BY <1>a, <2>1, <2>2 DEF MapsTo, PhaseAt, LeaveAt, Terminal, Torn
  <2>4. CASE disk.status = "pending"
    <3>1. Phase = "unborn" /\ Leave = FALSE /\ Leave' = FALSE
      BY <1>1, <2>1, <2>2, <2>3, <2>4 DEF MapsTo, PhaseAt, LeaveAt, Terminal, Torn
    <3> QED BY <1>a, <1>b, <2>3, <3>1 DEF Allows, Governed!Next, Governed!Begin, Leave
  <2>5. CASE disk.status = "running"
    <3>1. Phase = "live" /\ Leave = grant[p]
      BY <1>1, <1>a, <2>2, <2>5 DEF MapsTo, PhaseAt, LeaveAt, Terminal, Torn
    <3> QED BY <1>a, <2>3, <3>1, Unnoticed
  <2>6. CASE disk.status = "waiting_approval"
    <3>1. Phase = "asking" /\ Leave' = TRUE
      BY <1>a, <2>1, <2>2, <2>3, <2>6 DEF MapsTo, PhaseAt
    <3> QED BY <1>a, <1>b, <2>3, <3>1 DEF Allows, Governed!Next, Governed!Allow, Leave
  <2> QED BY <2>1, <2>4, <2>5, <2>6
<1>2. CASE pc[p] = "saveStop"
  <2>1. /\ pc' = [pc EXCEPT ![p] = "writeStop"]
        /\ mem[p].status \in Terminal \cup {"waiting_approval"}
        /\ disk.status \in {"running", "waiting_approval"}
    BY <1>a, <1>2 DEF Truncate, DiskOK, CopyOK, Matches
  <2>2. MapsTo(p, "writeStop") /\ Kept = disk /\ Kept' = mem[p]
    BY <1>2, <1>a, <2>1, AloneMaps, BusyHolds DEF PCs, Writing, HeldBy
  <2>3. Phase' \in {"asking", "over"} /\ Leave' = FALSE
    BY <2>1, <2>2 DEF MapsTo, PhaseAt, LeaveAt, Terminal
  <2>4. CASE disk.status = "running"
    <3>1. Phase = "live"
      BY <1>2, <2>2, <2>4 DEF MapsTo, PhaseAt, Terminal, Torn
    <3> QED BY <1>a, <1>b, <2>3, <3>1 DEF Allows, Governed!Next, Governed!Stop, Leave
  <2>5. CASE disk.status = "waiting_approval"
    <3>1. Phase = "asking" /\ Leave = FALSE
      BY <2>2, <2>5 DEF MapsTo, PhaseAt, LeaveAt
    <3>2. CASE Phase' = "over"
      BY <1>a, <1>b, <2>3, <3>1, <3>2 DEF Allows, Governed!Next, Governed!Refuse, Leave
    <3> QED BY <1>a, <2>3, <3>1, <3>2, Unnoticed
  <2> QED BY <2>1, <2>4, <2>5
<1>3. pc[p] # "saveOutcome"
  BY <1>a DEF CopyOK, Matches
<1> QED BY <1>1, <1>2, <1>3 DEF Truncate

\* The text only takes the place of the copy that was already what is kept.
LEMMA WriteAllowed ==
  ASSUME SoloInv, NEW p \in Procs, Alone(p), Write(p)
  PROVE  Allows
<1>a. /\ DiskOK(p) /\ CopyOK(p) /\ UNCHANGED <<spec, ran, grant, crashed>> /\ TypeOK
      /\ p \in All /\ pc[p] \in Writing /\ disk = Empty
  BY DEF SoloInv, SharedInv, TypeOK, Write, history, DiskOK, All
<1>b. disk' = mem[p]
  <2>1. disk.status = "empty"
    BY <1>a DEF Empty, Fresh
  <2> QED BY <2>1 DEF Write
<1>1. \/ pc[p] = "writeNew" /\ pc' = [pc EXCEPT ![p] = "created"] /\ mem[p] = Fresh
      \/ pc[p] = "writeGo" /\ pc' = [pc EXCEPT ![p] = "head"] /\ mem[p].status = "running"
      \/ /\ pc[p] = "writeStop" /\ pc' = [pc EXCEPT ![p] = "idle"]
         /\ mem[p].status \in Terminal \cup {"waiting_approval"}
  BY <1>a DEF Write, Writing, CopyOK, Matches
<1>2. PICK at \in {"created", "head", "idle"} :
        /\ pc' = [pc EXCEPT ![p] = at]
        /\ at = "created" => mem[p].status = "pending"
        /\ at = "head" => mem[p].status = "running"
        /\ at = "idle" => mem[p].status \in Terminal \cup {"waiting_approval"}
  BY <1>1 DEF Fresh
<1>3. MapsTo(p, at) /\ Kept = mem[p] /\ Kept' = mem[p]
  BY <1>a, <1>b, <1>2, AloneMaps, BusyHolds DEF PCs, Writing, HeldBy
<1>4. pc[p] \notin {"idle", "loaded"}
  BY <1>a DEF Writing
<1>5. Phase' = Phase /\ Leave' = Leave
  BY <1>a, <1>2, <1>3, <1>4 DEF MapsTo, PhaseAt, LeaveAt, Terminal
<1> QED BY <1>a, <1>5, Unnoticed

\* A dispatch that runs performs the next position, in order, within the limit and with
\* leave when it is gated; any other dispatch only uses the leave up.
LEMMA DispatchAllowed ==
  ASSUME SoloInv, NEW p \in Procs, Alone(p), Dispatch(p)
  PROVE  Allows
<1>1. PICK i \in Positions :
        LET verdict == Verdict(plan[i].call, spec.mode, spec.auto, grant[p])
        IN  /\ AtHead(p, i)
            /\ ran' = IF verdict = "runs" THEN Append(ran, i) ELSE ran
            /\ grant' = Spend(p, verdict)
            /\ pc' = [pc EXCEPT ![p] = "returned"]
            /\ UNCHANGED <<spec, disk, crashed>>
  BY DEF Dispatch
<1> DEFINE verdict == Verdict(plan[i].call, spec.mode, spec.auto, grant[p])
<1>2. /\ ran' = IF verdict = "runs" THEN Append(ran, i) ELSE ran
      /\ AtHead(p, i) /\ spec' = spec /\ disk' = disk /\ crashed' = crashed /\ ~grant'[p]
      /\ pc' = [pc EXCEPT ![p] = "returned"]
  BY <1>1 DEF Spend, SoloInv, SharedInv, TypeOK
<1>3. /\ disk.status = "running" /\ pc[p] = "head" /\ i = mem[p].cursor + 1
      /\ RanUpTo(mem[p].cursor) /\ ran \in Seq(Positions) /\ grant[p] \in BOOLEAN
      /\ IsSpec(spec) /\ mem[p].cursor \in Nat /\ mem[p].step \in Nat
      /\ mem[p].cursor <= mem[p].step /\ mem[p].step < spec.max
  BY <1>2 DEF SoloInv, SharedInv, TypeOK, Records, RecordOK, All, DiskOK, CopyOK, Matches, AtHead
<1>4. MapsTo(p, "returned") /\ Kept = disk /\ Kept' = disk
  BY <1>2, <1>3, AloneMaps, BusyHolds DEF PCs, Writing, HeldBy
<1>5. Phase = "live" /\ Phase' = "live" /\ Leave = grant[p] /\ Leave' = FALSE
  BY <1>2, <1>3, <1>4 DEF MapsTo, PhaseAt, LeaveAt, Terminal, Torn
<1>6. Gated' = Gated
  BY <1>2 DEF Gated, Positions, plan
<1>7. CASE verdict = "runs"
  <2>1. i \in Gated => Leave
    BY <1>5, <1>7 DEF Gated, Verdict
  <2>2. Governed!LastPerformed < i
    <3>1. CASE ran = <<>>
      BY <1>3, <3>1 DEF Governed!LastPerformed
    <3>2. CASE ran # <<>>
      <4>1. Len(ran) \in DOMAIN ran /\ ran[Len(ran)] \in Nat
        BY <1>3, <3>2 DEF Positions
      <4> QED BY <1>3, <3>2, <4>1 DEF Governed!LastPerformed, RanUpTo
    <3> QED BY <3>1, <3>2
  <2>3. i \in 1..spec.max
    BY <1>3 DEF IsSpec
  <2>4. Governed!LastPerformed \in Int /\ i \in Int
    BY <1>3 DEF Governed!LastPerformed, Positions
  <2>5. Governed!Perform(i)
    BY <1>2, <1>5, <1>6, <1>7, <2>1, <2>2, <2>4 DEF Governed!Perform, Leave
  <2> QED BY <2>3, <2>5 DEF Allows, Governed!Next
<1>8. CASE verdict # "runs"
  <2>1. ran' = ran
    BY <1>2, <1>8
  <2>2. CASE grant[p]
    BY <1>2, <1>5, <1>6, <2>1, <2>2 DEF Allows, Governed!Next, Governed!Waste, Leave
  <2>3. CASE ~grant[p]
    BY <1>2, <1>3, <1>5, <2>1, <2>3, Unnoticed
  <2> QED BY <2>2, <2>3
<1> QED BY <1>7, <1>8

\* A call that comes to the end of its plan without a verdict loses the run.
LEMMA ExhaustedAllowed ==
  ASSUME SoloInv, NEW p \in Procs, Alone(p), Exhausted(p)
  PROVE  Allows
<1>1. /\ pc[p] = "head" /\ pc' = [pc EXCEPT ![p] = "idle"]
      /\ disk' = disk /\ UNCHANGED <<spec, ran, crashed>>
      /\ disk.status = "running"
  BY DEF Exhausted, SoloInv, SharedInv, DiskOK, CopyOK, Matches, history
<1>2. MapsTo(p, "idle") /\ Kept = disk /\ Kept' = disk
  BY <1>1, AloneMaps, BusyHolds DEF PCs, Writing, HeldBy
<1>3. Gated' = Gated
  BY <1>1 DEF Gated, Positions, plan
<1>4. Phase = "live" /\ Phase' = "lost" /\ Leave' = FALSE
  BY <1>1, <1>2 DEF MapsTo, PhaseAt, LeaveAt, Terminal, Torn
<1> QED BY <1>1, <1>3, <1>4 DEF Allows, Governed!Next, Governed!Stop, Leave

\* A death loses a run that was begun, or whose record was being written; a run that waits
\* stays as it was saved.
LEMMA CrashAllowed ==
  ASSUME SoloInv, NEW p \in Procs, Alone(p), Crash(p)
  PROVE  Allows
<1>1. /\ pc[p] # "idle" /\ pc' = [pc EXCEPT ![p] = "idle"]
      /\ disk' = disk \/ (pc[p] \in Writing /\ disk' = Garbled)
      /\ spec' = spec /\ ran' = ran /\ crashed' = TRUE
      /\ DiskOK(p) /\ CopyOK(p)
  BY DEF Crash, SoloInv, SharedInv
<1>2. MapsTo(p, "idle") /\ Kept = HeldBy(p) /\ Kept' = disk'
  BY <1>1, AloneMaps, BusyHolds DEF PCs, Writing
<1>3. Gated' = Gated
  BY <1>1 DEF Gated, Positions, plan
<1>4. Phase' \in IF Phase \in {"unborn", "live"} THEN {"lost"} ELSE {Phase, "lost"}
  <2>1. CASE pc[p] \in Writing
    <3>1. disk'.status \in Torn
      BY <1>1, <2>1 DEF DiskOK, Empty, Garbled, Fresh, Torn
    <3>2. Phase' = "lost"
      BY <1>2, <3>1 DEF MapsTo, PhaseAt, Torn, Terminal
    <3> QED BY <3>2
  <2>2. CASE pc[p] \notin Writing
    <3>1. Kept = disk /\ Kept' = disk
      BY <1>1, <1>2, <2>2 DEF HeldBy
    <3>2. disk.status \in {"pending", "running", "waiting_approval"}
      BY <1>1, <2>2, <3>1, BusyHolds DEF Writing
    <3>3. Phase' = PhaseAt(disk.status, "idle") /\ Phase = PhaseAt(disk.status, pc[p])
      BY <1>2, <3>1 DEF MapsTo
    <3> QED BY <3>2, <3>3 DEF PhaseAt, Terminal, Torn
  <2> QED BY <2>1, <2>2
<1>5. Leave' = FALSE
  BY <1>2 DEF MapsTo, PhaseAt, LeaveAt
<1> QED BY <1>1, <1>3, <1>4, <1>5 DEF Allows, Governed!Next, Governed!Die, Leave

-----------------------------------------------------------------------------
\* Every step of a process that works alone is a step of GovernedRun or a stutter.
LEMMA StepAllowed ==
  ASSUME SoloInv, NEW p \in Procs, Alone(p), Step(p)
  PROVE  Allows
<1>a. /\ IsSpec(spec) /\ mem[p] \in Records /\ reply[p] \in Results /\ CopyOK(p) /\ DiskOK(p)
      /\ mem[p].cursor <= mem[p].step /\ TypeOK
  BY DEF SoloInv, SharedInv, TypeOK, RecordOK, All
<1>1. CASE Create(p)
  <2>1. /\ pc[p] = "idle" /\ pc' = [pc EXCEPT ![p] = "writeNew"]
        /\ UNCHANGED <<spec, ran, crashed>>
        /\ disk.status = "absent" /\ mem'[p].status = "pending"
    BY <1>1, <1>a DEF Create, Fresh, history, TypeOK
  <2>2. MapsTo(p, "writeNew") /\ Kept = disk /\ Kept' = mem'[p]
    BY <2>1, AloneMaps, BusyHolds DEF PCs, Writing, HeldBy
  <2>3. Phase = "unborn" /\ Phase' = "unborn" /\ Leave = FALSE /\ Leave' = FALSE
    BY <2>1, <2>2 DEF MapsTo, PhaseAt, LeaveAt, Terminal, Torn
  <2> QED BY <2>1, <2>3, Unnoticed
<1>4. CASE Begin(p)
  <2>1. /\ pc[p] = "created" /\ pc' = [pc EXCEPT ![p] = "saveGo"] /\ disk' = disk
        /\ UNCHANGED <<spec, ran, crashed>> /\ disk.status = "pending"
    BY <1>4, <1>a DEF Begin, Fresh, history, DiskOK
  <2>2. MapsTo(p, "saveGo") /\ Kept = disk /\ Kept' = disk
    BY <2>1, AloneMaps, BusyHolds DEF PCs, Writing, HeldBy
  <2>3. Phase = "unborn" /\ Phase' = "unborn" /\ Leave = FALSE /\ Leave' = FALSE
    BY <2>1, <2>2 DEF MapsTo, PhaseAt, LeaveAt, Terminal, Torn
  <2> QED BY <2>1, <2>3, Unnoticed
<1>2. CASE Load(p) \/ Deny(p) \/ Approve(p)
  <2>1. /\ disk.status = "waiting_approval" /\ disk' = disk
        /\ UNCHANGED <<spec, ran, crashed>> /\ pc[p] \in {"idle", "loaded"}
    BY <1>2, <1>a DEF Load, Deny, Approve, history, DiskOK, CopyOK, Matches
  <2>2. PICK at \in {"loaded", "saveStop", "saveGo"} : pc' = [pc EXCEPT ![p] = at]
    BY <1>2 DEF Load, Deny, Approve
  <2>3. MapsTo(p, at) /\ Kept = disk /\ Kept' = disk
    BY <2>1, <2>2, AloneMaps, BusyHolds DEF PCs, Writing, HeldBy
  <2>4. Phase = "asking" /\ Phase' = "asking" /\ Leave = FALSE /\ Leave' = FALSE
    BY <2>1, <2>3 DEF MapsTo, PhaseAt, LeaveAt
  <2> QED BY <2>1, <2>4, Unnoticed
<1>3. CASE Executed(p)
  <2>1. /\ pc[p] \in {"head", "returned"} /\ disk' = disk
        /\ UNCHANGED <<spec, ran, crashed, grant>> /\ disk.status = "running"
    BY <1>3, <1>a DEF Executed, history, DiskOK, CopyOK, Matches
  <2>2. PICK at \in {"saveGo", "saveStop"} : pc' = [pc EXCEPT ![p] = at]
    BY <1>3 DEF Executed, Concluded
  <2>3. MapsTo(p, at) /\ Kept = disk /\ Kept' = disk
    BY <2>1, <2>2, AloneMaps, BusyHolds DEF PCs, Writing, HeldBy
  <2>4. Phase' = Phase /\ Leave' = Leave
    BY <2>1, <2>2, <2>3 DEF MapsTo, PhaseAt, LeaveAt
  <2> QED BY <2>1, <2>4, Unnoticed
<1> QED BY <1>a, <1>1, <1>2, <1>3, <1>4, TruncateAllowed, WriteAllowed, DispatchAllowed,
           ExhaustedAllowed, CrashAllowed, WorkExecutes
        DEF Step, Work

\* Recording an ACI outcome rewrites the record but not what the run has promised; dying over
\* it can lose the run.
LEMMA SubmitAllowed ==
  ASSUME SoloInv, NEW c \in Clients, Alone(c), Submit(c)
  PROVE  Allows
<1>1. /\ UNCHANGED <<spec, grant, ran>>
      /\ \A p \in Procs : pc[p] = "idle" /\ pc'[p] = "idle"
      /\ \/ ~Crash(c) /\ crashed' = crashed /\ Kept'.status = Kept.status
         \/ /\ crashed' = TRUE /\ Kept.status \in Statuses
            /\ Kept' = Kept \/ Kept'.status \in Torn
  BY OutcomeKeeps
<1>2. Executing = FALSE /\ Executing' = FALSE
  BY <1>1 DEF Executing
<1>3. Leave = FALSE /\ Leave' = FALSE
  BY <1>1 DEF Leave
<1>4. Gated' = Gated
  BY <1>1 DEF Gated, Positions, plan
<1>5. CASE crashed' = crashed /\ Kept'.status = Kept.status
  <2>1. Phase' = Phase
    BY <1>2, <1>5 DEF Phase
  <2> QED BY <1>1, <1>3, <1>5, <2>1, Unnoticed
<1>6. CASE crashed' = TRUE /\ Kept.status \in Statuses /\ (Kept' = Kept \/ Kept'.status \in Torn)
  <2>1. Phase \notin {"unborn", "live"} /\ Phase' \in {Phase, "lost"}
    BY <1>2, <1>6 DEF Phase, Statuses, Terminal, Torn
  <2> QED BY <1>1, <1>3, <1>4, <1>6, <2>1 DEF Allows, Governed!Next, Governed!Die, Leave
<1> QED BY <1>1, <1>5, <1>6

(***************************************************************************)
(* One process at a time, the engine keeps every promise of GovernedRun:   *)
(* effects in plan order and within the limit, one leave per gated effect, *)
(* nothing after the end of the run or the loss of its process.            *)
(***************************************************************************)
THEOREM SoloImplementsGoverned == SoloSpec => GovernedSpec
<1>1. SoloInv /\ [SoloNext]_vars => SoloInv'
  BY SoloStutter, SoloStep
<1>2. SoloInv /\ [SoloNext]_vars => [Governed!Next]_(Governed!vars)
  <2>1. CASE UNCHANGED vars
    <3>1. Phase' = Phase /\ Leave' = Leave /\ UNCHANGED <<spec, ran, crashed>>
      BY <2>1 DEF vars, Phase, Kept, Writers, Executing, Leave
    <3> QED BY <3>1, Unnoticed DEF Allows
  <2>2. SoloInv /\ SoloNext => Allows
    BY StepAllowed, SubmitAllowed DEF SoloNext
  <2> QED BY <2>1, <2>2 DEF Allows
<1> QED BY <1>1, <1>2, SoloInit, GovernedInit, PTL DEF SoloSpec, GovernedSpec, Governed!Spec

=============================================================================
