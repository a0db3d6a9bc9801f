------------------------- MODULE TrainingLoopProofs -------------------------
(***************************************************************************)
(* Proofs about TrainingLoop, for any goals, encounters and limits, any    *)
(* number of attempts and deaths.                                          *)
(*                                                                         *)
(* The invariant says of each phase what has been decided, tested and      *)
(* written before it: the properties are read off at the end of a run, and *)
(* each rests on a write or a decision several steps back.                 *)
(***************************************************************************)
EXTENDS TrainingLoop, FiniteSetTheorems, TLAPS

\* The loop goes on only below its limit, and leaves with a final decision.
EndDecided ==
  /\ phase \in {"append", "report", "checkpoint"} =>
       \/ verdict.status \in Final
       \/ verdict.status = "continue" /\ Len(trials) < attempt.limit
  /\ phase \in {"state", "candidate"} \/ history.settled => verdict.status \in Final
  /\ phase \in {"drive", "decide"} => verdict.status \notin Final
  /\ verdict.status # "blocked"
  /\ verdict.status = "iteration_budget_exhausted" => Len(trials) >= attempt.limit
  /\ verdict.status = "deliver" => ~verdict.fake
  /\ history.settled => phase = "idle"
  /\ phase \notin {"idle", "drive"} \/ history.settled \/ verdict.status = "deliver" =>
       trials # <<>>
  /\ phase # "idle" => attempt.number >= 1

\* What the directory says of the run at hand.
Written ==
  /\ phase \in {"checkpoint", "state", "candidate"} \/ history.settled =>
       disk.report # Nothing /\ disk.report.number = attempt.number
  /\ phase = "candidate" \/ history.settled =>
       disk.state = [number |-> attempt.number, status |-> RunStatus]
  /\ history.settled =>
       /\ disk.candidate # Nothing
       /\ disk.candidate.number = attempt.number
       /\ disk.candidate.ready = Candidate(attempt.goal, satisfied, Trial, verdict).ready
       /\ verdict.status = "iteration_budget_exhausted" => ~disk.candidate.ready

PassedAt(i) == trials[i].passed > 0 /\ trials[i].failed = 0

\* Where the satisfied criteria and a delivery come from.
Tested ==
  /\ \A i \in DOMAIN trials : trials[i].build = "simulated" => trials[i].failed = 0
  /\ satisfied # {} => \E i \in DOMAIN trials : PassedAt(i)
  /\ "test" \in satisfied =>
       \E i \in DOMAIN trials : PassedAt(i) /\ \A j \in i..Len(trials) : trials[j].failed = 0
  /\ verdict.status = "deliver" /\ ~verdict.promised =>
       /\ Required(attempt.goal) \subseteq satisfied
       /\ Required(attempt.goal) # {}
       /\ Trial.failed = 0

\* The line is in the log, or a torn one is.
Has(log, line) == \E i \in DOMAIN log : log[i] \in {line, TornLine}

Accounted(line) == Has(disk.log, line)

Logged ==
  /\ disk.open => disk.log # <<>>
  /\ phase \in {"report", "checkpoint"} => Accounted(Line(attempt.number, Len(trials)))
  /\ disk.checkpoint = Nothing \/ Accounted(disk.checkpoint)

LastEntry(log) == log[Len(log)]

\* What an open line may still cost.
AtStake == IF ~disk.open THEN 0 ELSE IF LastEntry(disk.log) = TornLine THEN 1 ELSE 2

Lost == history.appended - Cardinality(Whole(disk.log)) + AtStake <= history.crashes

Inv == TrainingTypeOK /\ EndDecided /\ Written /\ Tested /\ Logged /\ Lost
-----------------------------------------------------------------------------
(* The operators of QualityGate. *)

\* What the simulated executor returns is a trial without failures.
LEMMA SimulatedTyped ==
  ASSUME NEW criteria, criteria \subseteq Criteria
  PROVE  Simulated(criteria) \in Trials /\ Simulated(criteria).failed = 0
<1> DEFINE some == {"functional", "test", "doc"}
<1>1. IsFiniteSet({"functional"}) /\ IsFiniteSet({"functional", "test"}) /\ IsFiniteSet(some)
  <2>1. IsFiniteSet({"functional"})
    BY FS_Singleton
  <2>2. {"functional", "test"} = {"functional"} \union {"test"}
        /\ some = {"functional", "test"} \union {"doc"}
    OBVIOUS
  <2> HIDE DEF some
  <2> QED  BY <2>1, <2>2, FS_AddElement
<1>2. IsFiniteSet(Required(criteria))
  <2> DEFINE more == some \union {"quality"}  most == more \union {"delivery"}
             all == most \union {"user_alignment"}
  <2>1. Required(criteria) \subseteq all
    BY DEF Required, Criteria
  <2> HIDE DEF some
  <2>2. IsFiniteSet(more)
    BY <1>1, FS_AddElement
  <2> HIDE DEF more
  <2>3. IsFiniteSet(most)
    BY <2>2, FS_AddElement
  <2> HIDE DEF most
  <2>4. IsFiniteSet(all)
    BY <2>3, FS_AddElement
  <2> HIDE DEF all
  <2> QED  BY <2>1, <2>4, FS_Subset
<1>3. Cardinality(Required(criteria)) \in Nat
  BY <1>2, FS_CardinalityType
<1> QED
  BY <1>3 DEF Simulated, Trials

\* What the real executor returns is a trial that is not simulated.
LEMMA ExecutedTyped ==
  ASSUME NEW run \in Executions
  PROVE  Executed(run) \in Trials /\ Executed(run).build # "simulated"
  BY DEF Executed, Executions, Trials

\* A convergence decision has its type, continues only within the budget, and
\* delivers only a tested trial of a goal with required criteria, all satisfied.
LEMMA DecideSound ==
  ASSUME NEW criteria, NEW done, NEW trial \in Trials, NEW overalls, NEW limit
  PROVE  LET d == Decide(criteria, done, trial, overalls, limit)
         IN  /\ d.status \in {"continue", "deliver", "iteration_budget_exhausted"}
             /\ d.fake \in BOOLEAN
             /\ d.status = "continue" => ~OutOfBudget(overalls, limit)
             /\ d.status = "iteration_budget_exhausted" => OutOfBudget(overalls, limit)
             /\ d.status = "deliver" => /\ Required(criteria) \subseteq done
                                        /\ Required(criteria) # {}
                                        /\ Blocking(trial) = 0
                                        /\ ~d.fake
<1> DEFINE d == Decide(criteria, done, trial, overalls, limit)
<1>1. Keeps(overalls, limit) \in {"continue", "iteration_budget_exhausted"}
      /\ (Keeps(overalls, limit) = "continue" => ~OutOfBudget(overalls, limit))
      /\ (Keeps(overalls, limit) = "iteration_budget_exhausted" => OutOfBudget(overalls, limit))
  BY DEF Keeps
<1>2. Blocking(trial) \in Nat
  BY DEF Blocking, FailureLines, BuildErrors, FailedCommand, Trials
<1>3. CASE ~(Required(criteria) \subseteq done)
  <2>1. d = [status |-> Keeps(overalls, limit), fake |-> FALSE]
    BY <1>3 DEF Decide
  <2> QED  BY <1>1, <2>1
<1>4. CASE Required(criteria) \subseteq done
           /\ (Blocking(trial) > 0 \/ LooksConverged(criteria, overalls))
  <2>1. d = [status |-> Keeps(overalls, limit), fake |-> TRUE]
    BY <1>4 DEF Decide
  <2> QED  BY <1>1, <2>1
<1>5. CASE Required(criteria) \subseteq done
           /\ ~(Blocking(trial) > 0 \/ LooksConverged(criteria, overalls))
  <2>1. d = [status |-> "deliver", fake |-> FALSE]
    BY <1>5 DEF Decide
  <2>2. Required(criteria) # {}
    BY <1>5 DEF LooksConverged, GoalAlignment, GoalThreshold
  <2>3. Blocking(trial) = 0
    BY <1>2, <1>5
  <2> QED  BY <1>5, <2>1, <2>2, <2>3
<1> QED  BY <1>3, <1>4, <1>5

\* A trial that blocks nothing and is not simulated has no failed test.
LEMMA UnblockedPassed ==
  ASSUME NEW trial \in Trials, Blocking(trial) = 0,
         trial.build = "simulated" => trial.failed = 0
  PROVE  trial.failed = 0
<1>1. FailureLines(trial) \in Nat /\ BuildErrors(trial) \in Nat /\ FailedCommand(trial) \in Nat
  BY DEF FailureLines, BuildErrors, FailedCommand, Trials
<1>2. FailedCommand(trial) = 0
  BY <1>1 DEF Blocking
<1>3. trial.failed \in Nat
  BY DEF Trials
<1> QED  BY <1>2, <1>3 DEF FailedCommand

\* A delivery with a required criterion, or with any finding, has evidence.
LEMMA EvidenceFound ==
  ASSUME NEW criteria, NEW done, NEW trial, Required(criteria) \subseteq done,
         Required(criteria) # {}
  PROVE  HasEvidence(criteria, done, trial)
  BY DEF HasEvidence

LEMMA CandidateTyped ==
  ASSUME NEW criteria, NEW done, NEW trial, NEW decision
  PROVE  LET c == Candidate(criteria, done, trial, decision)
         IN  /\ c.ready \in BOOLEAN
             /\ c.status \in {"ready", "blocked", "deferred", "not_ready"}
             /\ c.ready => decision.status = "deliver"
             /\ decision.status = "deliver" /\ ~decision.fake /\ HasEvidence(criteria, done, trial)
                  => c.ready
<1> DEFINE ready == /\ decision.status = "deliver"
                    /\ ~decision.fake
                    /\ HasEvidence(criteria, done, trial)
           c == Candidate(criteria, done, trial, decision)
<1>1. c.ready = ready /\ c.status \in {"ready", "blocked", "deferred", "not_ready"}
  BY DEF Candidate
<1>2. ready \in BOOLEAN  OBVIOUS
<1> QED  BY <1>1, <1>2
-----------------------------------------------------------------------------
(* The log. *)

LogEntries == {TornLine} \union Lines

\* A line is not a torn one.
LEMMA LineTyped ==
  ASSUME NEW number \in 1..MaxAttempts, NEW i \in Nat \ {0}
  PROVE  Line(number, i) \in Lines /\ Line(number, i) # TornLine
<1>1. Len(Line(number, i)) = 2 /\ Len(TornLine) = 0
  BY DEF Line, TornLine
<1> QED  BY <1>1, TrainingAssumptions DEF Line, Lines

\* What is appended is in the log, or a torn line is; and what was accounted
\* for before still is.
LEMMA AppendedAccounts ==
  ASSUME NEW log \in Seq(LogEntries), NEW open \in BOOLEAN, open => log # <<>>,
         NEW line \in LogEntries, NEW new, new = Appended(log, open, line)
  PROVE  /\ new \in Seq(LogEntries)
         /\ new # <<>>
         /\ Has(new, line)
         /\ \A kept : Has(log, kept) => Has(new, kept)
<1>1. CASE open
  <2>1. new = [log EXCEPT ![Len(log)] = TornLine]
    BY <1>1 DEF Appended
  <2>2. Len(log) \in DOMAIN log /\ TornLine \in LogEntries
    BY <1>1 DEF LogEntries
  <2>3. new \in Seq(LogEntries) /\ DOMAIN new = DOMAIN log
    BY <2>1, <2>2
  <2>4. new[Len(log)] = TornLine /\ \A i \in DOMAIN log : i # Len(log) => new[i] = log[i]
    BY <2>1, <2>2
  <2>5. new # <<>>
    BY <2>2, <2>3
  <2> QED  BY <2>2, <2>3, <2>4, <2>5 DEF Has
<1>2. CASE ~open
  <2>1. new = Append(log, line)
    BY <1>2 DEF Appended
  <2>2. new \in Seq(LogEntries) /\ Len(new) = Len(log) + 1 /\ new[Len(log) + 1] = line
        /\ \A i \in 1..Len(log) : new[i] = log[i]
    BY <2>1
  <2>3. DOMAIN new = 1..(Len(log) + 1) /\ DOMAIN log = 1..Len(log) /\ Len(log) \in Nat
    BY <2>2
  <2>4. new # <<>>
    BY <2>2, <2>3
  <2> QED  BY <2>2, <2>3, <2>4 DEF Has
<1> QED  BY <1>1, <1>2

\* What an append does to the number of lines that can be read.
LEMMA AppendedReads ==
  ASSUME NEW log \in Seq(LogEntries), NEW open \in BOOLEAN, open => log # <<>>,
         NEW line \in LogEntries, NEW new, new = Appended(log, open, line),
         NEW before, before = Cardinality(Whole(log)),
         NEW after, after = Cardinality(Whole(new))
  PROVE  /\ before \in Nat
         /\ after \in Nat
         /\ open => LastEntry(new) = TornLine
         /\ ~open => LastEntry(new) = line
         /\ open => after = IF LastEntry(log) = TornLine THEN before ELSE before - 1
         /\ ~open => after = IF line = TornLine THEN before ELSE before + 1
<1>1. IsFiniteSet(Whole(log))
  <2>1. Whole(log) \subseteq 1..Len(log) /\ Len(log) \in Nat
    BY DEF Whole
  <2>2. IsFiniteSet(1..Len(log))
    BY <2>1, FS_Interval
  <2> QED  BY <2>1, <2>2, FS_Subset
<1>2. Cardinality(Whole(log)) \in Nat
  BY <1>1, FS_CardinalityType
<1>3. CASE open
  <2>1. new = [log EXCEPT ![Len(log)] = TornLine]
    BY <1>3 DEF Appended
  <2>2. Len(log) \in DOMAIN log /\ TornLine \in LogEntries
    BY <1>3 DEF LogEntries
  <2>3. new \in Seq(LogEntries) /\ DOMAIN new = DOMAIN log /\ Len(new) = Len(log)
    BY <2>1, <2>2
  <2>4. new[Len(log)] = TornLine /\ \A i \in DOMAIN log : i # Len(log) => new[i] = log[i]
    BY <2>1, <2>2
  <2>5. Whole(new) = Whole(log) \ {Len(log)}
    BY <2>2, <2>3, <2>4 DEF Whole
  <2>6. Len(log) \in Whole(log) <=> log[Len(log)] # TornLine
    BY <2>2 DEF Whole
  <2>7. Cardinality(Whole(new)) = IF log[Len(log)] = TornLine THEN Cardinality(Whole(log))
                                     ELSE Cardinality(Whole(log)) - 1
    BY <1>1, <2>5, <2>6, FS_RemoveElement
  <2>8. Cardinality(Whole(new)) \in Nat
    BY <1>1, <2>5, FS_RemoveElement, FS_CardinalityType
  <2> QED  BY <1>2, <1>3, <2>3, <2>4, <2>7, <2>8 DEF LastEntry
<1>4. CASE ~open
  <2>1. new = Append(log, line)
    BY <1>4 DEF Appended
  <2>2. new \in Seq(LogEntries) /\ Len(new) = Len(log) + 1 /\ new[Len(log) + 1] = line
        /\ \A i \in 1..Len(log) : new[i] = log[i]
    BY <2>1
  <2>3. DOMAIN new = 1..(Len(log) + 1) /\ DOMAIN log = 1..Len(log) /\ Len(log) \in Nat
    BY <2>2
  <2>4. Whole(new) = IF line = TornLine THEN Whole(log)
                        ELSE Whole(log) \union {Len(log) + 1}
    BY <2>2, <2>3 DEF Whole
  <2>5. Len(log) + 1 \notin Whole(log)
    BY <2>3 DEF Whole
  <2>6. Cardinality(Whole(new)) = IF line = TornLine THEN Cardinality(Whole(log))
                                     ELSE Cardinality(Whole(log)) + 1
    BY <1>1, <2>4, <2>5, FS_AddElement
  <2> QED  BY <1>2, <1>4, <2>2, <2>3, <2>6 DEF LastEntry
<1> QED  BY <1>3, <1>4
-----------------------------------------------------------------------------
(* The invariant is inductive: one lemma for each action. *)

LEMMA InitInv == TrainingInit => Inv
<1> SUFFICES ASSUME TrainingInit PROVE Inv
  OBVIOUS
<1> USE DEF TrainingInit
<1>1. TrainingTypeOK
  BY TrainingAssumptions
  DEF TrainingTypeOK, Phases, Attempts, Verdicts, Disks, NewAttempt, NoVerdict, LogEntries
<1>2. EndDecided /\ Written /\ Tested /\ Logged
  BY DEF EndDecided, Written, Tested, Logged, NoVerdict
<1>3. Whole(disk.log) = {}
  BY DEF Whole
<1>4. disk.open = FALSE /\ history.appended = 0 /\ history.crashes = 0
  OBVIOUS
<1>5. Lost
  BY ONLY <1>3, <1>4, FS_EmptySet DEF Lost, AtStake
<1> QED  BY <1>1, <1>2, <1>5 DEF Inv

LEMMA BeginInv ==
  ASSUME Inv, NEW goal \in Goals, NEW real \in BOOLEAN, NEW limit \in Limits,
         NEW promise \in BOOLEAN, Begin(goal, real, limit, promise)
  PROVE  Inv'
<1> USE DEF Begin, Inv
<1>1. TrainingTypeOK'
  <2>1. attempt.number \in 0..MaxAttempts /\ MaxAttempts \in Nat
    BY TrainingAssumptions DEF TrainingTypeOK, Attempts
  <2>2. attempt' \in Attempts
    BY <2>1 DEF Attempts
  <2>3. trials' \in Seq(Trials) /\ verdict' \in Verdicts /\ phase' \in Phases
    BY DEF Verdicts, NoVerdict, Phases
  <2>4. history' \in [appended : Nat, crashes : 0..MaxCrashes, settled : BOOLEAN]
    BY DEF TrainingTypeOK
  <2> QED  BY <2>2, <2>3, <2>4 DEF TrainingTypeOK
<1>2. EndDecided'
  BY TrainingAssumptions DEF EndDecided, Final, NoVerdict, TrainingTypeOK, Attempts
<1>3. Written'
  BY DEF Written, TrainingTypeOK
<1>4. Tested'
  BY DEF Tested, NoVerdict
<1>5. Logged'
  BY DEF Logged, Accounted
<1>6. Lost'
  BY DEF Lost, AtStake, TrainingTypeOK
<1> QED  BY <1>1, <1>2, <1>3, <1>4, <1>5, <1>6

LEMMA DriveInv ==
  ASSUME Inv, NEW trial \in Trials, trial.build = "simulated" => trial.failed = 0,
         Drive(trial)
  PROVE  Inv'
<1> USE DEF Drive, Inv
<1>1. /\ trials' \in Seq(Trials)
      /\ Len(trials) \in Nat
      /\ DOMAIN trials = 1..Len(trials)
      /\ DOMAIN trials' = 1..(Len(trials) + 1)
      /\ trials'[Len(trials) + 1] = trial
      /\ \A i \in 1..Len(trials) : trials'[i] = trials[i]
  BY DEF TrainingTypeOK
<1>2. TrainingTypeOK'
  BY <1>1 DEF TrainingTypeOK, Phases, Satisfied, Required
<1>3. EndDecided'
  BY <1>1 DEF EndDecided, Final, TrainingTypeOK
<1>4. Written'
  BY DEF Written, EndDecided
<1>5. Tested'
  <2>1. trial.failed \in Nat /\ trial.passed \in Nat
    BY DEF Trials
  <2>2. (\A i \in DOMAIN trials : trials[i].build = "simulated" => trials[i].failed = 0)'
    BY <1>1 DEF Tested
  <2>3. (satisfied # {} => \E i \in DOMAIN trials : PassedAt(i))'
    BY <1>1, <2>1 DEF Tested, PassedAt, Satisfied
  <2>4. ("test" \in satisfied => \E i \in DOMAIN trials :
            PassedAt(i) /\ \A j \in i..Len(trials) : trials[j].failed = 0)'
    <3> SUFFICES ASSUME "test" \in satisfied'
                 PROVE  \E i \in DOMAIN trials' : PassedAt(i)'
                           /\ \A j \in i..Len(trials') : trials'[j].failed = 0
      OBVIOUS
    <3>1. Len(trials') = Len(trials) + 1
      BY <1>1
    <3>2. trial.failed = 0
      BY <2>1 DEF Satisfied
    <3>3. CASE trial.passed > 0
      BY <1>1, <3>1, <3>2, <3>3 DEF PassedAt
    <3>4. CASE ~(trial.passed > 0)
      <4>1. satisfied' = satisfied
        BY <2>1, <3>2, <3>4 DEF Satisfied
      <4>2. PICK i \in DOMAIN trials : PassedAt(i) /\ \A j \in i..Len(trials) : trials[j].failed = 0
        BY <4>1 DEF Tested
      <4>3. i \in DOMAIN trials' /\ PassedAt(i)'
        BY <1>1, <4>2 DEF PassedAt
      <4>4. ASSUME NEW j \in i..Len(trials')  PROVE trials'[j].failed = 0
        <5>1. j \in i..Len(trials) \/ j = Len(trials) + 1
          BY <1>1, <3>1
        <5>2. i >= 1
          BY <1>1
        <5> QED  BY <1>1, <3>2, <4>2, <5>1, <5>2
      <4> QED  BY <4>3, <4>4
    <3> QED  BY <3>3, <3>4
  <2>5. verdict'.status # "deliver"
    BY DEF EndDecided, Final
  <2> QED  BY <2>2, <2>3, <2>4, <2>5 DEF Tested
<1>6. Logged'
  BY DEF Logged, Accounted
<1>7. Lost'
  BY DEF Lost, AtStake
<1> QED  BY <1>2, <1>3, <1>4, <1>5, <1>6, <1>7

LEMMA ConcludeInv ==
  ASSUME Inv, NEW promised \in BOOLEAN, Conclude(promised)
  PROVE  Inv'
<1> USE DEF Conclude, Inv
<1> DEFINE decided == Decide(attempt.goal, satisfied, Trial, Overalls, attempt.limit)
<1>1. trials # <<>> /\ Trial \in Trials /\ Len(trials) \in DOMAIN trials
  BY DEF EndDecided, TrainingTypeOK, Trial
<1>2. Len(Overalls) = Len(trials)
  <2>1. Len(trials) \in Nat /\ DOMAIN trials = 1..Len(trials)
    BY DEF TrainingTypeOK
  <2> QED  BY <2>1 DEF Overalls
<1>3. /\ decided.status \in {"continue", "deliver", "iteration_budget_exhausted"}
      /\ decided.fake \in BOOLEAN
      /\ decided.status = "continue" => ~(Len(trials) >= attempt.limit)
      /\ decided.status = "iteration_budget_exhausted" => Len(trials) >= attempt.limit
      /\ decided.status = "deliver" => /\ Required(attempt.goal) \subseteq satisfied
                                       /\ Required(attempt.goal) # {}
                                       /\ Blocking(Trial) = 0
                                       /\ ~decided.fake
  BY <1>1, <1>2, DecideSound DEF OutOfBudget
<1>4. verdict' = IF promised THEN [status |-> "deliver", fake |-> FALSE, promised |-> TRUE]
                 ELSE [status |-> decided.status, fake |-> decided.fake, promised |-> FALSE]
  OBVIOUS
<1> HIDE DEF decided
<1>5. TrainingTypeOK'
  BY <1>3, <1>4 DEF TrainingTypeOK, Phases, Verdicts, Decisions
<1>6. EndDecided'
  <2>1. attempt.limit \in Nat
    <3>1. attempt.limit \in Limits \union {0}
      BY DEF TrainingTypeOK, Attempts
    <3>2. \A l \in Limits : l \in Nat
      BY TrainingAssumptions
    <3> QED  BY <3>1, <3>2
  <2>2. Len(trials) \in Nat
    BY DEF TrainingTypeOK
  <2> QED  BY <1>1, <1>3, <1>4, <2>1, <2>2 DEF EndDecided, Final
<1>7. Written'
  BY DEF Written, EndDecided
<1>8. Tested'
  <2>1. Blocking(Trial) = 0 => Trial.failed = 0
    BY <1>1, UnblockedPassed DEF Tested, Trial
  <2> QED  BY <1>1, <1>3, <1>4, <2>1 DEF Tested, PassedAt, Trial
<1>9. Logged'
  BY DEF Logged, Accounted
<1>10. Lost'
  BY DEF Lost, AtStake
<1> QED  BY <1>5, <1>6, <1>7, <1>8, <1>9, <1>10

\* What the two appends share: the log keeps its type and what it accounts
\* for, and the number of lines lost is what the deaths explain.
LEMMA AppendingKeeps ==
  ASSUME Inv, NEW line \in LogEntries,
         NEW log, log = Appended(disk.log, disk.open, line),
         NEW lost, lost = history.appended - Cardinality(Whole(log))
  PROVE  /\ log \in Seq(LogEntries)
         /\ log # <<>>
         /\ Has(log, line)
         /\ disk.checkpoint = Nothing \/ Has(log, disk.checkpoint)
         /\ LastEntry(log) = IF disk.open THEN TornLine ELSE line
         /\ lost \in Int
         /\ lost <= history.crashes
         /\ disk.open \/ line # TornLine => lost + 1 <= history.crashes
<1> USE DEF Inv
<1>1. disk.log \in Seq(LogEntries) /\ disk.open \in BOOLEAN /\ (disk.open => disk.log # <<>>)
  BY DEF TrainingTypeOK, Disks, LogEntries, Logged
<1>2. /\ log \in Seq(LogEntries)
      /\ log # <<>>
      /\ Has(log, line)
      /\ \A kept : Has(disk.log, kept) => Has(log, kept)
  BY <1>1, AppendedAccounts
<1>3. PICK before, after :
        /\ before = Cardinality(Whole(disk.log)) /\ after = Cardinality(Whole(log))
        /\ before \in Nat
        /\ after \in Nat
        /\ disk.open => LastEntry(log) = TornLine
        /\ ~disk.open => LastEntry(log) = line
        /\ disk.open => after = IF LastEntry(disk.log) = TornLine THEN before ELSE before - 1
        /\ ~disk.open => after = IF line = TornLine THEN before ELSE before + 1
  BY <1>1, AppendedReads
<1>4. history.appended - before + AtStake <= history.crashes
  BY <1>3 DEF Lost
<1>5. history.appended \in Nat /\ history.crashes \in Nat
  BY TrainingAssumptions DEF TrainingTypeOK
<1>6. disk.checkpoint = Nothing \/ Has(disk.log, disk.checkpoint)
  BY DEF Logged, Accounted
<1>7. lost = history.appended - after
  BY <1>3
<1>8. CASE disk.open
  <2>1. AtStake = IF LastEntry(disk.log) = TornLine THEN 1 ELSE 2
    BY <1>8 DEF AtStake
  <2>2. ASSUME LastEntry(disk.log) = TornLine
        PROVE  lost \in Int /\ lost + 1 <= history.crashes
    <3>1. after = before /\ AtStake = 1
      BY <1>3, <1>8, <2>1, <2>2
    <3> QED  BY <1>3, <1>4, <1>5, <1>7, <3>1
  <2>3. ASSUME LastEntry(disk.log) # TornLine
        PROVE  lost \in Int /\ lost + 1 <= history.crashes
    <3>1. after = before - 1 /\ AtStake = 2
      BY <1>3, <1>8, <2>1, <2>3
    <3> QED  BY <1>3, <1>4, <1>5, <1>7, <3>1
  <2>4. lost \in Int /\ lost + 1 <= history.crashes
    BY <2>2, <2>3
  <2>5. lost <= history.crashes
    BY ONLY <1>5, <2>4
  <2>6. LastEntry(log) = IF disk.open THEN TornLine ELSE line
    BY <1>3, <1>8
  <2> QED  BY ONLY <1>1, <1>2, <1>6, <2>4, <2>5, <2>6
<1>9. CASE ~disk.open
  <2>1. AtStake = 0
    BY <1>9 DEF AtStake
  <2>2. lost \in Int /\ lost <= history.crashes
        /\ (line # TornLine => lost + 1 <= history.crashes)
    BY <1>3, <1>4, <1>5, <1>7, <1>9, <2>1
  <2> QED  BY <1>2, <1>3, <1>6, <1>9, <2>2
<1> QED  BY <1>1, <1>8, <1>9

LEMMA AppendIterationInv == Inv /\ AppendIteration => Inv'
<1> SUFFICES ASSUME Inv, AppendIteration PROVE Inv'
  OBVIOUS
<1> USE DEF Inv, AppendIteration
<1> DEFINE line == Line(attempt.number, Len(trials))
<1>1. line \in Lines /\ line # TornLine
  <2>1. attempt.number \in 1..MaxAttempts
    BY TrainingAssumptions DEF TrainingTypeOK, Attempts, EndDecided
  <2>2. Len(trials) \in Nat \ {0}
    BY DEF TrainingTypeOK, EndDecided
  <2> QED  BY <2>1, <2>2, LineTyped
<1>2. disk'.log = Appended(disk.log, disk.open, line) /\ disk'.open = FALSE
  BY DEF TrainingTypeOK, Disks
<1> HIDE DEF line
<1>3. PICK lost :
        /\ lost = history.appended - Cardinality(Whole(disk'.log))
        /\ disk'.log \in Seq(LogEntries)
        /\ disk'.log # <<>>
        /\ Has(disk'.log, line)
        /\ disk.checkpoint = Nothing \/ Has(disk'.log, disk.checkpoint)
        /\ lost \in Int
        /\ lost + 1 <= history.crashes
  <2>1. line \in LogEntries
    BY <1>1 DEF LogEntries
  <2> QED  BY <1>1, <1>2, <2>1, AppendingKeeps
<1>4. disk'.checkpoint = disk.checkpoint /\ disk'.report = disk.report
      /\ disk'.state = disk.state /\ disk'.candidate = disk.candidate
  BY DEF TrainingTypeOK, Disks
<1>5. /\ history'.appended = history.appended + 1 /\ history'.crashes = history.crashes
      /\ history'.settled = history.settled /\ history.appended \in Nat
      /\ history' \in [appended : Nat, crashes : 0..MaxCrashes, settled : BOOLEAN]
  BY DEF TrainingTypeOK
<1>6. TrainingTypeOK'
  <2>1. disk' \in Disks
    BY <1>3 DEF TrainingTypeOK, Disks, LogEntries
  <2> QED  BY <1>5, <2>1 DEF TrainingTypeOK, Phases
<1>7. EndDecided'
  BY <1>5 DEF EndDecided
<1>8. Written'
  BY <1>5 DEF Written, EndDecided
<1>9. Tested'
  BY DEF Tested, PassedAt, Trial
<1>10. Logged'
  BY <1>2, <1>3, <1>4 DEF Logged, Accounted, line
<1>11. Lost'
  <2>1. AtStake' = 0
    BY <1>2 DEF AtStake
  <2>2. history.crashes \in Nat /\ Cardinality(Whole(disk'.log)) \in Nat
    <3>1. history.crashes \in Nat
      BY TrainingAssumptions DEF TrainingTypeOK
    <3>2. disk.log \in Seq(LogEntries) /\ disk.open \in BOOLEAN
          /\ (disk.open => disk.log # <<>>) /\ line \in LogEntries
      BY <1>1 DEF TrainingTypeOK, Disks, LogEntries, Logged
    <3> QED  BY <1>2, <3>1, <3>2, AppendedReads
  <2> QED  BY <1>3, <1>5, <2>1, <2>2 DEF Lost
<1> QED  BY <1>6, <1>7, <1>8, <1>9, <1>10, <1>11

LEMMA WriteReportInv == Inv /\ WriteReport => Inv'
<1> SUFFICES ASSUME Inv, WriteReport PROVE Inv'
  OBVIOUS
<1> USE DEF Inv, WriteReport
<1>1. /\ disk'.report = [number |-> attempt.number, status |-> verdict.status,
                         fake |-> verdict.fake]
      /\ disk'.log = disk.log /\ disk'.open = disk.open /\ disk'.text = disk.text /\ disk'.state = disk.state
      /\ disk'.checkpoint = disk.checkpoint /\ disk'.candidate = disk.candidate
  BY DEF TrainingTypeOK, Disks
<1>2. attempt.number \in 1..MaxAttempts
  BY TrainingAssumptions DEF TrainingTypeOK, Attempts, EndDecided
<1>3. disk'.report \in Reports
  BY <1>1, <1>2 DEF Reports, EndDecided, Final, TrainingTypeOK, Verdicts
<1>4. TrainingTypeOK'
  <2>1. disk' \in Disks
    BY <1>3 DEF TrainingTypeOK, Disks
  <2> QED  BY <2>1 DEF TrainingTypeOK, Phases
<1>5. EndDecided'
  BY DEF EndDecided
<1>6. Written'
  BY <1>1, <1>3, NothingIsNoRecord DEF Written, EndDecided
<1>7. Tested'
  BY DEF Tested, PassedAt, Trial
<1>8. Logged'
  BY <1>1 DEF Logged, Accounted
<1>9. Lost'
  BY <1>1 DEF Lost, AtStake
<1> QED  BY <1>4, <1>5, <1>6, <1>7, <1>8, <1>9

LEMMA WriteCheckpointInv == Inv /\ WriteCheckpoint => Inv'
<1> SUFFICES ASSUME Inv, WriteCheckpoint PROVE Inv'
  OBVIOUS
<1> USE DEF Inv, WriteCheckpoint
<1>1. /\ disk'.checkpoint = Line(attempt.number, Len(trials))
      /\ disk'.log = disk.log /\ disk'.open = disk.open /\ disk'.text = disk.text /\ disk'.state = disk.state
      /\ disk'.report = disk.report /\ disk'.candidate = disk.candidate
  BY DEF TrainingTypeOK, Disks
<1>2. Len(trials) \in Nat \ {0}
  BY DEF TrainingTypeOK, EndDecided
<1>3. TrainingTypeOK'
  <2>1. attempt.number \in 1..MaxAttempts
    BY TrainingAssumptions DEF TrainingTypeOK, Attempts, EndDecided
  <2>2. Line(attempt.number, Len(trials)) \in Lines
    BY <1>2, <2>1, LineTyped
  <2>3. disk' \in Disks
    BY <2>2 DEF TrainingTypeOK, Disks
  <2> QED  BY <2>3 DEF TrainingTypeOK, Phases
<1>4. EndDecided'
  BY <1>2 DEF EndDecided, Final
<1>5. Written'
  BY <1>1 DEF Written, EndDecided
<1>6. Tested'
  BY DEF Tested, PassedAt, Trial
<1>7. Logged'
  BY <1>1 DEF Logged, Accounted
<1>8. Lost'
  BY <1>1 DEF Lost, AtStake
<1> QED  BY <1>3, <1>4, <1>5, <1>6, <1>7, <1>8

LEMMA WriteStateInv == Inv /\ WriteState => Inv'
<1> SUFFICES ASSUME Inv, WriteState PROVE Inv'
  OBVIOUS
<1> USE DEF Inv, WriteState
<1>1. /\ disk'.state = [number |-> attempt.number, status |-> RunStatus]
      /\ disk'.log = disk.log /\ disk'.open = disk.open /\ disk'.text = disk.text /\ disk'.checkpoint = disk.checkpoint
      /\ disk'.report = disk.report /\ disk'.candidate = disk.candidate
  BY DEF TrainingTypeOK, Disks
<1>2. TrainingTypeOK'
  <2>1. attempt.number \in 1..MaxAttempts
    BY TrainingAssumptions DEF TrainingTypeOK, Attempts, EndDecided
  <2>2. disk'.state \in LoopStates
    BY <1>1, <2>1 DEF LoopStates, RunStatus
  <2>3. disk' \in Disks
    BY <2>2 DEF TrainingTypeOK, Disks
  <2> QED  BY <2>3 DEF TrainingTypeOK, Phases
<1>3. EndDecided'
  BY DEF EndDecided
<1>4. Written'
  <2>1. RunStatus' = RunStatus
    BY DEF RunStatus
  <2> QED  BY <1>1, <2>1 DEF Written, EndDecided
<1>5. Tested'
  BY DEF Tested, PassedAt, Trial
<1>6. Logged'
  BY <1>1 DEF Logged, Accounted
<1>7. Lost'
  BY <1>1 DEF Lost, AtStake
<1> QED  BY <1>2, <1>3, <1>4, <1>5, <1>6, <1>7

LEMMA WriteCandidateInv == Inv /\ WriteCandidate => Inv'
<1> SUFFICES ASSUME Inv, WriteCandidate PROVE Inv'
  OBVIOUS
<1> USE DEF Inv, WriteCandidate
<1> DEFINE c == Candidate(attempt.goal, satisfied, Trial, verdict)
<1>1. /\ disk'.candidate = [number |-> attempt.number, ready |-> c.ready, status |-> c.status]
      /\ disk'.log = disk.log /\ disk'.open = disk.open /\ disk'.text = disk.text /\ disk'.checkpoint = disk.checkpoint
      /\ disk'.report = disk.report /\ disk'.state = disk.state
  BY DEF TrainingTypeOK, Disks
<1>2. /\ c.ready \in BOOLEAN
      /\ c.status \in {"ready", "blocked", "deferred", "not_ready"}
      /\ c.ready => verdict.status = "deliver"
  BY CandidateTyped
<1>3. c' = c
  BY DEF Trial, Candidate, HasEvidence
<1>4. disk'.candidate \in Candidates
  <2>1. attempt.number \in 1..MaxAttempts
    BY TrainingAssumptions DEF TrainingTypeOK, Attempts, EndDecided
  <2> HIDE DEF c
  <2> QED  BY <1>1, <1>2, <2>1 DEF Candidates
<1>5. /\ history'.settled = TRUE /\ history'.crashes = history.crashes
      /\ history'.appended = history.appended
      /\ history' \in [appended : Nat, crashes : 0..MaxCrashes, settled : BOOLEAN]
  BY DEF TrainingTypeOK
<1>6. TrainingTypeOK'
  <2>1. disk' \in Disks
    BY <1>4 DEF TrainingTypeOK, Disks
  <2> QED  BY <1>5, <2>1 DEF TrainingTypeOK, Phases
<1>7. EndDecided'
  BY <1>5 DEF EndDecided
<1>8. Written'
  <2>1. RunStatus' = RunStatus
    BY DEF RunStatus
  <2>2. /\ disk'.candidate # Nothing
        /\ disk'.candidate.number = attempt.number
        /\ disk'.candidate.ready = c.ready
    BY <1>1, <1>4, NothingIsNoRecord
  <2>3. verdict.status = "iteration_budget_exhausted" => ~c.ready
    BY <1>2
  <2>4. disk'.report # Nothing /\ disk'.report.number = attempt.number
        /\ disk'.state = [number |-> attempt.number, status |-> RunStatus]
    BY <1>1 DEF Written
  <2>5. disk'.candidate.ready = c'.ready
    BY <1>3, <2>2
  <2> HIDE DEF c
  <2> QED  BY <2>1, <2>2, <2>3, <2>4, <2>5 DEF Written, c
<1>9. Tested'
  BY DEF Tested, PassedAt, Trial
<1>10. Logged'
  BY <1>1 DEF Logged, Accounted
<1>11. Lost'
  BY <1>1, <1>5 DEF Lost, AtStake
<1> QED  BY <1>6, <1>7, <1>8, <1>9, <1>10, <1>11

LEMMA CrashInv ==
  ASSUME Inv, NEW left \in {"nothing", "part", "character", "all"}, Crash(left)
  PROVE  Inv'
<1> USE DEF Inv, Crash
<1>1. /\ history'.settled = history.settled /\ ~history.settled
      /\ history'.appended = history.appended
      /\ history'.crashes = history.crashes + 1
      /\ history' \in [appended : Nat, crashes : 0..MaxCrashes, settled : BOOLEAN]
      /\ history.appended \in Nat /\ history.crashes \in Nat
  BY TrainingAssumptions DEF TrainingTypeOK, EndDecided
<1>2. EndDecided'
  BY <1>1 DEF EndDecided
<1>3. Written'
  BY <1>1 DEF Written
<1>4. Tested'
  BY DEF Tested, PassedAt, Trial
<1>5. CASE left = "nothing"
  <2>1. disk' = disk
    BY <1>5
  <2>2. TrainingTypeOK'
    BY <1>1, <2>1 DEF TrainingTypeOK, Phases
  <2>3. Logged'
    BY <2>1 DEF Logged, Accounted
  <2>4. Lost'
    <3>1. PICK before : before = Cardinality(Whole(disk.log)) /\ before \in Nat
      <4>1. disk.log \in Seq(LogEntries) /\ disk.open \in BOOLEAN
            /\ (disk.open => disk.log # <<>>) /\ TornLine \in LogEntries
        BY DEF TrainingTypeOK, Disks, LogEntries, Logged
      <4> QED  BY <4>1, AppendedReads
    <3>2. AtStake \in Nat /\ AtStake' = AtStake
      BY <2>1 DEF AtStake
    <3>3. history.appended - before + AtStake <= history.crashes
      BY <3>1 DEF Lost
    <3>4. history'.appended - before + AtStake' <= history'.crashes
      BY <1>1, <3>1, <3>2, <3>3
    <3> QED  BY <2>1, <3>1, <3>4 DEF Lost
  <2> QED  BY <1>2, <1>3, <1>4, <2>2, <2>3, <2>4
<1>6. CASE left # "nothing"
  <2> DEFINE line == IF left = "all" THEN Line(attempt.number, Len(trials)) ELSE TornLine
  <2>1. phase = "append" /\ phase' = "idle"
    BY <1>6
  <2>2. line \in LogEntries
    <3>1. attempt.number \in 1..MaxAttempts /\ Len(trials) \in Nat \ {0}
      BY <2>1, TrainingAssumptions DEF TrainingTypeOK, Attempts, EndDecided
    <3> QED  BY <3>1, LineTyped DEF LogEntries
  <2>3. /\ disk'.log = Appended(disk.log, disk.open, line) /\ disk'.open = TRUE
        /\ disk'.text \in BOOLEAN /\ disk'.checkpoint = disk.checkpoint /\ disk'.report = disk.report
        /\ disk'.state = disk.state /\ disk'.candidate = disk.candidate
    BY <1>6 DEF TrainingTypeOK, Disks
  <2> HIDE DEF line
  <2>4. PICK lost :
          /\ lost = history.appended - Cardinality(Whole(disk'.log))
          /\ disk'.log \in Seq(LogEntries)
          /\ disk'.log # <<>>
          /\ disk.checkpoint = Nothing \/ Has(disk'.log, disk.checkpoint)
          /\ LastEntry(disk'.log) = IF disk.open THEN TornLine ELSE line
          /\ lost \in Int
          /\ lost <= history.crashes
          /\ disk.open \/ line # TornLine => lost + 1 <= history.crashes
    BY <2>2, <2>3, AppendingKeeps
  <2>5. TrainingTypeOK'
    <3>1. disk' \in Disks
      BY <1>6, <2>3, <2>4 DEF TrainingTypeOK, Disks, LogEntries
    <3> QED  BY <1>1, <3>1 DEF TrainingTypeOK, Phases
  <2>6. Logged'
    BY <2>1, <2>3, <2>4 DEF Logged, Accounted
  <2>7. Lost'
    <3>1. AtStake' = IF LastEntry(disk'.log) = TornLine THEN 1 ELSE 2
      BY <2>3 DEF AtStake
    <3>2. AtStake' = 1 \/ (AtStake' = 2 /\ lost + 1 <= history.crashes)
      BY <2>4, <3>1
    <3>3. lost + AtStake' <= history'.crashes
      BY <1>1, <2>4, <3>2
    <3>4. lost = history'.appended - Cardinality(Whole(disk'.log))
      BY <1>1, <2>4
    <3>5. Lost' <=> history'.appended - Cardinality(Whole(disk'.log)) + AtStake' <= history'.crashes
      BY DEF Lost
    <3> QED  BY ONLY <3>3, <3>4, <3>5
  <2> QED  BY <1>2, <1>3, <1>4, <2>5, <2>6, <2>7
<1> QED  BY <1>5, <1>6

\* A step that changes nothing keeps the invariant.
LEMMA StutterInv == Inv /\ UNCHANGED trainingVars => Inv'
<1> SUFFICES ASSUME Inv, UNCHANGED trainingVars PROVE Inv'
  OBVIOUS
<1> USE DEF Inv, trainingVars
<1>1. TrainingTypeOK'
  BY DEF TrainingTypeOK
<1>2. EndDecided' /\ Logged' /\ Lost'
  BY DEF EndDecided, Logged, Accounted, Lost, AtStake
<1>3. Written'
  BY DEF Written, RunStatus, Trial
<1>4. Tested'
  BY DEF Tested, PassedAt, Trial
<1> QED  BY <1>1, <1>2, <1>3, <1>4

LEMMA StepInv == Inv /\ [TrainingNext]_trainingVars => Inv'
<1> SUFFICES ASSUME Inv, [TrainingNext]_trainingVars PROVE Inv'
  OBVIOUS
<1>1. CASE UNCHANGED trainingVars
  BY <1>1, StutterInv
<1>2. CASE \E goal \in Goals, real, promise \in BOOLEAN, limit \in Limits :
              Begin(goal, real, limit, promise)
  BY <1>2, BeginInv
<1>3. CASE Iterate
  <2>1. CASE Drive(Simulated(attempt.goal))
    <3>1. attempt.goal \subseteq Criteria
      <4>1. attempt.goal \in Goals \union {{}}
        BY DEF Inv, TrainingTypeOK, Attempts
      <4> QED  BY <4>1, TrainingAssumptions
    <3> QED  BY <2>1, <3>1, SimulatedTyped, DriveInv
  <2>2. ASSUME NEW run \in Encounters, Drive(Executed(run))  PROVE Inv'
    <3>1. run \in Executions
      BY TrainingAssumptions
    <3> QED  BY <2>2, <3>1, ExecutedTyped, DriveInv
  <2> QED  BY <1>3, <2>1, <2>2 DEF Iterate
<1>4. CASE \E promised \in BOOLEAN : Conclude(promised)
  BY <1>4, ConcludeInv
<1>5. CASE AppendIteration \/ WriteReport \/ WriteCheckpoint \/ WriteState \/ WriteCandidate
  BY <1>5, AppendIterationInv, WriteReportInv, WriteCheckpointInv, WriteStateInv,
     WriteCandidateInv
<1>6. CASE \E left \in {"nothing", "part", "character", "all"} : Crash(left)
  BY <1>6, CrashInv
<1> QED  BY <1>1, <1>2, <1>3, <1>4, <1>5, <1>6 DEF TrainingNext

\* The invariant holds of every behaviour.
THEOREM TrainingInvariant == TrainingSpec => []Inv
<1>1. TrainingInit => Inv
  BY InitInv
<1>2. Inv /\ [TrainingNext]_trainingVars => Inv'
  BY StepInv
<1> QED  BY <1>1, <1>2, PTL DEF TrainingSpec

-----------------------------------------------------------------------------
(* The properties. *)

\* The loop's variables and every file of the directory keep their type, for
\* any number of attempts and deaths (ProjectTrainingLoop and its state store).
THEOREM TrainingTypeCorrect == TrainingSpec => []TrainingTypeOK
<1>1. Inv => TrainingTypeOK
  BY DEF Inv
<1> QED  BY <1>1, TrainingInvariant, PTL

\* Whatever tests, repairs and empty test runs an iteration met, the gates
\* deliver only what was tested (ConvergenceEngine.decide).
THEOREM DeliveryWasTested == TrainingSpec => []DeliveredWasTested
<1>1. Inv => DeliveredWasTested
  <2> SUFFICES ASSUME Inv, verdict.status = "deliver", ~verdict.promised
               PROVE  /\ Trial.failed = 0
                      /\ \E i \in DOMAIN trials :
                           /\ trials[i].passed > 0 /\ trials[i].failed = 0
                           /\ \A j \in i..Len(trials) :
                                trials[j].failed > 0 => "test" \notin attempt.goal
    BY DEF DeliveredWasTested
  <2>1. /\ Required(attempt.goal) \subseteq satisfied
        /\ Required(attempt.goal) # {}
        /\ Trial.failed = 0
    BY DEF Inv, Tested
  <2>2. CASE "test" \in attempt.goal
    <3>1. "test" \in satisfied
      BY <2>1, <2>2 DEF Required
    <3>2. PICK i \in DOMAIN trials : PassedAt(i) /\ \A j \in i..Len(trials) : trials[j].failed = 0
      BY <3>1 DEF Inv, Tested
    <3> QED  BY <2>1, <3>2 DEF PassedAt
  <2>3. CASE "test" \notin attempt.goal
    <3>1. PICK i \in DOMAIN trials : PassedAt(i)
      BY <2>1 DEF Inv, Tested
    <3> QED  BY <2>1, <2>3, <3>1 DEF PassedAt
  <2> QED  BY <2>2, <2>3
<1> QED  BY <1>1, TrainingInvariant, PTL

\* A run that comes to its end is to be delivered or has used up its iterations
\* (loop_run_command's last branches, ConvergenceEngine._continue_or_budget).
THEOREM RunsEndDecided == TrainingSpec => []EndsDecided
<1>1. Inv => EndsDecided
  <2> SUFFICES ASSUME Inv, history.settled
               PROVE  /\ disk.state # Nothing
                      /\ \/ disk.state.status = "ready_to_deliver" /\ verdict.status = "deliver"
                         \/ disk.state.status = "failed" /\ Len(trials) >= attempt.limit
    BY DEF EndsDecided
  <2>1. disk.state = [number |-> attempt.number, status |-> RunStatus]
        /\ disk.report # Nothing /\ disk.report.number = attempt.number
    BY DEF Inv, Written
  <2>2. \/ RunStatus = "ready_to_deliver" /\ verdict.status = "deliver"
        \/ RunStatus = "failed" /\ Len(trials) >= attempt.limit
    BY DEF Inv, EndDecided, Final, RunStatus
  <2>3. attempt.number \in 1..MaxAttempts
    BY <2>1 DEF Inv, TrainingTypeOK, Disks, Reports
  <2>4. disk.state \in LoopStates
    BY <2>1, <2>2, <2>3 DEF LoopStates
  <2> QED  BY <2>1, <2>2, <2>4, NothingIsNoRecord
<1> QED  BY <1>1, TrainingInvariant, PTL

\* Once a run has ended, loop deliver shows that run, and the same conclusion
\* as its state (DeliveryGate.status over the files of the directory).
THEOREM DirectoryAgrees == TrainingSpec => []SettledDiskAgrees
<1>1. Inv => SettledDiskAgrees
  <2> SUFFICES ASSUME Inv, history.settled PROVE SettledDiskAgrees
    BY DEF SettledDiskAgrees
  <2> DEFINE c == Candidate(attempt.goal, satisfied, Trial, verdict)
  <2>1. /\ disk.report # Nothing /\ disk.report.number = attempt.number
        /\ disk.state.status = RunStatus
        /\ disk.candidate # Nothing
        /\ disk.candidate.number = attempt.number
        /\ disk.candidate.ready = c.ready
    BY DEF Inv, Written
  <2>2. c.ready => verdict.status = "deliver"
    BY CandidateTyped
  <2>3. /\ DeliveryStatus = "ready" => disk.candidate.ready
        /\ disk.candidate.ready => DeliveryStatus \in {"ready", "unreadable"}
    BY <2>1 DEF DeliveryStatus, Inv, TrainingTypeOK, Disks, Candidates
  <2>4. RunStatus = "ready_to_deliver" <=> verdict.status = "deliver"
    BY DEF RunStatus
  <2>5. verdict.status = "deliver" /\ ~verdict.promised => c.ready
    <3> SUFFICES ASSUME verdict.status = "deliver", ~verdict.promised PROVE c.ready
      OBVIOUS
    <3>1. /\ Required(attempt.goal) \subseteq satisfied /\ Required(attempt.goal) # {}
          /\ ~verdict.fake
      BY DEF Inv, Tested, EndDecided
    <3> QED  BY <3>1, EvidenceFound, CandidateTyped
  <2> HIDE DEF c
  <2> QED  BY <2>1, <2>2, <2>3, <2>4, <2>5 DEF SettledDiskAgrees
<1> QED  BY <1>1, TrainingInvariant, PTL

\* What the checkpoint names is in the log, or a torn line is
\* (append_iteration before write_checkpoint).
THEOREM CheckpointLogged == TrainingSpec => []CheckpointIsLogged
<1>1. Inv => CheckpointIsLogged
  BY DEF Inv, Logged, Accounted, Has, CheckpointIsLogged
<1> QED  BY <1>1, TrainingInvariant, PTL

\* Each death costs a log that is still text one line at most (append_iteration,
\* _read_jsonl).
THEOREM AppendsLoseOne == TrainingSpec => []TornAppendsLoseOne
<1>1. Inv => TornAppendsLoseOne
  <2> SUFFICES ASSUME Inv PROVE TornAppendsLoseOne
    OBVIOUS
  <2>1. PICK left : left = Cardinality(Whole(disk.log)) /\ left \in Nat
    <3>1. disk.log \in Seq(LogEntries) /\ disk.open \in BOOLEAN
          /\ (disk.open => disk.log # <<>>) /\ TornLine \in LogEntries
      BY DEF Inv, TrainingTypeOK, Disks, LogEntries, Logged
    <3> QED  BY <3>1, AppendedReads
  <2>2. AtStake \in Nat
    BY DEF AtStake
  <2>3. history.appended \in Nat /\ history.crashes \in Nat
    BY TrainingAssumptions DEF Inv, TrainingTypeOK
  <2>4. history.appended - left + AtStake <= history.crashes
    BY <2>1 DEF Inv, Lost
  <2>5. history.appended - left <= history.crashes
    BY <2>1, <2>2, <2>3, <2>4
  <2> QED  BY <2>1, <2>5 DEF TornAppendsLoseOne, Readable
<1> QED  BY <1>1, TrainingInvariant, PTL

-----------------------------------------------------------------------------
(* How long a run may take. *)

\* The steps a run has before it: five for every iteration its limit still allows, and two
\* files when the last one is over.
RunLeft ==
  LET more == 5 * (attempt.limit - Len(trials))
  IN  IF phase = "decide" THEN more + 6
      ELSE IF phase = "append" THEN more + 5
      ELSE IF phase = "report" THEN more + 4
      ELSE IF phase = "checkpoint" THEN more + 3
      ELSE IF phase = "drive" THEN more + 2
      ELSE IF phase = "state" THEN 2
      ELSE IF phase = "candidate" THEN 1
      ELSE 0

\* Every step of a run brings its end nearer, whatever the executor meets and whatever is
\* decided: no iteration begins beyond the limit, and none is repeated.
RunsRunOut == [][phase # "idle" => RunLeft' \in Nat /\ RunLeft' < RunLeft]_trainingVars

\* A run never has more iterations than its limit, and goes on only with fewer.
Within ==
  /\ phase = "drive" => Len(trials) < attempt.limit
  /\ phase \notin {"idle", "drive"} => Len(trials) <= attempt.limit

\* What the measure is made of.
LEMMA RunNumbers ==
  ASSUME Inv
  PROVE  attempt.limit \in Nat /\ Len(trials) \in Nat
<1>1. attempt.limit \in Limits \union {0}
  BY DEF Inv, TrainingTypeOK, Attempts
<1>2. \A limit \in Limits \union {0} : limit \in Nat
  BY TrainingAssumptions
<1>3. attempt.limit \in Nat
  BY <1>1, <1>2, Zenon
<1>4. trials \in Seq(Trials)
  BY DEF Inv, TrainingTypeOK
<1> QED  BY <1>3, <1>4

\* Each action, with the measure before and after it.
LEMMA RunStep ==
  ASSUME Inv, Within, TrainingNext
  PROVE  /\ Within'
         /\ phase # "idle" => RunLeft' \in Nat /\ RunLeft' < RunLeft
<1>1. attempt.limit \in Nat /\ Len(trials) \in Nat
  BY RunNumbers
<1>2. ASSUME NEW goal \in Goals, NEW real \in BOOLEAN, NEW promise \in BOOLEAN,
             NEW limit \in Limits, Begin(goal, real, limit, promise)
      PROVE  Within' /\ phase = "idle"
  <2>1. Len(<<>>) = 0 /\ limit \in Nat /\ limit > 0
    BY TrainingAssumptions
  <2>2. attempt'.limit = limit /\ trials' = <<>> /\ phase' = "drive" /\ phase = "idle"
    BY <1>2 DEF Begin
  <2> QED  BY <2>1, <2>2 DEF Within
<1>3. ASSUME NEW trial, Drive(trial)
      PROVE  Within' /\ RunLeft' \in Nat /\ RunLeft' < RunLeft
  <2>1. /\ phase = "drive" /\ phase' = "decide" /\ attempt' = attempt
        /\ trials' = Append(trials, trial)
    BY <1>3 DEF Drive
  <2>2. Len(trials') = Len(trials) + 1
    BY <2>1 DEF Inv, TrainingTypeOK
  <2> QED  BY <1>1, <2>1, <2>2 DEF Within, RunLeft
<1>4. ASSUME NEW promised \in BOOLEAN, Conclude(promised)
      PROVE  Within' /\ RunLeft' \in Nat /\ RunLeft' < RunLeft
  BY <1>1, <1>4 DEF Conclude, Within, RunLeft
<1>5. CASE AppendIteration
  BY <1>1, <1>5 DEF AppendIteration, Within, RunLeft
<1>6. CASE WriteReport
  BY <1>1, <1>6 DEF WriteReport, Within, RunLeft
<1>7. CASE WriteCheckpoint
  BY <1>1, <1>7 DEF WriteCheckpoint, Within, RunLeft
<1>8. CASE WriteState
  BY <1>1, <1>8 DEF WriteState, Within, RunLeft
<1>9. CASE WriteCandidate
  BY <1>1, <1>9 DEF WriteCandidate, Within, RunLeft
<1>10. ASSUME NEW left, Crash(left)
       PROVE  Within' /\ RunLeft' \in Nat /\ RunLeft' < RunLeft
  <2>1. phase # "idle" /\ phase' = "idle" /\ RunLeft' = 0
    BY <1>10 DEF Crash, RunLeft
  <2>2. phase \in Phases /\ attempt.limit - Len(trials) >= 0
    BY <1>1, <2>1 DEF Inv, TrainingTypeOK, Within
  <2>3. RunLeft > 0
    BY <1>1, <2>1, <2>2 DEF RunLeft, Phases
  <2> QED  BY <2>1, <2>3 DEF Within
<1> QED
  BY <1>2, <1>3, <1>4, <1>5, <1>6, <1>7, <1>8, <1>9, <1>10 DEF TrainingNext, Iterate

\* A run that nobody kills ends after five steps for every iteration of its limit and two
\* more, or earlier (loop_run_command, --max-iterations): the loop cannot go on for good.
THEOREM TrainingRunsOut == TrainingSpec => RunsRunOut
<1>1. TrainingInit => Within
  BY DEF TrainingInit, Within
<1>2. Inv /\ Within /\ [TrainingNext]_trainingVars => Within'
  BY RunStep DEF Within, trainingVars
<1>3. Inv /\ Within /\ [TrainingNext]_trainingVars
      => [phase # "idle" => RunLeft' \in Nat /\ RunLeft' < RunLeft]_trainingVars
  BY RunStep
<1> QED  BY <1>1, <1>2, <1>3, TrainingInvariant, PTL DEF TrainingSpec, RunsRunOut

=============================================================================
