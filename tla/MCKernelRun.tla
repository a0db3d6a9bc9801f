---------------------------- MODULE MCKernelRun ----------------------------
(***************************************************************************)
(* Plans for TLC.  Each letter of the alphabet is one kind of instruction  *)
(* an intent compiler can emit; a plan is a short word over it, with or    *)
(* without a closing LOOP.HALT.  A letter used twice is the same           *)
(* instruction twice, as far as fingerprints go.                           *)
(***************************************************************************)
EXTENDS KernelRun, SequencesExt

NoHints == [accept |-> FALSE, satisfied |-> FALSE, failed |-> FALSE,
            repairable |-> FALSE, missing |-> FALSE, score |-> NoEvidence]

PlainCall == [form |-> "ok", risk |-> "low", ask |-> FALSE, policy |-> "allow"]

Plain(id, op) ==
  [id |-> id, op |-> op, gate |-> "allow", call |-> PlainCall, hints |-> NoHints]

Sys(id, call) == [Plain(id, "SYSCALL") EXCEPT !.call = call]

Read    == Sys(1, PlainCall)
Edit    == Sys(2, [PlainCall EXCEPT !.risk = "medium", !.ask = TRUE])
High    == Sys(3, [PlainCall EXCEPT !.risk = "high"])
Denied  == Sys(4, [PlainCall EXCEPT !.risk = "medium", !.policy = "deny"])
Unknown == Sys(5, [PlainCall EXCEPT !.form = "unknown"])
Banned  == [Read EXCEPT !.id = 6, !.gate = "deny"]
Goal    == Plain(7, "OTHER")
Accept  == [Plain(8, "EVAL.APPLY") EXCEPT !.hints.accept = TRUE]
Ask     == [Plain(9, "EVAL.APPLY") EXCEPT !.hints.missing = TRUE]
Done    == [Plain(10, "EVAL.APPLY") EXCEPT !.hints.satisfied = TRUE]
Gauge   == [Plain(11, "PROGRESS.MEASURE") EXCEPT !.hints.score = 9]
Retry   == [Plain(12, "EVAL.APPLY") EXCEPT !.hints.failed = TRUE, !.hints.repairable = TRUE]
Stop    == Plain(13, "LOOP.HALT")

Bodies(n, letters) == UNION {[1..k -> letters] : k \in 0..n}

Settings(plans, maxes, modes, autos) ==
  [plan : plans, max : maxes, mode : modes, auto : autos]

\* Short words over the letters that interact, and a few longer ones.
Words == {Append(w, Stop) : w \in Bodies(3, {Read, Edit, High, Accept, Gauge})}

Others ==
  {<<Goal, Edit, Accept, Gauge, Stop>>, <<Read, Read, Read, Read, Stop>>,
   <<Denied, Accept, Stop>>, <<Unknown, Accept, Stop>>, <<Goal, Banned, Stop>>,
   <<Ask, High, Stop>>, <<High, Stop>>, <<Read, Ask, Stop>>, <<Read, Done>>, <<Goal, Goal>>,
   <<Retry, Retry, Gauge, Stop>>, <<Edit, Edit>>, <<Edit, Ask, Stop>>}

SoloSpecs ==
  Settings(Words, {3}, {"guarded"}, {FALSE}) \cup
  Settings(Others, {2, 8}, {"guarded", "dry_run"}, BOOLEAN)

\* Two gated calls raced by two processes, to the limit and beyond it, a gated call with a
\* plain one after it or none, and two plans that never stop.
SharedSpecs ==
  Settings({<<Edit, High, Stop>>}, {1, 2}, {"guarded"}, {FALSE}) \cup
  Settings({<<Edit, Read>>}, {1, 8}, {"guarded"}, {FALSE}) \cup
  Settings({<<Edit, Stop>>, <<Goal, Gauge>>, <<Accept, Banned>>}, {8}, {"guarded"}, {FALSE})

Denials == Settings({<<Denied, Accept, Stop>>}, {8}, {"guarded"}, {FALSE})

Hinted == Settings({<<Read, Accept, Stop>>}, {8}, {"guarded"}, {FALSE})

Scores == {-3, 1, 9}

\* The processes are interchangeable, and the shared run checks invariants only.
AnyProcess == Permutations(Procs)

=============================================================================
