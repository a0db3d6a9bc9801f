---------------------------- MODULE GovernedRun ----------------------------
(***************************************************************************)
(* What one kernel run promises to the person who governs it, with no      *)
(* records, files, scores or decisions:                                    *)
(*   - effects happen only while the run is live, in plan order, each      *)
(*     position at most once, within the step limit;                       *)
(*   - an effect that needs approval uses up a leave given for this stretch*)
(*     of the run;                                                         *)
(*   - a run that is over, or lost, has no further effect;                 *)
(*   - a run that is over stays over and one that asks keeps asking, unless*)
(*     a process that works on it is killed: that can lose any run, and a  *)
(*     lost run is never found again.                                      *)
(* KernelRun's single-process specification implements this one.           *)
(***************************************************************************)
EXTENDS Integers, Sequences

VARIABLES
  contract, \* [max : step limit, gated : positions that need leave]; fixed
  phase,    \* unborn, live, asking, over or lost
  log,      \* the positions performed so far
  leave,    \* an approval is available to the next effect
  killed    \* some process was killed while it worked on the run

vars == <<contract, phase, log, leave, killed>>

LastPerformed == IF log = <<>> THEN 0 ELSE log[Len(log)]

Init ==
  /\ contract \in [max : Nat, gated : SUBSET Nat]
  /\ phase = "unborn"
  /\ log = <<>>
  /\ leave = FALSE
  /\ killed = FALSE

Begin ==
  /\ phase = "unborn"
  /\ phase' = "live"
  /\ UNCHANGED <<contract, log, leave, killed>>

Perform(n) ==
  /\ phase = "live"
  /\ n > LastPerformed
  /\ n \in contract.gated => leave
  /\ log' = Append(log, n)
  /\ leave' = FALSE
  /\ UNCHANGED <<contract, phase, killed>>

\* A syscall that has no effect still uses up the leave.
Waste ==
  /\ phase = "live"
  /\ leave
  /\ leave' = FALSE
  /\ UNCHANGED <<contract, phase, log, killed>>

\* The run stops: to ask, for good, or because nobody executes it any more.
Stop ==
  /\ phase = "live"
  /\ phase' \in {"asking", "over", "lost"}
  /\ leave' = FALSE
  /\ UNCHANGED <<contract, log, killed>>

Allow ==
  /\ phase = "asking"
  /\ phase' = "live"
  /\ leave' = TRUE
  /\ UNCHANGED <<contract, log, killed>>

Refuse ==
  /\ phase = "asking"
  /\ phase' = "over"
  /\ UNCHANGED <<contract, log, leave, killed>>

\* A death inside a save destroys the record, whatever it said; and nobody goes on with a
\* run whose process died before it asked or ended.
Die ==
  /\ phase' \in IF phase \in {"unborn", "live"} THEN {"lost"} ELSE {phase, "lost"}
  /\ leave' = FALSE
  /\ killed' = TRUE
  /\ UNCHANGED <<contract, log>>

Next == \/ Die \/ Begin \/ Waste \/ Stop \/ Allow \/ Refuse
        \/ \E n \in 1..contract.max : Perform(n)

Spec == Init /\ [][Next]_vars

=============================================================================
