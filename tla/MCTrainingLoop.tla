--------------------------- MODULE MCTrainingLoop ---------------------------
(***************************************************************************)
(* Values for TLC.  The tests' health is exact in hundredths, so that      *)
(* counting in integers rounds nothing the scorer would not.               *)
(***************************************************************************)
EXTENDS TrainingLoop

SomeGoals == {{"functional"}, {"test", "delivery"}, {"quality", "doc"}}

Met(patch, errors, exit, passed, failed, lines) ==
  [patch |-> patch, errors |-> errors, exit |-> exit,
   passed |-> passed, failed |-> failed, lines |-> lines]

SomeEncounters ==
  {Met("applied", 0, "zero", 2, 0, 0),    \* all tests pass
   Met("dry_run", 0, "zero", 0, 0, 0),    \* a dry run, or no counts in the output
   Met("none", 0, "nonzero", 0, 0, 0),    \* a failure nothing is said about
   Met("none", 0, "nonzero", 2, 2, 2),
   Met("refused", 2, "zero", 2, 0, 0),    \* the patch is refused, the tests pass
   Met("failed", 1, "timeout", 0, 0, 0)}
=============================================================================
