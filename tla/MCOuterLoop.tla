---------------------------- MODULE MCOuterLoop ----------------------------
(***************************************************************************)
(* Values for TLC: the command line always locks the whole workspace.      *)
(***************************************************************************)
EXTENDS OuterLoop, TLC

Whole == {{"."}}

People(p, v, r) == [producer |-> p, verifier |-> v, reviewer |-> r]

SomeRoles == {People("ann", "bob", "cy"), People("ann", "bob", "ann")}

Interchangeable == Permutations(Procs) \union Permutations(Tasks)

InterchangeableProcs == Permutations(Procs)
=============================================================================
