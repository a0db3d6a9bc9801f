---------------------------- MODULE NumberLemmas ----------------------------
(***************************************************************************)
(* Least numbers, in the place of induction, and functions that are        *)
(* defined step by step.  The library's theorems about both take an        *)
(* operator; these do not.                                                 *)
(***************************************************************************)
EXTENDS Integers, FiniteSetTheorems, WellFoundedInduction, TLAPS

\* A set of numbers has a least one, since finite sets of numbers are well-founded.
LEMMA Least ==
  ASSUME NEW T, T \subseteq Nat, T # {}
  PROVE  \E x \in T : \A y \in T : x <= y
<1> DEFINE Upto == {X \in FiniteSubsetsOf(Nat) : \E x \in T : X = 1..x}
<1>1. \A x \in T : 1..x \in Upto
  BY FS_Interval DEF FiniteSubsetsOf
<1>2. Upto \subseteq FiniteSubsetsOf(Nat) /\ Upto # {}
  BY <1>1
<1>3. IsWellFoundedOn(StrictSubsetOrdering(Nat), FiniteSubsetsOf(Nat))
  BY FS_StrictSubsetOrderingWellFounded
<1> HIDE DEF Upto
<1>4. PICK X \in Upto : \A Y \in Upto : ~(<<Y, X>> \in StrictSubsetOrdering(Nat))
  BY <1>2, <1>3, WFMin
<1>5. PICK x \in T : X = 1..x
  BY <1>4 DEF Upto
<1>6. ASSUME NEW y \in T  PROVE x <= y
  <2>1. SUFFICES ASSUME y < x PROVE FALSE
    OBVIOUS
  <2>2. (1..y) \subseteq (1..x) /\ x \in 1..x /\ x \notin 1..y
    BY <2>1
  <2>3. <<1..y, 1..x>> \in StrictSubsetOrdering(Nat)
    BY <2>2 DEF StrictSubsetOrdering
  <2> QED  BY <1>1, <1>4, <1>5, <2>3
<1> QED  BY <1>5, <1>6

\* What holds at first and from each number to the next holds of all.
LEMMA Along ==
  ASSUME NEW N \in Nat, NEW f, NEW J, f[0] \in J[0],
         \A n \in 1..N : f[n - 1] \in J[n - 1] => f[n] \in J[n]
  PROVE  \A n \in 0..N : f[n] \in J[n]
<1> SUFFICES ASSUME ~(\A n \in 0..N : f[n] \in J[n]) PROVE FALSE
  OBVIOUS
<1> DEFINE Outside == {n \in 0..N : f[n] \notin J[n]}
<1>1. PICK n \in Outside : \A m \in Outside : n <= m
  <2>1. Outside # {} /\ Outside \subseteq Nat
    OBVIOUS
  <2> HIDE DEF Outside
  <2> QED  BY <2>1, Least
<1>2. n \in 1..N
  OBVIOUS
<1>3. n - 1 \in 0..N /\ n - 1 \notin Outside
  BY <1>1, <1>2
<1> QED  BY <1>1, <1>2, <1>3

StepsStay(N, step, J) == \A n \in 1..N : \A x \in J[n - 1] : step[n][x] \in J[n]

IsPath(f, N, b, step) == /\ f = [n \in 0..N |-> f[n]] /\ f[0] = b
                         /\ \A n \in 1..N : f[n] = step[n][f[n - 1]]

\* Functions that are defined step by step exist.
LEMMA Stepwise ==
  ASSUME NEW N \in Nat, NEW b, NEW step, NEW J, b \in J[0], StepsStay(N, step, J)
  PROVE  \E f : IsPath(f, N, b, step) /\ \A n \in 0..N : f[n] \in J[n]
<1> DEFINE Path(k, f) == /\ f = [n \in 0..k |-> f[n]] /\ f[0] = b
                         /\ \A n \in 1..k : f[n] = step[n][f[n - 1]]
<1>1. \E f : Path(N, f)
  <2> SUFFICES ASSUME ~(\E f : Path(N, f)) PROVE FALSE
    OBVIOUS
  <2> DEFINE None == {k \in 0..N : ~(\E f : Path(k, f))}
  <2>1. PICK k \in None : \A m \in None : k <= m
    <3>1. N \in None /\ None \subseteq Nat
      OBVIOUS
    <3> HIDE DEF None
    <3> QED  BY <3>1, Least
  <2>2. k # 0
    <3>1. PICK f : f = [n \in 0..0 |-> b]
      OBVIOUS
    <3>2. Path(0, f)
      BY <3>1
    <3> HIDE DEF Path
    <3> QED  BY <2>1, <3>2
  <2>3. k \in 1..N /\ k - 1 \in 0..N /\ k - 1 \notin None
    BY <2>1, <2>2
  <2>4. PICK f : Path(k - 1, f)
    BY <2>3
  <2>5. PICK g : g = [n \in 0..k |-> IF n = k THEN step[k][f[k - 1]] ELSE f[n]]
    OBVIOUS
  <2>6. \A n \in 0..k - 1 : g[n] = f[n]
    BY <2>3, <2>5
  <2>7. g[k] = step[k][g[k - 1]] /\ g[0] = b
    BY <2>3, <2>4, <2>5, <2>6
  <2>8. ASSUME NEW n \in 1..k  PROVE g[n] = step[n][g[n - 1]]
    <3>1. CASE n = k
      BY <2>7, <3>1
    <3>2. CASE n # k
      <4>1. n \in 1..k - 1 /\ n \in 0..k - 1 /\ n - 1 \in 0..k - 1
        BY <2>3, <3>2
      <4> QED  BY <2>4, <2>6, <4>1
    <3> QED  BY <3>1, <3>2
  <2>9. g = [n \in 0..k |-> g[n]]
    BY <2>5
  <2>10. Path(k, g)
    BY <2>7, <2>8, <2>9
  <2> HIDE DEF Path
  <2> QED  BY <2>1, <2>10
<1>2. PICK f : Path(N, f)
  BY <1>1
<1>3. \A n \in 1..N : f[n - 1] \in J[n - 1] => f[n] \in J[n]
  BY <1>2 DEF StepsStay
<1>4. \A n \in 0..N : f[n] \in J[n]
  BY <1>2, <1>3, Along
<1>5. IsPath(f, N, b, step)
  BY <1>2 DEF IsPath
<1> QED  BY <1>4, <1>5
=============================================================================
