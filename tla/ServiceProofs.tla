--------------------------- MODULE ServiceProofs ---------------------------
(***************************************************************************)
(* Proofs about services that share no state; each section is about one of *)
(* them: the calls to providers and the policy engine, then the stores of  *)
(* files that commands read and write back in several steps, which are the *)
(* backup vault, the review artifacts and the approval cards, and last the *)
(* patch applier.  They hold for any identifiers, processes and contents   *)
(* and any number of commands and deaths.  At the end, the behaviours that *)
(* MCServices puts together from these services, the training loop, the    *)
(* memory repository and the fusion router.                                *)
(***************************************************************************)
EXTENDS MCServices, TrainingLoopProofs, MemoryStoreProofs, FusionProofs, SequenceTheorems

-----------------------------------------------------------------------------
(* Provider calls.  What a key has spent and what it still has in flight    *)
(* stay, together, within its budget and the surplus of the calls that flew *)
(* at once: the check establishes it, and answer and commit only move calls *)
(* about.                                                                   *)

\* The calls on key k that completed and are not charged yet.
Committing(k) == {c \in InFlight(k) : call[c].stage = "commit"}

\* Past the check there is an entry, and no entry is without a limit.
Staged ==
  \A c \in Callers :
    /\ call[c].stage \in {"create", "check", "commit"} => Metered(call[c])
    /\ call[c].stage \in {"check", "call", "commit"} /\ Metered(call[c]) =>
         ledger[call[c].key] # NoEntry

\* Completed calls are charged or about to be.
Charged(k) ==
  IF ledger[k] = NoEntry THEN tally.completed[k] = 0
  ELSE tally.completed[k] = ledger[k].used + Cardinality(Committing(k))

Carried(k) ==
  /\ Cardinality(InFlight(k)) <= tally.peak[k]
  /\ ledger[k] # NoEntry => /\ ledger[k].max >= 1
                            /\ ledger[k].used + Cardinality(InFlight(k))
                                 <= ledger[k].max + Surplus(k)

CallsInv == CallsTypeOK /\ Staged /\ \A k \in Keys : Charged(k) /\ Carried(k)
-----------------------------------------------------------------------------
(* The calls in flight. *)

Flies(record, k) ==
  record.key = k /\ Metered(record) /\ record.stage \in {"call", "commit"}

\* What is in flight is finite, and so is what is about to be charged.
LEMMA FlightFinite ==
  ASSUME NEW k
  PROVE  /\ IsFiniteSet(InFlight(k)) /\ IsFiniteSet(Committing(k))
         /\ Cardinality(InFlight(k)) \in Nat /\ Cardinality(Committing(k)) \in Nat
         /\ Cardinality(Committing(k)) <= Cardinality(InFlight(k))
<1>1. InFlight(k) \subseteq Callers /\ Committing(k) \subseteq InFlight(k)
  BY DEF InFlight, Committing
<1>2. IsFiniteSet(InFlight(k))
  BY <1>1, CallsAssumptions, FS_Subset
<1>3. IsFiniteSet(Committing(k)) /\ Cardinality(Committing(k)) <= Cardinality(InFlight(k))
  BY <1>1, <1>2, FS_Subset
<1> QED  BY <1>2, <1>3, FS_CardinalityType

LEMMA IdleTyped == NoCall \in CallRecords /\ \A k : ~Flies(NoCall, k)
<1>1. \E k \in Keys : TRUE
  <2>1. PICK runtime : runtime \in Runtimes
    BY CallsAssumptions
  <2>2. <<runtime, NoSession>> \in Keys
    BY <2>1 DEF Keys
  <2> QED  BY <2>2
<1>2. (CHOOSE k \in Keys : TRUE) \in Keys
  BY <1>1
<1> QED  BY <1>2 DEF NoCall, CallRecords, Stages, Surfaces, Flies

\* When one caller's record changes, the others stay where they are.
LEMMA FlightChanges ==
  ASSUME CallsTypeOK, NEW c \in Callers, NEW record \in CallRecords,
         call' = [call EXCEPT ![c] = record], NEW k
  PROVE  /\ InFlight(k)' = IF Flies(record, k) THEN InFlight(k) \union {c}
                           ELSE InFlight(k) \ {c}
         /\ Committing(k)' = IF Flies(record, k) /\ record.stage = "commit"
                             THEN Committing(k) \union {c} ELSE Committing(k) \ {c}
         /\ c \in InFlight(k) <=> Flies(call[c], k)
         /\ c \in Committing(k) <=> Flies(call[c], k) /\ call[c].stage = "commit"
<1>1. \A d \in Callers : call'[d] = IF d = c THEN record ELSE call[d]
  BY DEF CallsTypeOK
<1>2. \A d \in Callers : d \in InFlight(k) <=> Flies(call[d], k)
  BY DEF InFlight, Flies
<1>3. \A d \in Callers : d \in InFlight(k)' <=> Flies(call'[d], k)
  BY DEF InFlight, Flies, Metered
<1>4. InFlight(k) \subseteq Callers /\ InFlight(k)' \subseteq Callers
  BY DEF InFlight
<1>5. InFlight(k)' = IF Flies(record, k) THEN InFlight(k) \union {c} ELSE InFlight(k) \ {c}
  BY <1>1, <1>2, <1>3, <1>4
<1>6. /\ \A d \in Callers : d \in Committing(k) <=> d \in InFlight(k) /\ call[d].stage = "commit"
      /\ \A d \in Callers : d \in Committing(k)' <=> d \in InFlight(k)' /\ call'[d].stage = "commit"
      /\ Committing(k) \subseteq Callers /\ Committing(k)' \subseteq Callers
  BY <1>4 DEF Committing
<1>7. Committing(k)' = IF Flies(record, k) /\ record.stage = "commit"
                       THEN Committing(k) \union {c} ELSE Committing(k) \ {c}
  BY <1>1, <1>5, <1>6
<1> QED  BY <1>2, <1>5, <1>6, <1>7

\* The same in numbers.
LEMMA FlightCounts ==
  ASSUME CallsTypeOK, NEW c \in Callers, NEW record \in CallRecords,
         call' = [call EXCEPT ![c] = record], NEW k
  PROVE  /\ Cardinality(InFlight(k)') =
              IF Flies(record, k)
              THEN IF Flies(call[c], k) THEN Cardinality(InFlight(k))
                   ELSE Cardinality(InFlight(k)) + 1
              ELSE IF Flies(call[c], k) THEN Cardinality(InFlight(k)) - 1
                   ELSE Cardinality(InFlight(k))
         /\ Cardinality(Committing(k)') =
              IF Flies(record, k) /\ record.stage = "commit"
              THEN IF Flies(call[c], k) /\ call[c].stage = "commit" THEN Cardinality(Committing(k))
                   ELSE Cardinality(Committing(k)) + 1
              ELSE IF Flies(call[c], k) /\ call[c].stage = "commit"
                   THEN Cardinality(Committing(k)) - 1
                   ELSE Cardinality(Committing(k))
<1>1. IsFiniteSet(InFlight(k)) /\ IsFiniteSet(Committing(k))
  BY FlightFinite
<1>2. /\ InFlight(k)' = IF Flies(record, k) THEN InFlight(k) \union {c}
                        ELSE InFlight(k) \ {c}
      /\ Committing(k)' = IF Flies(record, k) /\ record.stage = "commit"
                          THEN Committing(k) \union {c} ELSE Committing(k) \ {c}
      /\ c \in InFlight(k) <=> Flies(call[c], k)
      /\ c \in Committing(k) <=> Flies(call[c], k) /\ call[c].stage = "commit"
  BY FlightChanges
<1>3. ASSUME NEW S, IsFiniteSet(S)
      PROVE  /\ Cardinality(S \union {c}) = IF c \in S THEN Cardinality(S) ELSE Cardinality(S) + 1
             /\ Cardinality(S \ {c}) = IF c \in S THEN Cardinality(S) - 1 ELSE Cardinality(S)
  BY <1>3, FS_AddElement, FS_RemoveElement
<1> QED  BY <1>1, <1>2, <1>3
-----------------------------------------------------------------------------
(* The invariant is inductive. *)

LEMMA CallsStartSound == CallsInit => CallsInv
<1> SUFFICES ASSUME CallsInit PROVE CallsInv
  OBVIOUS
<1> USE DEF CallsInit
<1>1. CallsTypeOK
  BY IdleTyped, CallsAssumptions DEF CallsTypeOK
<1>2. Staged
  BY DEF Staged, NoCall
<1>3. ASSUME NEW k \in Keys  PROVE Charged(k) /\ Carried(k)
  <2>1. InFlight(k) = {}
    BY DEF InFlight, NoCall
  <2> QED  BY <2>1, FS_EmptySet DEF Charged, Carried
<1> QED  BY <1>1, <1>2, <1>3 DEF CallsInv

LEMMA RequestInv ==
  ASSUME CallsInv, NEW c \in Callers, NEW surface \in Surfaces, NEW key \in Keys,
         NEW live \in BOOLEAN, NEW budget \in Budgets, Request(c, surface, key, live, budget)
  PROVE  CallsInv'
<1> USE DEF CallsInv, Request
<1> DEFINE request == [stage |-> "call", surface |-> surface, key |-> key,
                       live |-> live, budget |-> budget]
<1>1. PICK record : /\ record \in CallRecords
                    /\ call' = [call EXCEPT ![c] = record]
                    /\ \/ record.stage = "create" /\ Metered(record)
                       \/ record.stage = "call" /\ ~Metered(record)
  <2> DEFINE created == [request EXCEPT !.stage = "create"]
  <2>1. request \in CallRecords /\ created \in CallRecords /\ created.stage = "create"
    BY CallsAssumptions DEF CallRecords, Stages
  <2>2. CASE Metered(request)
    <3>1. Metered(created)
      BY <2>2 DEF Metered
    <3>2. call' = [call EXCEPT ![c] = created]
      BY <2>2
    <3> HIDE DEF created
    <3> QED  BY <2>1, <3>1, <3>2
  <2>3. CASE ~Metered(request)
    <3>1. call' = [call EXCEPT ![c] = request] /\ request.stage = "call"
      BY <2>3
    <3> HIDE DEF request
    <3> QED  BY <2>1, <2>3, <3>1
  <2> QED  BY <2>2, <2>3
<1>2. tally' \in [requests : 0..MaxCalls, restarts : 0..MaxRestarts,
                  peak : [Keys -> Nat], completed : [Keys -> Nat]]
      /\ tally'.peak = tally.peak /\ tally'.completed = tally.completed
  BY CallsAssumptions DEF CallsTypeOK
<1>3. CallsTypeOK'
  BY <1>1, <1>2 DEF CallsTypeOK
<1>4. \A d \in Callers : call'[d] = IF d = c THEN record ELSE call[d]
  BY <1>1 DEF CallsTypeOK
<1>5. Staged'
  BY <1>1, <1>4 DEF Staged, Metered
<1>6. ASSUME NEW k \in Keys  PROVE Charged(k)' /\ Carried(k)'
  <2>1. ~Flies(record, k) /\ ~Flies(call[c], k)
    BY <1>1 DEF Flies
  <2>2. Cardinality(InFlight(k)') = Cardinality(InFlight(k))
        /\ Cardinality(Committing(k)') = Cardinality(Committing(k))
    BY <1>1, <2>1, FlightCounts
  <2> QED  BY <1>2, <2>2 DEF Charged, Carried, Surplus
<1> QED  BY <1>3, <1>5, <1>6

LEMMA CreateInv ==
  ASSUME CallsInv, NEW c \in Callers, Create(c)
  PROVE  CallsInv'
<1> USE DEF CallsInv, Create
<1> DEFINE record == [call[c] EXCEPT !.stage = "check"]
           key == call[c].key
<1>1. /\ record \in CallRecords /\ call' = [call EXCEPT ![c] = record]
      /\ record.stage = "check" /\ record.key = key /\ Metered(record)
      /\ key \in Keys /\ call[c].budget \in Nat /\ call[c].budget >= 1
      /\ call[c].stage = "create"
  BY DEF CallsTypeOK, CallRecords, Stages, Staged, Metered
<1> HIDE DEF record
<1>2. \A d \in Callers : call'[d] = IF d = c THEN record ELSE call[d]
  BY <1>1 DEF CallsTypeOK
<1>3. \A k \in Keys : ledger'[k] = IF k = key /\ ledger[k] = NoEntry
                                    THEN [max |-> call[c].budget, used |-> 0] ELSE ledger[k]
  BY <1>1 DEF CallsTypeOK
<1>4. [max |-> call[c].budget, used |-> 0] \in Entries
      /\ [max |-> call[c].budget, used |-> 0] # NoEntry
  BY <1>1, CallsAssumptions DEF Entries
<1>5. CallsTypeOK'
  BY <1>1, <1>4 DEF CallsTypeOK
<1>6. \A k \in Keys : ledger[k] # NoEntry => ledger'[k] = ledger[k]
  BY <1>3
<1>7. ledger'[key] # NoEntry
  BY <1>1, <1>3, <1>4
<1>8. Staged'
  <2>1. \A d \in Callers : call[d].key \in Keys
    BY DEF CallsTypeOK, CallRecords
  <2>2. ASSUME NEW d \in Callers
        PROVE  /\ call'[d].stage \in {"create", "check", "commit"} => Metered(call'[d])
               /\ call'[d].stage \in {"check", "call", "commit"} /\ Metered(call'[d]) =>
                    ledger'[call'[d].key] # NoEntry
    <3>1. CASE d = c
      BY <1>1, <1>2, <1>7, <3>1
    <3>2. CASE d # c
      BY <1>2, <1>6, <2>1, <3>2 DEF Staged
    <3> QED  BY <3>1, <3>2
  <2> QED  BY <2>2 DEF Staged, Metered
<1>9. ASSUME NEW k \in Keys  PROVE Charged(k)' /\ Carried(k)'
  <2>1. ~Flies(record, k) /\ ~Flies(call[c], k)
    BY <1>1 DEF Flies
  <2>2. Cardinality(InFlight(k)') = Cardinality(InFlight(k))
        /\ Cardinality(Committing(k)') = Cardinality(Committing(k))
    BY <1>1, <2>1, FlightCounts
  <2>3. Charged(k) /\ Carried(k)
    OBVIOUS
  <2>4. CASE ledger[k] # NoEntry
    <3>1. ledger'[k] = ledger[k]
      BY <1>6, <2>4
    <3> QED  BY <2>2, <2>3, <2>4, <3>1 DEF Charged, Carried, Surplus
  <2>5. CASE ledger[k] = NoEntry
    <3>1. InFlight(k) = {}
      BY <2>5 DEF Staged, InFlight
    <3>2. Cardinality(InFlight(k)) = 0 /\ Cardinality(Committing(k)) = 0
      BY <3>1, FS_EmptySet DEF Committing
    <3>3. \/ ledger'[k] = NoEntry
          \/ ledger'[k] # NoEntry /\ ledger'[k] = [max |-> call[c].budget, used |-> 0]
      BY <1>3, <1>4, <2>5
    <3>4. tally'.completed[k] = 0 /\ tally'.peak[k] = tally.peak[k] /\ tally.peak[k] \in Nat
      BY <2>3, <2>5 DEF Charged, CallsTypeOK
    <3>5. Surplus(k)' \in Nat
      BY <3>4 DEF Surplus
    <3> QED  BY <1>1, <2>2, <3>2, <3>3, <3>4, <3>5 DEF Charged, Carried
  <2> QED  BY <2>4, <2>5
<1> QED  BY <1>5, <1>8, <1>9

LEMMA CheckBudgetInv ==
  ASSUME CallsInv, NEW c \in Callers, CheckBudget(c)
  PROVE  CallsInv'
<1> USE DEF CallsInv, CheckBudget
<1> DEFINE key == call[c].key
           passes == ledger[key] = NoEntry \/ WithinBudget(ledger[key])
           flying == Cardinality(InFlight(key)) + 1
           record == IF passes THEN [call[c] EXCEPT !.stage = "call"] ELSE NoCall
<1>1. /\ key \in Keys /\ call[c].stage = "check" /\ Metered(call[c])
      /\ ledger[key] # NoEntry /\ ledger[key] \in Entries
      /\ call' = [call EXCEPT ![c] = record]
      /\ ledger' = ledger
  BY DEF CallsTypeOK, CallRecords, Staged
<1>2. /\ record \in CallRecords
      /\ passes => record.key = key /\ Metered(record) /\ record.stage = "call"
      /\ ~passes => record = NoCall
  <2> HIDE DEF passes
  <2>1. call[c] \in CallRecords
    BY DEF CallsTypeOK
  <2> QED  BY <1>1, <2>1, IdleTyped DEF CallRecords, Stages, Metered
<1>3. flying \in Nat /\ flying >= 1
  BY FlightFinite
<1>4. /\ tally'.completed = tally.completed
      /\ \A k \in Keys : tally'.peak[k] = IF passes /\ flying > tally.peak[k] /\ k = key
                                          THEN flying ELSE tally.peak[k]
      /\ \A k \in Keys : tally.peak[k] \in Nat
      /\ tally' \in [requests : 0..MaxCalls, restarts : 0..MaxRestarts,
                     peak : [Keys -> Nat], completed : [Keys -> Nat]]
  BY <1>1, <1>3 DEF CallsTypeOK
<1>5. passes => ledger[key].used + 1 <= ledger[key].max
  BY <1>1 DEF WithinBudget, Carried
<1> HIDE DEF passes, flying, record
<1>6. CallsTypeOK'
  BY <1>1, <1>2, <1>4 DEF CallsTypeOK
<1>7. \A d \in Callers : call'[d] = IF d = c THEN record ELSE call[d]
  BY <1>1 DEF CallsTypeOK
<1>8. Staged'
  BY <1>1, <1>2, <1>7 DEF Staged, Metered, NoCall
<1>9. ASSUME NEW k \in Keys  PROVE Charged(k)' /\ Carried(k)'
  <2>1. ~Flies(call[c], k) /\ (Flies(record, k) <=> passes /\ k = key)
        /\ (Flies(record, k) => record.stage # "commit")
    BY <1>1, <1>2, IdleTyped DEF Flies
  <2>2. Cardinality(InFlight(k)') = (IF passes /\ k = key THEN Cardinality(InFlight(k)) + 1
                                     ELSE Cardinality(InFlight(k)))
        /\ Cardinality(Committing(k)') = Cardinality(Committing(k))
    BY <1>1, <1>2, <2>1, FlightCounts
  <2>3. Charged(k)'
    BY <1>1, <1>4, <2>2 DEF Charged
  <2>4. Cardinality(InFlight(k)) \in Nat
    BY FlightFinite
  <2>5. CASE ~(passes /\ k = key)
    BY <1>1, <1>4, <2>2, <2>3, <2>5 DEF Carried, Surplus
  <2>6. CASE passes /\ k = key
    <3>1. Cardinality(InFlight(k)') = flying
      BY <2>2, <2>6 DEF flying
    <3>2. flying <= tally'.peak[k] /\ tally'.peak[k] \in Nat
      BY <1>3, <1>4, <2>6
    <3>3. Surplus(k)' = tally'.peak[k] - 1
      BY <1>3, <3>2 DEF Surplus
    <3>4. ledger[k].used + 1 <= ledger[k].max /\ ledger[k].used \in Nat /\ ledger[k].max \in Nat
      BY <1>1, <1>5, <2>6 DEF Entries
    <3>5. ledger[k].used + flying <= ledger[k].max + Surplus(k)'
      BY <1>3, <3>2, <3>3, <3>4
    <3>6. ledger[k].max >= 1
      BY <3>4
    <3> QED  BY <1>1, <2>3, <3>1, <3>2, <3>5, <3>6 DEF Carried
  <2> QED  BY <2>5, <2>6
<1> QED  BY <1>6, <1>8, <1>9

LEMMA CallProviderInv ==
  ASSUME CallsInv, NEW c \in Callers, NEW setup \in Setups, NEW peer \in Peers,
         CallProvider(c, setup, peer)
  PROVE  CallsInv'
<1> USE DEF CallsInv, CallProvider
<1> DEFINE key == call[c].key
           counts == Metered(call[c]) /\ Status(key[1], call[c].live, setup, peer) = "completed"
           record == IF counts THEN [call[c] EXCEPT !.stage = "commit"] ELSE NoCall
<1>1. /\ key \in Keys /\ call[c].stage = "call"
      /\ counts => Metered(call[c]) /\ ledger[key] # NoEntry
      /\ call' = [call EXCEPT ![c] = record]
      /\ ledger' = ledger
  BY DEF CallsTypeOK, CallRecords, Staged
<1>2. /\ record \in CallRecords
      /\ counts => record.key = key /\ Metered(record) /\ record.stage = "commit"
      /\ ~counts => record = NoCall
  BY IdleTyped DEF CallsTypeOK, CallRecords, Stages, Metered
<1>3. /\ tally'.peak = tally.peak
      /\ \A k \in Keys : tally'.completed[k] = IF counts /\ k = key THEN tally.completed[k] + 1
                                               ELSE tally.completed[k]
      /\ \A k \in Keys : tally.completed[k] \in Nat /\ tally.peak[k] \in Nat
      /\ tally' \in [requests : 0..MaxCalls, restarts : 0..MaxRestarts,
                     peak : [Keys -> Nat], completed : [Keys -> Nat]]
  BY <1>1 DEF CallsTypeOK
<1>4. Metered(call[c]) \in BOOLEAN
  BY DEF Metered
<1> HIDE DEF counts, record
<1>5. CallsTypeOK'
  BY <1>1, <1>2, <1>3 DEF CallsTypeOK
<1>6. \A d \in Callers : call'[d] = IF d = c THEN record ELSE call[d]
  BY <1>1 DEF CallsTypeOK
<1>7. Staged'
  BY <1>1, <1>2, <1>6 DEF Staged, Metered, NoCall
<1>8. ASSUME NEW k \in Keys  PROVE Charged(k)' /\ Carried(k)'
  <2>1. /\ counts /\ k = key => Flies(call[c], k) /\ call[c].stage # "commit"
        /\ counts /\ k = key => Flies(record, k) /\ record.stage = "commit"
        /\ ~(counts /\ k = key) => ~Flies(record, k)
        /\ call[c].stage # "commit"
    BY <1>1, <1>2, IdleTyped DEF Flies
  <2>2. /\ Cardinality(InFlight(k)) \in Nat /\ Cardinality(Committing(k)) \in Nat
        /\ Charged(k) /\ Carried(k)
    BY FlightFinite
  <2>3. CASE counts /\ k = key
    <3>1. Cardinality(InFlight(k)') = Cardinality(InFlight(k))
          /\ Cardinality(Committing(k)') = Cardinality(Committing(k)) + 1
      BY <1>1, <1>2, <2>1, <2>3, FlightCounts
    <3>2. Charged(k)'
      <4>1. ledger[k] # NoEntry /\ ledger[k].used \in Nat
        BY <1>1, <2>3 DEF CallsTypeOK, Entries
      <4>2. tally'.completed[k] = tally.completed[k] + 1
        BY <1>3, <2>3
      <4> QED  BY <1>1, <2>2, <3>1, <4>1, <4>2 DEF Charged
    <3>3. Carried(k)'
      BY <1>1, <1>3, <2>2, <3>1 DEF Carried, Surplus
    <3> QED  BY <3>2, <3>3
  <2>4. CASE ~(counts /\ k = key)
    <3>1. Cardinality(InFlight(k)') <= Cardinality(InFlight(k))
          /\ Cardinality(InFlight(k)') \in Int
          /\ Cardinality(Committing(k)') = Cardinality(Committing(k))
      <4>1. ~Flies(record, k) /\ call[c].stage # "commit"
        BY <2>1, <2>4
      <4>2. Cardinality(InFlight(k)') = (IF Flies(call[c], k) THEN Cardinality(InFlight(k)) - 1
                                         ELSE Cardinality(InFlight(k)))
            /\ Cardinality(Committing(k)') = Cardinality(Committing(k))
        BY <1>1, <1>2, <4>1, FlightCounts
      <4> QED  BY <2>2, <4>2
    <3>2. Charged(k)'
      BY <1>1, <1>3, <2>2, <2>4, <3>1 DEF Charged
    <3>3. Carried(k)'
      <4>1. ledger[k] # NoEntry => ledger[k].used \in Nat /\ ledger[k].max \in Nat
        BY DEF CallsTypeOK, Entries
      <4>2. Surplus(k) \in Nat /\ Surplus(k)' = Surplus(k)
        BY <1>3 DEF Surplus
      <4> QED  BY <1>1, <1>3, <2>2, <3>1, <4>1, <4>2 DEF Carried
    <3> QED  BY <3>2, <3>3
  <2> QED  BY <2>3, <2>4
<1> QED  BY <1>5, <1>7, <1>8

LEMMA CommitInv ==
  ASSUME CallsInv, NEW c \in Callers, Commit(c)
  PROVE  CallsInv'
<1> USE DEF CallsInv, Commit
<1> DEFINE key == call[c].key
<1>1. /\ key \in Keys /\ call[c].stage = "commit" /\ Metered(call[c])
      /\ ledger[key] # NoEntry /\ ledger[key] \in Entries
      /\ call' = [call EXCEPT ![c] = NoCall]
      /\ tally' = tally
  BY DEF CallsTypeOK, CallRecords, Staged
<1>2. ledger' = [ledger EXCEPT ![key].used = @ + 1] /\ ledger \in [Keys -> Entries \union {NoEntry}]
  BY <1>1 DEF CallsTypeOK
<1>3. /\ \A k \in Keys : k # key => ledger'[k] = ledger[k]
      /\ ledger'[key] \in Entries /\ ledger'[key].max = ledger[key].max
      /\ ledger'[key].used = ledger[key].used + 1
      /\ ledger'[key] # NoEntry
  <2>1. ledger'[key] = [ledger[key] EXCEPT !.used = @ + 1]
        /\ \A k \in Keys : k # key => ledger'[k] = ledger[k]
    BY <1>1, <1>2
  <2>2. ledger'[key] \in Entries
    BY <1>1, <2>1 DEF Entries
  <2> QED  BY <1>1, <2>1, <2>2, CallsAssumptions DEF Entries
<1>4. CallsTypeOK'
  BY <1>1, <1>2, <1>3, IdleTyped DEF CallsTypeOK
<1>5. \A d \in Callers : call'[d] = IF d = c THEN NoCall ELSE call[d]
  BY <1>1 DEF CallsTypeOK
<1>6. Staged'
  <2>1. \A k \in Keys : ledger[k] # NoEntry => ledger'[k] # NoEntry
    BY <1>3
  <2>2. \A d \in Callers : call[d].key \in Keys
    BY DEF CallsTypeOK, CallRecords
  <2> QED  BY <1>5, <2>1, <2>2 DEF Staged, Metered, NoCall
<1>7. ASSUME NEW k \in Keys  PROVE Charged(k)' /\ Carried(k)'
  <2>1. /\ Flies(call[c], k) <=> k = key
        /\ ~Flies(NoCall, k)
    BY <1>1, IdleTyped DEF Flies
  <2>2. /\ Cardinality(InFlight(k)) \in Nat /\ Cardinality(Committing(k)) \in Nat
        /\ Charged(k) /\ Carried(k)
    BY FlightFinite
  <2>3. CASE k = key
    <3>1. Cardinality(InFlight(k)') = Cardinality(InFlight(k)) - 1
          /\ Cardinality(Committing(k)') = Cardinality(Committing(k)) - 1
      BY <1>1, <2>1, <2>3, IdleTyped, FlightCounts
    <3>2. ledger[k].used \in Nat /\ ledger[k].max \in Nat
      BY <1>1, <2>3 DEF Entries
    <3>5. /\ ledger[k] # NoEntry /\ ledger'[k] # NoEntry
          /\ ledger'[k].used = ledger[k].used + 1 /\ ledger'[k].max = ledger[k].max
      BY <1>1, <1>3, <2>3
    <3>3. Charged(k)'
      BY <1>1, <2>2, <3>1, <3>2, <3>5 DEF Charged
    <3>4. Carried(k)'
      <4>1. Surplus(k) \in Nat /\ Surplus(k)' = Surplus(k) /\ tally.peak[k] \in Nat
        BY <1>1 DEF Surplus, CallsTypeOK
      <4> QED  BY <1>1, <2>2, <3>1, <3>2, <3>5, <4>1 DEF Carried
    <3> QED  BY <3>3, <3>4
  <2>4. CASE k # key
    <3>1. Cardinality(InFlight(k)') = Cardinality(InFlight(k))
          /\ Cardinality(Committing(k)') = Cardinality(Committing(k))
      BY <1>1, <2>1, <2>4, IdleTyped, FlightCounts
    <3> QED  BY <1>1, <1>3, <2>2, <2>4, <3>1 DEF Charged, Carried, Surplus
  <2> QED  BY <2>3, <2>4
<1> QED  BY <1>4, <1>6, <1>7

LEMMA EndProcessInv == CallsInv /\ EndProcess => CallsInv'
<1> SUFFICES ASSUME CallsInv, EndProcess PROVE CallsInv'
  OBVIOUS
<1> USE DEF CallsInv, EndProcess
<1>1. CallsTypeOK'
  <2>1. ledger' \in [Keys -> Entries \union {NoEntry}] /\ call' \in [Callers -> CallRecords]
    BY IdleTyped
  <2>2. tally.restarts + 1 \in 0..MaxRestarts
    BY CallsAssumptions DEF CallsTypeOK
  <2>3. [k \in Keys |-> 0] \in [Keys -> Nat]
    OBVIOUS
  <2>4. tally' \in [requests : 0..MaxCalls, restarts : 0..MaxRestarts,
                   peak : [Keys -> Nat], completed : [Keys -> Nat]]
    BY <2>2, <2>3 DEF CallsTypeOK
  <2> QED  BY <2>1, <2>4 DEF CallsTypeOK
<1>2. Staged'
  BY DEF Staged, NoCall
<1>3. ASSUME NEW k \in Keys  PROVE Charged(k)' /\ Carried(k)'
  <2>1. InFlight(k)' = {}
    BY DEF InFlight, NoCall
  <2>2. tally'.completed[k] = 0 /\ tally'.peak[k] = 0
    BY DEF CallsTypeOK
  <2> QED  BY <2>1, <2>2, FS_EmptySet DEF Charged, Carried
<1> QED  BY <1>1, <1>2, <1>3

LEMMA CallsStutterInv == CallsInv /\ UNCHANGED callsVars => CallsInv'
<1> SUFFICES ASSUME CallsInv, UNCHANGED callsVars PROVE CallsInv'
  OBVIOUS
<1>1. ledger' = ledger /\ call' = call /\ tally' = tally
  BY DEF callsVars
<1>2. CallsTypeOK' /\ Staged'
  BY <1>1 DEF CallsInv, CallsTypeOK, Staged, Metered
<1>3. ASSUME NEW k \in Keys  PROVE Charged(k)' /\ Carried(k)'
  <2>1. InFlight(k)' = InFlight(k) /\ Committing(k)' = Committing(k)
    BY <1>1 DEF InFlight, Committing, Metered
  <2> QED  BY <1>1, <2>1 DEF CallsInv, Charged, Carried, Surplus
<1> QED  BY <1>2, <1>3 DEF CallsInv

LEMMA CallsStepSound == CallsInv /\ [CallsNext]_callsVars => CallsInv'
<1> SUFFICES ASSUME CallsInv, [CallsNext]_callsVars PROVE CallsInv'
  OBVIOUS
<1>1. ASSUME NEW c \in Callers, NEW key \in Keys, NEW live \in BOOLEAN, NEW budget \in Budgets,
             NEW surface \in Surfaces, Request(c, surface, key, live, budget)
      PROVE  CallsInv'
  BY <1>1, RequestInv
<1>2. ASSUME NEW c \in Callers, Create(c) \/ CheckBudget(c) \/ Commit(c)  PROVE CallsInv'
  BY <1>2, CreateInv, CheckBudgetInv, CommitInv
<1>3. ASSUME NEW c \in Callers, NEW setup \in Setups, NEW peer \in Peers,
             CallProvider(c, setup, peer)
      PROVE  CallsInv'
  BY <1>3, CallProviderInv
<1> QED  BY <1>1, <1>2, <1>3, EndProcessInv, CallsStutterInv DEF CallsNext

\* The invariant holds of every behaviour.
THEOREM CallsInvariant == CallsSpec => []CallsInv
<1>1. CallsInit => CallsInv
  BY CallsStartSound
<1>2. CallsInv /\ [CallsNext]_callsVars => CallsInv'
  BY CallsStepSound
<1> QED  BY <1>1, <1>2, PTL DEF CallsSpec

\* The ledger and the calls keep their type (BudgetLedger and its callers).
THEOREM CallsTypeCorrect == CallsSpec => []CallsTypeOK
<1>1. CallsInv => CallsTypeOK
  BY DEF CallsInv
<1> QED  BY <1>1, CallsInvariant, PTL

\* However many threads call at once, what a key's completed calls spend beyond
\* its budget is bounded by the calls that flew at once, less one
\* (BudgetLedger.check and commit, two acquisitions of the lock).
THEOREM SpendIsBounded == CallsSpec => []SpendBounded
<1>1. CallsInv => SpendBounded
  <2> SUFFICES ASSUME CallsInv, NEW k \in Keys, ledger[k] # NoEntry
               PROVE  tally.completed[k] <= ledger[k].max + Surplus(k)
    BY DEF SpendBounded
  <2>1. /\ tally.completed[k] = ledger[k].used + Cardinality(Committing(k))
        /\ ledger[k].used + Cardinality(InFlight(k)) <= ledger[k].max + Surplus(k)
    BY DEF CallsInv, Charged, Carried
  <2>2. /\ Cardinality(Committing(k)) <= Cardinality(InFlight(k))
        /\ Cardinality(Committing(k)) \in Nat /\ Cardinality(InFlight(k)) \in Nat
    BY FlightFinite
  <2>3. ledger[k].used \in Nat /\ ledger[k].max \in Nat /\ Surplus(k) \in Nat
    BY DEF CallsInv, CallsTypeOK, Entries, Surplus
  <2> QED  BY <2>1, <2>2, <2>3
<1> QED  BY <1>1, CallsInvariant, PTL

-----------------------------------------------------------------------------
(* The policy engine.  A decision is a function of the rules held, monotone *)
(* in each of its parts; that every decision given so far was made on a     *)
(* subset of today's rules is the invariant that turns this into a property *)
(* of the steps.                                                            *)

\* Sets of rules whose actions are well formed.
WellFormed(held) == \A rule \in held : rule.actions \subseteq PolicyActions

Matched(held, request) == {rule \in held : Applies(rule, request)}

-----------------------------------------------------------------------------
(* The two kinds of maximum. *)

\* HighestLevel is the maximum of a set of levels (_max_safety).
LEMMA HighestIsMaximum ==
  ASSUME NEW levels, levels \subseteq Levels, levels # {}
  PROVE  HighestLevel(levels) \in levels /\ \A level \in levels : level <= HighestLevel(levels)
<1>1. \E level \in levels : \A other \in levels : other <= level
  <2>1. CASE 5 \in levels  BY <2>1 DEF Levels
  <2>2. CASE 5 \notin levels /\ 4 \in levels  BY <2>2 DEF Levels
  <2>3. CASE 5 \notin levels /\ 4 \notin levels /\ 3 \in levels  BY <2>3 DEF Levels
  <2>4. CASE levels \subseteq 0..2
    <3>1. CASE 2 \in levels  BY <2>4, <3>1
    <3>2. CASE 2 \notin levels /\ 1 \in levels  BY <2>4, <3>2
    <3>3. CASE levels = {0}  BY <3>3
    <3>4. (2 \in levels) \/ (1 \in levels) \/ levels = {0}
      BY <2>4, \A i \in 0..2 : i = 0 \/ i = 1 \/ i = 2
    <3> QED  BY <3>1, <3>2, <3>3, <3>4
  <2> QED  BY <2>1, <2>2, <2>3, <2>4 DEF Levels
<1> QED  BY <1>1 DEF HighestLevel

\* Strongest is a kind no weaker than any that is asked for, allow among them.
LEMMA StrongestIsStrongest ==
  ASSUME NEW matched, WellFormed(matched)
  PROVE  /\ Strongest(matched) \in {action.kind : action \in ActionsOf(matched)} \union {"allow"}
         /\ Strongest(matched) \in Kinds
         /\ \A action \in ActionsOf(matched) :
              Strength[action.kind] <= Strength[Strongest(matched)]
         /\ Strength[Strongest(matched)] \in Nat
<1> DEFINE kinds == {action.kind : action \in ActionsOf(matched)} \union {"allow"}
<1>1. Kinds = {"allow", "prefer_tool", "modify", "require_review", "require_approval", "deny"}
  BY DEF Kinds, Strength
<1>2. kinds \subseteq Kinds /\ "allow" \in kinds
  BY <1>1 DEF ActionsOf, WellFormed, PolicyActions
<1> HIDE DEF kinds
<1>3. \E kind \in kinds : \A other \in kinds : Strength[other] <= Strength[kind]
  <2>1. CASE "deny" \in kinds  BY <1>1, <1>2, <2>1 DEF Strength
  <2>2. CASE "deny" \notin kinds /\ "require_approval" \in kinds
    BY <1>1, <1>2, <2>2 DEF Strength
  <2>3. CASE kinds \subseteq {"allow", "prefer_tool", "modify", "require_review"}
               /\ "require_review" \in kinds
    BY <2>3 DEF Strength
  <2>4. CASE kinds \subseteq {"allow", "prefer_tool", "modify"} /\ "modify" \in kinds
    BY <2>4 DEF Strength
  <2>5. CASE kinds \subseteq {"allow", "prefer_tool"}
    BY <1>2, <2>5 DEF Strength
  <2> QED  BY <1>1, <1>2, <2>1, <2>2, <2>3, <2>4, <2>5
<1>4. Strongest(matched) = CHOOSE kind \in kinds :
                             \A other \in kinds : Strength[other] <= Strength[kind]
  BY DEF Strongest, kinds
<1>5. Strongest(matched) \in kinds
      /\ \A other \in kinds : Strength[other] <= Strength[Strongest(matched)]
  BY <1>3, <1>4
<1>6. \A action \in ActionsOf(matched) : action.kind \in kinds
  BY DEF kinds
<1>7. \A kind \in Kinds : Strength[kind] \in Nat
  BY <1>1 DEF Strength
<1> QED  BY <1>2, <1>5, <1>6, <1>7 DEF kinds

-----------------------------------------------------------------------------
(* Decisions. *)

\* The level inferred is one, and grows with the strength of the decision.
LEMMA InferredGrows ==
  ASSUME NEW request \in Requests, NEW weak \in Kinds, NEW strong \in Kinds,
         Strength[weak] <= Strength[strong]
  PROVE  /\ Inferred(request, weak) \in Levels
         /\ Inferred(request, weak) <= Inferred(request, strong)
         /\ Inferred(request, strong) = Inferred(request, weak) \/ Inferred(request, strong) = 5
              \/ Inferred(request, weak) < 3
<1> DEFINE Own(kind) == IF kind = "deny" THEN 5 ELSE IF AsksApproval(kind) THEN 2 ELSE 0
           risk == CASE request.risk = "blocked" -> 5 [] request.risk = "high" -> 3
                     [] request.risk = "medium" -> 2 [] request.risk = "low" -> 0
           text == request.text
<1>1. text \in Levels /\ risk \in Levels
  BY PolicyAssumptions DEF Levels, RiskOrder
<1>2. Own(weak) \in {0, 2, 5} /\ Own(strong) \in {0, 2, 5} /\ Own(weak) <= Own(strong)
  BY DEF Kinds, Strength, AsksApproval
<1>3. \A kind : Inferred(request, kind) = HighestLevel({text, risk, Own(kind)})
  BY DEF Inferred
<1> HIDE DEF Own, risk, text
<1>4. \A own \in {0, 2, 5} :
        /\ HighestLevel({text, risk, own}) \in {text, risk, own}
        /\ text <= HighestLevel({text, risk, own})
        /\ risk <= HighestLevel({text, risk, own})
        /\ own <= HighestLevel({text, risk, own})
  <2> SUFFICES ASSUME NEW own \in {0, 2, 5}
               PROVE  /\ HighestLevel({text, risk, own}) \in {text, risk, own}
                      /\ text <= HighestLevel({text, risk, own})
                      /\ risk <= HighestLevel({text, risk, own})
                      /\ own <= HighestLevel({text, risk, own})
    OBVIOUS
  <2>1. {text, risk, own} \subseteq Levels /\ {text, risk, own} # {}
    BY <1>1 DEF Levels
  <2> QED  BY <2>1, HighestIsMaximum
<1> DEFINE w == HighestLevel({text, risk, Own(weak)})
           s == HighestLevel({text, risk, Own(strong)})
<1>5. /\ w \in {text, risk, Own(weak)} /\ text <= w /\ risk <= w /\ Own(weak) <= w
      /\ s \in {text, risk, Own(strong)} /\ text <= s /\ risk <= s /\ Own(strong) <= s
  BY <1>2, <1>4
<1>6. w = Inferred(request, weak) /\ s = Inferred(request, strong)
  BY <1>3
<1> HIDE DEF w, s
<1>7. w \in Levels /\ w <= s /\ (s = w \/ s = 5 \/ w < 3)
  BY <1>1, <1>2, <1>5 DEF Levels
<1> QED  BY <1>6, <1>7

\* A decision is of its type.
LEMMA DecisionType ==
  ASSUME NEW held, WellFormed(held), NEW request \in Requests
  PROVE  Decision(held, request) \in Rulings
<1> DEFINE matched  == Matched(held, request)
           kind     == Strongest(matched)
           inferred == Inferred(request, kind)
           levels   == {action.level : action \in ActionsOf(matched)} \union {inferred}
<1>1. WellFormed(matched)
  BY DEF WellFormed, Matched
<1>2. kind \in Kinds /\ Strength[kind] \in Nat
  BY <1>1, StrongestIsStrongest
<1>3. inferred \in Levels
  BY <1>2, InferredGrows
<1>4. levels \subseteq Levels /\ levels # {}
  BY <1>1, <1>3 DEF WellFormed, ActionsOf, PolicyActions
<1>5. HighestLevel(levels) \in Levels
  BY <1>4, HighestIsMaximum
<1> QED  BY <1>2, <1>5 DEF Decision, Matched, Rulings

\* On more rules a decision is at least as strict.
LEMMA DecisionGrows ==
  ASSUME NEW few, NEW many, few \subseteq many, WellFormed(many), NEW request \in Requests
  PROVE  AtLeast(Decision(many, request), Decision(few, request))
<1> DEFINE Chosen(held)  == ActionsOf(Matched(held, request))
           Kind(held)     == Strongest(Matched(held, request))
           Inf(held)      == Inferred(request, Kind(held))
           Declared(held) == {action.level : action \in Chosen(held)}
<1>1. /\ WellFormed(Matched(few, request)) /\ WellFormed(Matched(many, request))
      /\ Chosen(few) \subseteq Chosen(many)
  BY DEF WellFormed, Matched, ActionsOf
<1>2. Kind(few) \in Kinds /\ Kind(many) \in Kinds
  BY <1>1, StrongestIsStrongest
<1>3. Strength[Kind(few)] <= Strength[Kind(many)]
  <2>1. CASE \E action \in Chosen(few) : action.kind = Kind(few)
    BY <1>1, <2>1, StrongestIsStrongest
  <2>2. CASE Kind(few) = "allow"
    <3>1. Strength[Kind(few)] = 0
      BY <2>2 DEF Strength
    <3>2. Strength[Kind(many)] \in Nat
      BY <1>1, StrongestIsStrongest
    <3> QED  BY <3>1, <3>2
  <2> QED  BY <1>1, <2>1, <2>2, StrongestIsStrongest
<1>4. /\ Inf(few) \in Levels /\ Inf(many) \in Levels /\ Inf(few) <= Inf(many)
      /\ Inf(many) = Inf(few) \/ Inf(many) = 5 \/ Inf(few) < 3
  <2>1. Strength[Kind(many)] <= Strength[Kind(many)]
    BY <1>1, StrongestIsStrongest
  <2> QED  BY <1>2, <1>3, <2>1, InferredGrows
<1>5. Declared(few) \subseteq Declared(many) /\ Declared(many) \subseteq Levels
  BY <1>1 DEF WellFormed, ActionsOf, PolicyActions
<1>6. /\ Decision(few, request).action = Kind(few)
      /\ Decision(many, request).action = Kind(many)
      /\ Decision(few, request).level = HighestLevel(Declared(few) \union {Inf(few)})
      /\ Decision(many, request).level = HighestLevel(Declared(many) \union {Inf(many)})
      /\ Decision(few, request).human <=> Inf(few) = 4 \/ \E a \in Chosen(few) : a.human
      /\ Decision(many, request).human <=> Inf(many) = 4 \/ \E a \in Chosen(many) : a.human
      /\ Decision(few, request).rollback <=> Inf(few) = 3 \/ \E a \in Chosen(few) : a.rollback
      /\ Decision(many, request).rollback <=> Inf(many) = 3 \/ \E a \in Chosen(many) : a.rollback
  BY DEF Decision, Matched
<1> DEFINE low  == HighestLevel(Declared(few) \union {Inf(few)})
           high == HighestLevel(Declared(many) \union {Inf(many)})
<1>7. /\ low \in Levels /\ high \in Levels
      /\ low \in Declared(few) \union {Inf(few)} /\ Inf(many) <= high
      /\ \A level \in Declared(many) : level <= high
  <2>1. Declared(few) \union {Inf(few)} \subseteq Levels /\ Declared(few) \union {Inf(few)} # {}
    BY <1>4, <1>5
  <2>2. Declared(many) \union {Inf(many)} \subseteq Levels /\ Declared(many) \union {Inf(many)} # {}
    BY <1>4, <1>5
  <2>3. low \in Declared(few) \union {Inf(few)}
    BY <2>1, HighestIsMaximum
  <2>4. /\ high \in Declared(many) \union {Inf(many)}
        /\ \A level \in Declared(many) \union {Inf(many)} : level <= high
    BY <2>2, HighestIsMaximum
  <2> QED  BY <2>1, <2>2, <2>3, <2>4
<1> HIDE DEF low, high
<1>8. high >= low
  <2>1. CASE low \in Declared(few)  BY <1>5, <1>7, <2>1
  <2>2. CASE low = Inf(few)  BY <1>4, <1>7, <2>2 DEF Levels
  <2> QED  BY <1>7, <2>1, <2>2
<1>9. Inf(many) = 5 => high = 5
  BY <1>7 DEF Levels
<1>10. Inf(few) \in {3, 4} => Inf(many) = Inf(few) \/ high = 5
  BY <1>4, <1>9 DEF Levels
<1>11. /\ Decision(few, request).level = low /\ Decision(many, request).level = high
  BY <1>6 DEF low, high
<1>12. Decision(few, request).human => Decision(many, request).human \/ high = 5
  BY <1>1, <1>6, <1>10
<1>13. Decision(few, request).rollback => Decision(many, request).rollback \/ high = 5
  BY <1>1, <1>6, <1>10
<1> QED  BY <1>3, <1>6, <1>8, <1>11, <1>12, <1>13 DEF AtLeast

-----------------------------------------------------------------------------
(* The invariant. *)

\* Every decision was made on rules that are all held now.
Founded ==
  \A request \in Requests : ruling[request] # NoRuling =>
    \E held \in SUBSET rules : ruling[request] = Decision(held, request)

PolicyInv == PolicyTypeOK /\ Founded

\* The rules of packs have well formed actions.
LEMMA RulesWellFormed ==
  ASSUME NEW held, held \subseteq UNION Packs
  PROVE  WellFormed(held)
BY PolicyAssumptions DEF WellFormed

\* The invariant holds of the empty registry.
LEMMA PolicyInitInv == PolicyInit => PolicyInv
BY DEF PolicyInit, PolicyInv, PolicyTypeOK, Founded

\* Every step keeps it.
LEMMA PolicyStepInv == PolicyInv /\ [PolicyNext]_policyVars => PolicyInv'
<1> SUFFICES ASSUME PolicyInv, [PolicyNext]_policyVars PROVE PolicyInv'
  OBVIOUS
<1>1. ASSUME NEW pack \in Packs, AddPack(pack) PROVE PolicyInv'
  BY <1>1 DEF AddPack, PolicyInv, PolicyTypeOK, Founded
<1>2. ASSUME NEW request \in Requests, Evaluate(request) PROVE PolicyInv'
  <2>1. Decision(rules, request) \in Rulings
    BY RulesWellFormed, DecisionType DEF PolicyInv, PolicyTypeOK
  <2>2. rules' = rules /\ ruling' = [ruling EXCEPT ![request] = Decision(rules, request)]
    BY <1>2 DEF Evaluate
  <2>3. PolicyTypeOK'
    BY <2>1, <2>2 DEF PolicyInv, PolicyTypeOK
  <2>4. \A other \in Requests :
          ruling'[other] = IF other = request THEN Decision(rules, request) ELSE ruling[other]
    BY <2>2 DEF PolicyInv, PolicyTypeOK
  <2>5. Founded'
    BY <2>2, <2>4 DEF PolicyInv, Founded
  <2> QED  BY <2>3, <2>5 DEF PolicyInv
<1>3. CASE UNCHANGED policyVars
  BY <1>3 DEF policyVars, PolicyInv, PolicyTypeOK, Founded
<1> QED  BY <1>1, <1>2, <1>3 DEF PolicyNext

\* The registry and its decisions keep their type.
THEOREM PolicyTypeCorrect == PolicySpec => []PolicyTypeOK
<1>1. PolicyInv => PolicyTypeOK
  BY DEF PolicyInv
<1> QED  BY PolicyInitInv, PolicyStepInv, <1>1, PTL DEF PolicySpec

\* Packs added between two decisions on a request, of whatever priorities, make the
\* later one no more permissive (resolve_policy_conflicts).
THEOREM PacksTighten == PolicySpec => PacksOnlyTighten
<1> DEFINE Tightens ==
      \A request \in Requests :
        ruling[request] # NoRuling => AtLeast(ruling'[request], ruling[request])
<1>1. PolicyInv /\ [PolicyNext]_policyVars => [Tightens]_policyVars
  <2> SUFFICES ASSUME PolicyInv, PolicyNext, NEW request \in Requests, ruling[request] # NoRuling
               PROVE  AtLeast(ruling'[request], ruling[request])
    OBVIOUS
  <2>1. PICK held \in SUBSET rules : ruling[request] = Decision(held, request)
    BY DEF PolicyInv, Founded
  <2>2. WellFormed(rules) /\ WellFormed(held)
    BY RulesWellFormed DEF PolicyInv, PolicyTypeOK
  <2>3. CASE ruling'[request] = ruling[request]
    BY <2>1, <2>2, <2>3, DecisionGrows
  <2>4. CASE ruling'[request] = Decision(rules, request)
    BY <2>1, <2>2, <2>4, DecisionGrows
  <2>5. ruling'[request] = ruling[request] \/ ruling'[request] = Decision(rules, request)
    BY DEF PolicyNext, AddPack, Evaluate, PolicyInv, PolicyTypeOK
  <2> QED  BY <2>3, <2>4, <2>5
<1> QED  BY <1>1, PolicyInitInv, PolicyStepInv, PTL DEF PolicySpec, PacksOnlyTighten

-----------------------------------------------------------------------------
(* The backup vault.  What was read for a copy is what the copy holds until *)
(* its checksum is taken, and what the checksum is of from then on, unless  *)
(* the copy was changed in between; it is complete once the copying ended,  *)
(* and of one state unless the file was saved meanwhile.  A reader holds    *)
(* the checksum of a finished backup, and nothing it verified can differ.   *)

\* What was read of the source for the copy of b.
ReadFor(b) == strain.read[b]

CopyingNow(b) == backup[b].stage = "copying" /\ backup[b].alive

\* As far as backup b was not changed too early and its source not saved.
Copied(b) ==
  /\ backup[b].stage = "absent" => backup[b].copy = EmptyFile /\ ReadFor(b) = EmptyFile
  /\ backup[b].stage \in {"copying", "copied"} /\ b \notin strain.early =>
       backup[b].copy = ReadFor(b)
  /\ b \notin strain.early /\ backup[b].stage \notin {"absent", "copying"} =>
       AllThere(ReadFor(b))
  /\ b \notin strain.early /\ backup[b].stage \in {"summed", "manifest", "sealing", "done"} =>
       backup[b].sum = ReadFor(b)
  /\ b \notin strain.mixed => OneState(ReadFor(b))
  /\ b \notin strain.mixed /\ CopyingNow(b) =>
       \A portion \in Portions : ReadFor(b)[portion] \in {Hole, source}

\* Of a finished backup, and what its checksum is of.
Promised(b, file) ==
  /\ HasManifest(b)
  /\ b \notin strain.early => file = ReadFor(b)

Asked(d) ==
  reading[d] # NoReading =>
    /\ reading[d] \in Readings
    /\ Promised(reading[d].backup, reading[d].sum)
    /\ reading[d].verified => reading[d].file = reading[d].sum

VaultInv ==
  /\ VaultTypeOK
  /\ \A b \in Backups : Copied(b)
  /\ \A d \in Readers : Asked(d)
  /\ \A p \in plans : Promised(p.backup, p.file)
-----------------------------------------------------------------------------
LEMMA EmptyIsOne == EmptyFile \in CopiedFiles /\ OneState(EmptyFile)
  BY VaultAssumptions DEF EmptyFile, CopiedFiles, OneState

LEMMA VaultStartsSound == VaultInit => VaultInv
<1> SUFFICES ASSUME VaultInit PROVE VaultInv
  OBVIOUS
<1> USE DEF VaultInit
<1>1. NoBackup \in BackupRecords
  BY EmptyIsOne DEF NoBackup, BackupRecords, VaultStages
<1>2. strain \in Strains
  BY EmptyIsOne, VaultAssumptions DEF Strains
<1>3. VaultTypeOK
  BY <1>1, <1>2 DEF VaultTypeOK
<1>4. \A b \in Backups : Copied(b)
  BY EmptyIsOne DEF Copied, NoBackup, ReadFor, CopyingNow
<1> QED  BY <1>3, <1>4 DEF VaultInv, Asked

\* What a step on backup b alone has to leave true: the others keep their record
\* and what was read for them, and of b, once it has a manifest, nothing that a
\* reader or a plan rests on changes.
LEMMA BackupStepInv ==
  ASSUME VaultInv, NEW b \in Backups, NEW record \in BackupRecords,
         backup' = [backup EXCEPT ![b] = record],
         UNCHANGED <<source, reading, plans>>,
         strain' \in Strains,
         strain'.mixed = strain.mixed,
         strain'.early \in {strain.early, strain.early \union {b}},
         \A a \in Backups : a # b => ReadFor(a)' = ReadFor(a),
         HasManifest(b) => record.stage \in {"sealing", "done"} /\ ReadFor(b)' = ReadFor(b),
         Copied(b)'
  PROVE  VaultInv'
<1> USE DEF VaultInv
<1>1. VaultTypeOK'
  BY DEF VaultTypeOK
<1>2. backup'[b] = record /\ \A a \in Backups : a # b => backup'[a] = backup[a]
  BY DEF VaultTypeOK
<1>3. \A a \in Backups : Copied(a)'
  <2> SUFFICES ASSUME NEW a \in Backups, a # b PROVE Copied(a)'
    OBVIOUS
  <2>1. Copied(a)
    OBVIOUS
  <2>2. a \in strain'.early <=> a \in strain.early
    OBVIOUS
  <2> QED  BY <1>2, <2>1, <2>2 DEF Copied, CopyingNow
<1>4. \A a \in Backups : \A file : Promised(a, file) => Promised(a, file)'
  <2> SUFFICES ASSUME NEW a \in Backups, NEW file, Promised(a, file) PROVE Promised(a, file)'
    OBVIOUS
  <2>1. ReadFor(a)' = ReadFor(a) /\ HasManifest(a)'
    BY <1>2 DEF Promised, HasManifest
  <2> QED  BY <2>1 DEF Promised
<1>5. \A d \in Readers : Asked(d)'
  BY <1>4 DEF Asked, Readings
<1>6. \A p \in plans' : Promised(p.backup, p.file)'
  BY <1>4 DEF VaultTypeOK
<1> QED  BY <1>1, <1>3, <1>5, <1>6

\* Each step of a backup's creation that reads nothing of the source.
LEMMA CreationInv ==
  ASSUME VaultInv, NEW b \in Backups,
         \/ StartCopy(b) \/ EndCopy(b) \/ Checksum(b) \/ OpenManifest(b)
         \/ WriteManifest(b) \/ Seal(b)
  PROVE  VaultInv'
<1>1. /\ backup[b] \in BackupRecords /\ backup \in [Backups -> BackupRecords]
      /\ strain \in Strains /\ Copied(b)
  BY DEF VaultInv, VaultTypeOK
<1>2. UNCHANGED <<source, reading, plans, strain>>
  BY DEF StartCopy, EndCopy, Checksum, OpenManifest, WriteManifest, Seal
<1>3. PICK record : record = backup'[b]
  OBVIOUS
<1>4. backup' = [backup EXCEPT ![b] = record]
  BY <1>1, <1>3 DEF StartCopy, EndCopy, Checksum, OpenManifest, WriteManifest, Seal
<1>5. record \in BackupRecords
  BY <1>1, <1>3 DEF StartCopy, EndCopy, Checksum, OpenManifest, WriteManifest, Seal,
                    BackupRecords, VaultStages
<1>6. HasManifest(b) => record.stage \in {"sealing", "done"} /\ ReadFor(b)' = ReadFor(b)
  BY <1>1, <1>2, <1>3 DEF StartCopy, EndCopy, Checksum, OpenManifest, WriteManifest, Seal,
                          BackupRecords, HasManifest, ReadFor
<1>7. CASE StartCopy(b)
  <2>1. backup'[b].stage = "copying" /\ backup'[b].copy = backup[b].copy
        /\ backup[b].stage = "absent"
    BY <1>1, <1>7 DEF StartCopy, BackupRecords
  <2>2. \A portion \in Portions : ReadFor(b)[portion] = Hole
    BY <1>1, <2>1 DEF Copied, EmptyFile
  <2>3. Copied(b)'
    BY <1>1, <1>2, <2>1, <2>2 DEF Copied, ReadFor, CopyingNow
  <2> QED  BY <1>1, <1>2, <1>4, <1>5, <1>6, <2>3, BackupStepInv DEF ReadFor
<1>8. CASE EndCopy(b)
  <2>1. backup'[b].stage = "copied" /\ backup'[b].copy = backup[b].copy
        /\ backup[b].stage = "copying" /\ AllThere(backup[b].copy)
    BY <1>1, <1>8 DEF EndCopy, BackupRecords
  <2>2. Copied(b)'
    BY <1>1, <1>2, <2>1 DEF Copied, ReadFor, CopyingNow
  <2> QED  BY <1>1, <1>2, <1>4, <1>5, <1>6, <2>2, BackupStepInv DEF ReadFor
<1>9. CASE Checksum(b)
  <2>1. backup'[b].stage = "summed" /\ backup'[b].sum = backup[b].copy
        /\ backup[b].stage = "copied"
    BY <1>1, <1>9 DEF Checksum, BackupRecords
  <2>2. Copied(b)'
    BY <1>1, <1>2, <2>1 DEF Copied, ReadFor, CopyingNow
  <2> QED  BY <1>1, <1>2, <1>4, <1>5, <1>6, <2>2, BackupStepInv DEF ReadFor
<1>10. CASE OpenManifest(b) \/ WriteManifest(b) \/ Seal(b)
  <2>1. backup'[b].stage \in {"manifest", "sealing", "done"} /\ backup'[b].sum = backup[b].sum
        /\ backup[b].stage \in {"summed", "manifest", "sealing"}
    BY <1>1, <1>10 DEF OpenManifest, WriteManifest, Seal, BackupRecords
  <2>2. Copied(b)'
    BY <1>1, <1>2, <2>1 DEF Copied, ReadFor, CopyingNow
  <2> QED  BY <1>1, <1>2, <1>4, <1>5, <1>6, <2>2, BackupStepInv DEF ReadFor
<1> QED  BY <1>7, <1>8, <1>9, <1>10

\* The portion copied is the one that was read.
LEMMA CopyPortionInv ==
  ASSUME VaultInv, NEW b \in Backups, NEW portion \in Portions, CopyPortion(b, portion)
  PROVE  VaultInv'
<1>1. /\ backup[b] \in BackupRecords /\ backup \in [Backups -> BackupRecords]
      /\ strain \in Strains /\ Copied(b) /\ source \in Versions
  BY DEF VaultInv, VaultTypeOK
<1>2. PICK record : record = [backup[b] EXCEPT !.copy[portion] = source]
  OBVIOUS
<1>3. backup' = [backup EXCEPT ![b] = record] /\ backup'[b] = record
  BY <1>1, <1>2 DEF CopyPortion
<1>4. /\ record \in BackupRecords /\ record.stage = "copying" /\ backup[b].stage = "copying"
      /\ backup[b].alive
      /\ record.copy = [backup[b].copy EXCEPT ![portion] = source]
  BY <1>1, <1>2 DEF CopyPortion, BackupRecords, CopiedFiles
<1>5. PICK read : read = [strain.read[b] EXCEPT ![portion] = source]
  OBVIOUS
<1>6. strain' = [strain EXCEPT !.read = [strain.read EXCEPT ![b] = read]]
  BY <1>1, <1>5 DEF CopyPortion, Strains
<1>7. read \in CopiedFiles
  BY <1>1, <1>5 DEF Strains, CopiedFiles
<1>8. /\ strain' \in Strains /\ strain'.mixed = strain.mixed /\ strain'.early = strain.early
      /\ strain'.read = [strain.read EXCEPT ![b] = read]
  BY <1>1, <1>6, <1>7 DEF Strains
<1>9. ReadFor(b)' = read /\ \A a \in Backups : a # b => ReadFor(a)' = ReadFor(a)
  BY <1>1, <1>8 DEF ReadFor, Strains
<1>10. UNCHANGED <<source, reading, plans>>
  BY DEF CopyPortion
<1>11. b \notin strain.mixed => \A q \in Portions : read[q] \in {Hole, source}
  BY <1>1, <1>4, <1>5 DEF Copied, CopyingNow, ReadFor, Strains, CopiedFiles
<1>12. b \notin strain.mixed => OneState(read)
  BY <1>1, <1>11 DEF OneState
<1>13. b \notin strain.early => record.copy = read
  BY <1>1, <1>4, <1>5 DEF Copied, ReadFor
<1>14. Copied(b)'
  BY <1>3, <1>4, <1>8, <1>9, <1>10, <1>11, <1>12, <1>13 DEF Copied, CopyingNow
<1>15. ~HasManifest(b)
  BY <1>4 DEF HasManifest
<1> QED  BY <1>3, <1>4, <1>8, <1>9, <1>10, <1>14, <1>15, BackupStepInv

LEMMA VaultDeathInv ==
  ASSUME VaultInv, NEW b \in Backups, VaultDeath(b)
  PROVE  VaultInv'
<1>1. /\ backup[b] \in BackupRecords /\ backup \in [Backups -> BackupRecords]
      /\ strain \in Strains /\ Copied(b)
  BY DEF VaultInv, VaultTypeOK
<1>2. PICK record : record = [backup[b] EXCEPT !.alive = FALSE]
  OBVIOUS
<1>3. backup' = [backup EXCEPT ![b] = record] /\ backup'[b] = record
  BY <1>1, <1>2 DEF VaultDeath
<1>4. /\ record \in BackupRecords /\ record.stage = backup[b].stage /\ ~record.alive
      /\ record.copy = backup[b].copy /\ record.sum = backup[b].sum
  BY <1>1, <1>2 DEF BackupRecords
<1>5. strain.deaths + 1 \in 0..MaxVaultDeaths
  BY <1>1, VaultAssumptions DEF VaultDeath, Strains
<1>6. /\ strain' \in Strains /\ strain'.mixed = strain.mixed /\ strain'.early = strain.early
      /\ strain'.read = strain.read
  BY <1>1, <1>5 DEF VaultDeath, Strains
<1>7. UNCHANGED <<source, reading, plans>>
  BY DEF VaultDeath
<1>8. Copied(b)'
  BY <1>1, <1>3, <1>4, <1>6, <1>7 DEF Copied, CopyingNow, ReadFor
<1> QED  BY <1>3, <1>4, <1>6, <1>7, <1>8, BackupStepInv DEF ReadFor, HasManifest

\* A copy changed before its checksum is one changed early; a later change
\* touches neither the checksum nor what was read.
LEMMA DamageInv ==
  ASSUME VaultInv, NEW b \in Backups, NEW file \in CopiedFiles, Damage(b, file)
  PROVE  VaultInv'
<1>1. /\ backup[b] \in BackupRecords /\ backup \in [Backups -> BackupRecords]
      /\ strain \in Strains /\ Copied(b)
  BY DEF VaultInv, VaultTypeOK
<1>2. PICK record : record = [backup[b] EXCEPT !.copy = file]
  OBVIOUS
<1>3. backup' = [backup EXCEPT ![b] = record] /\ backup'[b] = record
  BY <1>1, <1>2 DEF Damage
<1>4. /\ record \in BackupRecords /\ record.stage = backup[b].stage
      /\ record.alive = backup[b].alive /\ record.sum = backup[b].sum
      /\ record.stage # "absent"
  BY <1>1, <1>2 DEF BackupRecords, Damage
<1>5. strain.damage + 1 \in 0..MaxDamage
  BY <1>1, VaultAssumptions DEF Damage, Strains
<1>6. PICK early : early = IF backup[b].stage \in {"copying", "copied"}
                           THEN strain.early \union {b} ELSE strain.early
  OBVIOUS
<1>7. early \in SUBSET Backups
  BY <1>1, <1>6 DEF Strains
<1>8. strain' = [strain EXCEPT !.damage = @ + 1, !.early = early]
  BY <1>6 DEF Damage
<1>9. /\ strain' \in Strains /\ strain'.mixed = strain.mixed /\ strain'.early = early
      /\ strain'.read = strain.read
  BY <1>1, <1>5, <1>7, <1>8 DEF Strains
<1>10. UNCHANGED <<source, reading, plans>>
  BY DEF Damage
<1>11. Copied(b)'
  BY <1>1, <1>3, <1>4, <1>6, <1>9, <1>10 DEF Copied, CopyingNow, ReadFor
<1> QED  BY <1>3, <1>4, <1>6, <1>9, <1>10, <1>11, BackupStepInv DEF ReadFor, HasManifest

LEMMA SaveSourceInv ==
  ASSUME VaultInv, NEW version \in Versions, SaveSource(version)
  PROVE  VaultInv'
<1> USE DEF VaultInv
<1>1. strain \in Strains /\ source' = version /\ UNCHANGED <<backup, reading, plans>>
  BY DEF VaultTypeOK, SaveSource
<1>2. PICK copying \in SUBSET Backups : copying = {b \in Backups : CopyingNow(b)}
  OBVIOUS
<1>3. strain' = [strain EXCEPT !.saves = @ + 1, !.mixed = @ \union copying]
  BY <1>2 DEF SaveSource, CopyingNow
<1>4. strain.saves + 1 \in 0..MaxSaves
  BY <1>1, VaultAssumptions DEF SaveSource, Strains
<1>5. /\ strain' \in Strains /\ strain'.mixed = strain.mixed \union copying
      /\ strain'.early = strain.early /\ strain'.read = strain.read
  BY <1>1, <1>3, <1>4 DEF Strains
<1>6. VaultTypeOK'
  BY <1>1, <1>5 DEF VaultTypeOK
<1>7. \A b \in Backups : Copied(b)'
  <2> TAKE b \in Backups
  <2>1. Copied(b)
    OBVIOUS
  <2>2. CopyingNow(b)' <=> CopyingNow(b)
    BY <1>1 DEF CopyingNow
  <2>3. b \notin strain'.mixed => ~CopyingNow(b) /\ b \notin strain.mixed
    BY <1>2, <1>5
  <2> QED  BY <1>1, <1>5, <2>1, <2>2, <2>3 DEF Copied, ReadFor
<1>8. \A d \in Readers : Asked(d)'
  BY <1>1, <1>5 DEF Asked, Promised, HasManifest, ReadFor
<1>9. \A p \in plans' : Promised(p.backup, p.file)'
  BY <1>1, <1>5 DEF Promised, HasManifest, ReadFor
<1> QED  BY <1>6, <1>7, <1>8, <1>9

\* A step of one reader.
LEMMA ReaderInv ==
  ASSUME VaultInv, NEW d \in Readers, UNCHANGED <<source, backup, strain>>,
         NEW read \in Readings \union {NoReading}, reading' = [reading EXCEPT ![d] = read],
         read # NoReading => /\ Promised(read.backup, read.sum)
                             /\ read.verified => read.file = read.sum,
         plans' \subseteq [backup : Backups, file : CopiedFiles],
         \A p \in plans' : p \in plans \/ Promised(p.backup, p.file)
  PROVE  VaultInv'
<1> USE DEF VaultInv
<1>1. VaultTypeOK'
  BY DEF VaultTypeOK
<1>2. \A b \in Backups : Copied(b)'
  BY DEF Copied, CopyingNow, ReadFor
<1>3. \A b, file : Promised(b, file)' <=> Promised(b, file)
  BY DEF Promised, HasManifest, ReadFor
<1>4. \A e \in Readers : Asked(e)'
  <2> SUFFICES ASSUME NEW e \in Readers, reading'[e] # NoReading PROVE Asked(e)'
    BY DEF Asked
  <2>1. CASE e = d
    <3>1. reading'[e] = read
      BY <2>1 DEF VaultTypeOK
    <3> QED  BY <1>3, <3>1 DEF Asked
  <2>2. CASE e # d
    <3>1. reading'[e] = reading[e]
      BY <2>2 DEF VaultTypeOK
    <3>2. Asked(e)
      OBVIOUS
    <3> QED  BY <1>3, <3>1, <3>2 DEF Asked
  <2> QED  BY <2>1, <2>2
<1>5. \A p \in plans' : Promised(p.backup, p.file)'
  BY <1>3
<1> QED  BY <1>1, <1>2, <1>4, <1>5

LEMMA LookUpInv ==
  ASSUME VaultInv, NEW d \in Readers, NEW b \in Backups, LookUp(d, b)
  PROVE  VaultInv'
<1>1. PICK read : read = [backup |-> b, sum |-> backup[b].sum, file |-> EmptyFile,
                          verified |-> FALSE]
  OBVIOUS
<1>2. read \in Readings
  BY <1>1, EmptyIsOne DEF VaultInv, VaultTypeOK, BackupRecords, Readings
<1>3. Promised(b, backup[b].sum)
  BY DEF LookUp, HasManifest, Promised, VaultInv, Copied
<1>4. reading' = [reading EXCEPT ![d] = read] /\ UNCHANGED <<source, backup, plans, strain>>
  BY <1>1 DEF LookUp
<1>5. plans' \subseteq [backup : Backups, file : CopiedFiles]
  BY <1>4 DEF VaultInv, VaultTypeOK
<1> QED  BY <1>1, <1>2, <1>3, <1>4, <1>5, ReaderInv

LEMMA HashInv ==
  ASSUME VaultInv, NEW d \in Readers, Hash(d)
  PROVE  VaultInv'
<1>1. PICK old : old = reading[d]
  OBVIOUS
<1>2. old \in Readings /\ Promised(old.backup, old.sum)
  BY <1>1 DEF VaultInv, Asked, Hash
<1>3. PICK file : file = backup[old.backup].copy
  OBVIOUS
<1>4. file \in CopiedFiles
  BY <1>2, <1>3 DEF Readings, VaultInv, VaultTypeOK, BackupRecords
<1>5. PICK read : read = IF old.sum = file THEN [old EXCEPT !.file = file, !.verified = TRUE]
                         ELSE NoReading
  OBVIOUS
<1>6. read \in Readings \union {NoReading}
  BY <1>2, <1>4, <1>5 DEF Readings
<1>7. read # NoReading => /\ Promised(read.backup, read.sum)
                          /\ read.verified => read.file = read.sum
  BY <1>2, <1>5 DEF Readings
<1>8. reading' = [reading EXCEPT ![d] = read] /\ UNCHANGED <<source, backup, plans, strain>>
  BY <1>1, <1>3, <1>5 DEF Hash, Matches, VaultInv, VaultTypeOK
<1>9. plans' \subseteq [backup : Backups, file : CopiedFiles]
  BY <1>8 DEF VaultInv, VaultTypeOK
<1> QED  BY <1>6, <1>7, <1>8, <1>9, ReaderInv

LEMMA HandOutInv ==
  ASSUME VaultInv, NEW d \in Readers, HandOut(d)
  PROVE  VaultInv'
<1>1. PICK old : old = reading[d]
  OBVIOUS
<1>2. old \in Readings /\ Promised(old.backup, old.sum) /\ old.file = old.sum
  BY <1>1 DEF VaultInv, Asked, HandOut
<1>3. PICK plan : plan = [backup |-> old.backup, file |-> old.file]
  OBVIOUS
<1>4. plan \in [backup : Backups, file : CopiedFiles] /\ Promised(plan.backup, plan.file)
  BY <1>2, <1>3 DEF Readings
<1>5. /\ reading' = [reading EXCEPT ![d] = NoReading] /\ UNCHANGED <<source, backup, strain>>
      /\ plans' = plans \union {plan}
  BY <1>1, <1>3 DEF HandOut
<1>6. plans' \subseteq [backup : Backups, file : CopiedFiles]
  BY <1>4, <1>5 DEF VaultInv, VaultTypeOK
<1>7. \A p \in plans' : p \in plans \/ Promised(p.backup, p.file)
  BY <1>4, <1>5
<1> QED  BY <1>5, <1>6, <1>7, ReaderInv

LEMMA VaultStepSound == VaultInv /\ [VaultNext]_vaultVars => VaultInv'
<1> SUFFICES ASSUME VaultInv, [VaultNext]_vaultVars PROVE VaultInv'
  OBVIOUS
<1>1. CASE UNCHANGED vaultVars
  BY <1>1 DEF vaultVars, VaultInv, VaultTypeOK, Copied, CopyingNow, ReadFor, Asked, Promised,
              HasManifest
<1>2. ASSUME NEW b \in Backups,
             \/ StartCopy(b) \/ EndCopy(b) \/ Checksum(b) \/ OpenManifest(b)
             \/ WriteManifest(b) \/ Seal(b)
      PROVE  VaultInv'
  BY <1>2, CreationInv
<1>3. ASSUME NEW b \in Backups, NEW portion \in Portions, CopyPortion(b, portion)
      PROVE  VaultInv'
  BY <1>3, CopyPortionInv
<1>4. ASSUME NEW b \in Backups, VaultDeath(b)  PROVE VaultInv'
  BY <1>4, VaultDeathInv
<1>5. ASSUME NEW b \in Backups, NEW file \in CopiedFiles, Damage(b, file)  PROVE VaultInv'
  BY <1>5, DamageInv
<1>6. ASSUME NEW version \in Versions, SaveSource(version)  PROVE VaultInv'
  BY <1>6, SaveSourceInv
<1>7. ASSUME NEW d \in Readers, NEW b \in Backups, LookUp(d, b)  PROVE VaultInv'
  BY <1>7, LookUpInv
<1>8. ASSUME NEW d \in Readers, Hash(d) \/ HandOut(d)  PROVE VaultInv'
  BY <1>8, HashInv, HandOutInv
<1> QED  BY <1>1, <1>2, <1>3, <1>4, <1>5, <1>6, <1>7, <1>8 DEF VaultNext

\* The invariant holds of every behaviour.
THEOREM VaultInvariant == VaultSpec => []VaultInv
<1>1. VaultInit => VaultInv
  BY VaultStartsSound
<1>2. VaultInv /\ [VaultNext]_vaultVars => VaultInv'
  BY VaultStepSound
<1> QED  BY <1>1, <1>2, PTL DEF VaultSpec

\* The vault keeps its type (BackupVault and DatabaseGuard).
THEOREM VaultTypeCorrect == VaultSpec => []VaultTypeOK
<1>1. VaultInv => VaultTypeOK
  BY DEF VaultInv
<1> QED  BY <1>1, VaultInvariant, PTL

\* Every plan was verified on a file that held all that was read for the copy,
\* of one state unless the source was saved meanwhile, however many portions,
\* readers, deaths and changes there are (BackupVault.create and verify).
THEOREM PlansAreSound == VaultSpec => []PlansRestOnWhole
<1>1. VaultInv => PlansRestOnWhole
  <2> SUFFICES ASSUME VaultInv, NEW p \in plans, p.backup \notin strain.early
               PROVE  /\ p.file = strain.read[p.backup] /\ AllThere(p.file)
                      /\ p.backup \notin strain.mixed => OneState(p.file)
    BY DEF PlansRestOnWhole
  <2>1. p.backup \in Backups
    BY DEF VaultInv, VaultTypeOK
  <2>2. HasManifest(p.backup) /\ p.file = ReadFor(p.backup) /\ Copied(p.backup)
    BY <2>1 DEF VaultInv, Promised
  <2> QED  BY <2>2 DEF HasManifest, Copied, ReadFor
<1> QED  BY <1>1, VaultInvariant, PTL

-----------------------------------------------------------------------------
(* The review artifacts.  What is stored, listed or about to be saved was   *)
(* put together from the trace of its run, which only grows, so that it     *)
(* stays true of the run however the processes that save interleave and     *)
(* whatever is truncated meanwhile.                                         *)

\* What was put together from facts that the run's trace holds.
Traced(a) ==
  /\ a \in ArtifactRecords
  /\ a.facts \subseteq trace[a.run]
  /\ a.decision = ArtifactDecision(a.facts, a.acceptance, a.diff)

\* The artifact of run r, or none.
TracedOf(r, a) == a = NoArtifact \/ (Traced(a) /\ a.run = r)

TracedList(list) ==
  /\ list \in StoredArtifacts
  /\ \A r \in ReviewRuns : TracedOf(r, list[r])

Savings ==
  [stage : {"idle", "list", "truncate", "write"}, run : ReviewRuns,
   artifact : ArtifactRecords \union {NoArtifact}, listed : StoredArtifacts]

TracedSaving(save) ==
  /\ save \in Savings
  /\ TracedOf(save.run, save.artifact)
  /\ TracedList(save.listed)

RunsTyped ==
  /\ runStatus \in [ReviewRuns -> {"running", "succeeded", "failed"}]
  /\ trace \in [ReviewRuns -> SUBSET Facts]

ReviewInv ==
  /\ RunsTyped
  /\ TracedList(artifacts)
  /\ DOMAIN saving = Reviewing
  /\ \A p \in Reviewing : TracedSaving(saving[p])

\* What review artifact stores of a run is about that run, names nothing that
\* its trace does not hold, and decides by what it names (ReviewArtifactBuilder
\* and _save_artifact), whatever other processes save.
ArtifactsTraced == \A r \in ReviewRuns : TracedOf(r, artifacts[r])

LEMMA NotSavingTraced == TracedSaving(NotSaving)
<1>1. (CHOOSE r \in ReviewRuns : TRUE) \in ReviewRuns
  BY ReviewAssumptions
<1>2. [r \in ReviewRuns |-> NoArtifact] \in StoredArtifacts
  BY DEF StoredArtifacts
<1>3. NotSaving \in Savings
  BY <1>1, <1>2 DEF NotSaving, Savings
<1> QED  BY <1>2, <1>3 DEF TracedSaving, TracedList, TracedOf, NotSaving

\* What is built is traced, of the run it was built for.
LEMMA BuiltTraced ==
  ASSUME RunsTyped, NEW r \in ReviewRuns, NEW diff \in Diffs, NEW reviewer \in BOOLEAN
  PROVE  Traced(Artifact(r, diff, reviewer)) /\ Artifact(r, diff, reviewer).run = r
<1> DEFINE built == Artifact(r, diff, reviewer)
<1>1. trace[r] \in SUBSET Facts
  BY DEF RunsTyped
<1>2. Acceptance(runStatus[r]) \in {"passed", "failed", "unknown"}
  BY DEF Acceptance
<1>3. ArtifactDecision(trace[r], Acceptance(runStatus[r]), diff)
        \in {"approve", "request_changes", "reject", "blocked"}
  BY DEF ArtifactDecision
<1>4. built \in ArtifactRecords
  BY <1>1, <1>2, <1>3 DEF Artifact, ArtifactRecords
<1> QED  BY <1>4 DEF Traced, Artifact

\* A trace that grows leaves what was traced traced.
LEMMA TracedStays ==
  ASSUME \A r \in ReviewRuns : trace[r] \subseteq trace'[r], NEW r \in ReviewRuns,
         NEW a, TracedOf(r, a)
  PROVE  TracedOf(r, a)'
  BY DEF TracedOf, Traced, ArtifactRecords

LEMMA SavingStays ==
  ASSUME \A r \in ReviewRuns : trace[r] \subseteq trace'[r], NEW save, TracedSaving(save)
  PROVE  TracedSaving(save)'
<1>1. save.run \in ReviewRuns
  BY DEF TracedSaving, Savings
<1> QED  BY <1>1, TracedStays DEF TracedSaving, TracedList

\* A step on the runs.
LEMMA RunStepInv ==
  ASSUME ReviewInv, RunsTyped', UNCHANGED <<artifacts, saving>>,
         \A r \in ReviewRuns : trace[r] \subseteq trace'[r]
  PROVE  ReviewInv'
<1>1. TracedList(artifacts)'
  BY TracedStays DEF ReviewInv, TracedList
<1>2. \A p \in Reviewing : TracedSaving(saving[p])'
  <2> TAKE p \in Reviewing
  <2>1. PICK save : save = saving[p]
    OBVIOUS
  <2>2. TracedSaving(save)'
    BY <2>1, SavingStays DEF ReviewInv
  <2> QED  BY <2>1, <2>2
<1> QED  BY <1>1, <1>2 DEF ReviewInv

\* A step of one process that leaves the runs alone.
LEMMA SaveStepInv ==
  ASSUME ReviewInv, UNCHANGED <<runStatus, trace>>, NEW p \in Reviewing, NEW save,
         TracedSaving(save), saving' = [saving EXCEPT ![p] = save],
         NEW list, TracedList(list), artifacts' = list
  PROVE  ReviewInv'
<1>1. RunsTyped' /\ DOMAIN saving' = Reviewing
  BY DEF ReviewInv, RunsTyped
<1>2. TracedList(list)' /\ TracedSaving(save)'
  BY DEF TracedList, TracedSaving, TracedOf, Traced
<1>3. TracedList(artifacts)'
  BY <1>2
<1>4. \A q \in Reviewing : TracedSaving(saving[q])'
  <2> TAKE q \in Reviewing
  <2>1. CASE q = p
    <3>1. saving'[q] = save
      BY <2>1 DEF ReviewInv
    <3> QED  BY <3>1, <1>2
  <2>2. CASE q # p
    <3>1. saving'[q] = saving[q]
      BY <2>2 DEF ReviewInv
    <3>2. PICK other : other = saving[q]
      OBVIOUS
    <3>3. TracedSaving(other)'
      BY <3>2, SavingStays DEF ReviewInv
    <3> QED  BY <3>1, <3>2, <3>3
  <2> QED  BY <2>1, <2>2
<1> QED  BY <1>1, <1>3, <1>4 DEF ReviewInv

LEMMA TraceFactInv ==
  ASSUME ReviewInv, NEW r \in ReviewRuns, NEW fact \in Facts, TraceFact(r, fact)
  PROVE  ReviewInv'
<1>1. RunsTyped' /\ \A s \in ReviewRuns : trace[s] \subseteq trace'[s]
  BY DEF TraceFact, ReviewInv, RunsTyped
<1> QED  BY <1>1, RunStepInv DEF TraceFact

LEMMA EndRunInv ==
  ASSUME ReviewInv, NEW r \in ReviewRuns, NEW status \in {"succeeded", "failed"},
         EndRun(r, status)
  PROVE  ReviewInv'
<1>1. RunsTyped' /\ \A s \in ReviewRuns : trace[s] \subseteq trace'[s]
  BY DEF EndRun, ReviewInv, RunsTyped
<1> QED  BY <1>1, RunStepInv DEF EndRun

LEMMA BuildInv ==
  ASSUME ReviewInv, NEW p \in Reviewing, NEW r \in ReviewRuns, NEW diff \in Diffs,
         NEW reviewer \in BOOLEAN, Build(p, r, diff, reviewer)
  PROVE  ReviewInv'
<1> DEFINE built == [stage |-> "list", run |-> r, artifact |-> Artifact(r, diff, reviewer),
                     listed |-> NotSaving.listed]
<1>1. Traced(Artifact(r, diff, reviewer)) /\ Artifact(r, diff, reviewer).run = r
  BY BuiltTraced DEF ReviewInv
<1>2. TracedList(NotSaving.listed)
  BY NotSavingTraced DEF TracedSaving
<1>3. TracedSaving(built)
  <2>1. built \in Savings
    BY <1>1, <1>2 DEF Traced, Savings, TracedList
  <2>2. TracedOf(built.run, built.artifact)
    BY <1>1 DEF TracedOf
  <2> QED  BY <2>1, <2>2, <1>2 DEF TracedSaving
<1>4. PICK save : save = built
  OBVIOUS
<1>5. saving' = [saving EXCEPT ![p] = save]
  BY <1>4 DEF Build
<1> QED  BY <1>3, <1>4, <1>5, SaveStepInv DEF Build, ReviewInv

LEMMA ListInv ==
  ASSUME ReviewInv, NEW p \in Reviewing, List(p)
  PROVE  ReviewInv'
<1>1. PICK s : s = saving[p]
  OBVIOUS
<1>2. TracedSaving(s) /\ TracedList(artifacts)
  BY <1>1 DEF ReviewInv
<1>3. s \in Savings
  BY <1>2 DEF TracedSaving
<1>4. PICK listed : listed = [artifacts EXCEPT ![s.run] = s.artifact]
  OBVIOUS
<1>5. TracedList(listed)
  BY <1>2, <1>3, <1>4 DEF TracedList, StoredArtifacts, Savings, TracedSaving
<1>6. PICK save : save = [s EXCEPT !.stage = "truncate", !.listed = listed]
  OBVIOUS
<1>7. save \in Savings
  BY <1>3, <1>5, <1>6 DEF Savings, TracedList
<1>8. save.run = s.run /\ save.artifact = s.artifact /\ save.listed = listed
  BY <1>3, <1>6 DEF Savings
<1>9. TracedSaving(save)
  BY <1>2, <1>5, <1>7, <1>8 DEF TracedSaving
<1>10. saving' = [saving EXCEPT ![p] = save]
  BY <1>1, <1>4, <1>6 DEF List, ReviewInv
<1> QED  BY <1>2, <1>9, <1>10, SaveStepInv DEF List

LEMMA TruncateInv ==
  ASSUME ReviewInv, NEW p \in Reviewing, Truncate(p)
  PROVE  ReviewInv'
<1>1. PICK s : s = saving[p]
  OBVIOUS
<1>2. TracedSaving(s)
  BY <1>1 DEF ReviewInv
<1>3. PICK save : save = [s EXCEPT !.stage = "write"]
  OBVIOUS
<1>4. save \in Savings /\ save.run = s.run /\ save.artifact = s.artifact /\ save.listed = s.listed
  BY <1>2, <1>3 DEF TracedSaving, Savings
<1>5. TracedSaving(save)
  BY <1>2, <1>4 DEF TracedSaving
<1>6. TracedList([r \in ReviewRuns |-> NoArtifact])
  BY DEF TracedList, StoredArtifacts, TracedOf
<1>7. saving' = [saving EXCEPT ![p] = save]
  BY <1>1, <1>3 DEF Truncate, ReviewInv
<1> QED  BY <1>5, <1>6, <1>7, SaveStepInv DEF Truncate

LEMMA WriteAllInv ==
  ASSUME ReviewInv, NEW p \in Reviewing, WriteAll(p)
  PROVE  ReviewInv'
<1>1. TracedList(saving[p].listed)
  BY DEF ReviewInv, TracedSaving
<1> QED  BY <1>1, NotSavingTraced, SaveStepInv DEF WriteAll

LEMMA ReviewDeathInv ==
  ASSUME ReviewInv, NEW p \in Reviewing, ReviewDeath(p)
  PROVE  ReviewInv'
  BY NotSavingTraced, SaveStepInv DEF ReviewDeath, ReviewInv

LEMMA ReviewStepInv == ReviewInv /\ [ReviewNext]_reviewVars => ReviewInv'
<1> SUFFICES ASSUME ReviewInv, [ReviewNext]_reviewVars PROVE ReviewInv'
  OBVIOUS
<1>1. CASE UNCHANGED reviewVars
  <2>1. RunsTyped' /\ \A r \in ReviewRuns : trace[r] \subseteq trace'[r]
    BY <1>1 DEF reviewVars, ReviewInv, RunsTyped
  <2> QED  BY <2>1, <1>1, RunStepInv DEF reviewVars
<1>2. ASSUME NEW r \in ReviewRuns, NEW fact \in Facts, TraceFact(r, fact)  PROVE ReviewInv'
  BY <1>2, TraceFactInv
<1>3. ASSUME NEW r \in ReviewRuns, NEW status \in {"succeeded", "failed"}, EndRun(r, status)
      PROVE  ReviewInv'
  BY <1>3, EndRunInv
<1>4. ASSUME NEW p \in Reviewing, NEW r \in ReviewRuns, NEW diff \in Diffs,
             NEW reviewer \in BOOLEAN, Build(p, r, diff, reviewer)
      PROVE  ReviewInv'
  BY <1>4, BuildInv
<1>5. ASSUME NEW p \in Reviewing, List(p)  PROVE ReviewInv'
  BY <1>5, ListInv
<1>6. ASSUME NEW p \in Reviewing, Truncate(p)  PROVE ReviewInv'
  BY <1>6, TruncateInv
<1>7. ASSUME NEW p \in Reviewing, WriteAll(p)  PROVE ReviewInv'
  BY <1>7, WriteAllInv
<1>8. ASSUME NEW p \in Reviewing, ReviewDeath(p)  PROVE ReviewInv'
  BY <1>8, ReviewDeathInv
<1> QED  BY <1>1, <1>2, <1>3, <1>4, <1>5, <1>6, <1>7, <1>8 DEF ReviewNext

\* The invariant holds of every behaviour.
THEOREM ReviewInvariant == ReviewSpec => []ReviewInv
<1>1. ReviewInit => ReviewInv
  <2> SUFFICES ASSUME ReviewInit PROVE ReviewInv
    OBVIOUS
  <2>1. RunsTyped
    BY DEF ReviewInit, RunsTyped
  <2>2. TracedList(artifacts)
    BY DEF ReviewInit, TracedList, StoredArtifacts, TracedOf
  <2> QED  BY <2>1, <2>2, NotSavingTraced DEF ReviewInit, ReviewInv
<1> QED  BY <1>1, ReviewStepInv, PTL DEF ReviewSpec

\* What is stored of a run was traced of it, whatever is saved meanwhile.
THEOREM ReviewStoresTraced == ReviewSpec => []ArtifactsTraced
<1>1. ReviewInv => ArtifactsTraced
  BY DEF ReviewInv, TracedList, ArtifactsTraced
<1> QED  BY <1>1, ReviewInvariant, PTL

\* The gate's state keeps its type (the artifacts' file and who saves to it).
THEOREM ReviewTypeCorrect == ReviewSpec => []ReviewTypeOK
<1>1. ReviewInv => ReviewTypeOK
  BY DEF ReviewInv, RunsTyped, TracedList, TracedSaving, Savings, ReviewTypeOK
<1> QED  BY <1>1, ReviewInvariant, PTL

\* An artifact that the run has not overtaken is merged only if the run's
\* trace allows it, whatever the gate's command is told (MergeGate.evaluate).
THEOREM MergesAreSound == ReviewSpec => []MergedWasSound
<1>1. ReviewInv => MergedWasSound
  <2> SUFFICES ASSUME ReviewInv, NEW r \in ReviewRuns, NEW flags \in GateFlags,
                      Current(r), AllowedToMerge(artifacts[r], flags)
               PROVE  LET diff == artifacts[r].diff
                      IN  /\ trace[r] \cap {"test_failed", "policy_refused", "data_failed"} = {}
                          /\ runStatus[r] # "failed"
                          /\ diff.upkeep # "block" /\ ~diff.blockers /\ ~diff.bypass
                          /\ NeedsTests(diff) => "test_passed" \in trace[r]
                          /\ Risk(diff) = "high" => artifacts[r].reviewer
    BY DEF MergedWasSound
  <2>1. PICK a \in ArtifactRecords : a = artifacts[r]
    BY DEF ReviewInv, TracedList, TracedOf, Traced, Current
  <2>2. ~MergeBlocked(a, flags) /\ ~TestsAsked(a, flags)
    BY <2>1 DEF AllowedToMerge
  <2>3. a.facts = trace[r] /\ a.acceptance = Acceptance(runStatus[r])
    BY <2>1 DEF Current
  <2>4. "test_failed" \notin a.facts /\ "policy_refused" \notin a.facts
          /\ "data_failed" \notin a.facts
    BY <2>2 DEF MergeBlocked, Tests
  <2>5. runStatus[r] # "failed"
    BY <2>2, <2>3 DEF MergeBlocked, Acceptance
  <2>6. a.diff.upkeep # "block" /\ ~a.diff.blockers /\ ~a.diff.bypass
    BY <2>2 DEF MergeBlocked, Upkeep
  <2>7. NeedsTests(a.diff) => "test_passed" \in a.facts
    BY <2>2, <2>4 DEF MergeBlocked, TestsAsked, Tests
  <2>8. Risk(a.diff) = "high" => a.reviewer
    BY <2>2 DEF MergeBlocked, WantsReviewer, HighRisk
  <2> QED  BY <2>1, <2>3, <2>4, <2>5, <2>6, <2>7, <2>8
<1> QED  BY <1>1, ReviewInvariant, PTL

-----------------------------------------------------------------------------
(* The approval cards.  While commands run one at a time and none has died, *)
(* no file is broken and the file agrees with what was reported, except     *)
(* while a process is about to write back what it listed: that list then    *)
(* agrees, but for the card it saves.                                       *)

Todos == {<<>>, <<"message">>, <<"card">>, <<"decide">>, <<"card", "decide">>,
          <<"message", "card", "decide">>}

CardCommands ==
  [todo : Todos, stage : {"start", "list", "truncate", "write"}, card : Cards \union {NoCard},
   approve : BOOLEAN, listed : CardFiles, count : Nat]

\* A process that has nothing to do waits, and one that has to do with a card
\* knows which.
Formed(cm) ==
  /\ cm \in CardCommands
  /\ cm.todo = <<>> => cm = Waiting
  /\ cm.todo \notin {<<>>, <<"message">>} => cm.card \in Cards

Histories ==
  [drawn : SUBSET Cards, received : Nat, decisions : Nat, deaths : Nat, overlapped : BOOLEAN,
   filed : SUBSET Cards, decided : CardFiles]

CardsTyped ==
  /\ cards \in CardFiles
  /\ messages \in Nat
  /\ broken \subseteq {"cards", "messages"}
  /\ told \in Histories
  /\ DOMAIN command = Operators
  /\ \A p \in Operators : Formed(command[p])

OnCards(cm) == cm.todo # <<>> /\ cm.todo[1] \in {"card", "decide"}

AtWrite(cm) == OnCards(cm) /\ cm.stage = "write"

CardVerdict(cm) ==
  IF cm.todo[1] = "card" THEN "pending" ELSE IF cm.approve THEN "approved" ELSE "denied"

\* What was listed is what was reported, but for the card being saved.
HoldsVerdict(cm) ==
  OnCards(cm) /\ cm.stage \in {"truncate", "write"} =>
    /\ cm.listed[cm.card] = CardVerdict(cm)
    /\ \A c \in told.filed : c # cm.card => cm.listed[c] = told.decided[c]

Agrees == \A c \in told.filed : cards[c] = told.decided[c]

Quiet == ~told.overlapped /\ told.deaths = 0

QuietInv ==
  /\ \A p, q \in Operators : Busy(p) /\ Busy(q) => p = q
  /\ broken = {}
  /\ \A p \in Operators : HoldsVerdict(command[p])
  /\ (\A p \in Operators : ~AtWrite(command[p])) => Agrees

CardsInv == CardsTyped /\ (Quiet => QuietInv)

LEMMA WaitingFormed == Formed(Waiting) /\ ~OnCards(Waiting)
<1>1. NoCards \in CardFiles
  BY DEF NoCards, CardFiles
<1> QED  BY <1>1 DEF Waiting, Formed, CardCommands, Todos, OnCards

\* What is left of a command is one that could have been given.
LEMMA RestOfTodo ==
  ASSUME NEW todo \in Todos, todo # <<>>, Len(todo) # 1
  PROVE  Tail(todo) \in {<<"decide">>, <<"card", "decide">>} /\ todo # <<"message">>
<1>1. CASE todo = <<"card", "decide">>
  <2>1. Tail(todo) = <<"decide">>
    BY <1>1
  <2> QED  BY <1>1, <2>1
<1>2. CASE todo = <<"message", "card", "decide">>
  <2>1. Tail(todo) = <<"card", "decide">>
    BY <1>2
  <2> QED  BY <1>2, <2>1
<1> QED  BY <1>1, <1>2 DEF Todos

LEMMA CardsInitInv == CardsInit => CardsInv
<1> SUFFICES ASSUME CardsInit PROVE CardsInv
  OBVIOUS
<1>1. NoCards \in CardFiles
  BY DEF NoCards, CardFiles
<1>2. \A p \in Operators : command[p] = Waiting
  BY DEF CardsInit
<1>3. CardsTyped
  BY <1>1, <1>2, WaitingFormed DEF CardsInit, CardsTyped, Histories
<1>4. QuietInv
  <2>1. \A p \in Operators : ~Busy(p) /\ HoldsVerdict(command[p])
    BY <1>2, WaitingFormed DEF Busy, Waiting, HoldsVerdict
  <2> QED  BY <2>1 DEF QuietInv, CardsInit, Agrees
<1> QED  BY <1>3, <1>4 DEF CardsInv

\* A step of process p that leaves it in cm: when it is quiet the others have
\* nothing to do.
LEMMA CommandStepInv ==
  ASSUME CardsInv, NEW p \in Operators, NEW cm, Formed(cm), command' = [command EXCEPT ![p] = cm],
         cards' \in CardFiles, messages' \in Nat, broken' \subseteq {"cards", "messages"},
         told' \in Histories,
         Quiet' => /\ \A q \in Operators : q # p => ~Busy(q)
                   /\ broken' = {}
                   /\ HoldsVerdict(cm)'
                   /\ AtWrite(cm) \/ Agrees'
  PROVE  CardsInv'
<1>1. DOMAIN command' = Operators /\ command'[p] = cm
        /\ \A q \in Operators : q # p => command'[q] = command[q]
  BY DEF CardsInv, CardsTyped
<1>2. CardsTyped'
  BY <1>1 DEF CardsInv, CardsTyped
<1>3. Quiet' => QuietInv'
  <2> SUFFICES ASSUME Quiet' PROVE QuietInv'
    OBVIOUS
  <2>1. \A q \in Operators : q # p => command'[q].todo = <<>>
    BY <1>1 DEF Busy
  <2>2. \A q \in Operators : Busy(q)' => q = p
    BY <2>1 DEF Busy
  <2>3. \A q \in Operators : HoldsVerdict(command[q])'
    <3> TAKE q \in Operators
    <3>1. CASE q = p
      BY <3>1, <1>1
    <3>2. CASE q # p
      BY <3>2, <2>1 DEF HoldsVerdict, OnCards
    <3> QED  BY <3>1, <3>2
  <2>4. (\A q \in Operators : ~AtWrite(command[q])') => Agrees'
    BY <1>1
  <2> QED  BY <2>2, <2>3, <2>4 DEF QuietInv
<1> QED  BY <1>2, <1>3 DEF CardsInv

\* While it is quiet, a process with something to do is the only one.
LEMMA OnlyOne ==
  ASSUME CardsInv, Quiet, NEW p \in Operators, Busy(p)
  PROVE  \A q \in Operators : q # p => ~Busy(q)
  BY DEF CardsInv, QuietInv

LEMMA StartInv ==
  ASSUME CardsInv, NEW p \in Operators, NEW todo \in Todos \ {<<>>},
         NEW card \in Cards \union {NoCard}, NEW approve \in BOOLEAN,
         todo # <<"message">> => card \in Cards,
         Start(p, todo, card, approve)
  PROVE  CardsInv'
<1>1. PICK cm : cm = [Waiting EXCEPT !.todo = todo, !.card = card, !.approve = approve]
  OBVIOUS
<1>2. cm \in CardCommands /\ cm.todo = todo /\ cm.card = card /\ cm.stage = "start"
  <2>1. NoCards \in CardFiles
    BY DEF NoCards, CardFiles
  <2> QED  BY <1>1, <2>1 DEF Waiting, CardCommands
<1>3. Formed(cm) /\ ~AtWrite(cm) /\ HoldsVerdict(cm)'
  BY <1>2 DEF Formed, AtWrite, HoldsVerdict
<1>4. command' = [command EXCEPT ![p] = cm] /\ UNCHANGED <<cards, messages, broken>>
  BY <1>1 DEF Start
<1>5. told \in Histories
  BY DEF CardsInv, CardsTyped
<1>6. PICK o, i, d, drawn :
        /\ o = (told.overlapped \/ \E q \in Operators : Busy(q))
        /\ i = IF todo[1] = "message" THEN 1 ELSE 0
        /\ d = IF todo[Len(todo)] = "decide" THEN 1 ELSE 0
        /\ drawn = told.drawn \union (IF \E j \in DOMAIN todo : todo[j] = "card"
                                     THEN {card} ELSE {})
  OBVIOUS
<1>7. o \in BOOLEAN /\ i \in Nat /\ d \in Nat /\ drawn \subseteq Cards
  <2>1. (\E j \in DOMAIN todo : todo[j] = "card") => todo # <<"message">>
    OBVIOUS
  <2> QED  BY <2>1, <1>5, <1>6 DEF Histories
<1>8. told' = [told EXCEPT !.overlapped = o,
                            !.received = @ + i, !.decisions = @ + d, !.drawn = drawn]
  BY <1>5, <1>6 DEF Start, Histories
<1>9. told' \in Histories
  <2>1. PICK m \in Nat, n \in Nat : m = told.received + i /\ n = told.decisions + d
    BY <1>5, <1>7 DEF Histories
  <2>2. told' = [told EXCEPT !.overlapped = o, !.received = m, !.decisions = n, !.drawn = drawn]
    BY <1>8, <2>1
  <2> QED  BY <1>5, <1>7, <2>2 DEF Histories
<1>10. told'.overlapped = o
        /\ told'.deaths = told.deaths /\ told'.filed = told.filed
        /\ told'.decided = told.decided
  BY <1>5, <1>7, <1>8 DEF Histories
<1>11. Quiet' => Quiet /\ \A q \in Operators : ~Busy(q)
  BY <1>6, <1>10 DEF Quiet
<1>12. Quiet' => broken' = {} /\ Agrees'
  <2> SUFFICES ASSUME Quiet' PROVE broken' = {} /\ Agrees'
    OBVIOUS
  <2>1. QuietInv
    BY <1>11 DEF CardsInv
  <2>2. \A q \in Operators : ~AtWrite(command[q])
    BY <1>11 DEF Busy, AtWrite, OnCards
  <2>3. Agrees
    BY <2>1, <2>2 DEF QuietInv
  <2> QED  BY <2>1, <2>3, <1>4, <1>10 DEF QuietInv, Agrees
<1> QED  BY <1>3, <1>4, <1>9, <1>11, <1>12, CommandStepInv DEF CardsInv, CardsTyped

LEMMA StartsInv ==
  ASSUME CardsInv, NEW p \in Operators,
         \/ Simulate(p)
         \/ \E c \in Cards : SendCard(p, c)
         \/ \E c \in Cards, approve \in BOOLEAN : DecideCard(p, c, approve)
         \/ \E c \in Cards, riskKnown \in BOOLEAN : WebhookFlow(p, c, riskKnown)
  PROVE  CardsInv'
<1>1. CASE Simulate(p)
  BY <1>1, StartInv DEF Simulate, Todos
<1>2. ASSUME NEW c \in Cards, SendCard(p, c)  PROVE CardsInv'
  BY <1>2, StartInv DEF SendCard, Todos
<1>3. ASSUME NEW c \in Cards, NEW approve \in BOOLEAN, DecideCard(p, c, approve)
      PROVE  CardsInv'
  BY <1>3, StartInv DEF DecideCard, Todos
<1>4. ASSUME NEW c \in Cards, NEW riskKnown \in BOOLEAN, WebhookFlow(p, c, riskKnown)
      PROVE  CardsInv'
  <2>1. PICK todo : /\ todo \in {<<"message">>, <<"message", "card", "decide">>}
                    /\ Start(p, todo, c, TRUE)
    BY <1>4 DEF WebhookFlow
  <2>2. todo \in Todos \ {<<>>}
    BY <2>1 DEF Todos
  <2> QED  BY <2>1, <2>2, StartInv
<1> QED  BY <1>1, <1>2, <1>3, <1>4

\* A step of a busy process that leaves what has happened as it was.
LEMMA BusyStepInv ==
  ASSUME CardsInv, NEW p \in Operators, Busy(p), NEW cm, Formed(cm),
         command' = [command EXCEPT ![p] = cm], UNCHANGED told,
         cards' \in CardFiles, messages' \in Nat, broken' \subseteq broken,
         Quiet => HoldsVerdict(cm) /\ (AtWrite(cm) \/ Agrees')
  PROVE  CardsInv'
<1>1. broken \subseteq {"cards", "messages"} /\ told \in Histories
  BY DEF CardsInv, CardsTyped
<1>2. Quiet' = Quiet /\ HoldsVerdict(cm)' = HoldsVerdict(cm)
  BY DEF Quiet, HoldsVerdict
<1>3. Quiet => broken = {}
  BY DEF CardsInv, QuietInv
<1> QED  BY <1>1, <1>2, <1>3, OnlyOne, CommandStepInv

\* Unless it is about to write the cards, a busy process finds them to agree.
LEMMA AgreesNow ==
  ASSUME CardsInv, Quiet, NEW p \in Operators, Busy(p), ~AtWrite(command[p])
  PROVE  Agrees
<1>1. \A q \in Operators : ~AtWrite(command[q])
  BY OnlyOne DEF Busy, AtWrite, OnCards
<1> QED  BY <1>1 DEF CardsInv, QuietInv

LEMMA LoadInv ==
  ASSUME CardsInv, NEW p \in Operators, Load(p)
  PROVE  CardsInv'
<1>1. Busy(p) /\ command[p].todo[1] = "decide" /\ command[p].stage = "start"
  BY DEF Load, Doing
<1>2. PICK s : s = command[p]
  OBVIOUS
<1>3. Formed(s)
  BY <1>2 DEF CardsInv, CardsTyped
<1>4. PICK cm : command' = [command EXCEPT ![p] = cm]
                  /\ (cm = Waiting \/ cm = [s EXCEPT !.stage = "list"])
  BY <1>2 DEF Load, Fail, CardsInv, CardsTyped
<1>5. Formed(cm) /\ HoldsVerdict(cm) /\ ~AtWrite(cm)
  <2>1. CASE cm = Waiting
    BY <2>1, WaitingFormed DEF HoldsVerdict, AtWrite
  <2>2. CASE cm = [s EXCEPT !.stage = "list"]
    <3>1. cm \in CardCommands /\ cm.stage = "list" /\ cm.todo = s.todo /\ cm.card = s.card
      BY <2>2, <1>3 DEF Formed, CardCommands
    <3> QED  BY <3>1, <1>1, <1>2, <1>3 DEF Formed, HoldsVerdict, AtWrite, Busy
  <2> QED  BY <1>4, <2>1, <2>2
<1>6. Quiet => Agrees'
  BY <1>1, AgreesNow DEF AtWrite, Load, Agrees
<1> QED  BY <1>1, <1>4, <1>5, <1>6, BusyStepInv DEF Load, CardsInv, CardsTyped

LEMMA ListCardsInv ==
  ASSUME CardsInv, NEW p \in Operators, ListCards(p)
  PROVE  CardsInv'
<1>1. Busy(p) /\ OnCards(command[p]) /\ command[p].stage \in {"start", "list"}
  BY DEF ListCards, Doing, OnCards, Busy
<1>2. PICK s : s = command[p]
  OBVIOUS
<1>3. Formed(s) /\ s.card \in Cards
  BY <1>1, <1>2 DEF CardsInv, CardsTyped, Formed, OnCards
<1>4. PICK listed : listed = [cards EXCEPT ![s.card] = CardVerdict(s)]
  OBVIOUS
<1>5. cards \in CardFiles /\ listed \in CardFiles
  BY <1>3, <1>4 DEF CardsInv, CardsTyped, CardFiles, CardVerdict, CardStatuses
<1>6. PICK cm : command' = [command EXCEPT ![p] = cm]
                  /\ (cm = Waiting \/ cm = [s EXCEPT !.stage = "truncate", !.listed = listed])
  BY <1>2, <1>4 DEF ListCards, Fail, Decided, CardVerdict, CardsInv, CardsTyped
<1>7. Quiet => Agrees
  BY <1>1, AgreesNow DEF AtWrite
<1>8. Formed(cm) /\ ~AtWrite(cm) /\ (Quiet => HoldsVerdict(cm))
  <2>1. CASE cm = Waiting
    BY <2>1, WaitingFormed DEF HoldsVerdict, AtWrite
  <2>2. CASE cm = [s EXCEPT !.stage = "truncate", !.listed = listed]
    <3>1. /\ cm \in CardCommands /\ cm.stage = "truncate" /\ cm.todo = s.todo /\ cm.card = s.card
          /\ cm.listed = listed /\ cm.approve = s.approve
      BY <2>2, <1>3, <1>5 DEF Formed, CardCommands
    <3>2. Formed(cm) /\ ~AtWrite(cm)
      BY <3>1, <1>1, <1>2, <1>3 DEF Formed, AtWrite, Busy
    <3>3. CardVerdict(cm) = CardVerdict(s)
      BY <3>1 DEF CardVerdict
    <3>4. cm.listed[cm.card] = CardVerdict(cm)
      BY <3>1, <3>3, <1>3, <1>4, <1>5 DEF CardFiles
    <3>5. told.filed \subseteq Cards
      BY DEF CardsInv, CardsTyped, Histories
    <3>6. Quiet => \A c \in told.filed : c # cm.card => cm.listed[c] = told.decided[c]
      BY <3>1, <3>5, <1>4, <1>5, <1>7 DEF Agrees, CardFiles
    <3> QED  BY <3>2, <3>4, <3>6 DEF HoldsVerdict
  <2> QED  BY <1>6, <2>1, <2>2
<1>9. Quiet => Agrees'
  BY <1>7 DEF ListCards, Agrees
<1> QED  BY <1>1, <1>5, <1>6, <1>8, <1>9, BusyStepInv DEF ListCards, CardsInv, CardsTyped

LEMMA TruncateCardsInv ==
  ASSUME CardsInv, NEW p \in Operators, TruncateCards(p)
  PROVE  CardsInv'
<1>1. Busy(p) /\ OnCards(command[p]) /\ command[p].stage = "truncate"
  BY DEF TruncateCards, Doing, OnCards, Busy
<1>2. PICK s : s = command[p]
  OBVIOUS
<1>3. Formed(s)
  BY <1>2 DEF CardsInv, CardsTyped
<1>4. PICK cm : cm = [s EXCEPT !.stage = "write"]
  OBVIOUS
<1>5. command' = [command EXCEPT ![p] = cm]
  BY <1>2, <1>4 DEF TruncateCards, CardsInv, CardsTyped
<1>6. /\ cm \in CardCommands /\ cm.stage = "write" /\ cm.todo = s.todo /\ cm.card = s.card
      /\ cm.listed = s.listed /\ cm.approve = s.approve
  BY <1>3, <1>4 DEF Formed, CardCommands
<1>7. Formed(cm) /\ AtWrite(cm)
  BY <1>1, <1>2, <1>3, <1>6 DEF Formed, AtWrite, OnCards
<1>8. Quiet => HoldsVerdict(cm)
  <2>1. Quiet => HoldsVerdict(s)
    BY <1>2 DEF CardsInv, QuietInv
  <2>2. CardVerdict(cm) = CardVerdict(s)
    BY <1>6 DEF CardVerdict
  <2> QED  BY <2>1, <2>2, <1>1, <1>2, <1>6 DEF HoldsVerdict, OnCards
<1>9. NoCards \in CardFiles
  BY DEF NoCards, CardFiles
<1>10. cards' \in CardFiles /\ messages' \in Nat /\ broken' \subseteq broken /\ UNCHANGED told
  BY <1>9 DEF TruncateCards, CardsInv, CardsTyped
<1> QED  BY <1>1, <1>5, <1>7, <1>8, <1>10, BusyStepInv

\* What a busy process turns to when it has done the first of its command.
LEMMA NextCommand ==
  ASSUME CardsInv, NEW p \in Operators, Busy(p),
         command' = IF Len(command[p].todo) = 1 THEN Fail(p) ELSE Proceed(p)
  PROVE  \E cm : Formed(cm) /\ HoldsVerdict(cm) /\ ~AtWrite(cm) /\ command' = [command EXCEPT ![p] = cm]
                  /\ HoldsVerdict(cm)'
<1>1. PICK s : s = command[p]
  OBVIOUS
<1>2. Formed(s) /\ s.todo # <<>>
  BY <1>1 DEF CardsInv, CardsTyped, Busy
<1>3. CASE Len(s.todo) = 1
  <2>1. command' = [command EXCEPT ![p] = Waiting]
    BY <1>1, <1>3 DEF Fail
  <2> QED  BY <2>1, WaitingFormed DEF HoldsVerdict, AtWrite
<1>4. CASE Len(s.todo) # 1
  <2>1. PICK cm : cm = [s EXCEPT !.todo = Tail(s.todo), !.stage = "start"]
    OBVIOUS
  <2>2. Tail(s.todo) \in {<<"decide">>, <<"card", "decide">>} /\ s.todo # <<"message">>
    BY <1>2, <1>4, RestOfTodo DEF Formed, CardCommands
  <2>3. cm \in CardCommands /\ cm.todo = Tail(s.todo) /\ cm.stage = "start" /\ cm.card = s.card
    BY <1>2, <2>1, <2>2 DEF Formed, CardCommands, Todos
  <2>4. HoldsVerdict(cm) /\ HoldsVerdict(cm)' /\ ~AtWrite(cm)
    <3>1. cm.stage = "start"
      BY <2>3
    <3>2. ~AtWrite(cm)
      BY <3>1 DEF AtWrite
    <3>3. HoldsVerdict(cm)
      BY <3>1 DEF HoldsVerdict
    <3>4. HoldsVerdict(cm)'
      BY <3>1 DEF HoldsVerdict
    <3> QED  BY <3>2, <3>3, <3>4
  <2>5. s.card \in Cards /\ cm.todo # <<>>
    <3>1. s.card \in Cards
      BY <2>2, <1>2 DEF Formed
    <3>2. \A todo \in {<<"decide">>, <<"card", "decide">>} : todo # <<>>
      OBVIOUS
    <3>3. cm.todo \in {<<"decide">>, <<"card", "decide">>}
      BY <2>2, <2>3
    <3> QED  BY <3>1, <3>2, <3>3
  <2>6. Formed(cm)
    BY <2>3, <2>5 DEF Formed
  <2>7. command' = [command EXCEPT ![p] = cm]
    BY <1>1, <1>4, <2>1 DEF Proceed, CardsInv, CardsTyped
  <2> QED  BY <2>4, <2>6, <2>7
<1> QED  BY <1>3, <1>4

LEMMA WriteCardsInv ==
  ASSUME CardsInv, NEW p \in Operators, WriteCards(p)
  PROVE  CardsInv'
<1>1. Busy(p) /\ OnCards(command[p]) /\ command[p].stage = "write"
  BY DEF WriteCards, Doing, OnCards, Busy
<1>2. PICK s : s = command[p]
  OBVIOUS
<1>3. Formed(s) /\ s.card \in Cards /\ s.listed \in CardFiles
  BY <1>1, <1>2 DEF CardsInv, CardsTyped, Formed, OnCards, CardCommands
<1>4. PICK cm : Formed(cm) /\ ~AtWrite(cm) /\ command' = [command EXCEPT ![p] = cm] /\ HoldsVerdict(cm)'
  BY <1>1, NextCommand DEF WriteCards
<1>5. told \in Histories /\ CardVerdict(s) \in CardStatuses
  BY DEF CardsInv, CardsTyped, CardVerdict, CardStatuses
<1>6. told' = [told EXCEPT !.filed = @ \union {s.card}, !.decided[s.card] = CardVerdict(s)]
  BY <1>2 DEF WriteCards, Decided, CardVerdict
<1>7. PICK filed, decided : /\ filed = told.filed \union {s.card}
                            /\ decided = [told.decided EXCEPT ![s.card] = CardVerdict(s)]
  OBVIOUS
<1>8. filed \subseteq Cards /\ decided \in CardFiles /\ decided[s.card] = CardVerdict(s)
        /\ \A c \in Cards : c # s.card => decided[c] = told.decided[c]
  BY <1>3, <1>5, <1>7 DEF Histories, CardFiles
<1>9. told' = [told EXCEPT !.filed = filed, !.decided = decided]
  BY <1>5, <1>6, <1>7 DEF Histories
<1>10. told' \in Histories /\ told'.filed = filed /\ told'.decided = decided
         /\ told'.overlapped = told.overlapped /\ told'.deaths = told.deaths
  BY <1>5, <1>8, <1>9 DEF Histories
<1>11. Quiet' = Quiet
  BY <1>10 DEF Quiet
<1>12. Quiet => Agrees'
  <2> SUFFICES ASSUME Quiet PROVE Agrees'
    OBVIOUS
  <2>1. HoldsVerdict(s)
    BY <1>2 DEF CardsInv, QuietInv
  <2>2. s.listed[s.card] = CardVerdict(s)
          /\ \A c \in told.filed : c # s.card => s.listed[c] = told.decided[c]
    BY <2>1, <1>1, <1>2 DEF HoldsVerdict
  <2>3. \A c \in filed : s.listed[c] = decided[c]
    BY <2>2, <1>7, <1>8
  <2> QED  BY <2>3, <1>2, <1>10 DEF Agrees, WriteCards
<1>13. Quiet => broken' = {}
  BY DEF CardsInv, QuietInv, WriteCards
<1>14. cards' \in CardFiles /\ messages' \in Nat /\ broken' \subseteq {"cards", "messages"}
  BY <1>2, <1>3 DEF WriteCards, CardsInv, CardsTyped
<1> QED  BY <1>1, <1>4, <1>10, <1>11, <1>12, <1>13, <1>14, OnlyOne, CommandStepInv

LEMMA ListMessagesInv ==
  ASSUME CardsInv, NEW p \in Operators, ListMessages(p) \/ TruncateMessages(p)
  PROVE  CardsInv'
<1>1. Busy(p) /\ command[p].todo[1] = "message"
  BY DEF ListMessages, TruncateMessages, Doing
<1>2. PICK s : s = command[p]
  OBVIOUS
<1>3. Formed(s)
  BY <1>2 DEF CardsInv, CardsTyped
<1>4. PICK cm : /\ command' = [command EXCEPT ![p] = cm]
                /\ \/ cm = Waiting
                   \/ cm = [s EXCEPT !.stage = "truncate", !.count = messages]
                   \/ cm = [s EXCEPT !.stage = "write"]
  BY <1>2 DEF ListMessages, TruncateMessages, Fail, CardsInv, CardsTyped
<1>5. Formed(cm) /\ ~OnCards(cm)
  <2>1. CASE cm = Waiting
    BY <2>1, WaitingFormed
  <2>2. CASE cm # Waiting
    <3>1. cm \in CardCommands /\ cm.todo = s.todo /\ cm.card = s.card
      BY <2>2, <1>3, <1>4 DEF Formed, CardCommands, CardsInv, CardsTyped
    <3> QED  BY <3>1, <1>1, <1>2, <1>3 DEF Formed, OnCards, Busy
  <2> QED  BY <2>1, <2>2
<1>6. ~AtWrite(command[p]) /\ HoldsVerdict(cm)
  BY <1>1, <1>5 DEF AtWrite, OnCards, HoldsVerdict
<1>7. cards' = cards /\ told' = told /\ messages' \in Nat /\ broken' \subseteq broken
  BY DEF ListMessages, TruncateMessages, CardsInv, CardsTyped
<1>8. Quiet => Agrees'
  BY <1>1, <1>6, <1>7, AgreesNow DEF Agrees
<1> QED  BY <1>1, <1>4, <1>5, <1>6, <1>7, <1>8, BusyStepInv DEF CardsInv, CardsTyped

LEMMA WriteMessagesInv ==
  ASSUME CardsInv, NEW p \in Operators, WriteMessages(p)
  PROVE  CardsInv'
<1>1. Busy(p) /\ command[p].todo[1] = "message"
  BY DEF WriteMessages, Doing
<1>2. PICK cm : Formed(cm) /\ HoldsVerdict(cm) /\ command' = [command EXCEPT ![p] = cm]
  BY <1>1, NextCommand DEF WriteMessages
<1>3. messages' \in Nat
  <2>1. command[p].count \in Nat
    BY DEF CardsInv, CardsTyped, Formed, CardCommands
  <2> QED  BY <2>1 DEF WriteMessages
<1>4. ~AtWrite(command[p])
  BY <1>1 DEF AtWrite, OnCards
<1>5. Quiet => Agrees'
  BY <1>1, <1>4, AgreesNow DEF Agrees, WriteMessages
<1> QED  BY <1>1, <1>2, <1>3, <1>5, BusyStepInv DEF WriteMessages, CardsInv, CardsTyped

\* A death ends the quiet.
LEMMA CardDeathInv ==
  ASSUME CardsInv, NEW p \in Operators, NEW torn \in BOOLEAN, CardDeath(p, torn)
  PROVE  CardsInv'
<1>1. told \in Histories /\ broken \subseteq {"cards", "messages"}
  BY DEF CardsInv, CardsTyped
<1>2. told' \in Histories /\ told'.deaths = told.deaths + 1
  BY <1>1 DEF CardDeath, Histories
<1>3. ~Quiet'
  BY <1>1, <1>2 DEF Quiet, Histories
<1>4. broken' \subseteq {"cards", "messages"}
  BY <1>1 DEF CardDeath
<1>5. command' = [command EXCEPT ![p] = Waiting]
  BY DEF CardDeath, Fail
<1> QED  BY <1>2, <1>3, <1>4, <1>5, WaitingFormed, CommandStepInv
         DEF CardDeath, CardsInv, CardsTyped

LEMMA CardsStepInv == CardsInv /\ [CardsNext]_cardsVars => CardsInv'
<1> SUFFICES ASSUME CardsInv, [CardsNext]_cardsVars PROVE CardsInv'
  OBVIOUS
<1>1. CASE UNCHANGED cardsVars
  BY <1>1 DEF cardsVars, CardsInv, CardsTyped, Quiet, QuietInv, Busy, HoldsVerdict, Agrees
<1>2. ASSUME NEW p \in Operators,
             \/ Simulate(p)
             \/ \E c \in Cards : SendCard(p, c)
             \/ \E c \in Cards, approve \in BOOLEAN : DecideCard(p, c, approve)
             \/ \E c \in Cards, riskKnown \in BOOLEAN : WebhookFlow(p, c, riskKnown)
      PROVE  CardsInv'
  BY <1>2, StartsInv
<1>3. ASSUME NEW p \in Operators, Load(p)  PROVE CardsInv'
  BY <1>3, LoadInv
<1>4. ASSUME NEW p \in Operators, ListCards(p)  PROVE CardsInv'
  BY <1>4, ListCardsInv
<1>5. ASSUME NEW p \in Operators, TruncateCards(p)  PROVE CardsInv'
  BY <1>5, TruncateCardsInv
<1>6. ASSUME NEW p \in Operators, WriteCards(p)  PROVE CardsInv'
  BY <1>6, WriteCardsInv
<1>7. ASSUME NEW p \in Operators, ListMessages(p) \/ TruncateMessages(p)  PROVE CardsInv'
  BY <1>7, ListMessagesInv
<1>8. ASSUME NEW p \in Operators, WriteMessages(p)  PROVE CardsInv'
  BY <1>8, WriteMessagesInv
<1>9. ASSUME NEW p \in Operators, NEW torn \in BOOLEAN, CardDeath(p, torn)  PROVE CardsInv'
  BY <1>9, CardDeathInv
<1> QED  BY <1>1, <1>2, <1>3, <1>4, <1>5, <1>6, <1>7, <1>8, <1>9 DEF CardsNext

\* The invariant holds of every behaviour.
THEOREM CardsInvariant == CardsSpec => []CardsInv
  BY CardsInitInv, CardsStepInv, PTL DEF CardsSpec

\* With commands run one at a time, none of which died, the file has the last
\* decision that was reported for a card (GatewayStore.decide, save_approval).
THEOREM CardsKeepDecisions == CardsSpec => []DecisionsStand
<1>1. CardsInv => DecisionsStand
  <2> SUFFICES ASSUME CardsInv, Quiet, \A p \in Operators : command[p].stage # "write"
               PROVE  Agrees
    BY DEF DecisionsStand, Quiet, Agrees
  <2> QED  BY DEF CardsInv, QuietInv, AtWrite
<1> QED  BY <1>1, CardsInvariant, PTL

\* Processes whose next save is of the messages.
Saves(cm) == cm.todo # <<>> /\ cm.todo[1] = "message"

Saving == {p \in Operators : Saves(command[p])}

\* The messages in the file, or listed to be written back, and those still to be
\* saved are no more than were received.
MessagesCounted ==
  /\ IsFiniteSet(Saving)
  /\ told.received <= MaxMessages
  /\ messages + Cardinality(Saving) <= told.received
  /\ \A p \in Operators : command[p].count + Cardinality(Saving) <= told.received

LEMMA CountedAtFirst == CardsInit => MessagesCounted
<1> SUFFICES ASSUME CardsInit PROVE MessagesCounted
  OBVIOUS
<1>1. \A p \in Operators : command[p].todo = <<>> /\ command[p].count = 0
  BY DEF CardsInit, Waiting
<1>2. Saving = {}
  BY <1>1 DEF Saving, Saves
<1>3. told.received = 0 /\ messages = 0
  BY DEF CardsInit
<1> QED  BY <1>1, <1>2, <1>3, FS_EmptySet, CardsAssumptions DEF MessagesCounted

\* What a process does next, if it saves a message less or none that was not received.
GoesOn(old, cm, k) ==
  /\ Saves(cm) => Saves(old) \/ k = 1
  /\ cm.count = 0 \/ cm.count = old.count \/ cm.count = messages

\* What that does to the file.
FileOf(old, cm) ==
  \/ messages' = 0 \/ messages' = messages
  \/ (messages' = old.count + 1 /\ Saves(old) /\ ~Saves(cm))

\* A process takes up a message when one more is received, and the file gains one
\* when a process is done with its message.
LEMMA CountedOn ==
  ASSUME CardsInv, MessagesCounted, NEW p \in Operators, NEW cm, cm.count \in Nat,
         command' = [command EXCEPT ![p] = cm], NEW k \in {0, 1},
         told'.received = told.received + k, told'.received <= MaxMessages,
         GoesOn(command[p], cm, k), FileOf(command[p], cm)
  PROVE  MessagesCounted'
<1>1. PICK n \in Nat : n = Cardinality(Saving)
  BY FS_CardinalityType DEF MessagesCounted
<1>2. PICK r \in Nat, c \in Nat, m \in Nat :
        r = told.received /\ c = command[p].count /\ m = messages
  BY DEF CardsInv, CardsTyped, Histories, Formed, CardCommands
<1>3. /\ \A q \in Operators : q # p => command'[q] = command[q]
      /\ command'[p] = cm
  BY DEF CardsInv, CardsTyped
<1>4. Saving' = IF Saves(cm) THEN Saving \union {p} ELSE Saving \ {p}
  BY <1>3 DEF Saving, Saves
<1>5. p \in Saving <=> Saves(command[p])
  BY DEF Saving
<1>6. PICK after \in Nat :
        /\ IsFiniteSet(Saving') /\ after = Cardinality(Saving') /\ after <= n + k
        /\ Saves(command[p]) /\ ~Saves(cm) => after = n - 1
  <2>1. CASE Saves(cm)
    BY <2>1, <1>1, <1>4, <1>5, FS_AddElement DEF MessagesCounted, GoesOn
  <2>2. CASE ~Saves(cm)
    <3>1. IsFiniteSet(Saving') /\ Cardinality(Saving') = IF p \in Saving THEN n - 1 ELSE n
      BY <2>2, <1>1, <1>4, FS_RemoveElement DEF MessagesCounted
    <3>2. Cardinality(Saving') \in Nat
      BY <3>1, FS_CardinalityType
    <3> QED  BY <2>2, <3>1, <3>2, <1>1, <1>5
  <2> QED  BY <2>1, <2>2
<1>7. m + n <= r /\ c + n <= r
  BY <1>1, <1>2 DEF MessagesCounted
<1>8. messages' + after <= r + k
  BY <1>1, <1>2, <1>6, <1>7 DEF FileOf
<1>9. ASSUME NEW q \in Operators  PROVE command'[q].count + after <= r + k
  <2>1. CASE q = p
    BY <2>1, <1>1, <1>2, <1>3, <1>6, <1>7 DEF GoesOn
  <2>2. CASE q # p
    <3>1. command[q].count \in Nat /\ command[q].count + n <= r
      BY <1>1, <1>2 DEF MessagesCounted, CardsInv, CardsTyped, Formed, CardCommands
    <3> QED  BY <2>2, <3>1, <1>1, <1>2, <1>3, <1>6
  <2> QED  BY <2>1, <2>2
<1>10. told'.received = r + k
  BY <1>2
<1> QED  BY <1>6, <1>8, <1>9, <1>10 DEF MessagesCounted

\* Nothing else counts.
LEMMA CountStays ==
  ASSUME MessagesCounted, UNCHANGED <<command, messages>>, told'.received = told.received
  PROVE  MessagesCounted'
<1>1. Saving' = Saving
  BY DEF Saving
<1> QED  BY <1>1 DEF MessagesCounted

\* What a process starts is of the given form, and a message is received if it saves one.
LEMMA StartCounts ==
  ASSUME CardsInv, MessagesCounted, NEW p \in Operators, NEW todo \in Todos \ {<<>>},
         NEW card, NEW approve, Start(p, todo, card, approve),
         todo[1] = "message" => told.received < MaxMessages
  PROVE  MessagesCounted'
<1>1. PICK cm : cm = [Waiting EXCEPT !.todo = todo, !.card = card, !.approve = approve]
  OBVIOUS
<1>2. cm.todo = todo /\ cm.count = 0
  BY <1>1 DEF Waiting
<1>3. PICK k \in {0, 1} : k = IF todo[1] = "message" THEN 1 ELSE 0
  OBVIOUS
<1>4. told \in Histories
  BY DEF CardsInv, CardsTyped
<1>5. told'.received = told.received + k
  BY <1>3, <1>4 DEF Start, Histories
<1>6. told'.received <= MaxMessages
  <2>1. PICK r \in Nat : r = told.received /\ r <= MaxMessages
    BY <1>4 DEF MessagesCounted, Histories
  <2> QED  BY <1>3, <1>5, <2>1, CardsAssumptions
<1>7. Saves(cm) => k = 1
  BY <1>2, <1>3 DEF Saves
<1>8. command' = [command EXCEPT ![p] = cm] /\ messages' = messages
  BY <1>1 DEF Start
<1>9. GoesOn(command[p], cm, k) /\ FileOf(command[p], cm)
  BY <1>2, <1>7, <1>8 DEF GoesOn, FileOf
<1>10. cm.count \in Nat
  BY <1>2
<1> QED  BY <1>5, <1>6, <1>8, <1>9, <1>10, CountedOn

LEMMA CommandCounts ==
  ASSUME CardsInv, MessagesCounted, NEW p \in Operators,
         \/ Load(p) \/ ListCards(p) \/ TruncateCards(p) \/ WriteCards(p)
         \/ ListMessages(p) \/ TruncateMessages(p) \/ WriteMessages(p)
         \/ \E torn \in BOOLEAN : CardDeath(p, torn)
  PROVE  MessagesCounted'
<1>1. PICK s : s = command[p] /\ s \in CardCommands /\ s.todo # <<>>
  BY DEF CardsInv, CardsTyped, Formed, Load, ListCards, TruncateCards, WriteCards, ListMessages,
         TruncateMessages, WriteMessages, CardDeath, Doing, Busy
<1>2. PICK m \in Nat, r \in Nat : m = messages /\ r = told.received /\ r <= MaxMessages
  BY DEF CardsInv, CardsTyped, Histories, MessagesCounted
<1>3. told'.received = r
  <2>1. told \in Histories
    BY DEF CardsInv, CardsTyped
  <2>2. CASE told' = told
    BY <2>2, <1>2
  <2>3. CASE WriteCards(p)
    BY <2>1, <2>3, <1>2 DEF WriteCards, Histories
  <2>4. CASE \E torn \in BOOLEAN : CardDeath(p, torn)
    BY <2>1, <2>4, <1>2 DEF CardDeath, Histories
  <2> QED  BY <2>2, <2>3, <2>4 DEF Load, ListCards, TruncateCards, ListMessages, TruncateMessages,
                                   WriteMessages
<1>4. ASSUME NEW cm, GoesOn(s, cm, 0), command' = [command EXCEPT ![p] = cm], FileOf(s, cm)
      PROVE  MessagesCounted'
  <2>1. cm.count \in Nat
    BY <1>1, <1>2, <1>4 DEF CardCommands, GoesOn
  <2>2. told'.received = told.received + 0
    BY <1>2, <1>3
  <2> QED  BY <1>1, <1>2, <1>3, <1>4, <2>1, <2>2, CountedOn
<1>5. Waiting.count = 0 /\ ~Saves(Waiting)
  BY DEF Waiting, Saves
<1>6. CASE command' = Fail(p) /\ messages' = messages
  <2>1. GoesOn(s, Waiting, 0) /\ FileOf(s, Waiting)
    BY <1>5, <1>6 DEF GoesOn, FileOf
  <2> QED  BY <1>4, <1>6, <2>1 DEF Fail
<1>7. CASE Load(p) /\ command' # Fail(p)
  <2>1. PICK cm : cm = [s EXCEPT !.stage = "list"]
    OBVIOUS
  <2>2. cm.todo = s.todo /\ cm.count = s.count
    BY <1>1, <2>1 DEF CardCommands
  <2>3. command' = [command EXCEPT ![p] = cm]
    BY <1>1, <1>7, <2>1 DEF Load, CardsInv, CardsTyped
  <2>4. GoesOn(s, cm, 0) /\ FileOf(s, cm)
    BY <1>7, <2>2 DEF GoesOn, FileOf, Saves, Load
  <2> QED  BY <1>4, <2>3, <2>4
<1>8. CASE ListCards(p) /\ command' # Fail(p)
  <2>1. PICK listed : listed = [cards EXCEPT ![s.card] = Decided(p)]
    OBVIOUS
  <2>2. PICK cm : cm = [s EXCEPT !.stage = "truncate", !.listed = listed]
    OBVIOUS
  <2>3. cm.todo = s.todo /\ cm.count = s.count
    BY <1>1, <2>2 DEF CardCommands
  <2>4. command' = [command EXCEPT ![p] = cm]
    BY <1>1, <1>8, <2>1, <2>2 DEF ListCards, CardsInv, CardsTyped
  <2>5. GoesOn(s, cm, 0) /\ FileOf(s, cm)
    BY <1>8, <2>3 DEF GoesOn, FileOf, Saves, ListCards
  <2> QED  BY <1>4, <2>4, <2>5
<1>9. CASE TruncateCards(p) \/ TruncateMessages(p)
  <2>1. PICK cm : cm = [s EXCEPT !.stage = "write"]
    OBVIOUS
  <2>2. cm.todo = s.todo /\ cm.count = s.count
    BY <1>1, <2>1 DEF CardCommands
  <2>3. command' = [command EXCEPT ![p] = cm]
    BY <1>1, <1>9, <2>1 DEF TruncateCards, TruncateMessages, CardsInv, CardsTyped
  <2>4. GoesOn(s, cm, 0) /\ FileOf(s, cm)
    BY <1>9, <2>2 DEF GoesOn, FileOf, Saves, TruncateCards, TruncateMessages
  <2> QED  BY <1>4, <2>3, <2>4
<1>10. CASE ListMessages(p) /\ command' # Fail(p)
  <2>1. PICK cm : cm = [s EXCEPT !.stage = "truncate", !.count = m]
    OBVIOUS
  <2>2. cm.todo = s.todo /\ cm.count = m
    BY <1>1, <2>1 DEF CardCommands
  <2>3. command' = [command EXCEPT ![p] = cm]
    BY <1>1, <1>2, <1>10, <2>1 DEF ListMessages, CardsInv, CardsTyped
  <2>4. GoesOn(s, cm, 0) /\ FileOf(s, cm)
    BY <1>2, <1>10, <2>2 DEF GoesOn, FileOf, Saves, ListMessages
  <2> QED  BY <1>4, <2>3, <2>4
<1>11. CASE WriteCards(p) \/ WriteMessages(p)
  <2>1. PICK cm : /\ command' = [command EXCEPT ![p] = cm]
                  /\ GoesOn(s, cm, 0) /\ ~Saves(cm)
    <3>1. CASE Len(s.todo) = 1
      BY <1>1, <1>5, <1>11, <3>1 DEF WriteCards, WriteMessages, Fail, GoesOn
    <3>2. CASE Len(s.todo) # 1
      <4>1. PICK rest : rest = Tail(s.todo) /\ rest \in {<<"decide">>, <<"card", "decide">>}
        BY <1>1, <3>2, RestOfTodo DEF CardCommands
      <4>2. PICK cm : cm = [s EXCEPT !.todo = rest, !.stage = "start"]
        OBVIOUS
      <4>3. cm.todo = rest /\ cm.count = s.count
        BY <1>1, <4>2 DEF CardCommands
      <4>4. GoesOn(s, cm, 0) /\ ~Saves(cm)
        <5>1. rest[1] # "message"
          <6>1. CASE rest = <<"decide">>
            BY <6>1
          <6>2. CASE rest = <<"card", "decide">>
            BY <6>2
          <6> QED  BY <4>1, <6>1, <6>2
        <5>2. ~Saves(cm)
          BY <4>3, <5>1 DEF Saves
        <5> QED  BY <4>3, <5>2 DEF GoesOn
      <4>5. command' = [command EXCEPT ![p] = cm]
        BY <1>1, <1>11, <3>2, <4>1, <4>2 DEF WriteCards, WriteMessages, Proceed, CardsInv,
                                              CardsTyped
      <4> QED  BY <4>4, <4>5
    <3> QED  BY <3>1, <3>2
  <2>2. CASE WriteCards(p)
    BY <1>4, <2>1, <2>2 DEF WriteCards, FileOf
  <2>3. CASE WriteMessages(p)
    <3>1. messages' = s.count + 1 /\ Saves(s)
      BY <1>1, <2>3 DEF WriteMessages, Doing, Saves
    <3>2. FileOf(s, cm)
      BY <2>1, <3>1 DEF FileOf
    <3> QED  BY <1>4, <2>1, <3>2
  <2> QED  BY <1>11, <2>2, <2>3
<1> QED  BY <1>2, <1>6, <1>7, <1>8, <1>9, <1>10, <1>11
         DEF Load, ListCards, ListMessages, CardDeath

LEMMA CountStep == CardsInv /\ MessagesCounted /\ [CardsNext]_cardsVars => MessagesCounted'
<1> SUFFICES ASSUME CardsInv, MessagesCounted, [CardsNext]_cardsVars PROVE MessagesCounted'
  OBVIOUS
<1>1. CASE UNCHANGED cardsVars
  BY <1>1, CountStays DEF cardsVars
<1>2. ASSUME NEW p \in Operators, Simulate(p)  PROVE MessagesCounted'
  BY <1>2, StartCounts DEF Simulate, Todos
<1>3. ASSUME NEW p \in Operators, NEW c \in Cards, SendCard(p, c)  PROVE MessagesCounted'
  BY <1>3, StartCounts DEF SendCard, Todos
<1>4. ASSUME NEW p \in Operators, NEW c \in Cards, NEW approve \in BOOLEAN,
             DecideCard(p, c, approve)
      PROVE  MessagesCounted'
  BY <1>4, StartCounts DEF DecideCard, Todos
<1>5. ASSUME NEW p \in Operators, NEW c \in Cards, NEW riskKnown \in BOOLEAN,
             WebhookFlow(p, c, riskKnown)
      PROVE  MessagesCounted'
  <2>1. PICK todo : /\ todo \in {<<"message">>, <<"message", "card", "decide">>}
                    /\ Start(p, todo, c, TRUE)
    BY <1>5 DEF WebhookFlow
  <2>2. todo \in Todos \ {<<>>}
    BY <2>1 DEF Todos
  <2> QED  BY <1>5, <2>1, <2>2, StartCounts DEF WebhookFlow
<1>6. ASSUME NEW p \in Operators,
             \/ Load(p) \/ ListCards(p) \/ TruncateCards(p) \/ WriteCards(p)
             \/ ListMessages(p) \/ TruncateMessages(p) \/ WriteMessages(p)
             \/ \E torn \in BOOLEAN : CardDeath(p, torn)
      PROVE  MessagesCounted'
  BY <1>6, CommandCounts
<1> QED  BY <1>1, <1>2, <1>3, <1>4, <1>5, <1>6 DEF CardsNext

\* Cards, messages and the processes that save them keep their type, whatever
\* overlaps or dies; the file never holds more messages than were received.
THEOREM CardsTypeCorrect == CardsSpec => []CardsTypeOK
<1>1. CardsInv /\ MessagesCounted => CardsTypeOK
  <2> SUFFICES ASSUME CardsInv, MessagesCounted PROVE CardsTypeOK
    OBVIOUS
  <2>1. PICK n \in Nat : n = Cardinality(Saving)
    BY FS_CardinalityType DEF MessagesCounted
  <2>2. messages \in 0..MaxMessages
    <3>1. messages \in Nat /\ told.received \in Nat
      BY DEF CardsInv, CardsTyped, Histories
    <3> QED  BY <2>1, <3>1, CardsAssumptions DEF MessagesCounted
  <2>3. ASSUME NEW p \in Operators
        PROVE  /\ command[p] \in CardCommands
               /\ command[p].count \in 0..MaxMessages
    <3>1. command[p] \in CardCommands
      BY DEF CardsInv, CardsTyped, Formed
    <3>2. command[p].count \in Nat /\ told.received \in Nat
      BY <3>1 DEF CardCommands, CardsInv, CardsTyped, Histories
    <3> QED  BY <2>1, <3>1, <3>2, CardsAssumptions DEF MessagesCounted
  <2> QED  BY <2>2, <2>3 DEF CardsTypeOK, CardsInv, CardsTyped, CardCommands, Todos
<1> QED  BY <1>1, CountedAtFirst, CountStep, CardsInvariant, PTL DEF CardsSpec

-----------------------------------------------------------------------------
(* The patch applier.  While a patch is being applied, the files are those  *)
(* it was begun on with its first sections in place, but for the file that  *)
(* is open.                                                                 *)

-----------------------------------------------------------------------------
(* Texts. *)

TextFiles == [Paths -> {NoFile} \union Texts]

Shown == {"context", "removed", "added"}

\* The marked lines of a hunk are a text.
LEMMA MarkedTyped ==
  ASSUME NEW hunk \in Hunks, NEW marks
  PROVE  Marked(hunk, marks) \in Texts
<1>1. PICK L : L = PatchLines
  OBVIOUS
<1>2. PICK lines \in Seq([mark : Shown, text : L]) : lines = hunk.lines
  BY <1>1 DEF Hunks, Shown
<1>3. PICK N \in Nat : N = Len(lines) /\ \A n \in 1..N : lines[n].text \in L
  <2>1. PICK R : R = [mark : Shown, text : L]
    OBVIOUS
  <2>2. lines \in Seq(R)
    BY <1>2, <2>1
  <2>3. Len(lines) \in Nat /\ \A n \in 1..Len(lines) : lines[n] \in R
    BY <2>2
  <2>4. \A line \in R : line.text \in L
    BY <2>1
  <2> QED  BY <2>3, <2>4
<1> DEFINE Grown(x, n) == IF lines[n].mark \in marks THEN Append(x, lines[n].text) ELSE x
           Follows(f)  == f = [n \in 0..Len(hunk.lines) |->
                                 IF n = 0 THEN <<>>
                                 ELSE IF hunk.lines[n].mark \in marks
                                 THEN Append(f[n - 1], hunk.lines[n].text) ELSE f[n - 1]]
<1>4. PICK T : T = Seq(L)
  OBVIOUS
<1>5. <<>> \in T
  BY <1>4
<1>6. \A n \in 1..N : \A x \in T : Grown(x, n) \in T
  BY <1>3, <1>4
<1>7. PICK J : J = [n \in 0..N |-> T]
  OBVIOUS
<1>8. /\ <<>> \in J[0] /\ N \in 0..N /\ J[N] = T
      /\ \A n \in 1..N : n - 1 \in 0..N /\ J[n - 1] = T /\ J[n] = T
  BY <1>5, <1>7
<1>9. \E f : Follows(f)
  <2>1. PICK step : step = [n \in 1..N |-> [x \in T |-> Grown(x, n)]]
    OBVIOUS
  <2>2. \A n \in 1..N : \A x \in T : step[n][x] = Grown(x, n)
    BY <2>1
  <2>3. StepsStay(N, step, J)
    <3> HIDE DEF Grown
    <3> QED  BY <1>6, <1>8, <2>2 DEF StepsStay
  <2>4. PICK f : IsPath(f, N, <<>>, step) /\ \A n \in 0..N : f[n] \in J[n]
    BY <1>8, <2>3, Stepwise
  <2>5. f = [n \in 0..N |-> f[n]] /\ f[0] = <<>>
    BY <2>4 DEF IsPath
  <2>6. \A n \in 1..N : f[n] = Grown(f[n - 1], n)
    <3> HIDE DEF Grown
    <3> QED  BY <1>8, <2>2, <2>4 DEF IsPath
  <2>7. \A n \in 0..N : f[n] = IF n = 0 THEN <<>>
                               ELSE IF hunk.lines[n].mark \in marks
                               THEN Append(f[n - 1], hunk.lines[n].text) ELSE f[n - 1]
    <3>1. \A n \in 0..N : n # 0 => n \in 1..N
      OBVIOUS
    <3> QED  BY <1>2, <2>5, <2>6, <3>1
  <2>8. Follows(f)
    BY <1>2, <1>3, <2>5, <2>7
  <2> QED  BY <2>8
<1>10. PICK at : at = CHOOSE f : Follows(f)
  OBVIOUS
<1>11. Follows(at)
  <2> HIDE DEF Follows
  <2> QED  BY <1>9, <1>10
<1>12. at[0] = <<>> /\ \A n \in 1..N : at[n] = Grown(at[n - 1], n)
  <2>1. \A n \in 1..N : n \in 0..Len(hunk.lines) /\ n # 0
    BY <1>2, <1>3
  <2>2. at[0] = <<>>
    BY <1>2, <1>3, <1>11
  <2> QED  BY <1>2, <1>11, <2>1, <2>2
<1>13. at[N] \in T
  <2>1. \A n \in 1..N : at[n - 1] \in J[n - 1] => at[n] \in J[n]
    <3> HIDE DEF Grown
    <3> QED  BY <1>6, <1>8, <1>12
  <2>2. \A n \in 0..N : at[n] \in J[n]
    BY <1>8, <1>12, <2>1, Along
  <2> QED  BY <1>8, <2>2
<1>14. Marked(hunk, marks) = at[Len(hunk.lines)]
  BY <1>10 DEF Marked
<1> QED  BY <1>1, <1>2, <1>3, <1>4, <1>13, <1>14 DEF Texts

\* Those of a section, too.
LEMMA AllMarkedTyped ==
  ASSUME NEW section \in Sections, NEW marks
  PROVE  AllMarked(section, marks) \in Texts
<1>1. PICK L : L = PatchLines
  OBVIOUS
<1>2. PICK H : H = Hunks
  OBVIOUS
<1>3. PICK hunks \in Seq(H) : hunks = section.hunks
  BY <1>2 DEF Sections
<1>4. PICK T : T = Seq(L)
  OBVIOUS
<1>5. PICK N \in Nat : N = Len(hunks) /\ \A n \in 1..N : Marked(hunks[n], marks) \in T
  BY <1>1, <1>2, <1>3, <1>4, MarkedTyped DEF Texts
<1> DEFINE Grown(x, n) == x \o Marked(hunks[n], marks)
           Follows(f)  == f = [n \in 0..Len(section.hunks) |->
                                 IF n = 0 THEN <<>>
                                 ELSE f[n - 1] \o Marked(section.hunks[n], marks)]
<1>6. <<>> \in T
  BY <1>4
<1>7. \A n \in 1..N : \A x \in T : Grown(x, n) \in T
  <2>1. \A x \in T, y \in T : x \o y \in T
    BY <1>4
  <2> QED  BY <1>5, <2>1
<1>8. PICK J : J = [n \in 0..N |-> T]
  OBVIOUS
<1>9. /\ <<>> \in J[0] /\ N \in 0..N /\ J[N] = T
      /\ \A n \in 1..N : n - 1 \in 0..N /\ J[n - 1] = T /\ J[n] = T
  BY <1>6, <1>8
<1>10. \E f : Follows(f)
  <2>1. PICK step : step = [n \in 1..N |-> [x \in T |-> Grown(x, n)]]
    OBVIOUS
  <2>2. \A n \in 1..N : \A x \in T : step[n][x] = Grown(x, n)
    BY <2>1
  <2>3. StepsStay(N, step, J)
    <3> HIDE DEF Grown
    <3> QED  BY <1>7, <1>9, <2>2 DEF StepsStay
  <2>4. PICK f : IsPath(f, N, <<>>, step) /\ \A n \in 0..N : f[n] \in J[n]
    BY <1>9, <2>3, Stepwise
  <2>5. f = [n \in 0..N |-> f[n]] /\ f[0] = <<>>
    BY <2>4 DEF IsPath
  <2>6. \A n \in 1..N : f[n] = Grown(f[n - 1], n)
    <3> HIDE DEF Grown
    <3> QED  BY <1>9, <2>2, <2>4 DEF IsPath
  <2>7. \A n \in 0..N : f[n] = IF n = 0 THEN <<>>
                               ELSE f[n - 1] \o Marked(section.hunks[n], marks)
    <3>1. \A n \in 0..N : n # 0 => n \in 1..N
      OBVIOUS
    <3> QED  BY <1>3, <2>5, <2>6, <3>1
  <2>8. Follows(f)
    BY <1>3, <1>5, <2>5, <2>7
  <2> QED  BY <2>8
<1>11. PICK at : at = CHOOSE f : Follows(f)
  OBVIOUS
<1>12. Follows(at)
  <2> HIDE DEF Follows
  <2> QED  BY <1>10, <1>11
<1>13. at[0] = <<>> /\ \A n \in 1..N : at[n] = Grown(at[n - 1], n)
  <2>1. \A n \in 1..N : n \in 0..Len(section.hunks) /\ n # 0
    BY <1>3, <1>5
  <2>2. at[0] = <<>>
    BY <1>3, <1>5, <1>12
  <2> QED  BY <1>3, <1>12, <2>1, <2>2
<1>14. at[N] \in T
  <2>1. \A n \in 1..N : at[n - 1] \in J[n - 1] => at[n] \in J[n]
    <3> HIDE DEF Grown
    <3> QED  BY <1>7, <1>9, <1>13
  <2>2. \A n \in 0..N : at[n] \in J[n]
    BY <1>9, <1>13, <2>1, Along
  <2> QED  BY <1>9, <2>2
<1>15. AllMarked(section, marks) = at[Len(section.hunks)]
  BY <1>11 DEF AllMarked
<1> QED  BY <1>1, <1>3, <1>4, <1>5, <1>14, <1>15 DEF Texts

\* Replacing an occurrence makes a text of a text.
LEMMA ReplacedTyped ==
  ASSUME NEW text \in Texts, NEW section \in Sections,
         NEW place \in Places(text, OldText(section))
  PROVE  ReplacedAt(text, place, OldText(section), NewText(section)) \in Texts
<1>1. PICK L : L = PatchLines
  OBVIOUS
<1>2. PICK t \in Seq(L), old \in Seq(L), new \in Seq(L) :
        t = text /\ old = OldText(section) /\ new = NewText(section)
  BY <1>1, AllMarkedTyped DEF Texts, OldText, NewText
<1>3. PICK p \in Nat, m \in Nat, k \in Nat : p = place /\ m = Len(old) /\ k = Len(t)
  <2>1. PICK m \in Nat, k \in Nat : m = Len(old) /\ k = Len(t)
    OBVIOUS
  <2>2. place \in 1..(k + 1)
    BY <1>2, <2>1 DEF Places
  <2>3. place \in Nat
    BY <2>2
  <2> QED  BY <2>1, <2>3
<1>4. 1 <= p /\ p + m <= k + 1
  BY <1>2, <1>3 DEF Places
<1>5. PICK before : before = SubSeq(t, 1, p - 1)
  OBVIOUS
<1>6. PICK after : after = SubSeq(t, p + m, k)
  OBVIOUS
<1>7. before \in Seq(L)
  <2>1. \A i \in 1..(p - 1) : t[i] \in L
    BY <1>3, <1>4
  <2>2. p - 1 \in Int
    BY <1>3
  <2> QED  BY <1>5, <2>1, <2>2, SubSeqProperties
<1>8. after \in Seq(L)
  <2>1. \A i \in (p + m)..k : t[i] \in L
    BY <1>3, <1>4
  <2>2. p + m \in Int /\ k \in Int
    BY <1>3
  <2> QED  BY <1>6, <2>1, <2>2, SubSeqProperties
<1>9. before \o new \o after \in Seq(L)
  BY <1>7, <1>8
<1> QED  BY <1>1, <1>2, <1>3, <1>5, <1>6, <1>9 DEF ReplacedAt, Texts

-----------------------------------------------------------------------------
(* TextFiles with some sections in place. *)

Replaced(files, section) ==
  ReplacedAt(files[section.file], section.hunks[1].place, OldText(section), NewText(section))

Distinct(patch) == \A i, j \in DOMAIN patch : patch[i].file = patch[j].file => i = j

\* Of each file, what patching does to it.
LEMMA PatchedFiles ==
  ASSUME NEW files \in TextFiles, NEW patch \in Seq(Sections), Distinct(patch), NEW n \in 0..Len(patch)
  PROVE  /\ Patched(files, SubSeq(patch, 1, n)) = [f \in Paths |-> Patched(files, SubSeq(patch, 1, n))[f]]
         /\ \A i \in 1..n : Patched(files, SubSeq(patch, 1, n))[patch[i].file] = Replaced(files, patch[i])
         /\ \A f \in Paths : (\A i \in 1..n : patch[i].file # f) =>
              Patched(files, SubSeq(patch, 1, n))[f] = files[f]
<1>1. PICK S : S = Sections
  OBVIOUS
<1>2. PICK N \in Nat : N = Len(patch) /\ n \in 0..N /\ DOMAIN patch = 1..N
                       /\ \A i \in 1..N : patch[i] \in S
  BY <1>1
<1>3. PICK some \in Seq(S) : some = SubSeq(patch, 1, n) /\ DOMAIN some = 1..n
                             /\ \A i \in 1..n : some[i] = patch[i]
  <2>1. PICK seq : seq = SubSeq(patch, 1, n)
    OBVIOUS
  <2>2. \A i \in 1..n : patch[i] \in S
    BY <1>2
  <2>3. 1 \in Int /\ n \in Int
    BY <1>2
  <2>4. /\ seq \in Seq(S) /\ Len(seq) = IF 1 <= n THEN n - 1 + 1 ELSE 0
        /\ \A i \in 1..(n - 1 + 1) : seq[i] = patch[1 + i - 1]
    BY <2>1, <2>2, <2>3, SubSeqProperties
  <2>5. Len(seq) = n
    BY <1>2, <2>4
  <2>6. \A i \in 1..n : seq[i] = patch[i]
    BY <1>2, <2>4
  <2>7. DOMAIN seq = 1..n
    BY <2>4, <2>5
  <2> QED  BY <2>1, <2>4, <2>6, <2>7
<1>4. DOMAIN files = Paths
  BY DEF TextFiles
<1>5. PICK result : result = Patched(files, some)
  OBVIOUS
<1> DEFINE Naming(f) == CHOOSE i \in 1..n : patch[i].file = f
<1>6. result = [f \in Paths |-> IF \E i \in 1..n : patch[i].file = f
                                THEN Replaced(files, patch[Naming(f)]) ELSE files[f]]
  <2>1. \A f : (CHOOSE i \in DOMAIN some : some[i].file = f) = Naming(f)
    BY <1>3
  <2>2. \A f : (\E i \in DOMAIN some : some[i].file = f) => Naming(f) \in 1..n /\ patch[Naming(f)].file = f
    BY <1>3
  <2>3. \A f : (\E i \in DOMAIN some : some[i].file = f) <=> (\E i \in 1..n : patch[i].file = f)
    BY <1>3
  <2>4. result = [f \in Paths |->
          IF \E i \in DOMAIN some : some[i].file = f
          THEN ReplacedAt(files[f], some[CHOOSE i \in DOMAIN some : some[i].file = f].hunks[1].place,
                          OldText(some[CHOOSE i \in DOMAIN some : some[i].file = f]),
                          NewText(some[CHOOSE i \in DOMAIN some : some[i].file = f]))
          ELSE files[f]]
    BY <1>4, <1>5 DEF Patched
  <2> HIDE DEF Naming
  <2>5. \A f : (\E i \in 1..n : patch[i].file = f) =>
          some[CHOOSE i \in DOMAIN some : some[i].file = f] = patch[Naming(f)]
    BY <1>3, <2>1, <2>2, <2>3
  <2>6. ASSUME NEW f \in Paths
        PROVE  result[f] = IF \E i \in 1..n : patch[i].file = f
                           THEN Replaced(files, patch[Naming(f)]) ELSE files[f]
    <3>1. CASE \E i \in 1..n : patch[i].file = f
      <4>1. PICK section : section = patch[Naming(f)] /\ section.file = f
        BY <2>2, <2>3, <3>1
      <4>2. result[f] = ReplacedAt(files[f], section.hunks[1].place, OldText(section), NewText(section))
        BY <2>3, <2>4, <2>5, <3>1, <4>1
      <4>3. result[f] = Replaced(files, section)
        BY <4>1, <4>2 DEF Replaced
      <4> QED  BY <3>1, <4>1, <4>3
    <3>2. CASE ~(\E i \in 1..n : patch[i].file = f)
      BY <2>3, <2>4, <3>2
    <3> QED  BY <3>1, <3>2
  <2>7. result = [f \in Paths |-> result[f]]
    BY <2>4
  <2> QED  BY <2>6, <2>7
<1>7. ASSUME NEW i \in 1..n  PROVE result[patch[i].file] = Replaced(files, patch[i])
  <2>1. PICK f \in Paths : f = patch[i].file
    BY <1>1, <1>2 DEF Sections
  <2>2. Naming(f) \in 1..n /\ patch[Naming(f)].file = f
    BY <2>1
  <2>3. Naming(f) = i
    <3>1. PICK k \in 1..n : k = Naming(f) /\ patch[k].file = f
      BY <2>2
    <3>2. k \in DOMAIN patch /\ i \in DOMAIN patch
      BY <1>2
    <3>3. k = i
      BY <2>1, <3>1, <3>2 DEF Distinct
    <3> QED  BY <3>1, <3>3
  <2> HIDE DEF Named
  <2> QED  BY <1>6, <2>1, <2>3
<1> HIDE DEF Named
<1>8. \A f \in Paths : (\A i \in 1..n : patch[i].file # f) => result[f] = files[f]
  BY <1>6
<1>9. result = [f \in Paths |-> result[f]]
  BY <1>6
<1> QED  BY <1>3, <1>5, <1>7, <1>8, <1>9

\* No section in place, and all of them.
LEMMA PatchedEnds ==
  ASSUME NEW files \in TextFiles, NEW patch \in Seq(Sections)
  PROVE  /\ Leads(files, patch, 0, files)
         /\ (\A i \in DOMAIN patch : InPlace(files, patch[i])) =>
              Leads(files, patch, Len(patch), Patched(files, patch))
<1>1. Leads(files, patch, 0, files)
  <2>1. SubSeq(patch, 1, 0) = <<>>
    BY SubSeqEmpty
  <2>2. Patched(files, <<>>) = files
    BY DEF Patched, TextFiles
  <2>3. \A i \in 1..0 : InPlace(files, patch[i])
    OBVIOUS
  <2> QED  BY <2>1, <2>2, <2>3 DEF Leads
<1>2. PICK S : S = Sections
  OBVIOUS
<1>3. SubSeq(patch, 1, Len(patch)) = patch /\ DOMAIN patch = 1..Len(patch)
  BY <1>2, SubSeqFull
<1> QED  BY <1>1, <1>3 DEF Leads

\* One more section in place.
LEMMA LeadsOn ==
  ASSUME NEW files \in TextFiles, NEW patch \in Seq(Sections), Distinct(patch),
         NEW k \in 1..Len(patch), NEW done, Leads(files, patch, k - 1, done)
  PROVE  /\ done[patch[k].file] = files[patch[k].file]
         /\ patch[k].file \in Paths /\ done = [f \in Paths |-> done[f]]
         /\ InPlace(files, patch[k]) =>
              Leads(files, patch, k, [done EXCEPT ![patch[k].file] = Replaced(files, patch[k])])
<1>1. PICK S : S = Sections
  OBVIOUS
<1>2. PICK N \in Nat : N = Len(patch) /\ k \in 1..N /\ DOMAIN patch = 1..N
                       /\ \A i \in 1..N : patch[i] \in S /\ patch[i].file \in Paths
  <2>1. Len(patch) \in Nat /\ DOMAIN patch = 1..Len(patch)
        /\ \A i \in 1..Len(patch) : patch[i] \in S
    BY <1>1
  <2>2. \A section \in S : section.file \in Paths
    BY <1>1 DEF Sections
  <2> QED  BY <2>1, <2>2
<1>3. \A i \in 1..N, j \in 1..N : patch[i].file = patch[j].file => i = j
  BY <1>2 DEF Distinct
<1>4. k - 1 \in 0..Len(patch) /\ k \in 0..Len(patch)
  BY <1>2
<1>5. PICK n : n = k - 1
  OBVIOUS
<1>6. done = Patched(files, SubSeq(patch, 1, n)) /\ \A i \in 1..n : InPlace(files, patch[i])
  BY <1>5 DEF Leads
<1>7. /\ done = [f \in Paths |-> done[f]]
      /\ \A i \in 1..n : done[patch[i].file] = Replaced(files, patch[i])
      /\ \A f \in Paths : (\A i \in 1..n : patch[i].file # f) => done[f] = files[f]
  BY <1>4, <1>5, <1>6, PatchedFiles
<1>8. PICK next : next = Patched(files, SubSeq(patch, 1, k))
  OBVIOUS
<1>9. /\ next = [f \in Paths |-> next[f]]
      /\ \A i \in 1..k : next[patch[i].file] = Replaced(files, patch[i])
      /\ \A f \in Paths : (\A i \in 1..k : patch[i].file # f) => next[f] = files[f]
  BY <1>4, <1>8, PatchedFiles
<1>10. \A i \in 1..n : i \in 1..k /\ i \in 1..N /\ i # k
  BY <1>2, <1>5
<1>11. \A i \in 1..k : i = k \/ i \in 1..n
  BY <1>2, <1>5
<1>12. done[patch[k].file] = files[patch[k].file]
  BY <1>2, <1>3, <1>7, <1>10
<1>13. next = [done EXCEPT ![patch[k].file] = Replaced(files, patch[k])]
  <2>1. ASSUME NEW f \in Paths
        PROVE  next[f] = IF f = patch[k].file THEN Replaced(files, patch[k]) ELSE done[f]
    <3>1. CASE f = patch[k].file
      <4>1. k \in 1..k
        BY <1>2
      <4> QED  BY <1>9, <3>1, <4>1
    <3>2. CASE f # patch[k].file /\ \E i \in 1..n : patch[i].file = f
      BY <1>7, <1>9, <1>10, <3>2
    <3>3. CASE f # patch[k].file /\ ~(\E i \in 1..n : patch[i].file = f)
      BY <1>7, <1>9, <1>11, <3>3
    <3> QED  BY <3>1, <3>2, <3>3
  <2> QED  BY <1>7, <1>9, <2>1
<1>14. InPlace(files, patch[k]) => Leads(files, patch, k, next)
  BY <1>6, <1>8, <1>11 DEF Leads
<1> QED  BY <1>2, <1>7, <1>12, <1>13, <1>14

\* Text that is in one place at most is found there.
LEMMA FoundInPlace ==
  ASSUME NEW text, NEW old, NEW place \in Nat, Places(text, old) \subseteq {place},
         Places(text, old) # {}
  PROVE  FirstPlace(text, old) = place /\ place \in Places(text, old)
<1>1. Places(text, old) = {place}
  OBVIOUS
<1>2. PICK P : P = Places(text, old)
  OBVIOUS
<1>3. \A i \in P : i = place
  BY <1>1, <1>2
<1>4. place \in P /\ \A j \in P : place <= j
  BY <1>1, <1>2
<1>5. (CHOOSE i \in P : \A j \in P : i <= j) \in P
  BY <1>4
<1> QED  BY <1>2, <1>3, <1>4, <1>5 DEF FirstPlace

-----------------------------------------------------------------------------
(* What is known at each stage. *)

PatchRecords ==
  [stage : {"rest", "check", "flush", "write"}, patch : Seq(Sections), section : Nat \ {0},
   text : Texts, before : TextFiles \union {<<>>},
   report : {"none", "dry_run", "applied", "failed", "died"}]

At(p) == p.patch[p.section]

\* A file is open: the sections before it are in place, and its text is ready.
Halfway(p, t) ==
  \E done : /\ Leads(p.before, p.patch, p.section - 1, done) /\ InPlace(p.before, At(p))
            /\ p.text = Replaced(p.before, At(p))
            /\ t = [done EXCEPT ![At(p).file] = <<>>]

\* What PatchedAsReported says of a process at rest.
Reported(p, t) ==
  LET Holding(sections) == Leads(p.before, p.patch, sections, t)
  IN  /\ p.report = "dry_run" => t = p.before
      /\ p.report = "applied" => Holding(Len(p.patch))
      /\ p.report = "failed" =>
           t = p.before \/ \E sections \in 0..(Len(p.patch) - 1) : Holding(sections)
      /\ p.report = "died" =>
           \/ t = p.before
           \/ \E sections \in 0..Len(p.patch), f \in FilesOf(p.patch) :
                \E text \in {p.before[f], t[f]} :
                  Leads(p.before, p.patch, sections, [t EXCEPT ![f] = text])

PatchSound(p, t) ==
  /\ p \in PatchRecords /\ t \in TextFiles /\ p.section <= Len(p.patch) + 1
  /\ p.stage # "rest" => p.before \in TextFiles
  /\ p.stage = "check" => t = p.before /\ p.section = 1
  /\ p.stage = "write" => p.section <= Len(p.patch)
  /\ Plain(p.before, p.patch) =>
       /\ p.stage = "flush" => Leads(p.before, p.patch, p.section - 1, t)
       /\ p.stage = "write" => Halfway(p, t)
       /\ p.stage = "rest" => Reported(p, t)

PatchInv ==
  PatchSound(patching, tree) /\ attempts \in [patches : 0..MaxPatches, deaths : 0..MaxDeaths]

LEMMA PatchStartsSound == PatchInit => PatchInv
<1> SUFFICES ASSUME PatchInit PROVE PatchInv
  OBVIOUS
<1>1. PICK p, t : p = Resting /\ t = tree
  OBVIOUS
<1>2. /\ p.stage = "rest" /\ p.section = 1 /\ p.patch = <<>> /\ p.report = "none"
      /\ p.text = <<>> /\ p.before = <<>>
  BY <1>1 DEF Resting
<1>3. PICK R : R = Sections
  OBVIOUS
<1>4. PICK L : L = PatchLines
  OBVIOUS
<1>5. <<>> \in Seq(R) /\ <<>> \in Seq(L) /\ Len(<<>>) = 0
  OBVIOUS
<1>6. p \in PatchRecords
  BY <1>1, <1>3, <1>4, <1>5 DEF PatchRecords, Resting, Texts
<1>7. t \in TextFiles
  BY <1>1, PatchAssumptions DEF PatchInit, TextFiles
<1>8. PatchSound(p, t)
  BY <1>2, <1>5, <1>6, <1>7 DEF PatchSound, Reported
<1> QED  BY <1>1, <1>8, PatchAssumptions DEF PatchInv, PatchInit

\* A record that comes to rest.
LEMMA PatchRests ==
  ASSUME NEW p \in PatchRecords, NEW t \in TextFiles, NEW q, NEW report,
         report \in {"none", "dry_run", "applied", "failed", "died"},
         p.section <= Len(p.patch) + 1,
         q = [p EXCEPT !.stage = "rest", !.report = report],
         Plain(p.before, p.patch) => Reported(q, t)
  PROVE  PatchSound(q, t)
<1>1. q \in PatchRecords /\ q.stage = "rest" /\ q.section = p.section
      /\ q.patch = p.patch /\ q.before = p.before
  BY DEF PatchRecords
<1> QED  BY <1>1 DEF PatchSound

LEMMA BeginPatchSound ==
  ASSUME PatchInv, NEW patch \in Patches, NEW inside \in BOOLEAN, NEW writes \in BOOLEAN,
         BeginPatch(patch, inside, writes)
  PROVE  PatchInv'
<1>1. PICK p, t : p = patching' /\ t = tree /\ t = tree'
  BY DEF BeginPatch
<1>2. PICK stage \in {"check", "rest"} : stage = IF inside /\ writes THEN "check" ELSE "rest"
  OBVIOUS
<1>3. PICK report \in {"failed", "none", "dry_run"} :
        report = IF ~inside THEN "failed" ELSE IF writes THEN "none" ELSE "dry_run"
  OBVIOUS
<1>4. p = [stage |-> stage, patch |-> patch, section |-> 1, text |-> <<>>, before |-> t,
           report |-> report]
  BY <1>1, <1>2, <1>3 DEF BeginPatch
<1>5. t \in TextFiles
  BY <1>1 DEF PatchInv, PatchSound
<1>6. PICK S : S = Sections
  OBVIOUS
<1>7. patch \in Seq(S)
  BY <1>6, PatchAssumptions
<1>8. Len(patch) \in Nat
  BY <1>7
<1>9. PICK L : L = PatchLines
  OBVIOUS
<1>10. <<>> \in Seq(L)
  OBVIOUS
<1>11. p \in PatchRecords
  BY <1>4, <1>5, <1>6, <1>7, <1>9, <1>10 DEF PatchRecords, Texts
<1>12. /\ p.stage = stage /\ p.patch = patch /\ p.section = 1 /\ p.before = t
       /\ p.report = report
  BY <1>4
<1>13. PatchSound(p, t)
  BY <1>2, <1>3, <1>5, <1>8, <1>11, <1>12 DEF PatchSound, Reported
<1>14. attempts' \in [patches : 0..MaxPatches, deaths : 0..MaxDeaths]
  BY PatchAssumptions DEF PatchInv, BeginPatch
<1> QED  BY <1>1, <1>13, <1>14 DEF PatchInv

LEMMA GitApplySound ==
  ASSUME PatchInv, NEW works \in BOOLEAN, GitApply(works)
  PROVE  PatchInv'
<1>1. PICK p, t : p = patching /\ t = tree
  OBVIOUS
<1>2. PICK q, u : q = patching' /\ u = tree'
  OBVIOUS
<1>3. PatchSound(p, t) /\ p.stage = "check"
  BY <1>1 DEF PatchInv, GitApply
<1>4. /\ p \in PatchRecords /\ t \in TextFiles /\ p.section <= Len(p.patch) + 1
      /\ t = p.before
  BY <1>3 DEF PatchSound
<1>5. PICK patch \in Seq(Sections) : patch = p.patch
  BY <1>4 DEF PatchRecords
<1>6. PICK S : S = Sections
  OBVIOUS
<1>7. PICK N \in Nat : N = Len(patch) /\ DOMAIN patch = 1..N /\ \A i \in 1..N : patch[i] \in S
  <2>1. patch \in Seq(S)
    BY <1>6
  <2> QED  BY <2>1
<1>8. attempts' = attempts
  BY DEF GitApply
<1>9. CASE works
  <2>1. u = Patched(t, patch) /\ q = [p EXCEPT !.stage = "rest", !.report = "applied"]
    BY <1>1, <1>2, <1>5, <1>9 DEF GitApply, Report
  <2>2. Distinct(patch) /\ \A i \in DOMAIN patch : InPlace(t, patch[i])
    BY <1>1, <1>5 DEF GitApply, GitTakes, Distinct
  <2>3. Leads(t, patch, Len(patch), u)
    BY <1>4, <2>1, <2>2, PatchedEnds
  <2>4. u \in TextFiles
    <3>1. PICK n \in 0..Len(patch) : n = N
      BY <1>7
    <3>2. SubSeq(patch, 1, n) = patch
      BY <1>7, <3>1, SubSeqFull
    <3>3. /\ u = [f \in Paths |-> u[f]]
          /\ \A i \in 1..n : u[patch[i].file] = Replaced(t, patch[i])
          /\ \A f \in Paths : (\A i \in 1..n : patch[i].file # f) => u[f] = t[f]
      <4>1. PICK v : v = Patched(t, SubSeq(patch, 1, n))
        OBVIOUS
      <4>2. /\ v = [f \in Paths |-> v[f]]
            /\ \A i \in 1..n : v[patch[i].file] = Replaced(t, patch[i])
            /\ \A f \in Paths : (\A i \in 1..n : patch[i].file # f) => v[f] = t[f]
        BY <1>4, <2>2, <4>1, PatchedFiles
      <4>3. u = v
        BY <2>1, <3>2, <4>1
      <4> QED  BY <4>2, <4>3
    <3>4. ASSUME NEW i \in 1..n  PROVE Replaced(t, patch[i]) \in Texts
      <4>1. i \in DOMAIN patch
        BY <1>7, <3>1
      <4>2. patch[i] \in Sections /\ patch[i].file \in Paths
        <5>1. patch[i] \in Sections
          BY <1>6, <1>7, <3>1
        <5> QED  BY <5>1 DEF Sections
      <4>3. /\ t[patch[i].file] # NoFile
            /\ patch[i].hunks[1].place \in Places(t[patch[i].file], OldText(patch[i]))
        BY <2>2, <4>1 DEF InPlace
      <4>4. t[patch[i].file] \in Texts
        BY <1>4, <4>2, <4>3 DEF TextFiles
      <4> QED  BY <4>2, <4>3, <4>4, ReplacedTyped DEF Replaced
    <3>5. \A f \in Paths : t[f] \in {NoFile} \union Texts
      BY <1>4 DEF TextFiles
    <3>6. ASSUME NEW f \in Paths  PROVE u[f] \in {NoFile} \union Texts
      <4>1. CASE \E i \in 1..n : patch[i].file = f
        BY <3>3, <3>4, <4>1
      <4>2. CASE \A i \in 1..n : patch[i].file # f
        BY <3>3, <3>5, <4>2
      <4> QED  BY <4>1, <4>2
    <3> QED  BY <3>3, <3>6 DEF TextFiles
  <2>5. Reported(q, u)
    <3>1. q.report = "applied" /\ q.patch = patch /\ q.before = t
      BY <1>4, <1>5, <2>1 DEF PatchRecords
    <3> QED  BY <2>3, <3>1 DEF Reported
  <2>6. PatchSound(q, u)
    BY <1>4, <2>1, <2>4, <2>5, PatchRests
  <2> QED  BY <1>2, <1>8, <2>6 DEF PatchInv
<1>10. CASE ~works
  <2>1. u = t /\ q = [p EXCEPT !.stage = "rest", !.report = "failed"]
    BY <1>1, <1>2, <1>10 DEF GitApply, Report
  <2>2. q.report = "failed" /\ q.before = t
    BY <1>4, <2>1 DEF PatchRecords
  <2>3. Reported(q, u)
    BY <2>1, <2>2 DEF Reported
  <2>4. PatchSound(q, u)
    BY <1>4, <2>1, <2>3, PatchRests
  <2> QED  BY <1>2, <1>8, <2>4 DEF PatchInv
<1> QED  BY <1>9, <1>10

LEMMA GitRefusesSound ==
  ASSUME PatchInv, GitRefuses
  PROVE  PatchInv'
<1>1. PICK p, t : p = patching /\ t = tree /\ t = tree'
  BY DEF GitRefuses
<1>2. PatchSound(p, t) /\ p.stage = "check"
  BY <1>1 DEF PatchInv, GitRefuses
<1>3. /\ p \in PatchRecords /\ t \in TextFiles /\ p.section <= Len(p.patch) + 1
      /\ t = p.before /\ p.section = 1
  BY <1>2 DEF PatchSound
<1>4. PICK q : q = [p EXCEPT !.stage = "flush"]
  OBVIOUS
<1>5. /\ q \in PatchRecords /\ q.stage = "flush" /\ q.section = 1 /\ q.patch = p.patch
      /\ q.before = t
  BY <1>3, <1>4 DEF PatchRecords
<1>6. Leads(t, q.patch, 0, t)
  <2>1. q.patch \in Seq(Sections)
    BY <1>5 DEF PatchRecords
  <2> QED  BY <1>3, <2>1, PatchedEnds
<1>7. PatchSound(q, t)
  BY <1>3, <1>5, <1>6 DEF PatchSound
<1>8. q = patching' /\ attempts' = attempts
  BY <1>1, <1>4 DEF GitRefuses
<1> QED  BY <1>1, <1>7, <1>8 DEF PatchInv

\* What the files hold of the section that comes next.
LEMMA NextInPlace ==
  ASSUME NEW p \in PatchRecords, NEW t \in TextFiles, p.before \in TextFiles, Plain(p.before, p.patch),
         p.section <= Len(p.patch), NEW done, Leads(p.before, p.patch, p.section - 1, done)
  PROVE  /\ done[At(p).file] = p.before[At(p).file] /\ At(p).file \in Paths
         /\ done = [f \in Paths |-> done[f]] /\ Distinct(p.patch)
         /\ InPlace(p.before, At(p)) =>
              Leads(p.before, p.patch, p.section, [done EXCEPT ![At(p).file] = Replaced(p.before, At(p))])
<1>1. PICK patch \in Seq(Sections) : patch = p.patch
  BY DEF PatchRecords
<1>2. PICK k \in 1..Len(patch) : k = p.section
  <2>1. PICK S : S = Sections
    OBVIOUS
  <2>2. PICK N \in Nat : N = Len(patch)
    BY <2>1
  <2>3. p.section \in Nat \ {0}
    BY DEF PatchRecords
  <2> QED  BY <1>1, <2>2, <2>3
<1>3. Distinct(patch)
  BY <1>1 DEF Plain, Distinct
<1>4. PICK before \in TextFiles : before = p.before
  OBVIOUS
<1>5. Leads(before, patch, k - 1, done)
  BY <1>1, <1>2, <1>4
<1>6. /\ done[patch[k].file] = before[patch[k].file]
      /\ patch[k].file \in Paths /\ done = [f \in Paths |-> done[f]]
      /\ InPlace(before, patch[k]) =>
           Leads(before, patch, k, [done EXCEPT ![patch[k].file] = Replaced(before, patch[k])])
  BY <1>3, <1>5, LeadsOn
<1> QED  BY <1>1, <1>2, <1>3, <1>4, <1>6 DEF At

LEMMA AtIsSection ==
  ASSUME NEW p \in PatchRecords, p.section <= Len(p.patch)
  PROVE  At(p) \in Sections /\ At(p).file \in Paths /\ p.section \in DOMAIN p.patch
<1>1. PICK S : S = Sections
  OBVIOUS
<1>2. PICK patch \in Seq(S) : patch = p.patch
  BY <1>1 DEF PatchRecords
<1>3. PICK k \in Nat \ {0} : k = p.section
  BY DEF PatchRecords
<1>4. k \in 1..Len(patch)
  BY <1>2, <1>3
<1>5. patch[k] \in S /\ k \in DOMAIN patch
  BY <1>4
<1>6. At(p) \in Sections
  BY <1>1, <1>2, <1>3, <1>5 DEF At
<1> QED  BY <1>2, <1>3, <1>5, <1>6 DEF Sections

LEMMA PlacesAreNumbers ==
  ASSUME NEW text \in Texts, NEW old
  PROVE  Places(text, old) \subseteq Nat
<1>1. PICK L : L = PatchLines
  OBVIOUS
<1>2. PICK t \in Seq(L) : t = text
  BY <1>1 DEF Texts
<1>3. PICK k \in Nat : k = Len(t)
  OBVIOUS
<1> QED  BY <1>2, <1>3 DEF Places

\* The first of some places is one of them.
LEMMA FirstIsPlace ==
  ASSUME NEW text \in Texts, NEW old, Places(text, old) # {}
  PROVE  FirstPlace(text, old) \in Places(text, old)
<1>1. PICK P : P = Places(text, old)
  OBVIOUS
<1>2. P \subseteq Nat /\ P # {}
  BY <1>1, PlacesAreNumbers
<1>3. \E i \in P : \A j \in P : i <= j
  BY <1>2, Least
<1>4. (CHOOSE i \in P : \A j \in P : i <= j) \in P
  BY <1>3
<1> QED  BY <1>1, <1>4 DEF FirstPlace

LEMMA MovedOn ==
  ASSUME NEW p \in PatchRecords, NEW q, q = [p EXCEPT !.stage = "flush", !.section = @ + 1]
  PROVE  /\ q \in PatchRecords /\ q.stage = "flush" /\ q.section = p.section + 1
         /\ q.patch = p.patch /\ q.before = p.before /\ q.section - 1 = p.section
<1>1. PICK k \in Nat \ {0} : k = p.section
  BY DEF PatchRecords
<1>2. PICK n \in Nat \ {0} : n = k + 1 /\ n - 1 = k
  OBVIOUS
<1>3. q = [p EXCEPT !.stage = "flush", !.section = n]
  BY <1>1, <1>2
<1> QED  BY <1>1, <1>2, <1>3 DEF PatchRecords

LEMMA FlushSound ==
  ASSUME PatchInv, Flush
  PROVE  PatchInv'
<1>1. PICK p, t : p = patching /\ t = tree
  OBVIOUS
<1>2. PICK q, u : q = patching' /\ u = tree'
  OBVIOUS
<1>3. PatchSound(p, t) /\ p.stage = "flush" /\ p.section <= Len(p.patch)
  BY <1>1 DEF PatchInv, Flush, More
<1>4. /\ p \in PatchRecords /\ t \in TextFiles /\ p.section <= Len(p.patch) + 1
      /\ p.before \in TextFiles
      /\ Plain(p.before, p.patch) => Leads(p.before, p.patch, p.section - 1, t)
  BY <1>3 DEF PatchSound
<1>5. attempts' = attempts
  BY DEF Flush
<1>6. At(p) \in Sections /\ At(p).file \in Paths /\ p.section \in DOMAIN p.patch
  BY <1>3, <1>4, AtIsSection
<1>7. PICK N \in Nat : N = Len(p.patch)
  <2>1. PICK S : S = Sections
    OBVIOUS
  <2>2. p.patch \in Seq(S)
    BY <1>4, <2>1 DEF PatchRecords
  <2> QED  BY <2>2
<1>8. p.section \in 1..N
  BY <1>3, <1>4, <1>7 DEF PatchRecords
<1>9. Section = At(p)
  BY <1>1 DEF Section, At
<1>10. CASE Blank(At(p))
  <2>1. u = t /\ q = [p EXCEPT !.stage = "flush", !.section = @ + 1]
    BY <1>1, <1>2, <1>9, <1>10 DEF Flush, NextSection
  <2>2. /\ q \in PatchRecords /\ q.stage = "flush" /\ q.section = p.section + 1
        /\ q.patch = p.patch /\ q.before = p.before
    BY <1>4, <2>1, MovedOn
  <2>3. ~Plain(p.before, p.patch)
    BY <1>6, <1>10 DEF Plain, At
  <2>4. q.section <= Len(q.patch) + 1
    BY <1>7, <1>8, <2>2
  <2>5. PatchSound(q, u)
    BY <1>4, <2>1, <2>2, <2>3, <2>4 DEF PatchSound
  <2> QED  BY <1>2, <1>5, <2>5 DEF PatchInv
<1>11. CASE ~Blank(At(p)) /\ Found(At(p))
  <2>1. PICK file \in Paths : file = At(p).file
    BY <1>6
  <2>2. PICK old, new : old = OldText(At(p)) /\ new = NewText(At(p))
    OBVIOUS
  <2>3. PICK before : before = t[file]
    OBVIOUS
  <2>4. before # NoFile /\ Places(before, old) # {}
    BY <1>1, <1>11, <2>1, <2>2, <2>3 DEF Found
  <2>5. before \in Texts
    BY <1>4, <2>3, <2>4 DEF TextFiles
  <2>6. PICK text : text = ReplacedAt(before, FirstPlace(before, old), old, new)
    OBVIOUS
  <2>7. text \in Texts
    <3>1. FirstPlace(before, old) \in Places(before, old)
      BY <2>4, <2>5, FirstIsPlace
    <3> QED  BY <1>6, <2>2, <2>5, <2>6, <3>1, ReplacedTyped
  <2>8. /\ q = [p EXCEPT !.stage = "write", !.text = text]
        /\ u = [t EXCEPT ![file] = <<>>]
    BY <1>1, <1>2, <1>9, <1>11, <2>1, <2>2, <2>3, <2>6 DEF Flush, Open
  <2>9. /\ q \in PatchRecords /\ q.stage = "write" /\ q.section = p.section
        /\ q.patch = p.patch /\ q.before = p.before /\ q.text = text
    BY <1>4, <2>7, <2>8 DEF PatchRecords
  <2>10. u \in TextFiles
    <3>1. PICK L : L = PatchLines
      OBVIOUS
    <3>2. <<>> \in Seq(L)
      OBVIOUS
    <3>3. <<>> \in Texts
      BY <3>1, <3>2 DEF Texts
    <3> QED  BY <1>4, <2>8, <3>3 DEF TextFiles
  <2>11. ASSUME Plain(p.before, p.patch)  PROVE Halfway(q, u)
    <3>1. Leads(p.before, p.patch, p.section - 1, t)
      BY <1>4, <2>11
    <3>2. before = p.before[file]
      BY <1>3, <1>4, <2>1, <2>3, <2>11, <3>1, NextInPlace
    <3>3. PICK place \in Nat : place = At(p).hunks[1].place
      <4>1. Len(At(p).hunks) = 1
        BY <1>6, <2>11 DEF Plain, At
      <4>2. PICK H : H = Hunks
        OBVIOUS
      <4>3. At(p).hunks \in Seq(H)
        BY <1>6, <4>2 DEF Sections
      <4>4. At(p).hunks[1] \in H
        BY <4>1, <4>3
      <4> QED  BY <4>2, <4>4 DEF Hunks
    <3>4. Places(before, old) \subseteq {place} /\ Len(At(p).hunks) = 1
      BY <1>6, <2>1, <2>2, <2>4, <2>11, <3>2, <3>3 DEF Plain, At
    <3>5. FirstPlace(before, old) = place /\ place \in Places(before, old)
      BY <2>4, <3>4, FoundInPlace
    <3>6. InPlace(p.before, At(p))
      BY <2>1, <2>2, <2>4, <3>2, <3>3, <3>4, <3>5 DEF InPlace
    <3>7. text = Replaced(p.before, At(p))
      BY <2>1, <2>2, <2>6, <3>2, <3>3, <3>5 DEF Replaced
    <3>8. At(q) = At(p)
      BY <2>9 DEF At
    <3> QED  BY <2>1, <2>8, <2>9, <3>1, <3>6, <3>7, <3>8 DEF Halfway
  <2>12. PatchSound(q, u)
    BY <1>3, <1>4, <2>9, <2>10, <2>11 DEF PatchSound
  <2> QED  BY <1>2, <1>5, <2>12 DEF PatchInv
<1>12. CASE ~Blank(At(p)) /\ ~Found(At(p))
  <2>1. u = t /\ q = [p EXCEPT !.stage = "rest", !.report = "failed"]
    BY <1>1, <1>2, <1>9, <1>12 DEF Flush, Report
  <2>2. q.report = "failed" /\ q.patch = p.patch /\ q.before = p.before
    BY <1>4, <2>1 DEF PatchRecords
  <2>3. ASSUME Plain(p.before, p.patch)  PROVE Reported(q, u)
    <3>1. Leads(q.before, q.patch, p.section - 1, u)
      BY <1>4, <2>1, <2>2, <2>3
    <3>2. p.section - 1 \in 0..(Len(q.patch) - 1)
      BY <1>7, <1>8, <2>2
    <3> QED  BY <2>2, <3>1, <3>2 DEF Reported
  <2>4. PatchSound(q, u)
    BY <1>4, <2>1, <2>3, PatchRests
  <2> QED  BY <1>2, <1>5, <2>4 DEF PatchInv
<1> QED  BY <1>10, <1>11, <1>12

LEMMA WriteTextSound ==
  ASSUME PatchInv, WriteText
  PROVE  PatchInv'
<1>1. PICK p, t : p = patching /\ t = tree
  OBVIOUS
<1>2. PICK q, u : q = patching' /\ u = tree'
  OBVIOUS
<1>3. PatchSound(p, t) /\ p.stage = "write"
  BY <1>1 DEF PatchInv, WriteText
<1>4. /\ p \in PatchRecords /\ t \in TextFiles /\ p.section <= Len(p.patch)
      /\ p.before \in TextFiles /\ (Plain(p.before, p.patch) => Halfway(p, t))
  BY <1>3 DEF PatchSound
<1>5. At(p) \in Sections /\ At(p).file \in Paths /\ p.section \in DOMAIN p.patch
  BY <1>4, AtIsSection
<1>6. /\ u = [t EXCEPT ![At(p).file] = p.text]
      /\ q = [p EXCEPT !.stage = "flush", !.section = @ + 1]
  BY <1>1, <1>2 DEF WriteText, NextSection, Section, At
<1>7. /\ q \in PatchRecords /\ q.stage = "flush" /\ q.section = p.section + 1
      /\ q.patch = p.patch /\ q.before = p.before /\ q.section - 1 = p.section
  BY <1>4, <1>6, MovedOn
<1>8. u \in TextFiles
  BY <1>4, <1>5, <1>6 DEF PatchRecords, TextFiles
<1>9. q.section <= Len(q.patch) + 1
  <2>1. PICK S : S = Sections
    OBVIOUS
  <2>2. p.patch \in Seq(S) /\ p.section \in Nat
    BY <1>4, <2>1 DEF PatchRecords
  <2>3. PICK N \in Nat : N = Len(p.patch)
    BY <2>2
  <2> QED  BY <1>4, <1>7, <2>2, <2>3
<1>10. ASSUME Plain(p.before, p.patch)  PROVE Leads(q.before, q.patch, q.section - 1, u)
  <2>1. PICK done : /\ Leads(p.before, p.patch, p.section - 1, done) /\ InPlace(p.before, At(p))
                    /\ p.text = Replaced(p.before, At(p))
                    /\ t = [done EXCEPT ![At(p).file] = <<>>]
    BY <1>4, <1>10 DEF Halfway
  <2>2. /\ done = [f \in Paths |-> done[f]]
        /\ Leads(p.before, p.patch, p.section,
                 [done EXCEPT ![At(p).file] = Replaced(p.before, At(p))])
    BY <1>4, <1>10, <2>1, NextInPlace
  <2>3. u = [done EXCEPT ![At(p).file] = p.text]
    BY <1>5, <1>6, <2>1, <2>2
  <2> QED  BY <1>7, <2>1, <2>2, <2>3
<1>11. PatchSound(q, u)
  BY <1>4, <1>7, <1>8, <1>9, <1>10 DEF PatchSound
<1> QED  BY <1>2, <1>11 DEF PatchInv, WriteText

LEMMA EndPatchSound ==
  ASSUME PatchInv, EndPatch
  PROVE  PatchInv'
<1>1. PICK p, t : p = patching /\ t = tree /\ t = tree'
  BY DEF EndPatch
<1>2. PatchSound(p, t) /\ p.stage = "flush" /\ ~(p.section <= Len(p.patch))
  BY <1>1 DEF PatchInv, EndPatch, More
<1>3. /\ p \in PatchRecords /\ t \in TextFiles /\ p.section <= Len(p.patch) + 1
      /\ (Plain(p.before, p.patch) => Leads(p.before, p.patch, p.section - 1, t))
  BY <1>2 DEF PatchSound
<1>4. PICK q : q = [p EXCEPT !.stage = "rest", !.report = "applied"]
  OBVIOUS
<1>5. q.report = "applied" /\ q.patch = p.patch /\ q.before = p.before
  BY <1>3, <1>4 DEF PatchRecords
<1>6. p.section - 1 = Len(p.patch)
  <2>1. PICK S : S = Sections
    OBVIOUS
  <2>2. p.patch \in Seq(S) /\ p.section \in Nat
    BY <1>3, <2>1 DEF PatchRecords
  <2>3. PICK N \in Nat : N = Len(p.patch)
    BY <2>2
  <2> QED  BY <1>2, <1>3, <2>2, <2>3
<1>7. Plain(p.before, p.patch) => Reported(q, t)
  BY <1>3, <1>5, <1>6 DEF Reported
<1>8. PatchSound(q, t)
  BY <1>3, <1>4, <1>7, PatchRests
<1> QED  BY <1>1, <1>4, <1>8 DEF PatchInv, EndPatch, Report

LEMMA PatchDeathSound ==
  ASSUME PatchInv, NEW written \in 0..Len(patching.text), PatchDeath(written)
  PROVE  PatchInv'
<1>1. PICK p, t : p = patching /\ t = tree
  OBVIOUS
<1>2. PICK u : u = tree'
  OBVIOUS
<1>3. PatchSound(p, t) /\ p.stage # "rest"
  BY <1>1 DEF PatchInv, PatchDeath
<1>4. /\ p \in PatchRecords /\ t \in TextFiles /\ p.section <= Len(p.patch) + 1
      /\ p.before \in TextFiles
  BY <1>3 DEF PatchSound
<1>5. PICK q : q = [p EXCEPT !.stage = "rest", !.report = "died"]
  OBVIOUS
<1>6. q.report = "died" /\ q.patch = p.patch /\ q.before = p.before /\ q = patching'
  BY <1>1, <1>4, <1>5 DEF PatchRecords, PatchDeath, Report
<1>7. attempts' \in [patches : 0..MaxPatches, deaths : 0..MaxDeaths]
  <2>1. attempts' = [attempts EXCEPT !.deaths = @ + 1] /\ attempts.deaths < MaxDeaths
    BY DEF PatchDeath
  <2> QED  BY <2>1, PatchAssumptions DEF PatchInv
<1>8. PICK N \in Nat : N = Len(p.patch) /\ p.section \in 1..(N + 1) /\ DOMAIN p.patch = 1..N
  <2>1. PICK S : S = Sections
    OBVIOUS
  <2>2. p.patch \in Seq(S) /\ p.section \in Nat \ {0}
    BY <1>4, <2>1 DEF PatchRecords
  <2>3. PICK N \in Nat : N = Len(p.patch) /\ DOMAIN p.patch = 1..N
    BY <2>2
  <2> QED  BY <1>4, <2>2, <2>3
<1>9. CASE p.stage = "check"
  <2>1. u = t /\ t = p.before
    BY <1>1, <1>2, <1>3, <1>9 DEF PatchDeath, PatchSound
  <2>2. Reported(q, u)
    BY <1>6, <2>1 DEF Reported
  <2>3. PatchSound(q, u)
    BY <1>4, <1>5, <2>1, <2>2, PatchRests
  <2> QED  BY <1>2, <1>6, <1>7, <2>3 DEF PatchInv
<1>10. CASE p.stage = "flush"
  <2>1. u = t
    BY <1>1, <1>2, <1>10 DEF PatchDeath
  <2>2. ASSUME Plain(p.before, p.patch)  PROVE Reported(q, u)
    <3>1. Leads(p.before, p.patch, p.section - 1, t)
      BY <1>3, <1>10, <2>2 DEF PatchSound
    <3>2. CASE N = 0
      <4>1. p.section - 1 = 0
        BY <1>8, <3>2
      <4>2. t = p.before
        <5>1. SubSeq(p.patch, 1, 0) = <<>>
          BY SubSeqEmpty
        <5>2. Patched(p.before, <<>>) = p.before
          BY <1>4 DEF Patched, TextFiles
        <5> QED  BY <3>1, <4>1, <5>1, <5>2 DEF Leads
      <4> QED  BY <1>6, <2>1, <4>2 DEF Reported
    <3>3. CASE N # 0
      <4>1. PICK f : f = p.patch[1].file /\ f \in FilesOf(p.patch)
        BY <1>8, <3>3 DEF FilesOf
      <4>2. [t EXCEPT ![f] = t[f]] = t
        BY <1>4 DEF TextFiles
      <4>3. p.section - 1 \in 0..Len(p.patch)
        BY <1>8
      <4>4. PICK n \in 0..Len(p.patch) : Leads(p.before, p.patch, n, t)
        BY <3>1, <4>3
      <4>5. \E text \in {p.before[f], u[f]} : Leads(p.before, p.patch, n, [u EXCEPT ![f] = text])
        BY <2>1, <4>2, <4>4
      <4>6. \E sections \in 0..Len(p.patch), g \in FilesOf(p.patch) :
              \E text \in {p.before[g], u[g]} :
                Leads(p.before, p.patch, sections, [u EXCEPT ![g] = text])
        <5>1. f \in FilesOf(p.patch)
          BY <4>1
        <5> QED  BY <4>5, <5>1
      <4> QED  BY <1>6, <4>6 DEF Reported
    <3> QED  BY <3>2, <3>3
  <2>3. PatchSound(q, u)
    BY <1>4, <1>5, <2>1, <2>2, PatchRests
  <2> QED  BY <1>2, <1>6, <1>7, <2>3 DEF PatchInv
<1>11. CASE p.stage = "write"
  <2>1. p.section <= Len(p.patch)
    BY <1>3, <1>11 DEF PatchSound
  <2>2. At(p) \in Sections /\ At(p).file \in Paths /\ p.section \in DOMAIN p.patch
    BY <1>4, <2>1, AtIsSection
  <2>3. PICK f \in Paths : f = At(p).file
    BY <2>2
  <2>4. PICK torn : torn = SubSeq(p.text, 1, written)
    OBVIOUS
  <2>5. u = [t EXCEPT ![f] = torn]
    BY <1>1, <1>2, <1>11, <2>3, <2>4 DEF PatchDeath, Section, At
  <2>6. torn \in Texts
    <3>1. PICK L : L = PatchLines
      OBVIOUS
    <3>2. PICK text \in Seq(L) : text = p.text
      BY <1>4, <3>1 DEF PatchRecords, Texts
    <3>3. written \in 0..Len(text)
      BY <1>1, <3>2
    <3>4. written \in Int /\ \A i \in 1..written : text[i] \in L
      BY <3>3
    <3>5. SubSeq(text, 1, written) \in Seq(L)
      BY <3>4, SubSeqProperties
    <3> QED  BY <2>4, <3>1, <3>2, <3>5 DEF Texts
  <2>7. u \in TextFiles
    BY <1>4, <2>5, <2>6 DEF TextFiles
  <2>8. ASSUME Plain(p.before, p.patch)  PROVE Reported(q, u)
    <3>1. PICK done : /\ Leads(p.before, p.patch, p.section - 1, done)
                      /\ t = [done EXCEPT ![f] = <<>>]
      BY <1>3, <1>11, <2>3, <2>8 DEF PatchSound, Halfway
    <3>2. done[f] = p.before[f] /\ done = [g \in Paths |-> done[g]]
      BY <1>4, <2>1, <2>3, <2>8, <3>1, NextInPlace
    <3>3. [u EXCEPT ![f] = p.before[f]] = done
      BY <2>5, <3>1, <3>2
    <3>4. PICK n \in 0..Len(p.patch) : n = p.section - 1
      BY <1>8, <2>1
    <3>5. f \in FilesOf(p.patch)
      BY <2>2, <2>3 DEF FilesOf, At
    <3>6. \E text \in {p.before[f], u[f]} : Leads(p.before, p.patch, n, [u EXCEPT ![f] = text])
      BY <3>1, <3>3, <3>4
    <3> QED  BY <1>6, <3>5, <3>6 DEF Reported
  <2>9. PatchSound(q, u)
    BY <1>4, <1>5, <2>7, <2>8, PatchRests
  <2> QED  BY <1>2, <1>6, <1>7, <2>9 DEF PatchInv
<1> QED  BY <1>3, <1>4, <1>9, <1>10, <1>11 DEF PatchRecords

LEMMA PatchStepSound == PatchInv /\ [PatchNext]_patchVars => PatchInv'
<1> SUFFICES ASSUME PatchInv, [PatchNext]_patchVars PROVE PatchInv'
  OBVIOUS
<1>1. CASE UNCHANGED patchVars
  BY <1>1 DEF patchVars, PatchInv
<1>2. ASSUME NEW patch \in Patches, NEW inside \in BOOLEAN, NEW writes \in BOOLEAN,
             BeginPatch(patch, inside, writes)
      PROVE  PatchInv'
  BY <1>2, BeginPatchSound
<1>3. ASSUME NEW works \in BOOLEAN, GitApply(works)  PROVE PatchInv'
  BY <1>3, GitApplySound
<1>4. CASE GitRefuses \/ Flush \/ WriteText \/ EndPatch
  BY <1>4, GitRefusesSound, FlushSound, WriteTextSound, EndPatchSound
<1>5. ASSUME NEW written \in 0..Len(patching.text), PatchDeath(written)  PROVE PatchInv'
  BY <1>5, PatchDeathSound
<1> QED  BY <1>1, <1>2, <1>3, <1>4, <1>5 DEF PatchNext

LEMMA PatchInvariant == PatchSpec => []PatchInv
<1> QED  BY PatchStartsSound, PatchStepSound, PTL DEF PatchSpec

\* TextFiles, the state of the process and the counts keep their type.
THEOREM PatchTypeCorrect == PatchSpec => []PatchTypeOK
<1>1. PatchInv => PatchTypeOK
  BY DEF PatchInv, PatchSound, PatchTypeOK, PatchRecords, TextFiles
<1> QED  BY <1>1, PatchInvariant, PTL

\* What is reported of a patch in which nothing is ambiguous is what was done to the
\* files, by git or by the fallback, and wherever the process died.
THEOREM PatchesAsReported == PatchSpec => []PatchedAsReported
<1>1. PatchInv => PatchedAsReported
  <2> SUFFICES ASSUME PatchInv, patching.stage = "rest", patching.report # "none",
                      Plain(patching.before, patching.patch)
               PROVE  Reported(patching, tree)
                        /\ patching.report \in {"dry_run", "applied", "failed", "died"}
    BY DEF PatchedAsReported, Reported
  <2> QED  BY DEF PatchInv, PatchSound, PatchRecords
<1> QED  BY <1>1, PatchInvariant, PTL

-----------------------------------------------------------------------------
(* All of them together.  A behaviour of MCServices moves one component and  *)
(* leaves the others as they begin, so that it is, of each of them, a        *)
(* behaviour of its own specification; what is proved of a component holds   *)
(* of it here.                                                               *)

LEMMA PartsStart ==
  ASSUME Init
  PROVE  /\ CallsInit /\ VaultInit /\ CardsInit /\ ReviewInit
         /\ TrainingInit /\ MemoryInit /\ PolicyInit /\ PatchInit /\ FusionInit
  BY DEF Init

allVars == <<part, callsVars, vaultVars, cardsVars, reviewVars, trainingVars,
             memoryVars, policyVars, patchVars, fusionVars>>

\* A step of all is a step or a stutter of each.
LEMMA PartsStep ==
  ASSUME [Next]_allVars
  PROVE  /\ [CallsNext]_callsVars /\ [VaultNext]_vaultVars /\ [CardsNext]_cardsVars
         /\ [ReviewNext]_reviewVars /\ [TrainingNext]_trainingVars /\ [MemoryNext]_memoryVars
         /\ [PolicyNext]_policyVars /\ [PatchNext]_patchVars /\ [FusionNext]_fusionVars
<1>1. CASE UNCHANGED allVars
  BY <1>1 DEF allVars
<1>2. CASE Next
  <2>1. [CallsNext]_callsVars  BY <1>2 DEF Next
  <2>2. [VaultNext]_vaultVars  BY <1>2 DEF Next
  <2>3. [CardsNext]_cardsVars  BY <1>2 DEF Next
  <2>4. [ReviewNext]_reviewVars  BY <1>2 DEF Next
  <2>5. [TrainingNext]_trainingVars  BY <1>2 DEF Next
  <2>6. [MemoryNext]_memoryVars  BY <1>2 DEF Next
  <2>7. [PolicyNext]_policyVars  BY <1>2 DEF Next
  <2>8. [PatchNext]_patchVars  BY <1>2 DEF Next
  <2>9. [FusionNext]_fusionVars  BY <1>2 DEF Next
  <2> QED  BY <2>1, <2>2, <2>3, <2>4, <2>5, <2>6, <2>7, <2>8, <2>9
<1> QED  BY <1>1, <1>2

\* Beside the others, each component still does what its own specification allows.
THEOREM ServicesAreTheirParts ==
  Spec => /\ CallsSpec /\ VaultSpec /\ CardsSpec /\ ReviewSpec
          /\ TrainingSpec /\ MemorySpec /\ PolicySpec /\ PatchSpec /\ FusionSpec
<1>1. Init => CallsInit  BY PartsStart
<1>2. Init => VaultInit  BY PartsStart
<1>3. Init => CardsInit  BY PartsStart
<1>4. Init => ReviewInit  BY PartsStart
<1>5. Init => TrainingInit  BY PartsStart
<1>6. Init => MemoryInit  BY PartsStart
<1>7. Init => PolicyInit  BY PartsStart
<1>8. Init => PatchInit  BY PartsStart
<1>9. Init => FusionInit  BY PartsStart
<1>10. [Next]_allVars => [CallsNext]_callsVars  BY PartsStep
<1>11. [Next]_allVars => [VaultNext]_vaultVars  BY PartsStep
<1>12. [Next]_allVars => [CardsNext]_cardsVars  BY PartsStep
<1>13. [Next]_allVars => [ReviewNext]_reviewVars  BY PartsStep
<1>14. [Next]_allVars => [TrainingNext]_trainingVars  BY PartsStep
<1>15. [Next]_allVars => [MemoryNext]_memoryVars  BY PartsStep
<1>16. [Next]_allVars => [PolicyNext]_policyVars  BY PartsStep
<1>17. [Next]_allVars => [PatchNext]_patchVars  BY PartsStep
<1>18. [Next]_allVars => [FusionNext]_fusionVars  BY PartsStep
<1>19. Spec => Init /\ [][Next]_allVars
  BY DEF Spec, allVars
<1>20. Spec => CallsSpec  BY <1>1, <1>10, <1>19, PTL DEF CallsSpec
<1>21. Spec => VaultSpec  BY <1>2, <1>11, <1>19, PTL DEF VaultSpec
<1>22. Spec => CardsSpec  BY <1>3, <1>12, <1>19, PTL DEF CardsSpec
<1>23. Spec => ReviewSpec  BY <1>4, <1>13, <1>19, PTL DEF ReviewSpec
<1>24. Spec => TrainingSpec  BY <1>5, <1>14, <1>19, PTL DEF TrainingSpec
<1>25. Spec => MemorySpec  BY <1>6, <1>15, <1>19, PTL DEF MemorySpec
<1>26. Spec => PolicySpec  BY <1>7, <1>16, <1>19, PTL DEF PolicySpec
<1>27. Spec => PatchSpec  BY <1>8, <1>17, <1>19, PTL DEF PatchSpec
<1>28. Spec => FusionSpec  BY <1>9, <1>18, <1>19, PTL DEF FusionSpec
<1> QED  BY <1>20, <1>21, <1>22, <1>23, <1>24, <1>25, <1>26, <1>27, <1>28

LEMMA PartIsOne ==
  Spec => [](part \in {"calls", "vault", "cards", "review", "training", "memory", "policy",
                       "patch", "fusion"})
<1> DEFINE One == part \in {"calls", "vault", "cards", "review", "training", "memory", "policy",
                            "patch", "fusion"}
<1>1. Init => One
  BY DEF Init
<1>2. One /\ [Next]_allVars => One'
  BY DEF Next, allVars
<1>3. Spec => Init /\ [][Next]_allVars
  BY DEF Spec, allVars
<1> QED  BY <1>1, <1>2, <1>3, PTL

\* The component that runs keeps the types of its variables, whichever it is.
THEOREM ServicesTypeCorrect == Spec => []TypeOK
<1> DEFINE One == part \in {"calls", "vault", "cards", "review", "training", "memory", "policy",
                            "patch", "fusion"}
<1>1. /\ One /\ CallsTypeOK /\ VaultTypeOK /\ CardsTypeOK /\ ReviewTypeOK
      /\ TrainingTypeOK /\ MemoryTypeOK /\ PolicyTypeOK /\ PatchTypeOK /\ FusionTypeOK
      => TypeOK
  BY DEF TypeOK
<1>2. Spec => []One
  BY PartIsOne
<1>3. Spec => /\ []CallsTypeOK /\ []VaultTypeOK /\ []CardsTypeOK /\ []ReviewTypeOK
              /\ []TrainingTypeOK /\ []MemoryTypeOK /\ []PolicyTypeOK /\ []PatchTypeOK
              /\ []FusionTypeOK
  BY ServicesAreTheirParts, CallsTypeCorrect, VaultTypeCorrect, CardsTypeCorrect,
     ReviewTypeCorrect, TrainingTypeCorrect, MemoryTypeCorrect, PolicyTypeCorrect,
     PatchTypeCorrect, FusionTypeCorrect
<1> HIDE DEF One
<1> QED  BY <1>1, <1>2, <1>3, PTL

=============================================================================
