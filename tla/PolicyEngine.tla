---------------------------- MODULE PolicyEngine ----------------------------
(***************************************************************************)
(* Policy OS: the rules of the packs a registry holds, and the decision on *)
(* a request.                                                              *)
(*                                                                         *)
(* Every rule that matches has its say; the strongest kind of action is    *)
(* the decision, and the safety level is the highest one declared or       *)
(* inferred.  Packs are added, never removed.  A request is what its       *)
(* caller says of it: scope, risk, the facts that conditions on fields     *)
(* test, and the safety level its text alone calls for.  Reason codes,     *)
(* severity, constraints and hints, which decide nothing here, are left    *)
(* out; so are groups of conditions inside groups.                         *)
(***************************************************************************)
EXTENDS Integers

CONSTANTS
  Packs,    \* sets of rules
  Requests, \* what is asked
  NoRuling \* a request not asked yet

Strength == [allow |-> 0, prefer_tool |-> 1, modify |-> 2, require_review |-> 3,
             require_approval |-> 4, deny |-> 5]

Kinds == DOMAIN Strength

Levels == 0..5

RiskOrder == [low |-> 0, medium |-> 1, high |-> 2, blocked |-> 3]

\* level 0 is also that of an action that declares none.
PolicyActions == [kind : Kinds, level : Levels, human : BOOLEAN, rollback : BOOLEAN]

ASSUME PolicyAssumptions ==
  /\ \A rule \in UNION Packs :
       rule.enabled \in BOOLEAN /\ rule.priority \in Nat /\ rule.actions \subseteq PolicyActions
  /\ \A request \in Requests : request.risk \in DOMAIN RiskOrder /\ request.text \in Levels

VARIABLES
  rules,  \* the rules of the registry
  ruling \* ruling[r]: the latest decision on r

policyVars == <<rules, ruling>>

PolicyInit ==
  /\ rules = {}
  /\ ruling = [request \in Requests |-> NoRuling]

-----------------------------------------------------------------------------
(* Matching. *)

\* A test of a risk or of a fact; a condition without a field always holds.
Holds(test, request) ==
  CASE test.field = "risk"  -> RiskOrder[request.risk] >= RiskOrder[test.value]
    [] test.field = "fact"  -> test.value \in request.facts
    [] test.field = "none"  -> TRUE

\* The first group that is not empty replaces everything after it.
ConditionMet(condition, request) ==
  IF condition.all # {} THEN \A test \in condition.all : Holds(test, request)
  ELSE IF condition.any # {} THEN \E test \in condition.any : Holds(test, request)
  ELSE Holds(condition.test, request)

Applies(rule, request) ==
  /\ rule.enabled
  /\ rule.scope = request.scope
  /\ \A condition \in rule.conditions : ConditionMet(condition, request)

-----------------------------------------------------------------------------
(* Deciding. *)

HighestLevel(levels) == CHOOSE level \in levels : \A other \in levels : other <= level

ActionsOf(matched) == UNION {rule.actions : rule \in matched}

\* Mutant: the rules of the highest priority decide among themselves.
StrongestByPriority(matched) ==
  LET first == {rule \in matched : rule.actions # {} /\ \A other \in matched :
                                     other.actions = {} \/ other.priority <= rule.priority}
      kinds == {action.kind : action \in ActionsOf(first)} \union {"allow"}
  IN  CHOOSE kind \in kinds : \A other \in kinds : Strength[other] <= Strength[kind]

\* What no rule says anything about is allowed.  Priority only tells apart
\* actions of one kind.
Strongest(matched) ==
  LET kinds == {action.kind : action \in ActionsOf(matched)} \union {"allow"}
  IN  CHOOSE kind \in kinds : \A other \in kinds : Strength[other] <= Strength[kind]

AsksApproval(kind) == kind \in {"require_approval", "require_review"}

\* The level the request calls for, given the decision on it.
Inferred(request, kind) ==
  HighestLevel({request.text,
           CASE request.risk = "blocked" -> 5 [] request.risk = "high" -> 3
             [] request.risk = "medium" -> 2 [] request.risk = "low" -> 0,
           IF kind = "deny" THEN 5 ELSE IF AsksApproval(kind) THEN 2 ELSE 0})

\* PolicyEngine.evaluate.
Decision(held, request) ==
  LET matched  == {rule \in held : Applies(rule, request)}
      actions  == ActionsOf(matched)
      kind     == Strongest(matched)
      inferred == Inferred(request, kind)
  IN  [action   |-> kind,
       level    |-> HighestLevel({action.level : action \in actions} \union {inferred}),
       human    |-> inferred = 4 \/ \E action \in actions : action.human,
       rollback |-> inferred = 3 \/ \E action \in actions : action.rollback]

AddPack(pack) ==
  /\ rules' = rules \union {rule \in pack : rule.enabled}
  /\ UNCHANGED ruling

Evaluate(request) ==
  /\ ruling' = [ruling EXCEPT ![request] = Decision(rules, request)]
  /\ UNCHANGED rules

PolicyNext ==
  \/ \E pack \in Packs : AddPack(pack)
  \/ \E request \in Requests : Evaluate(request)

PolicySpec == PolicyInit /\ [][PolicyNext]_policyVars

-----------------------------------------------------------------------------
(* Properties. *)

Rulings == [action : Kinds, level : Levels, human : BOOLEAN, rollback : BOOLEAN]

PolicyTypeOK ==
  /\ rules \subseteq UNION Packs
  /\ ruling \in [Requests -> Rulings \union {NoRuling}]

AtLeast(new, old) ==
  /\ Strength[new.action] >= Strength[old.action]
  /\ new.level >= old.level
  /\ old.human => new.human \/ new.level = 5
  /\ old.rollback => new.rollback \/ new.level = 5

\* Whatever packs are added between two decisions on a request, and whatever
\* their priorities, the later one is no more permissive and no lower in safety
\* level; it keeps what was reserved for humans and what needed a way back unless
\* its level is the highest (resolve_policy_conflicts and _infer_safety_level).
PacksOnlyTighten ==
  [][\A request \in Requests :
       ruling[request] # NoRuling => AtLeast(ruling'[request], ruling[request])]_policyVars
=============================================================================
