---------------------------- MODULE ProviderCalls ----------------------------
(***************************************************************************)
(* Calls to model providers and the ledger of what they may spend.         *)
(*                                                                         *)
(* loopos model call and Workbench.call_model share one ledger, an object  *)
(* of the process.  A live call under a budget finds or makes the entry of *)
(* its provider, model and session, checks it, calls the provider and, if  *)
(* the answer counts as completed, commits a fixed estimate.  Each of      *)
(* these holds the ledger's lock by itself: between them other threads     *)
(* run.  The estimate of 0.01 USD is one unit; at that size the approval   *)
(* threshold of 1 USD is never reached, and no caller sets a limit on the  *)
(* number of requests.                                                     *)
(***************************************************************************)
EXTENDS Integers, FiniteSets

CONSTANTS
  Callers,    \* threads that make calls
  Sessions,   \* session identifiers
  NoSession,  \* no session
  Runtimes,   \* the provider identifiers callers name
  Budgets,    \* the values of --budget-usd and budget_max_usd
  NoEntry,    \* no entry in the ledger
  MaxCalls,   \* bound on the calls requested
  MaxRestarts \* bound on the processes that end

ASSUME CallsAssumptions ==
  /\ IsFiniteSet(Callers)
  /\ NoSession \notin Sessions
  /\ Runtimes # {} /\ Runtimes \subseteq {"mock", "openai", "ollama", "unknown"}
  /\ Budgets \subseteq Nat
  /\ NoEntry \notin [max : Nat, used : Nat]
  /\ MaxCalls \in Nat
  /\ MaxRestarts \in Nat

VARIABLES
  ledger, \* ledger[k]: the budget of key k
  call,   \* call[c]: the call caller c is making
  tally   \* what has happened, for the properties only

callsVars == <<ledger, call, tally>>

Keys == Runtimes \X (Sessions \union {NoSession})

Entries == [max : Nat, used : Nat]

Stages == {"idle", "create", "check", "call", "commit"}

Surfaces == {"cli", "workbench"}

CallRecords == [stage : Stages, surface : Surfaces, key : Keys, live : BOOLEAN, budget : Nat]

NoCall == [stage |-> "idle", surface |-> "cli", key |-> CHOOSE k \in Keys : TRUE,
         live |-> FALSE, budget |-> 0]

CallsInit ==
  /\ ledger = [k \in Keys |-> NoEntry]
  /\ call = [c \in Callers |-> NoCall]
  /\ tally = [requests |-> 0, restarts |-> 0,
              peak |-> [k \in Keys |-> 0], completed |-> [k \in Keys |-> 0]]

Metered(request) == request.live /\ request.budget > 0

\* The calls on key k that were let through and are not accounted for yet.
InFlight(k) ==
  {c \in Callers : call[c].key = k /\ Metered(call[c]) /\ call[c].stage \in {"call", "commit"}}

-----------------------------------------------------------------------------
(* What a provider's runtime answers. *)

\* The credentials and the transport a runtime was made with; urllib is for
\* openai only, and the runtimes of the command line have no transport.
Setups == [credentials : BOOLEAN, transport : {"none", "injected", "urllib"}]

Fits(setup, surface, runtime) ==
  /\ surface = "cli" => setup.transport = "none"
  /\ runtime # "openai" => setup.transport # "urllib"

\* What is at the other end.  A garbled answer is JSON of another shape; text
\* that is not JSON counts as an answer without content.
Peers == {"answers", "garbles", "errors", "hangs", "unreachable"}

\* A runtime without a transport refuses.  urllib reports a host that cannot
\* be reached as status 0, which the parser does not count as an error.
Status(runtime, live, setup, peer) ==
  IF runtime = "unknown" THEN "not_found"
  ELSE IF runtime = "mock" THEN "completed"
  ELSE IF ~live THEN "dry_run"
  ELSE IF runtime = "openai" /\ ~setup.credentials THEN "blocked"
  ELSE IF setup.transport = "none" THEN "blocked"
  ELSE IF peer = "answers" THEN "completed"
  ELSE IF peer = "unreachable" /\ setup.transport = "urllib" THEN "completed"
  ELSE IF peer = "garbles" /\ runtime = "ollama" THEN "raises"
  ELSE "failed"

-----------------------------------------------------------------------------
(* One call. *)

\* A live call of the command line needs all three flags, the budget among
\* them; the workbench goes live without a budget too, and is the only one to
\* name a session or to look the provider up first.
Request(c, surface, key, live, budget) ==
  /\ call[c].stage = "idle"
  /\ tally.requests < MaxCalls
  /\ surface = "cli" => key[2] = NoSession /\ (live => budget > 0)
  /\ surface = "workbench" => key[1] # "unknown"
  /\ LET request == [stage |-> "call", surface |-> surface, key |-> key,
                     live |-> live, budget |-> budget]
     IN  call' = [call EXCEPT ![c] = IF Metered(request)
                                     THEN [request EXCEPT !.stage = "create"]
                                     ELSE request]
  /\ tally' = [tally EXCEPT !.requests = @ + 1]
  /\ UNCHANGED ledger

\* Mutant: the budget of the latest caller replaces the one the key has.
CreateAfresh(c) ==
  /\ call[c].stage = "create"
  /\ ledger' = [ledger EXCEPT ![call[c].key] = [max |-> call[c].budget, used |-> 0]]
  /\ call' = [call EXCEPT ![c].stage = "check"]
  /\ UNCHANGED tally

\* An entry that exists keeps its maximum.
Create(c) ==
  /\ call[c].stage = "create"
  /\ ledger' = [ledger EXCEPT ![call[c].key] =
                  IF @ = NoEntry THEN [max |-> call[c].budget, used |-> 0] ELSE @]
  /\ call' = [call EXCEPT ![c].stage = "check"]
  /\ UNCHANGED tally

WithinBudget(entry) == entry.max = 0 \/ entry.used + 1 <= entry.max

\* A refused call ends.
CheckBudget(c) ==
  /\ call[c].stage = "check"
  /\ LET k == call[c].key
         passes == ledger[k] = NoEntry \/ WithinBudget(ledger[k])
         flying == Cardinality(InFlight(k)) + 1
     IN  /\ call' = [call EXCEPT ![c] = IF passes THEN [@ EXCEPT !.stage = "call"] ELSE NoCall]
         /\ tally' = IF passes /\ flying > tally.peak[k]
                     THEN [tally EXCEPT !.peak[k] = flying] ELSE tally
  /\ UNCHANGED ledger

\* Only a call that completed is committed; an exception ends it like a failure.
CallProvider(c, setup, peer) ==
  /\ call[c].stage = "call"
  /\ Fits(setup, call[c].surface, call[c].key[1])
  /\ LET k == call[c].key
         counts == Metered(call[c]) /\ Status(k[1], call[c].live, setup, peer) = "completed"
     IN  /\ call' = [call EXCEPT ![c] = IF counts THEN [@ EXCEPT !.stage = "commit"] ELSE NoCall]
         /\ tally' = IF counts THEN [tally EXCEPT !.completed[k] = @ + 1] ELSE tally
  /\ UNCHANGED ledger

Commit(c) ==
  /\ call[c].stage = "commit"
  /\ LET k == call[c].key
     IN  ledger' = IF ledger[k] = NoEntry THEN ledger ELSE [ledger EXCEPT ![k].used = @ + 1]
  /\ call' = [call EXCEPT ![c] = NoCall]
  /\ UNCHANGED tally

\* The process ends, and the ledger with it.
EndProcess ==
  /\ tally.restarts < MaxRestarts
  /\ ledger' = [k \in Keys |-> NoEntry]
  /\ call' = [c \in Callers |-> NoCall]
  /\ tally' = [tally EXCEPT !.restarts = @ + 1,
                            !.peak = [k \in Keys |-> 0],
                            !.completed = [k \in Keys |-> 0]]

CallsNext ==
  \/ \E c \in Callers, key \in Keys, live \in BOOLEAN, budget \in Budgets,
        surface \in Surfaces : Request(c, surface, key, live, budget)
  \/ \E c \in Callers : Create(c)
  \/ \E c \in Callers : CheckBudget(c)
  \/ \E c \in Callers, setup \in Setups, peer \in Peers : CallProvider(c, setup, peer)
  \/ \E c \in Callers : Commit(c)
  \/ EndProcess

CallsSpec == CallsInit /\ [][CallsNext]_callsVars

-----------------------------------------------------------------------------
(* Properties. *)

CallsTypeOK ==
  /\ ledger \in [Keys -> Entries \union {NoEntry}]
  /\ call \in [Callers -> CallRecords]
  /\ tally \in [requests : 0..MaxCalls, restarts : 0..MaxRestarts,
                peak : [Keys -> Nat], completed : [Keys -> Nat]]

\* The calls beyond one that the budget of key k has had to carry at once.
Surplus(k) == IF tally.peak[k] = 0 THEN 0 ELSE tally.peak[k] - 1

\* However the calls of several threads and both surfaces mix, the completed
\* calls of a key exceed the first caller's budget by no more than the calls
\* that were in flight at once, less one; made one at a time they never exceed
\* it.  (The check and the commit are two acquisitions of the lock, and calls
\* under a budget only are counted.)
SpendBounded ==
  \A k \in Keys : ledger[k] # NoEntry => tally.completed[k] <= ledger[k].max + Surplus(k)
=============================================================================
