--------------------------- MODULE AgentSession ---------------------------
(***************************************************************************)
(* Agent loop sessions: submit_agent_command, its callers and the trace.   *)
(*                                                                         *)
(* A session lives in the memory of its caller, who drives it by events    *)
(* and by submitting commands.  A submit executes the command, consumes    *)
(* the result into the session, records an outcome on the latest kernel    *)
(* run and persists the new events to that run's trace, in this order and  *)
(* with an exception possible in the command's handler and after it.  All  *)
(* sessions share the latest run: outcomes and events of different callers *)
(* interleave, and an event in the trace does not name its session.        *)
(*                                                                         *)
(* A log is the sequence of a session's events; an event's seq number is   *)
(* its index minus one.  Event payloads, reason codes and the second copy  *)
(* of the run record (see KernelRun) are left out.                         *)
(***************************************************************************)
EXTENDS AgentAutomaton, FiniteSets

CONSTANTS
  Sessions,
  Submitted,    \* the commands callers submit
  Injected,     \* results returned by a runner the caller passed in
  CallerEvents, \* the events callers apply themselves
  AutoApprove,  \* auto_approve_medium of the router
  MaxRuns,      \* bound on the kernel runs started
  MaxCalls,     \* bound on the submits per session
  MaxLog,       \* bound on the events per session
  MaxTrace      \* bound on the events in the trace

ASSUME SessionAssumptions ==
  /\ Submitted \subseteq Commands
  /\ Injected \subseteq CommandResults
  /\ CallerEvents \subseteq Events
  /\ AutoApprove \in BOOLEAN
  /\ {MaxRuns, MaxCalls, MaxLog, MaxTrace} \subseteq Nat

-----------------------------------------------------------------------------
VARIABLES
  state,   \* state[s] of the automaton
  log,     \* log[s]: the events applied to s
  refs,    \* refs[s]: the results attached to s
  job,     \* job[s]: the submit in progress on s
  latest,  \* the number of the latest kernel run, 0 when there is none
  outcomes,\* the outcomes on the records of the runs: [run, session, call]
  trace,   \* the events in the trace: [run, seq, event], and the session they are of
  calls,   \* history: submits made on s
  effects, \* history: handlers executed by a submit on s while s was open
  raised   \* history: the ones among them that raised

vars == <<state, log, refs, job, latest, outcomes, trace, calls, effects, raised>>

\* todo holds the positions of the events that are still to be applied.
NewJob(r) == [stage |-> "consume", result |-> r, todo |-> {}, from |-> 0]

NoResult == [status |-> "completed", success |-> TRUE, dry |-> TRUE, denied |-> FALSE,
             repairable |-> FALSE, noProgress |-> FALSE, ran |-> FALSE]
NoJob == [NewJob(NoResult) EXCEPT !.stage = "none"]

Init ==
  /\ state = [s \in Sessions |-> "CREATED"]
  /\ log = [s \in Sessions |-> <<>>]
  /\ refs = [s \in Sessions |-> <<>>]
  /\ job = [s \in Sessions |-> NoJob]
  /\ latest = 0
  /\ outcomes = {}
  /\ trace = <<>>
  /\ calls = [s \in Sessions |-> 0]
  /\ effects = [s \in Sessions |-> 0]
  /\ raised = [s \in Sessions |-> 0]

Stage(s) == job[s].stage

\* AgentLoopFSM.apply of an event that has a row.
Fire(s, e) ==
  /\ state' = [state EXCEPT ![s] = After(state[s], e)]
  /\ log' = [log EXCEPT ![s] = Append(@, e)]

\* apply_event by the caller; an event without a row raises and changes nothing.
ApplyEvent(s) ==
  /\ Stage(s) = "none"
  /\ Len(log[s]) < MaxLog
  /\ \E e \in CallerEvents : Accepts(state[s], e) /\ Fire(s, e)
  /\ UNCHANGED <<refs, job, latest, outcomes, trace, calls, effects, raised>>

\* submit_agent_command: the command is run before the session is looked at.
Execute(s) ==
  /\ Stage(s) = "none"
  /\ calls[s] < MaxCalls
  /\ Len(log[s]) + 2 <= MaxLog
  /\ \E r \in Injected \cup UNION {RunCommand(c, AutoApprove) : c \in Submitted} :
       /\ job' = [job EXCEPT ![s] = [NewJob(r) EXCEPT !.from = Len(log[s])]]
       /\ effects' = IF r.ran /\ state[s] \notin Closed
                     THEN [effects EXCEPT ![s] = @ + 1] ELSE effects
  /\ calls' = [calls EXCEPT ![s] = @ + 1]
  /\ UNCHANGED <<state, log, refs, latest, outcomes, trace, raised>>

(***************************************************************************)
(* The handler raises, and the exception leaves submit_agent_command: what *)
(* the handler did until then is done, there is no result, and the session *)
(* never hears of it.                                                      *)
(***************************************************************************)
HandlerRaises(s) ==
  /\ Stage(s) = "none"
  /\ calls[s] < MaxCalls
  /\ \E c \in Submitted : MayRaise(c, AutoApprove)
  /\ calls' = [calls EXCEPT ![s] = @ + 1]
  /\ IF state[s] \in Closed THEN UNCHANGED <<effects, raised>>
     ELSE /\ effects' = [effects EXCEPT ![s] = @ + 1]
          /\ raised' = [raised EXCEPT ![s] = @ + 1]
  /\ UNCHANGED <<state, log, refs, job, latest, outcomes, trace>>

\* Mutant: the reference is attached only when some event can be applied.
ConsumeThenAttach(s) ==
  LET kept == Kept(state[s], job[s].result)
  IN  /\ Stage(s) = "consume"
      /\ IF kept = {} THEN refs' = refs
         ELSE refs' = [refs EXCEPT ![s] = Append(@, job[s].result)]
      /\ job' = [job EXCEPT ![s] =
                   IF kept = {} THEN NoJob ELSE [@ EXCEPT !.stage = "drive", !.todo = kept]]
      /\ UNCHANGED <<state, log, latest, outcomes, trace, calls, effects, raised>>

(***************************************************************************)
(* consume_aci_result up to its loop.  A closed session raises at once; on *)
(* an open one the reference is attached first, and stays attached when no *)
(* event is left to apply and the call raises.                             *)
(***************************************************************************)
Consume(s) ==
  LET open == state[s] \notin Closed
      kept == IF open THEN Kept(state[s], job[s].result) ELSE {}
  IN  /\ Stage(s) = "consume"
      /\ refs' = IF open THEN [refs EXCEPT ![s] = Append(@, job[s].result)] ELSE refs
      /\ job' = [job EXCEPT ![s] =
                   IF kept = {} THEN NoJob ELSE [@ EXCEPT !.stage = "drive", !.todo = kept]]
      /\ UNCHANGED <<state, log, latest, outcomes, trace, calls, effects, raised>>

\* The loop of consume_aci_result: an event the automaton no longer takes raises.
Drive(s) ==
  LET next == CHOOSE i \in job[s].todo : \A j \in job[s].todo : i <= j
      e    == Desired(job[s].result)[next]
      rest == job[s].todo \ {next}
  IN  /\ Stage(s) = "drive"
      /\ IF Accepts(state[s], e)
         THEN /\ Fire(s, e)
              /\ job' = [job EXCEPT ![s].todo = rest,
                                    ![s].stage = IF rest = {} THEN "record" ELSE "drive"]
         ELSE job' = [job EXCEPT ![s] = NoJob] /\ UNCHANGED <<state, log>>
      /\ UNCHANGED <<refs, latest, outcomes, trace, calls, effects, raised>>

\* _record_aci_outcome, on the run that is the latest now.  A record that cannot be read or
\* saved is passed over in silence.
Record(s) ==
  /\ Stage(s) = "record"
  /\ \/ outcomes' = outcomes
     \/ /\ latest # 0
        /\ outcomes' = outcomes \cup {[run |-> latest, session |-> s, call |-> calls[s]]}
  /\ job' = [job EXCEPT ![s].stage = "persist"]
  /\ UNCHANGED <<state, log, refs, latest, trace, calls, effects, raised>>

\* Mutant: the events are numbered from one before the first.
TracedEarly(s, indices) ==
  [n \in 1..Len(indices) |->
     [run |-> latest, seq |-> indices[n] - 2, event |-> log[s][indices[n]], of |-> s]]

\* persist_session_events of the records of s with these indices.
Traced(s, indices) ==
  [n \in 1..Len(indices) |->
     [run |-> latest, seq |-> indices[n] - 1, event |-> log[s][indices[n]], of |-> s]]

\* _persist_ali_events: only what this submit added, on the run that is the latest now, and
\* nothing when the record of that run cannot be read.
Persist(s) ==
  LET added == [n \in 1..(Len(log[s]) - job[s].from) |-> job[s].from + n]
  IN  /\ Stage(s) = "persist"
      /\ trace' = trace \/ (latest # 0 /\ trace' = trace \o Traced(s, added))
      /\ job' = [job EXCEPT ![s] = NoJob]
      /\ UNCHANGED <<state, log, refs, latest, outcomes, calls, effects, raised>>

\* The indices in ascending order: there is just one such sequence.
Ascending(indices) ==
  {part \in [1..Cardinality(indices) -> indices] :
     \A m, n \in DOMAIN part : m < n => part[m] < part[n]}

\* The caller persists its session: all of it, or the events the run's trace does not have.
Archive(s) ==
  LET all     == 1..Len(log[s])
      missing == {n \in all : \A k \in DOMAIN trace :
                    ~(trace[k].run = latest /\ trace[k].of = s /\ trace[k].seq = n - 1)}
  IN  /\ Stage(s) = "none"
      /\ latest # 0
      /\ \E chosen \in {all, missing} :
           /\ chosen # {}
           /\ Len(trace) + Cardinality(chosen) <= MaxTrace
           /\ \E part \in Ascending(chosen) : trace' = trace \o Traced(s, part)
      /\ UNCHANGED <<state, log, refs, job, latest, outcomes, calls, effects, raised>>

\* KernelLoopEngine.run, by anybody: from now on its run is the latest.
StartRun ==
  /\ latest < MaxRuns
  /\ latest' = latest + 1
  /\ UNCHANGED <<state, log, refs, job, outcomes, trace, calls, effects, raised>>

Submit(s) ==
  Execute(s) \/ HandlerRaises(s) \/ Consume(s) \/ Drive(s) \/ Record(s) \/ Persist(s)

Next == StartRun \/ \E s \in Sessions : ApplyEvent(s) \/ Submit(s) \/ Archive(s)

Spec == Init /\ [][Next]_vars

-----------------------------------------------------------------------------
(* Replay. *)

\* The places of a run's events in the trace.
OfRun(run) == {k \in DOMAIN trace : trace[k].run = run}

\* Mutant: the events are taken in the order they were written.
InTraceOrder(places) ==
  [n \in 1..Cardinality(places) |->
     trace[CHOOSE k \in places : Cardinality({j \in places : j < k}) = n - 1]]

Precedes(j, k) == trace[j].seq < trace[k].seq \/ (trace[j].seq = trace[k].seq /\ j < k)

\* A stable sort by seq: the n-th event is the one that n - 1 events precede.
BySeq(places) ==
  [n \in 1..Cardinality(places) |->
     trace[CHOOSE k \in places : Cardinality({j \in places : Precedes(j, k)}) = n - 1]]

\* replay_events: from a fresh session, dropping what the automaton does not take.
Replayed(events) ==
  LET at[n \in 0..Len(events)] ==
        IF n = 0 THEN "CREATED"
        ELSE IF Accepts(at[n - 1], events[n].event) THEN After(at[n - 1], events[n].event)
             ELSE at[n - 1]
  IN  at[Len(events)]

Replay(run) == Replayed(BySeq(OfRun(run)))

-----------------------------------------------------------------------------
(* Properties. *)

Jobs == [stage : {"none", "consume", "drive", "record", "persist"}, result : CommandResults,
         todo : SUBSET (1..2), from : Nat]

TypeOK ==
  /\ state \in [Sessions -> States]
  /\ log \in [Sessions -> Seq(Events)]
  /\ refs \in [Sessions -> Seq(CommandResults)]
  /\ job \in [Sessions -> Jobs]
  /\ latest \in 0..MaxRuns
  /\ outcomes \subseteq [run : 1..MaxRuns, session : Sessions, call : 1..MaxCalls]
  /\ trace \in Seq([run : 1..MaxRuns, seq : Nat, event : Events, of : Sessions])
  /\ calls \in [Sessions -> Nat]
  /\ effects \in [Sessions -> Nat]
  /\ raised \in [Sessions -> Nat]

\* Every handler a submit executed on behalf of an open session is on that session's books
\* unless it raised: also when it failed, when the command's own policy verdict forbids it, and
\* when the automaton then takes none of the result's events and the call raises.  A handler
\* that raises is on no book: nothing else of what was executed is missing.
EffectsAreReferenced ==
  \A s \in Sessions : Stage(s) # "consume" =>
    effects[s] = Cardinality({i \in DOMAIN refs[s] : refs[s][i].ran}) + raised[s]

\* Filtering by the state before the first event is enough: the loop of consume_aci_result
\* never raises half way, so a result is consumed as a whole or not at all.
ConsumedWhole ==
  \A s \in Sessions : Stage(s) = "drive" =>
    \A i \in job[s].todo : Accepts(state[s], Desired(job[s].result)[i])

\* A result that did not come about leaves no session running as if nothing had happened.
FailureIsNoticed ==
  \A s \in Sessions :
    Stage(s) \in {"record", "persist"}
    /\ job[s].result.status \in {"failed", "blocked", "unsupported", "approval_required"}
    => state[s] # "RUNNING"

\* Results never end a wait in the command's favour and never declare success: both are
\* events of the caller.  And what has ended has ended: whatever is still submitted to a
\* closed session, its state, its events and the results on it stay.
CallersDecide ==
  [][\A s \in Sessions :
       /\ \/ state[s] = "WAITING_APPROVAL" /\ state'[s] \notin {"WAITING_APPROVAL"} \cup Closed
          \/ state[s] # "HALTED_SUCCESS" /\ state'[s] = "HALTED_SUCCESS"
          => Stage(s) = "none"
       /\ state[s] \in Closed =>
            state'[s] = state[s] /\ log'[s] = log[s] /\ refs'[s] = refs[s]]_vars

\* A trace that holds every event of one session once, and nothing else, replays to that
\* session's state, in whatever order submits and the caller wrote it.
CompleteTraceReplays ==
  \A s \in Sessions, run \in 1..MaxRuns :
    /\ Cardinality(OfRun(run)) = Len(log[s])
    /\ \A n \in DOMAIN log[s] : \E k \in OfRun(run) : trace[k].of = s /\ trace[k].seq = n - 1
    => Replay(run) = state[s]

-----------------------------------------------------------------------------
(* What the documentation says. *)

\* docs/v0-2-readiness.md: "ALI Replay reconstructs the same final session state".
ReplayReconstructs ==
  \A s \in Sessions, run \in 1..MaxRuns :
    /\ \A k \in OfRun(run) : trace[k].of = s
    /\ \A n \in DOMAIN log[s] : \E k \in OfRun(run) : trace[k].seq = n - 1
    => Replay(run) = state[s]

=============================================================================
