------------------------- MODULE AgentSessionProofs -------------------------
(***************************************************************************)
(* Proofs about AgentSession, for any number of sessions, any commands     *)
(* submitted and any results a runner returns: what a submit executes is   *)
(* on the books unless its handler raises, results are consumed whole,     *)
(* failures are noticed, only callers end a wait.  The invariant says of   *)
(* each session on its own how far its submit has come; facts about the    *)
(* transition table carry it from step to step.  A second invariant, about *)
(* the log and the trace, shows that a complete trace replays.             *)
(***************************************************************************)
EXTENDS AgentSession, FusionProofs
-----------------------------------------------------------------------------
(* The books. *)

Ran(results) == {i \in DOMAIN results : results[i].ran}

\* One more result is one more handler if it ran one.
LEMMA BookedOnce ==
  ASSUME NEW results \in Seq(CommandResults), NEW r \in CommandResults
  PROVE  /\ Append(results, r) \in Seq(CommandResults)
         /\ Cardinality(Ran(results)) \in Nat
         /\ Cardinality(Ran(Append(results, r))) =
              Cardinality(Ran(results)) + (IF r.ran THEN 1 ELSE 0)
<1> DEFINE new == Len(results) + 1
<1>1. IsFiniteSet(Ran(results)) /\ new \notin Ran(results)
  <2>1. Ran(results) \subseteq 1..Len(results) /\ Len(results) \in Nat
    BY DEF Ran
  <2>2. IsFiniteSet(1..Len(results))
    BY <2>1, FS_Interval
  <2> QED  BY <2>1, <2>2, FS_Subset
<1>2. Ran(Append(results, r)) = IF r.ran THEN Ran(results) \union {new} ELSE Ran(results)
  <2>1. /\ DOMAIN Append(results, r) = DOMAIN results \union {new}
        /\ Append(results, r)[new] = r
        /\ \A i \in DOMAIN results : Append(results, r)[i] = results[i]
    OBVIOUS
  <2> QED  BY <2>1 DEF Ran
<1>3. Cardinality(Ran(results) \union {new}) = Cardinality(Ran(results)) + 1
  BY <1>1, FS_AddElement
<1>4. Cardinality(Ran(results)) \in Nat
  BY <1>1, FS_CardinalityType
<1> QED  BY <1>2, <1>3, <1>4

-----------------------------------------------------------------------------
(* The invariant. *)

SessionTypes ==
  /\ state \in [Sessions -> States]
  /\ log \in [Sessions -> Seq(Events)]
  /\ refs \in [Sessions -> Seq(CommandResults)]
  /\ job \in [Sessions -> Jobs]
  /\ calls \in [Sessions -> Nat]
  /\ effects \in [Sessions -> Nat]
  /\ raised \in [Sessions -> Nat]

\* The events left are all taken in the state the session is in, and the one that
\* answers a failure is among them.
Driven(s) ==
  Stage(s) = "drive" =>
    /\ job[s].todo # {} /\ job[s].todo \subseteq DOMAIN Desired(job[s].result)
    /\ \A i \in job[s].todo : Accepts(state[s], Desired(job[s].result)[i])
    /\ Bad(job[s].result) => LastOf(job[s].result) \in job[s].todo

Noticed(s) ==
  Stage(s) \in {"record", "persist"} /\ Bad(job[s].result) => state[s] # "RUNNING"

\* The handler of a result that is to be consumed is not on the books yet, and one that
\* raised never is.
Booked(s) ==
  effects[s] = Cardinality(Ran(refs[s])) + raised[s]
                 + (IF Stage(s) = "consume" /\ state[s] \notin Closed /\ job[s].result.ran
                    THEN 1 ELSE 0)

Sound(s) == Driven(s) /\ Noticed(s) /\ Booked(s)

Inv == SessionTypes /\ \A s \in Sessions : Sound(s)

\* The invariant holds of sessions that were just created.
LEMMA InitInv == Init => Inv
<1> SUFFICES ASSUME Init PROVE Inv
  OBVIOUS
<1>1. NoResult \in CommandResults /\ NoJob \in Jobs
  BY DEF NoResult, NoJob, NewJob, Jobs, CommandResults, CommandStatuses
<1>2. SessionTypes
  BY <1>1 DEF Init, SessionTypes, States
<1>3. ASSUME NEW s \in Sessions PROVE Sound(s)
  <2>1. job[s].stage = "none" /\ refs[s] = <<>> /\ effects[s] = 0 /\ raised[s] = 0
    BY DEF Init, NoJob, NewJob
  <2>2. Ran(refs[s]) = {}
    BY <2>1 DEF Ran
  <2>3. Cardinality(Ran(refs[s])) = 0
    BY <2>2, FS_EmptySet
  <2>4. Driven(s) /\ Noticed(s)
    BY <2>1 DEF Driven, Noticed, Stage
  <2>5. Booked(s)
    BY <2>1, <2>3 DEF Booked, Stage
  <2> QED  BY <2>4, <2>5 DEF Sound
<1> QED  BY <1>2, <1>3 DEF Inv

\* A session is sound as long as nothing of it changes.
LEMMA SoundWhenLeft ==
  ASSUME NEW s \in Sessions, Sound(s), state'[s] = state[s], job'[s] = job[s],
         refs'[s] = refs[s], effects'[s] = effects[s], raised'[s] = raised[s]
  PROVE  Sound(s)'
BY DEF Sound, Driven, Noticed, Booked, Stage

\* An event of the caller.
LEMMA ApplyEventInv ==
  ASSUME Inv, NEW s \in Sessions, ApplyEvent(s)
  PROVE  Inv'
<1>1. PICK e \in CallerEvents : Accepts(state[s], e) /\ Fire(s, e)
  BY DEF ApplyEvent
<1>2. After(state[s], e) \in States /\ e \in Events
  BY <1>1, AfterIsState, SessionAssumptions
<1>3. SessionTypes'
  BY <1>1, <1>2 DEF ApplyEvent, Fire, Inv, SessionTypes
<1>4. Sound(s)'
  <2>1. Stage(s) = "none" /\ job' = job /\ refs' = refs /\ effects' = effects /\ raised' = raised
    BY DEF ApplyEvent
  <2> QED  BY <2>1 DEF Inv, Sound, Driven, Noticed, Booked, Stage
<1>5. ASSUME NEW t \in Sessions, t # s PROVE Sound(t)'
  BY <1>1, <1>5, SoundWhenLeft DEF ApplyEvent, Fire, Inv, SessionTypes
<1> QED  BY <1>3, <1>4, <1>5 DEF Inv

\* The command is executed.
LEMMA ExecuteInv ==
  ASSUME Inv, NEW s \in Sessions, Execute(s)
  PROVE  Inv'
<1>1. PICK r \in Injected \cup UNION {RunCommand(c, AutoApprove) : c \in Submitted} :
        /\ job' = [job EXCEPT ![s] = [NewJob(r) EXCEPT !.from = Len(log[s])]]
        /\ effects' = IF r.ran /\ state[s] \notin Closed
                      THEN [effects EXCEPT ![s] = @ + 1] ELSE effects
  BY DEF Execute
<1>2. r \in CommandResults
  BY <1>1, RunCommandType, SessionAssumptions
<1>3. /\ state' = state /\ refs' = refs /\ log' = log /\ calls' = [calls EXCEPT ![s] = @ + 1]
      /\ raised' = raised
  BY DEF Execute
<1> DEFINE new == [NewJob(r) EXCEPT !.from = Len(log[s])]
<1>4. new \in Jobs /\ new.stage = "consume" /\ new.result = r
  <2>1. Len(log[s]) \in Nat
    BY DEF Inv, SessionTypes
  <2>2. NewJob(r) \in Jobs /\ NewJob(r).stage = "consume" /\ NewJob(r).result = r
    BY <1>2 DEF NewJob, Jobs
  <2> QED  BY <2>1, <2>2 DEF Jobs
<1>5. job'[s] = new
  BY <1>1 DEF Inv, SessionTypes
<1> HIDE DEF new
<1>6. SessionTypes'
  BY <1>1, <1>3, <1>4 DEF Inv, SessionTypes, new
<1>7. Sound(s)'
  <2>1. Cardinality(Ran(refs[s])) \in Nat
    BY <1>2, BookedOnce DEF Inv, SessionTypes
  <2>r. raised[s] \in Nat /\ Stage(s) # "consume"
    BY DEF Execute, Inv, SessionTypes
  <2>2. effects[s] = Cardinality(Ran(refs[s])) + raised[s] /\ raised[s] \in Nat
    BY <2>r, <2>1 DEF Inv, Sound, Booked
  <2>3. effects'[s] = IF r.ran /\ state[s] \notin Closed THEN effects[s] + 1 ELSE effects[s]
    BY <1>1 DEF Inv, SessionTypes
  <2> QED  BY <1>3, <1>4, <1>5, <2>1, <2>2, <2>3 DEF Sound, Driven, Noticed, Booked, Stage
<1>8. ASSUME NEW t \in Sessions, t # s PROVE Sound(t)'
  <2>1. job'[t] = job[t] /\ effects'[t] = effects[t]
    BY <1>1, <1>8 DEF Inv, SessionTypes
  <2> QED  BY <1>3, <2>1, SoundWhenLeft DEF Inv
<1> QED  BY <1>6, <1>7, <1>8 DEF Inv

\* The handler raises.
LEMMA RaisesInv ==
  ASSUME Inv, NEW s \in Sessions, HandlerRaises(s)
  PROVE  Inv'
<1>1. /\ state' = state /\ refs' = refs /\ log' = log /\ job' = job /\ Stage(s) = "none"
      /\ calls' = [calls EXCEPT ![s] = @ + 1]
      /\ \/ UNCHANGED <<effects, raised>>
         \/ /\ effects' = [effects EXCEPT ![s] = @ + 1]
            /\ raised' = [raised EXCEPT ![s] = @ + 1]
  BY DEF HandlerRaises
<1>2. SessionTypes'
  BY <1>1 DEF Inv, SessionTypes
<1>3. Sound(s)'
  <2>1. Cardinality(Ran(refs[s])) \in Nat
    <3>1. NoResult \in CommandResults
      BY DEF NoResult, CommandResults, CommandStatuses
    <3> QED  BY <3>1, BookedOnce DEF Inv, SessionTypes
  <2>r. raised[s] \in Nat /\ Stage(s) # "consume"
    BY <1>1 DEF Inv, SessionTypes
  <2>2. effects[s] = Cardinality(Ran(refs[s])) + raised[s] /\ raised[s] \in Nat
    BY <2>r, <2>1 DEF Inv, Sound, Booked
  <2>3. \/ effects'[s] = effects[s] /\ raised'[s] = raised[s]
        \/ effects'[s] = effects[s] + 1 /\ raised'[s] = raised[s] + 1
    BY <1>1 DEF Inv, SessionTypes
  <2>4. Booked(s)'
    BY <1>1, <2>1, <2>2, <2>3 DEF Booked, Stage
  <2> QED  BY <1>1, <2>4 DEF Inv, Sound, Driven, Noticed, Stage
<1>4. ASSUME NEW t \in Sessions, t # s PROVE Sound(t)'
  <2>1. effects'[t] = effects[t] /\ raised'[t] = raised[t]
    BY <1>1, <1>4 DEF Inv, SessionTypes
  <2> QED  BY <1>1, <2>1, SoundWhenLeft DEF Inv
<1> QED  BY <1>2, <1>3, <1>4 DEF Inv

\* The result is attached, and its events are chosen.
LEMMA ConsumeInv ==
  ASSUME Inv, NEW s \in Sessions, Consume(s)
  PROVE  Inv'
<1> DEFINE r    == job[s].result
           open == state[s] \notin Closed
           kept == IF open THEN Kept(state[s], r) ELSE {}
           new  == IF kept = {} THEN NoJob ELSE [job[s] EXCEPT !.stage = "drive", !.todo = kept]
<1>1. /\ Stage(s) = "consume"
      /\ refs' = IF open THEN [refs EXCEPT ![s] = Append(@, r)] ELSE refs
      /\ job' = [job EXCEPT ![s] = new]
      /\ state' = state /\ log' = log /\ effects' = effects /\ calls' = calls
      /\ raised' = raised
  BY DEF Consume
<1>2. r \in CommandResults /\ job[s] \in Jobs
  BY DEF Inv, SessionTypes, Jobs
<1>3. /\ kept \subseteq DOMAIN Desired(r) /\ kept \subseteq 1..2
      /\ \A i \in kept : Accepts(state[s], Desired(r)[i])
  BY <1>2, DesiredShape DEF Kept
<1>4. kept # {} /\ Bad(r) => LastOf(r) \in kept
  <2> SUFFICES ASSUME kept # {}, Bad(r) PROVE LastOf(r) \in kept
    OBVIOUS
  <2>1. CASE DOMAIN Desired(r) = {1}
    BY <1>3, <2>1 DEF LastOf
  <2>2. CASE DOMAIN Desired(r) = {1, 2}
    <3>1. CASE 2 \in kept
      BY <2>2, <3>1 DEF LastOf
    <3>2. CASE 1 \in kept
      <4>1. state[s] = "RUNNING"
        BY <1>2, <1>3, <2>2, <3>2, DesiredShape, ProgressIsNoted
      <4>2. Accepts(state[s], Desired(r)[2])
        BY <1>2, <2>2, <4>1, DesiredShape, RunningTakesSetbacks
      <4> QED  BY <2>2, <4>1, <4>2 DEF LastOf, Kept, Closed
    <3> QED  BY <1>3, <2>2, <3>1, <3>2
  <2> QED  BY <1>2, <2>1, <2>2, DesiredShape
<1>5. /\ new \in Jobs
      /\ new.stage = IF kept = {} THEN "none" ELSE "drive"
      /\ kept # {} => new.result = r /\ new.todo = kept
  <2>1. NoJob \in Jobs /\ NoJob.stage = "none"
    BY DEF NoResult, NoJob, NewJob, Jobs, CommandResults, CommandStatuses
  <2> HIDE DEF kept
  <2> QED  BY <1>2, <1>3, <2>1 DEF Jobs
<1>6. job'[s] = new
  BY <1>1 DEF Inv, SessionTypes
<1>7. refs'[s] = IF open THEN Append(refs[s], r) ELSE refs[s]
  BY <1>1 DEF Inv, SessionTypes
<1>8. refs[s] \in Seq(CommandResults)
  BY DEF Inv, SessionTypes
<1>9. Append(refs[s], r) \in Seq(CommandResults)
  BY <1>2, <1>8, BookedOnce
<1> HIDE DEF new
<1>10. SessionTypes'
  BY <1>1, <1>5, <1>9 DEF Inv, SessionTypes
<1>11. Driven(s)' /\ Noticed(s)'
  BY <1>1, <1>3, <1>4, <1>5, <1>6 DEF Driven, Noticed, Stage
<1>12. Booked(s)'
  <2>r. raised[s] \in Nat
    BY DEF Inv, SessionTypes
  <2>1. effects[s] = Cardinality(Ran(refs[s])) + raised[s] + (IF open /\ r.ran THEN 1 ELSE 0)
    BY <1>1 DEF Inv, Sound, Booked, Stage
  <2>2. effects'[s] = Cardinality(Ran(refs'[s])) + raised[s]
    <3>1. CASE open
      BY <1>1, <1>2, <1>7, <1>8, <2>r, <2>1, <3>1, BookedOnce
    <3>2. CASE ~open
      <4>1. Cardinality(Ran(refs[s])) \in Nat
        BY <1>2, <1>8, BookedOnce
      <4> QED  BY <1>1, <1>7, <2>r, <2>1, <3>2, <4>1
    <3> QED  BY <3>1, <3>2
  <2>3. Cardinality(Ran(refs'[s])) \in Nat
    BY <1>2, <1>7, <1>8, <1>9, BookedOnce
  <2>4. job'[s].stage # "consume"
    BY <1>5, <1>6
  <2> QED  BY <1>1, <2>r, <2>2, <2>3, <2>4 DEF Booked, Stage
<1>13. ASSUME NEW t \in Sessions, t # s PROVE Sound(t)'
  <2>1. job'[t] = job[t] /\ refs'[t] = refs[t]
    BY <1>1, <1>13 DEF Inv, SessionTypes
  <2> QED  BY <1>1, <2>1, SoundWhenLeft DEF Inv
<1> QED  BY <1>10, <1>11, <1>12, <1>13 DEF Inv, Sound

\* What Drive does, given the invariant: the first event left is applied.
LEMMA DriveApplies ==
  ASSUME Inv, NEW s \in Sessions, Drive(s)
  PROVE  LET r == job[s].result
             next == IF 1 \in job[s].todo THEN 1 ELSE 2
             e    == Desired(r)[next]
             rest == job[s].todo \ {next}
         IN  /\ next \in job[s].todo /\ next \in DOMAIN Desired(r)
             /\ Accepts(state[s], e) /\ e \in Responses
             /\ Fire(s, e)
             /\ job' = [job EXCEPT ![s].todo = rest,
                                   ![s].stage = IF rest = {} THEN "record" ELSE "drive"]
             /\ refs' = refs /\ effects' = effects /\ calls' = calls /\ raised' = raised
             /\ rest # {} => e = "progress_updated" /\ next = 1
<1> DEFINE r    == job[s].result
           todo == job[s].todo
           next == IF 1 \in todo THEN 1 ELSE 2
           first == CHOOSE i \in todo : \A j \in todo : i <= j
<1>1. Stage(s) = "drive"
  BY DEF Drive
<1>2. /\ todo # {} /\ todo \subseteq DOMAIN Desired(r)
      /\ \A i \in todo : Accepts(state[s], Desired(r)[i])
  BY <1>1 DEF Inv, Sound, Driven
<1>3. r \in CommandResults
  BY DEF Inv, SessionTypes, Jobs
<1>4. DOMAIN Desired(r) = {1} \/ DOMAIN Desired(r) = {1, 2}
  BY <1>3, DesiredShape
<1>5. todo \subseteq {1, 2}
  BY <1>2, <1>4
<1>6. next \in todo /\ \A j \in todo : next <= j
  BY <1>2, <1>5
<1>7. first \in todo /\ \A j \in todo : first <= j
  <2>1. \E i \in todo : \A j \in todo : i <= j
    BY <1>6
  <2> QED  BY <2>1
<1>8. first = next
  BY <1>5, <1>6, <1>7
<1>9. Accepts(state[s], Desired(r)[next]) /\ Desired(r)[next] \in Responses
  BY <1>2, <1>3, <1>6, DesiredShape
<1>10. todo \ {next} # {} => next = 1 /\ Desired(r)[next] = "progress_updated"
  BY <1>2, <1>3, <1>4, <1>5, <1>6, DesiredShape
<1>11. /\ Fire(s, Desired(r)[first])
       /\ job' = [job EXCEPT ![s].todo = todo \ {first},
                             ![s].stage = IF todo \ {first} = {} THEN "record" ELSE "drive"]
       /\ refs' = refs /\ effects' = effects /\ calls' = calls /\ raised' = raised
  BY <1>8, <1>9 DEF Drive
<1> HIDE DEF first, next
<1>12. /\ Fire(s, Desired(r)[next])
       /\ job' = [job EXCEPT ![s].todo = todo \ {next},
                             ![s].stage = IF todo \ {next} = {} THEN "record" ELSE "drive"]
       /\ refs' = refs /\ effects' = effects /\ calls' = calls /\ raised' = raised
  BY <1>8, <1>11
<1>13. next \in DOMAIN Desired(r)
  BY <1>2, <1>6
<1> QED  BY <1>6, <1>9, <1>10, <1>12, <1>13 DEF next

\* An event of the result is applied.
LEMMA DriveInv ==
  ASSUME Inv, NEW s \in Sessions, Drive(s)
  PROVE  Inv'
<1> DEFINE r    == job[s].result
           next == IF 1 \in job[s].todo THEN 1 ELSE 2
           e    == Desired(r)[next]
           rest == job[s].todo \ {next}
           new  == [job[s] EXCEPT !.todo = rest,
                                  !.stage = IF rest = {} THEN "record" ELSE "drive"]
<1>1. /\ next \in job[s].todo /\ next \in DOMAIN Desired(r)
      /\ Accepts(state[s], e) /\ e \in Responses
      /\ Fire(s, e)
      /\ job' = [job EXCEPT ![s].todo = rest,
                            ![s].stage = IF rest = {} THEN "record" ELSE "drive"]
      /\ refs' = refs /\ effects' = effects /\ calls' = calls /\ raised' = raised
      /\ rest # {} => e = "progress_updated" /\ next = 1
  BY DriveApplies
<1>2. Stage(s) = "drive" /\ Driven(s)
  BY DEF Drive, Inv, Sound
<1>3. r \in CommandResults /\ job[s] \in Jobs /\ job \in [Sessions -> Jobs]
  BY DEF Inv, SessionTypes, Jobs
<1> HIDE DEF next, e
<1>4. /\ new \in Jobs /\ new.result = r /\ new.todo = rest
      /\ new.stage = IF rest = {} THEN "record" ELSE "drive"
  BY <1>3 DEF Jobs
<1>5. job' = [job EXCEPT ![s] = new] /\ job'[s] = new
  BY <1>1, <1>3
<1> HIDE DEF new, rest
<1>6. /\ state'[s] = After(state[s], e) /\ state' = [state EXCEPT ![s] = After(state[s], e)]
      /\ log' = [log EXCEPT ![s] = Append(@, e)]
  BY <1>1 DEF Fire, Inv, SessionTypes
<1>7. After(state[s], e) \in States /\ e \in Events
  BY <1>1, AfterIsState DEF Responses, Setbacks, Events
<1>8. SessionTypes'
  <2>1. log[s] \in Seq(Events)
    BY DEF Inv, SessionTypes
  <2>2. Append(log[s], e) \in Seq(Events)
    BY <1>7, <2>1
  <2>3. log' \in [Sessions -> Seq(Events)] /\ state' \in [Sessions -> States]
    BY <1>6, <1>7, <2>2 DEF Inv, SessionTypes
  <2>4. job' \in [Sessions -> Jobs]
    BY <1>3, <1>4, <1>5
  <2> QED  BY <1>1, <2>3, <2>4 DEF Inv, SessionTypes
<1>9. Driven(s)'
  <2> SUFFICES ASSUME rest # {} PROVE Driven(s)'
    BY <1>4, <1>5 DEF Driven, Stage
  <2>1. state[s] = "RUNNING" /\ state'[s] = "RUNNING"
    BY <1>1, <1>6, ProgressIsNoted
  <2>2. /\ rest \subseteq DOMAIN Desired(r)
        /\ \A i \in rest : Accepts(state'[s], Desired(r)[i])
    BY <1>2, <2>1 DEF Driven, rest
  <2>3. rest \subseteq {2} /\ next = 1
    <3>1. next = 1
      BY <1>1
    <3>2. job[s].todo \subseteq {1, 2}
      BY <1>2, <1>3, DesiredShape DEF Driven
    <3> QED  BY <3>1, <3>2 DEF rest
  <2>4. Bad(r) => LastOf(r) \in rest
    BY <1>2, <2>2, <2>3 DEF Driven, LastOf
  <2> QED  BY <1>4, <1>5, <2>2, <2>4 DEF Driven, Stage
<1>10. Noticed(s)'
  <2> SUFFICES ASSUME rest = {}, Bad(r) PROVE state'[s] # "RUNNING"
    BY <1>4, <1>5 DEF Noticed, Stage
  <2>1. next = LastOf(r)
    BY <1>2 DEF Driven, rest
  <2>2. e \in Setbacks
    BY <1>3, <2>1, DesiredShape DEF LastOf, e
  <2> QED  BY <1>1, <1>6, <2>2, SetbacksStop
<1>11. Booked(s)'
  <2>1. job'[s].stage # "consume" /\ job[s].stage # "consume"
    BY <1>2, <1>4, <1>5 DEF Stage
  <2> QED  BY <1>1, <2>1 DEF Inv, Sound, Booked, Stage
<1>12. ASSUME NEW t \in Sessions, t # s PROVE Sound(t)'
  <2>1. job'[t] = job[t] /\ state'[t] = state[t]
    BY <1>5, <1>6, <1>12 DEF Inv, SessionTypes
  <2> QED  BY <1>1, <2>1, SoundWhenLeft DEF Inv
<1> QED  BY <1>8, <1>9, <1>10, <1>11, <1>12 DEF Inv, Sound

\* The outcome is recorded on a run, and the events are persisted: the session stays.
LEMMA CloseInv ==
  ASSUME Inv, NEW s \in Sessions, Record(s) \/ Persist(s)
  PROVE  Inv'
<1>1. /\ state' = state /\ log' = log /\ refs' = refs /\ calls' = calls /\ effects' = effects
      /\ raised' = raised
  BY DEF Record, Persist
<1>2. PICK new : /\ job' = [job EXCEPT ![s] = new]
                 /\ new \in Jobs
                 /\ \/ new.stage = "persist" /\ new.result = job[s].result /\ Stage(s) = "record"
                    \/ new.stage = "none" /\ Stage(s) = "persist"
  <2>1. CASE Record(s)
    <3>1. [job[s] EXCEPT !.stage = "persist"] \in Jobs
      BY DEF Inv, SessionTypes, Jobs
    <3>2. job' = [job EXCEPT ![s] = [job[s] EXCEPT !.stage = "persist"]] /\ Stage(s) = "record"
      BY <2>1 DEF Record, Inv, SessionTypes
    <3>3. [job[s] EXCEPT !.stage = "persist"].stage = "persist"
          /\ [job[s] EXCEPT !.stage = "persist"].result = job[s].result
      BY DEF Inv, SessionTypes, Jobs
    <3> QED  BY <3>1, <3>2, <3>3
  <2>2. CASE Persist(s)
    <3>1. NoJob \in Jobs /\ NoJob.stage = "none"
      BY DEF NoResult, NoJob, NewJob, Jobs, CommandResults, CommandStatuses
    <3> QED  BY <2>2, <3>1 DEF Persist
  <2> QED  BY <2>1, <2>2
<1>3. job'[s] = new
  BY <1>2 DEF Inv, SessionTypes
<1>4. SessionTypes'
  BY <1>1, <1>2 DEF Inv, SessionTypes
<1>5. Sound(s)'
  BY <1>1, <1>2, <1>3 DEF Inv, Sound, Driven, Noticed, Booked, Stage
<1>6. ASSUME NEW t \in Sessions, t # s PROVE Sound(t)'
  <2>1. job'[t] = job[t]
    BY <1>2, <1>6 DEF Inv, SessionTypes
  <2> QED  BY <1>1, <2>1, SoundWhenLeft DEF Inv
<1> QED  BY <1>4, <1>5, <1>6 DEF Inv

\* Every step keeps the invariant.
LEMMA StepInv == Inv /\ [Next]_vars => Inv'
<1> SUFFICES ASSUME Inv, [Next]_vars PROVE Inv'
  OBVIOUS
<1>1. ASSUME UNCHANGED <<state, log, refs, job, calls, effects, raised>> PROVE Inv'
  BY <1>1 DEF Inv, SessionTypes, Sound, Driven, Noticed, Booked, Stage
<1>2. CASE StartRun
  BY <1>1, <1>2 DEF StartRun
<1>3. ASSUME NEW s \in Sessions, ApplyEvent(s) \/ Submit(s) \/ Archive(s) PROVE Inv'
  <2>1. CASE Archive(s)
    BY <1>1, <2>1 DEF Archive
  <2> QED  BY <1>3, <2>1, ApplyEventInv, ExecuteInv, RaisesInv, ConsumeInv, DriveInv, CloseInv
            DEF Submit
<1>4. CASE UNCHANGED vars
  BY <1>1, <1>4 DEF vars
<1> QED  BY <1>2, <1>3, <1>4 DEF Next

\* The invariant is one of the specification.
THEOREM SessionInvariant == Spec => []Inv
BY InitInv, StepInv, PTL DEF Spec

\* What a submit executed for an open session is on that session's books, unless the handler
\* raised: then it is on none (SyscallRouter.dispatch, submit_agent_command and
\* consume_aci_result).
THEOREM EffectsReferenced == Spec => []EffectsAreReferenced
<1>1. Inv => EffectsAreReferenced
  <2> SUFFICES ASSUME Inv, NEW s \in Sessions, Stage(s) # "consume"
               PROVE  effects[s] = Cardinality({i \in DOMAIN refs[s] : refs[s][i].ran}) + raised[s]
    BY DEF EffectsAreReferenced
  <2>1. Cardinality(Ran(refs[s])) \in Nat
    <3>1. NoResult \in CommandResults
      BY DEF NoResult, CommandResults, CommandStatuses
    <3> QED  BY <3>1, BookedOnce DEF Inv, SessionTypes
  <2>2. raised[s] \in Nat
    BY DEF Inv, SessionTypes
  <2>3. effects[s] = Cardinality(Ran(refs[s])) + raised[s]
    BY <2>1, <2>2 DEF Inv, Sound, Booked
  <2> QED  BY <2>3 DEF Ran
<1> QED  BY <1>1, SessionInvariant, PTL

\* The loop of consume_aci_result never raises half way.
THEOREM ResultsConsumedWhole == Spec => []ConsumedWhole
<1>1. Inv => ConsumedWhole
  BY DEF Inv, Sound, Driven, ConsumedWhole
<1> QED  BY <1>1, SessionInvariant, PTL

\* A result that did not come about leaves no session running.
THEOREM FailuresNoticed == Spec => []FailureIsNoticed
<1>1. Inv => FailureIsNoticed
  BY DEF Inv, Sound, Noticed, Bad, FailureIsNoticed
<1> QED  BY <1>1, SessionInvariant, PTL

\* Only callers end a wait in the command's favour or declare success, and what has
\* ended stays as it is.
THEOREM CallersDecided == Spec => CallersDecide
<1> DEFINE Decided(s) ==
             /\ \/ state[s] = "WAITING_APPROVAL" /\ state'[s] \notin {"WAITING_APPROVAL"} \cup Closed
                \/ state[s] # "HALTED_SUCCESS" /\ state'[s] = "HALTED_SUCCESS"
                => Stage(s) = "none"
             /\ state[s] \in Closed =>
                  state'[s] = state[s] /\ log'[s] = log[s] /\ refs'[s] = refs[s]
<1>1. Inv /\ [Next]_vars => [\A s \in Sessions : Decided(s)]_vars
  <2> SUFFICES ASSUME Inv, Next, NEW t \in Sessions PROVE Decided(t)
    OBVIOUS
  <2>1. ASSUME state'[t] = state[t], log'[t] = log[t], refs'[t] = refs[t] PROVE Decided(t)
    BY <2>1
  <2>2. CASE StartRun
    BY <2>1, <2>2 DEF StartRun
  <2>3. ASSUME NEW s \in Sessions, ApplyEvent(s) PROVE Decided(t)
    <3>1. PICK e \in CallerEvents : Accepts(state[s], e) /\ Fire(s, e)
      BY <2>3 DEF ApplyEvent
    <3>2. refs' = refs /\ Stage(s) = "none"
      BY <2>3 DEF ApplyEvent
    <3>3. CASE t = s
      BY <3>1, <3>2, <3>3, ClosedTakesNothing
    <3>4. CASE t # s
      BY <2>1, <3>1, <3>2, <3>4 DEF Fire, Inv, SessionTypes
    <3> QED  BY <3>3, <3>4
  <2>4. ASSUME NEW s \in Sessions, Consume(s) PROVE Decided(t)
    BY <2>4 DEF Consume, Inv, SessionTypes
  <2>5. ASSUME NEW s \in Sessions, Drive(s) PROVE Decided(t)
    <3>1. PICK e \in Responses : Accepts(state[s], e) /\ Fire(s, e) /\ refs' = refs
      BY <2>5, DriveApplies
    <3>2. CASE t = s
      <4>1. state[s] \notin Closed
        BY <3>1, ClosedTakesNothing
      <4>2. state'[s] = After(state[s], e)
        BY <3>1 DEF Fire, Inv, SessionTypes
      <4> QED  BY <3>1, <3>2, <4>1, <4>2, ResponsesDecideNothing DEF Closed
    <3>3. CASE t # s
      BY <2>1, <3>1, <3>3 DEF Fire, Inv, SessionTypes
    <3> QED  BY <3>2, <3>3
  <2>6. ASSUME NEW s \in Sessions,
               Execute(s) \/ HandlerRaises(s) \/ Record(s) \/ Persist(s) \/ Archive(s)
        PROVE  Decided(t)
    BY <2>1, <2>6 DEF Execute, HandlerRaises, Record, Persist, Archive
  <2> QED  BY <2>2, <2>3, <2>4, <2>5, <2>6 DEF Next, Submit
<1> QED  BY <1>1, SessionInvariant, PTL DEF Spec, CallersDecide

-----------------------------------------------------------------------------
(* The types of what all sessions share: runs, outcomes and the trace. *)

TraceRecords == [run : 1..MaxRuns, seq : Nat, event : Events, of : Sessions]

\* A submit in progress is one of the submits counted.
SharedTypes ==
  /\ latest \in 0..MaxRuns
  /\ outcomes \subseteq [run : 1..MaxRuns, session : Sessions, call : 1..MaxCalls]
  /\ trace \in Seq(TraceRecords)
  /\ \A s \in Sessions : Stage(s) # "none" => calls[s] \in 1..MaxCalls

\* The events a log holds at these indices may go to the trace of the latest run.
LEMMA TracedType ==
  ASSUME SessionTypes, SharedTypes, latest # 0, NEW s \in Sessions, NEW n \in Nat,
         NEW indices \in [1..n -> 1..Len(log[s])]
  PROVE  Traced(s, indices) \in Seq(TraceRecords)
<1>1. latest \in 1..MaxRuns
  BY SessionAssumptions DEF SharedTypes
<1>2. log[s] \in Seq(Events)
  BY DEF SessionTypes
<1>3. Len(indices) = n
  OBVIOUS
<1>4. \A m \in 1..n : /\ indices[m] - 1 \in Nat
                      /\ log[s][indices[m]] \in Events
  BY <1>2
<1>5. Traced(s, indices) \in [1..n -> TraceRecords]
  BY <1>1, <1>3, <1>4 DEF Traced, TraceRecords
<1> HIDE DEF TraceRecords
<1> QED  BY <1>5

\* Appending to the trace keeps it a trace.
LEMMA TraceGrows ==
  ASSUME NEW part \in Seq(TraceRecords), trace \in Seq(TraceRecords), trace' = trace \o part
  PROVE  trace' \in Seq(TraceRecords)
BY DEF TraceRecords

\* Who writes to the trace writes events of a log.
Wrote(s) ==
  /\ latest # 0
  /\ \E n \in Nat : \E indices \in [1..n -> 1..Len(log[s])] : trace' = trace \o Traced(s, indices)

\* The caller does when it archives its session.
LEMMA ArchiveWrites ==
  ASSUME SessionTypes, NEW s \in Sessions, Archive(s)
  PROVE  Wrote(s)
<1>1. PICK chosen \in SUBSET (1..Len(log[s])) :
        \E part \in Ascending(chosen) : trace' = trace \o Traced(s, part)
  BY DEF Archive
<1>2. PICK part \in Ascending(chosen) : trace' = trace \o Traced(s, part)
  BY <1>1
<1>3. Len(log[s]) \in Nat
  BY DEF SessionTypes
<1>4. Cardinality(chosen) \in Nat
  <2>1. IsFiniteSet(1..Len(log[s]))
    BY <1>3, FS_Interval
  <2> QED  BY <2>1, FS_Subset, FS_CardinalityType
<1>5. part \in [1..Cardinality(chosen) -> 1..Len(log[s])]
  BY DEF Ascending
<1>6. latest # 0
  BY DEF Archive
<1> QED  BY <1>2, <1>4, <1>5, <1>6 DEF Wrote

\* So does a submit, with the events it added to the log, if there is a run.
LEMMA PersistWrites ==
  ASSUME SessionTypes, NEW s \in Sessions, Persist(s)
  PROVE  trace' = trace \/ Wrote(s)
<1>1. CASE trace' = trace
  BY <1>1
<1>2. CASE trace' # trace
  <2> DEFINE more  == Len(log[s]) - job[s].from
             added == [n \in 1..more |-> job[s].from + n]
  <2>1. latest # 0 /\ trace' = trace \o Traced(s, added)
    BY <1>2 DEF Persist
  <2>2. Len(log[s]) \in Nat /\ job[s].from \in Nat
    BY DEF SessionTypes, Jobs
  <2>3. CASE more \in Nat
    <3>1. added \in [1..more -> 1..Len(log[s])]
      BY <2>2, <2>3
    <3> HIDE DEF more, added
    <3> QED  BY <1>2, <2>1, <2>3, <3>1 DEF Wrote
  <2>4. CASE more \notin Nat
    <3>1. added \in [1..0 -> 1..Len(log[s])]
      BY <2>2, <2>4
    <3> HIDE DEF more, added
    <3> QED  BY <1>2, <2>1, <3>1 DEF Wrote
  <2> QED  BY <2>3, <2>4
<1> QED  BY <1>1, <1>2

LEMMA WroteTyped ==
  ASSUME SessionTypes, SharedTypes, NEW s \in Sessions, Wrote(s)
  PROVE  trace' \in Seq(TraceRecords)
<1>1. PICK n \in Nat : \E indices \in [1..n -> 1..Len(log[s])] : trace' = trace \o Traced(s, indices)
  BY DEF Wrote
<1>2. PICK indices \in [1..n -> 1..Len(log[s])] : trace' = trace \o Traced(s, indices)
  BY <1>1
<1> QED  BY <1>2, TracedType, TraceGrows DEF SharedTypes, Wrote

\* Every step keeps these types.
LEMMA SharedStep == Inv /\ SharedTypes /\ [Next]_vars => SharedTypes'
<1> SUFFICES ASSUME Inv, SharedTypes, [Next]_vars PROVE SharedTypes'
  OBVIOUS
<1>t. SessionTypes
  BY DEF Inv
<1>1. ASSUME UNCHANGED <<outcomes, trace, job, calls>>, latest' \in 0..MaxRuns
      PROVE  SharedTypes'
  BY <1>1 DEF SharedTypes, Stage
<1>2. CASE StartRun
  BY <1>1, <1>2, SessionAssumptions DEF StartRun, SharedTypes
<1>3. CASE UNCHANGED vars
  BY <1>1, <1>3 DEF vars, SharedTypes
<1>4. ASSUME NEW s \in Sessions, ApplyEvent(s) PROVE SharedTypes'
  BY <1>1, <1>4 DEF ApplyEvent, SharedTypes
<1>5. ASSUME NEW s \in Sessions, Execute(s) \/ HandlerRaises(s) PROVE SharedTypes'
  <2>1. calls[s] \in Nat /\ calls[s] < MaxCalls /\ calls' = [calls EXCEPT ![s] = @ + 1]
    BY <1>t, <1>5 DEF Execute, HandlerRaises, SessionTypes
  <2>2. calls'[s] \in 1..MaxCalls /\ \A t \in Sessions : t # s => calls'[t] = calls[t]
    BY <1>t, <2>1, SessionAssumptions DEF SessionTypes
  <2>3. \A t \in Sessions : t # s => job'[t] = job[t]
    BY <1>t, <1>5 DEF Execute, HandlerRaises, SessionTypes
  <2>4. UNCHANGED <<outcomes, trace, latest>>
    BY <1>5 DEF Execute, HandlerRaises
  <2> QED  BY <2>2, <2>3, <2>4 DEF SharedTypes, Stage
<1>6. ASSUME NEW s \in Sessions, Consume(s) \/ Drive(s) \/ Record(s) \/ Persist(s)
      PROVE  SharedTypes'
  <2>1. UNCHANGED <<latest, calls>> /\ Stage(s) # "none"
    BY <1>6 DEF Consume, Drive, Record, Persist
  <2>2. \A t \in Sessions : t # s => job'[t] = job[t]
    BY <1>t, <1>6 DEF Consume, Drive, Record, Persist, SessionTypes
  <2>3. outcomes' \subseteq [run : 1..MaxRuns, session : Sessions, call : 1..MaxCalls]
    <3>1. CASE Record(s) /\ latest # 0 /\ outcomes' # outcomes
      <4>1. latest \in 1..MaxRuns /\ calls[s] \in 1..MaxCalls
        BY <2>1, <3>1, SessionAssumptions DEF SharedTypes
      <4> QED  BY <3>1, <4>1 DEF Record, SharedTypes
    <3>2. CASE outcomes' = outcomes
      BY <3>2 DEF SharedTypes
    <3> QED  BY <1>6, <3>1, <3>2 DEF Consume, Drive, Record, Persist
  <2>4. trace' \in Seq(TraceRecords)
    <3>1. CASE Persist(s)
      BY <1>t, <3>1, PersistWrites, WroteTyped DEF SharedTypes
    <3>2. CASE trace' = trace
      BY <3>2 DEF SharedTypes
    <3> QED  BY <1>6, <3>1, <3>2 DEF Consume, Drive, Record
  <2> QED  BY <2>1, <2>2, <2>3, <2>4 DEF SharedTypes, Stage
<1>7. ASSUME NEW s \in Sessions, Archive(s) PROVE SharedTypes'
  <2>1. UNCHANGED <<latest, outcomes, job, calls>>
    BY <1>7 DEF Archive
  <2> QED  BY <1>t, <1>7, <2>1, ArchiveWrites, WroteTyped DEF SharedTypes, Stage
<1> QED  BY <1>2, <1>3, <1>4, <1>5, <1>6, <1>7 DEF Next, Submit

\* Types hold for any number of sessions, whatever they submit and archive.
THEOREM SessionTypeCorrect == Spec => []TypeOK
<1>1. Init => SharedTypes
  BY SessionAssumptions DEF Init, SharedTypes, Stage, NoJob, NewJob
<1>2. Inv /\ SharedTypes => TypeOK
  BY DEF Inv, SessionTypes, SharedTypes, TraceRecords, TypeOK
<1> QED  BY <1>1, <1>2, SharedStep, SessionInvariant, PTL DEF Spec

-----------------------------------------------------------------------------
(* Replay. *)

\* The states the events of a log lead through, each of them taken where it was applied.
LeadsThrough(events, path, last) ==
  /\ path \in [0..Len(events) -> States] /\ path[0] = "CREATED" /\ path[Len(events)] = last
  /\ \A n \in 1..Len(events) : /\ Accepts(path[n - 1], events[n])
                               /\ path[n] = After(path[n - 1], events[n])

Led(s) == \E path : LeadsThrough(log[s], path, state[s])

\* A record of the trace is an event of its session's log.
OfLog(x) ==
  x.seq \in Nat /\ x.seq + 1 \in 1..Len(log[x.of]) /\ x.event = log[x.of][x.seq + 1]

Replayable ==
  /\ \A s \in Sessions : Led(s)
  /\ \A k \in DOMAIN trace : trace[k].of \in Sessions /\ OfLog(trace[k])

\* One more event leads one state further.
LEMMA LeadsOn ==
  ASSUME NEW events \in Seq(Events), NEW path, NEW q, LeadsThrough(events, path, q),
         NEW e \in Events, Accepts(q, e)
  PROVE  \E on : LeadsThrough(Append(events, e), on, After(q, e))
<1>1. PICK n \in Nat : n = Len(events)
  OBVIOUS
<1>2. PICK more : more = Append(events, e)
  OBVIOUS
<1>3. Len(more) = n + 1 /\ more[n + 1] = e /\ \A i \in 1..n : more[i] = events[i]
  BY <1>1, <1>2
<1>4. PICK r \in States : r = After(q, e)
  BY AfterIsState
<1>5. PICK on : on = [i \in 0..(n + 1) |-> IF i <= n THEN path[i] ELSE r]
  OBVIOUS
<1>6. /\ path \in [0..n -> States] /\ path[0] = "CREATED" /\ path[n] = q
      /\ \A i \in 1..n : Accepts(path[i - 1], events[i]) /\ path[i] = After(path[i - 1], events[i])
  BY <1>1 DEF LeadsThrough
<1>7. on \in [0..(n + 1) -> States] /\ on[n + 1] = r /\ \A i \in 0..n : on[i] = path[i]
  BY <1>4, <1>5, <1>6
<1>8. ASSUME NEW i \in 1..(n + 1)
      PROVE  Accepts(on[i - 1], more[i]) /\ on[i] = After(on[i - 1], more[i])
  <2>1. CASE i = n + 1
    <3>1. on[i - 1] = q /\ more[i] = e /\ on[i] = After(q, e)
      BY <1>3, <1>4, <1>6, <1>7, <2>1
    <3> QED  BY <3>1
  <2>2. CASE i # n + 1
    <3>1. i \in 1..n /\ i - 1 \in 0..n /\ i \in 0..n
      BY <2>2
    <3>2. on[i - 1] = path[i - 1] /\ on[i] = path[i] /\ more[i] = events[i]
      BY <1>3, <1>7, <3>1
    <3> QED  BY <1>6, <3>1, <3>2
  <2> QED  BY <2>1, <2>2
<1>9. on[0] = "CREATED"
  BY <1>6, <1>7
<1>10. LeadsThrough(more, on, r)
  BY <1>3, <1>7, <1>8, <1>9 DEF LeadsThrough
<1> QED  BY <1>2, <1>4, <1>10

\* An event applied to a session extends its log, and what the trace has of it stays.
LEMMA FireReplays ==
  ASSUME SessionTypes, Replayable, NEW s \in Sessions, NEW e \in Events, Accepts(state[s], e),
         Fire(s, e), trace' = trace
  PROVE  Replayable'
<1>1. /\ state' = [state EXCEPT ![s] = After(state[s], e)]
      /\ log' = [log EXCEPT ![s] = Append(@, e)]
      /\ state \in [Sessions -> States] /\ log \in [Sessions -> Seq(Events)]
  BY DEF Fire, SessionTypes
<1>2. /\ log'[s] = Append(log[s], e) /\ state'[s] = After(state[s], e)
      /\ \A t \in Sessions : t # s => log'[t] = log[t] /\ state'[t] = state[t]
  BY <1>1
<1>3. ASSUME NEW t \in Sessions PROVE Led(t)'
  <2>1. PICK path : LeadsThrough(log[t], path, state[t])
    BY DEF Replayable, Led
  <2>2. CASE t = s
    <3>1. log[s] \in Seq(Events)
      BY <1>1
    <3>2. \E on : LeadsThrough(Append(log[s], e), on, After(state[s], e))
      BY <2>1, <2>2, <3>1, LeadsOn
    <3> QED  BY <1>2, <2>2, <3>2 DEF Led
  <2>3. CASE t # s
    BY <1>2, <2>1, <2>3 DEF Led
  <2> QED  BY <2>2, <2>3
<1>4. ASSUME NEW t \in Sessions
      PROVE  /\ Len(log[t]) \in Nat /\ Len(log'[t]) \in Nat /\ Len(log[t]) <= Len(log'[t])
             /\ \A n \in 1..Len(log[t]) : log'[t][n] = log[t][n]
  <2>1. log[t] \in Seq(Events)
    BY <1>1
  <2>2. CASE t = s
    BY <1>2, <2>1, <2>2
  <2>3. CASE t # s
    BY <1>2, <2>1, <2>3
  <2> QED  BY <2>2, <2>3
<1>5. ASSUME NEW k \in DOMAIN trace PROVE trace[k].of \in Sessions /\ OfLog(trace[k])'
  <2>1. PICK x : x = trace[k]
    OBVIOUS
  <2>2. x.of \in Sessions /\ OfLog(x)
    BY <2>1 DEF Replayable
  <2>3. OfLog(x)'
    BY <1>4, <2>2 DEF OfLog
  <2> QED  BY <2>1, <2>2, <2>3
<1> QED  BY <1>3, <1>5 DEF Replayable

\* What is written to the trace are events of a log.
LEMMA WroteReplays ==
  ASSUME SessionTypes, SharedTypes, Replayable, NEW s \in Sessions, Wrote(s),
         UNCHANGED <<state, log>>
  PROVE  Replayable'
<1>1. PICK n \in Nat : \E indices \in [1..n -> 1..Len(log[s])] : trace' = trace \o Traced(s, indices)
  BY DEF Wrote
<1>2. PICK indices \in [1..n -> 1..Len(log[s])] : trace' = trace \o Traced(s, indices)
  BY <1>1
<1>3. PICK part : part = Traced(s, indices)
  OBVIOUS
<1>4. /\ part \in Seq(TraceRecords) /\ Len(part) = n
      /\ \A m \in 1..n : part[m] = [run |-> latest, seq |-> indices[m] - 1,
                                    event |-> log[s][indices[m]], of |-> s]
  <2>1. part \in Seq(TraceRecords)
    BY <1>2, <1>3, TracedType DEF Wrote
  <2> QED  BY <1>3, <2>1 DEF Traced
<1>5. ASSUME NEW m \in 1..n PROVE part[m].of \in Sessions /\ OfLog(part[m])
  <2>1. indices[m] \in 1..Len(log[s]) /\ Len(log[s]) \in Nat
    BY DEF SessionTypes
  <2>2. PICK x : x = part[m]
    OBVIOUS
  <2>3. x.of = s /\ x.seq = indices[m] - 1 /\ x.event = log[s][indices[m]]
    BY <1>4, <2>2
  <2> QED  BY <2>1, <2>2, <2>3 DEF OfLog
<1>6. PICK old : old = trace
  OBVIOUS
<1>7. PICK new : new = old \o part
  OBVIOUS
<1>8. old \in Seq(TraceRecords) /\ new = trace'
  BY <1>2, <1>3, <1>6, <1>7 DEF SharedTypes
<1>9. \A k \in DOMAIN new : \/ k \in DOMAIN old /\ new[k] = old[k]
                            \/ \E m \in 1..n : new[k] = part[m]
  <2>r. PICK R : R = TraceRecords
    OBVIOUS
  <2>s. old \in Seq(R) /\ part \in Seq(R) /\ Len(part) = n /\ new = old \o part
    BY <1>4, <1>7, <1>8, <2>r
  <2>1. Len(old) \in Nat /\ DOMAIN old = 1..Len(old) /\ DOMAIN new = 1..(Len(old) + n)
    BY <2>s
  <2> SUFFICES ASSUME NEW k \in DOMAIN new
               PROVE  \/ k \in DOMAIN old /\ new[k] = old[k]
                      \/ \E m \in 1..n : new[k] = part[m]
    OBVIOUS
  <2>2. CASE k <= Len(old)
    BY <2>1, <2>2, <2>s
  <2>3. CASE k > Len(old)
    <3>1. k - Len(old) \in 1..n /\ new[k] = part[k - Len(old)]
      BY <2>1, <2>3, <2>s
    <3> QED  BY <3>1
  <2> QED  BY <2>1, <2>2, <2>3
<1>10. ASSUME NEW k \in DOMAIN new PROVE new[k].of \in Sessions /\ OfLog(new[k])
  <2>1. CASE k \in DOMAIN old /\ new[k] = old[k]
    BY <1>6, <2>1 DEF Replayable
  <2>2. CASE \E m \in 1..n : new[k] = part[m]
    BY <1>5, <2>2
  <2> QED  BY <1>9, <2>1, <2>2
<1>11. ASSUME NEW x, OfLog(x) PROVE OfLog(x)'
  BY <1>11 DEF OfLog
<1>12. \A t \in Sessions : Led(t)'
  BY DEF Replayable, Led
<1> QED  BY <1>8, <1>10, <1>11, <1>12 DEF Replayable

LEMMA ReplayableStep == Inv /\ SharedTypes /\ Replayable /\ [Next]_vars => Replayable'
<1> SUFFICES ASSUME Inv, SharedTypes, Replayable, [Next]_vars PROVE Replayable'
  OBVIOUS
<1>1. SessionTypes
  BY DEF Inv
<1>2. CASE UNCHANGED <<state, log, trace>>
  BY <1>2 DEF Replayable, Led, OfLog
<1>3. ASSUME NEW s \in Sessions, ApplyEvent(s) PROVE Replayable'
  <2>1. PICK e \in CallerEvents : Accepts(state[s], e) /\ Fire(s, e)
    BY <1>3 DEF ApplyEvent
  <2>2. e \in Events /\ trace' = trace
    BY <1>3, SessionAssumptions DEF ApplyEvent
  <2> QED  BY <1>1, <2>1, <2>2, FireReplays
<1>4. ASSUME NEW s \in Sessions, Drive(s) PROVE Replayable'
  <2>1. trace' = trace
    BY <1>4 DEF Drive
  <2>2. CASE UNCHANGED <<state, log>>
    BY <1>2, <2>1, <2>2
  <2>3. CASE \E e \in Events : Accepts(state[s], e) /\ Fire(s, e)
    BY <1>1, <2>1, <2>3, FireReplays
  <2>4. \/ UNCHANGED <<state, log>>
        \/ \E e \in Events : Accepts(state[s], e) /\ Fire(s, e)
    <3>1. PICK e : /\ IF Accepts(state[s], e) THEN Fire(s, e) ELSE UNCHANGED <<state, log>>
      BY <1>4 DEF Drive
    <3>2. Accepts(state[s], e) => e \in Events
      BY DEF Accepts, Table, Events, Haltable, Halts, Notes
    <3> QED  BY <3>1, <3>2
  <2> QED  BY <2>2, <2>3, <2>4
<1>5. ASSUME NEW s \in Sessions, Archive(s) PROVE Replayable'
  BY <1>1, <1>5, ArchiveWrites, WroteReplays DEF Archive
<1>6. ASSUME NEW s \in Sessions, Persist(s) PROVE Replayable'
  <2>1. UNCHANGED <<state, log>>
    BY <1>6 DEF Persist
  <2> QED  BY <1>1, <1>2, <1>6, <2>1, PersistWrites, WroteReplays
<1>7. CASE \/ StartRun \/ UNCHANGED vars
           \/ \E s \in Sessions : Execute(s) \/ HandlerRaises(s) \/ Consume(s) \/ Record(s)
  BY <1>2, <1>7 DEF StartRun, Execute, HandlerRaises, Consume, Record, vars
<1> QED  BY <1>3, <1>4, <1>5, <1>6, <1>7 DEF Next, Submit

\* Replaying the events of a log leads where they led when they were applied.
LEMMA ReplayFollows ==
  ASSUME NEW events \in Seq(Events), NEW path, NEW q, LeadsThrough(events, path, q),
         NEW sorted, Len(sorted) = Len(events),
         \A n \in 1..Len(events) : sorted[n].event = events[n]
  PROVE  Replayed(sorted) = q
<1> DEFINE Follows(f) ==
      f = [n \in 0..Len(sorted) |->
             IF n = 0 THEN "CREATED"
             ELSE IF Accepts(f[n - 1], sorted[n].event) THEN After(f[n - 1], sorted[n].event)
                  ELSE f[n - 1]]
<1>1. PICK N \in Nat : N = Len(events)
  OBVIOUS
<1>2. /\ path \in [0..N -> States] /\ path[0] = "CREATED" /\ path[N] = q
      /\ \A n \in 1..N : Accepts(path[n - 1], events[n]) /\ path[n] = After(path[n - 1], events[n])
  BY <1>1 DEF LeadsThrough
<1>3. Follows(path)
  <2>1. \A n \in 0..N : n # 0 => n \in 1..N
    OBVIOUS
  <2>2. path = [n \in 0..N |-> IF n = 0 THEN "CREATED"
             ELSE IF Accepts(path[n - 1], sorted[n].event) THEN After(path[n - 1], sorted[n].event)
                  ELSE path[n - 1]]
    BY <1>1, <1>2, <2>1
  <2> QED  BY <1>1, <2>2
<1>4. PICK at : at = CHOOSE f : Follows(f)
  OBVIOUS
<1>5. Follows(at)
  <2> HIDE DEF Follows
  <2> QED  BY <1>3, <1>4
<1>6. at[N] = path[N]
  <2> SUFFICES ASSUME at[N] # path[N] PROVE FALSE
    OBVIOUS
  <2> DEFINE Differ == {n \in 0..N : at[n] # path[n]}
  <2>1. PICK n \in Differ : \A m \in Differ : n <= m
    <3>1. N \in Differ /\ Differ \subseteq Nat
      OBVIOUS
    <3> HIDE DEF Differ
    <3> QED  BY <3>1, Least
  <2>2. at[0] = "CREATED"
    BY <1>1, <1>5
  <2>3. n \in 1..N
    BY <1>2, <2>2
  <2>4. n - 1 \in 0..N /\ n - 1 \notin Differ
    BY <2>1, <2>3
  <2>5. at[n - 1] = path[n - 1]
    BY <2>4
  <2>6. at[n] = IF Accepts(at[n - 1], sorted[n].event) THEN After(at[n - 1], sorted[n].event)
                ELSE at[n - 1]
    BY <1>1, <1>5, <2>3
  <2>7. at[n] = path[n]
    BY <1>1, <1>2, <2>3, <2>5, <2>6
  <2> QED  BY <2>1, <2>7
<1>7. Replayed(sorted) = at[Len(sorted)]
  BY <1>4 DEF Replayed
<1> QED  BY <1>1, <1>2, <1>6, <1>7

Complete(s, run) ==
  /\ Cardinality(OfRun(run)) = Len(log[s])
  /\ \A n \in DOMAIN log[s] : \E k \in OfRun(run) : trace[k].of = s /\ trace[k].seq = n - 1

\* Sorting a trace that holds every event once puts them in the order they were applied.
LEMMA CompleteIsSorted ==
  ASSUME SessionTypes, SharedTypes, Replayable, NEW s \in Sessions, NEW run, Complete(s, run)
  PROVE  /\ Len(BySeq(OfRun(run))) = Len(log[s])
         /\ \A n \in 1..Len(log[s]) : BySeq(OfRun(run))[n].event = log[s][n]
<1>1. PICK places : places = OfRun(run)
  OBVIOUS
<1>2. PICK N \in Nat : N = Len(log[s]) /\ DOMAIN log[s] = 1..N
  BY DEF SessionTypes
<1>3. places \subseteq DOMAIN trace /\ places \subseteq Nat /\ IsFiniteSet(places)
  <2>1. Len(trace) \in Nat /\ DOMAIN trace = 1..Len(trace)
    BY DEF SharedTypes
  <2>2. places \subseteq 1..Len(trace)
    BY <1>1, <2>1 DEF OfRun
  <2>3. IsFiniteSet(1..Len(trace))
    BY <2>1, FS_Interval
  <2>4. IsFiniteSet(places)
    BY <2>2, <2>3, FS_Subset
  <2> QED  BY <2>1, <2>2, <2>4
<1>4. Cardinality(places) = N
  BY <1>1, <1>2 DEF Complete
<1>5. PICK g : g = [n \in 1..N |-> CHOOSE k \in places : trace[k].of = s /\ trace[k].seq = n - 1]
  OBVIOUS
<1>6. ASSUME NEW n \in 1..N PROVE g[n] \in places /\ trace[g[n]].of = s /\ trace[g[n]].seq = n - 1
  <2>1. \E k \in places : trace[k].of = s /\ trace[k].seq = n - 1
    BY <1>1, <1>2 DEF Complete
  <2> QED  BY <1>5, <2>1
<1>7. g \in [1..N -> places]
  BY <1>5, <1>6
<1>8. \A k \in places : \E n \in 1..N : k = g[n]
  <2>1. g \in Injection(1..N, places)
    <3>1. \A m, n \in 1..N : g[m] = g[n] => m = n
      BY <1>6
    <3> QED  BY <1>7, <3>1 DEF Injection, IsInjective
  <2>2. Cardinality(1..N) = N
    BY FS_Interval
  <2>3. Cardinality(1..N) = Cardinality(places) <=> g \in Surjection(1..N, places)
    BY <1>3, <2>1, FS_Injection
  <2> QED  BY <1>4, <2>2, <2>3 DEF Surjection
<1>9. \A m, n \in 1..N : Precedes(g[m], g[n]) <=> m < n
  <2> SUFFICES ASSUME NEW m \in 1..N, NEW n \in 1..N PROVE Precedes(g[m], g[n]) <=> m < n
    OBVIOUS
  <2>1. trace[g[m]].seq = m - 1 /\ trace[g[n]].seq = n - 1
    BY <1>6
  <2>2. m = n => ~(g[m] < g[n])
    BY <1>3, <1>7
  <2> QED  BY <2>1, <2>2 DEF Precedes
<1>10. ASSUME NEW n \in 1..N
       PROVE  Cardinality({j \in places : Precedes(j, g[n])}) = n - 1
  <2>1. PICK before : before = {j \in places : Precedes(j, g[n])}
    OBVIOUS
  <2>2. PICK c \in Nat : c = n - 1
    OBVIOUS
  <2>3. PICK f : f = [m \in 1..c |-> g[m]]
    OBVIOUS
  <2>4. \A m \in 1..c : m \in 1..N /\ m < n
    BY <2>2
  <2>5. f \in [1..c -> before]
    BY <1>7, <1>9, <2>1, <2>3, <2>4
  <2>6. \A k, m \in 1..c : f[k] = f[m] => k = m
    BY <1>6, <2>3, <2>4
  <2>7. \A j \in before : \E m \in 1..c : f[m] = j
    <3> SUFFICES ASSUME NEW j \in before PROVE \E m \in 1..c : f[m] = j
      OBVIOUS
    <3>1. PICK m \in 1..N : j = g[m]
      BY <1>8, <2>1
    <3>2. m < n
      BY <1>9, <2>1, <3>1
    <3>3. m \in 1..c
      BY <2>2, <3>2
    <3> QED  BY <2>3, <3>1, <3>3
  <2>8. f \in Injection(1..c, before) /\ f \in Surjection(1..c, before)
    BY <2>5, <2>6, <2>7 DEF Injection, IsInjective, Surjection
  <2>9. IsFiniteSet(before)
    BY <1>3, <2>1, FS_Subset
  <2>10. Cardinality(1..c) = Cardinality(before)
    BY <2>8, <2>9, FS_Injection
  <2>11. Cardinality(1..c) = c
    <3>1. Cardinality(1..c) = IF 1 > c THEN 0 ELSE c - 1 + 1
      BY FS_Interval
    <3> QED  BY <3>1
  <2> QED  BY <2>1, <2>2, <2>10, <2>11
<1>11. ASSUME NEW n \in 1..N
       PROVE  (CHOOSE k \in places : Cardinality({j \in places : Precedes(j, k)}) = n - 1) = g[n]
  <2>1. g[n] \in places /\ Cardinality({j \in places : Precedes(j, g[n])}) = n - 1
    BY <1>7, <1>10
  <2>2. ASSUME NEW k \in places, Cardinality({j \in places : Precedes(j, k)}) = n - 1
        PROVE  k = g[n]
    <3>1. PICK m \in 1..N : k = g[m]
      BY <1>8
    <3>2. Cardinality({j \in places : Precedes(j, g[m])}) = m - 1
      BY <1>10
    <3>3. m - 1 = n - 1
      BY <2>2, <3>1, <3>2
    <3> QED  BY <3>1, <3>3
  <2> QED  BY <2>1, <2>2
<1>12. ASSUME NEW n \in 1..N
       PROVE  trace[g[n]] \in TraceRecords /\ trace[g[n]].event = log[s][n]
  <2>1. g[n] \in DOMAIN trace
    BY <1>3, <1>7
  <2>2. PICK x : x = trace[g[n]]
    OBVIOUS
  <2>3. x \in TraceRecords
    BY <2>1, <2>2 DEF SharedTypes
  <2>4. OfLog(x) /\ x.of = s /\ x.seq = n - 1
    BY <1>6, <2>1, <2>2 DEF Replayable
  <2>5. x.event = log[s][n]
    BY <2>4 DEF OfLog
  <2> QED  BY <2>2, <2>3, <2>5
<1>13. PICK sorted : sorted = BySeq(places)
  OBVIOUS
<1>14. sorted = [n \in 1..N |-> trace[g[n]]]
  <2> DEFINE At(n) == CHOOSE k \in places : Cardinality({j \in places : Precedes(j, k)}) = n - 1
  <2>1. sorted = [n \in 1..N |-> trace[At(n)]]
    BY <1>4, <1>13 DEF BySeq
  <2>2. \A n \in 1..N : At(n) = g[n]
    BY <1>11
  <2> HIDE DEF At
  <2> QED  BY <2>1, <2>2
<1>15. sorted \in [1..N -> TraceRecords]
  BY <1>12, <1>14
<1>16. Len(sorted) = N /\ \A n \in 1..N : sorted[n] = trace[g[n]]
  <2>1. PICK R : R = TraceRecords
    OBVIOUS
  <2>2. sorted \in [1..N -> R]
    BY <1>15, <2>1
  <2> QED  BY <1>14, <2>2
<1> QED  BY <1>1, <1>2, <1>12, <1>13, <1>16

\* A trace that holds every event of a session once, and nothing else, replays to the
\* session's state, in whatever order submits and the caller wrote it
\* (AliTraceBridge.persist_session_events, _ordered_records, replay_events).
THEOREM CompleteTracesReplay == Spec => []CompleteTraceReplays
<1>1. Init => SharedTypes /\ Replayable
  <2> SUFFICES ASSUME Init PROVE SharedTypes /\ Replayable
    OBVIOUS
  <2>1. SharedTypes
    BY SessionAssumptions DEF Init, SharedTypes, Stage, NoJob, NewJob
  <2>2. ASSUME NEW s \in Sessions PROVE Led(s)
    <3>1. log[s] = <<>> /\ state[s] = "CREATED"
      BY DEF Init
    <3>2. PICK path : path = [n \in 0..0 |-> "CREATED"]
      OBVIOUS
    <3>3. LeadsThrough(log[s], path, state[s])
      BY <3>1, <3>2 DEF LeadsThrough, States
    <3> QED  BY <3>3 DEF Led
  <2>3. trace = <<>>
    BY DEF Init
  <2> QED  BY <2>1, <2>2, <2>3 DEF Replayable
<1>2. Inv /\ SharedTypes /\ Replayable => CompleteTraceReplays
  <2> SUFFICES ASSUME Inv, SharedTypes, Replayable, NEW s \in Sessions, NEW run \in 1..MaxRuns,
                      Complete(s, run)
               PROVE  Replay(run) = state[s]
    BY DEF CompleteTraceReplays, Complete
  <2>1. SessionTypes /\ log[s] \in Seq(Events)
    BY DEF Inv, SessionTypes
  <2>2. PICK path : LeadsThrough(log[s], path, state[s])
    BY DEF Replayable, Led
  <2>3. PICK sorted : sorted = BySeq(OfRun(run))
    OBVIOUS
  <2>4. Len(sorted) = Len(log[s]) /\ \A n \in 1..Len(log[s]) : sorted[n].event = log[s][n]
    BY <2>1, <2>3, CompleteIsSorted
  <2>5. Replayed(sorted) = state[s]
    BY <2>1, <2>2, <2>4, ReplayFollows
  <2> QED  BY <2>3, <2>5 DEF Replay
<1> QED  BY <1>1, <1>2, SharedStep, ReplayableStep, SessionInvariant, PTL DEF Spec

=============================================================================
