----------------------------- MODULE OuterLoop -----------------------------
(***************************************************************************)
(* The outer loop: tasks, worktrees and reviews, driven from the command   *)
(* line.                                                                   *)
(*                                                                         *)
(* Every command is a process of its own over three JSON files.  A save    *)
(* lists a file, truncates it and writes all its rows back: there is no    *)
(* lock, so processes may lose each other's rows, read a truncated file as *)
(* an empty one, or leave a file no later command can parse.  A command    *)
(* may die at any point.  Git is outside src: a task's worktree has one    *)
(* path and one branch, adding it needs both to be free, and removing it   *)
(* keeps the branch.                                                       *)
(*                                                                         *)
(* overlaps counts the commands started while another one was running: as  *)
(* long as it is zero, commands have been run one at a time.               *)
(***************************************************************************)
EXTENDS Integers, Sequences, FiniteSets

CONSTANTS
  Procs,        \* command processes
  Tasks,        \* the identifiers of tasks that may be created
  CodeTasks,    \* those that require a worktree (and so are of high risk)
  LockSets,     \* the locked_paths a plan may ask for
  RoleSets,     \* the producer, verifier and reviewer a review may be started with
  Nothing,      \* no record, no identifier, no name
  MaxWorktrees, \* bound on the worktree records planned
  MaxReviews,   \* bound on the reviews started
  MaxOverlaps,  \* bound on the commands started while another one is running
  MaxCrashes    \* bound on the processes that die

Roles == [producer : STRING, verifier : STRING, reviewer : STRING]

ASSUME OuterAssumptions ==
  /\ CodeTasks \subseteq Tasks
  /\ \A locks \in LockSets : locks # {}
  /\ RoleSets \subseteq Roles
  /\ \A roles \in RoleSets : roles.reviewer # Nothing
  /\ MaxWorktrees \in Nat
  /\ MaxReviews \in Nat
  /\ MaxOverlaps \in Nat
  /\ MaxCrashes \in Nat

VARIABLES
  file,     \* file[f]: the records of f, by identifier; none while f is truncated
  garbled,  \* files whose text is not JSON
  job,      \* job[p]: what process p has read and still has to write
  trees,    \* tasks whose worktree exists
  branches, \* tasks whose branch exists
  lapsed,   \* worktree records whose lease has run out
  drawn,    \* identifiers handed out: worktrees, reviews
  overlaps, \* commands started while another one was running
  history   \* what has happened, for the properties only

vars == <<file, garbled, job, trees, branches, lapsed, drawn, overlaps, history>>

Files == {"tasks", "worktrees", "reviews"}

WorktreeIds == 1..MaxWorktrees
ReviewIds == 1..MaxReviews

TaskRecords == [status : {"pending", "ready"},
                worktree : WorktreeIds \union {Nothing},
                review : ReviewIds \union {Nothing}]

WorktreeRecords == [task : Tasks, locks : LockSets,
                    status : {"planned", "active", "stale", "cleaned", "conflict"}]

ReviewRecords == [task : Tasks, roles : RoleSets, high : BOOLEAN, noted : BOOLEAN,
                  status : {"in_review", "approved", "rejected"},
                  approvedBy : {roles.reviewer : roles \in RoleSets} \union {Nothing}]

Stages == {"idle", "plan", "expire", "add", "remove", "confirm", "list", "truncate", "fill"}

NoJob == [at |-> "idle", id |-> Nothing, rec |-> Nothing, writes |-> <<>>,
          rest |-> <<>>, rows |-> <<>>]

Write(f, i, r) == [to |-> f, id |-> i, rec |-> r]

Writes == [to : {"tasks"}, id : Tasks, rec : TaskRecords]
          \union [to : {"worktrees"}, id : WorktreeIds, rec : WorktreeRecords]
          \union [to : {"reviews"}, id : ReviewIds, rec : ReviewRecords]

Histories == [created : SUBSET Tasks, planned : SUBSET Tasks, verified : SUBSET ReviewIds,
              torn : SUBSET Files, crashes : Nat,
              saved : [Files -> SUBSET (Tasks \union WorktreeIds \union ReviewIds)]]

Init ==
  /\ file = [f \in Files |-> <<>>]
  /\ garbled = {}
  /\ job = [p \in Procs |-> NoJob]
  /\ trees = {}
  /\ branches = {}
  /\ lapsed = {}
  /\ drawn = [worktrees |-> 0, reviews |-> 0]
  /\ overlaps = 0
  /\ history = [created |-> {}, planned |-> {}, verified |-> {}, torn |-> {}, crashes |-> 0,
                saved |-> [f \in Files |-> {}]]

-----------------------------------------------------------------------------
(* What every command is made of. *)

\* p starts its next command.
Starts(p) ==
  /\ job[p].at = "idle"
  /\ overlaps' = IF \A q \in Procs : job[q].at = "idle" THEN overlaps ELSE overlaps + 1
  /\ overlaps' <= MaxOverlaps

\* Loading record i of file f: no other file, no lock, KeyError when it is absent.
Loads(f, i) == f \notin garbled /\ i \in DOMAIN file[f]

\* From here on p only saves, one record after the other.
Saves(p, writes) == job' = [job EXCEPT ![p].at = "list", ![p].writes = writes]

Quits(p) == job' = [job EXCEPT ![p] = NoJob]

Records == <<file, garbled>>
Git == <<trees, branches>>
Rest == <<lapsed, drawn>>

-----------------------------------------------------------------------------
(* Tasks and triggers. *)

\* tasks create and triggers fire: a new record, nothing read before the save.
Create(p, t) ==
  /\ Starts(p)
  /\ t \notin history.created
  /\ Saves(p, <<Write("tasks", t, [status |-> "pending", worktree |-> Nothing,
                                   review |-> Nothing])>>)
  /\ history' = [history EXCEPT !.created = @ \union {t}]
  /\ UNCHANGED <<Records, Git, Rest>>

\* tasks todo and tasks done: todos are left out, the whole record is rewritten.
EditTodos(p, t) ==
  /\ Starts(p)
  /\ Loads("tasks", t)
  /\ Saves(p, <<Write("tasks", t, file["tasks"][t])>>)
  /\ UNCHANGED <<Records, Git, Rest, history>>

-----------------------------------------------------------------------------
(* Worktrees. *)

\* worktrees plan reads the task first, the other worktrees afterwards.
Plan(p, t) ==
  /\ Starts(p)
  /\ Loads("tasks", t)
  /\ t \in CodeTasks
  /\ job' = [job EXCEPT ![p].at = "plan", ![p].id = t, ![p].rec = file["tasks"][t]]
  /\ UNCHANGED <<Records, Git, Rest, history>>

\* Mutant: only materialised worktrees are in the way.
ConflictsActive(t, locks) ==
  {w \in DOMAIN file["worktrees"] \ lapsed :
     LET other == file["worktrees"][w] IN
     /\ other.status = "active"
     /\ other.task = t \/ other.locks \intersect locks # {}}

\* A record that has not lapsed and is neither stale nor cleaned is in the way of
\* every plan for its task (its path) and of every plan for one of its locks.
Conflicts(t, locks) ==
  {w \in DOMAIN file["worktrees"] \ lapsed :
     LET other == file["worktrees"][w] IN
     /\ other.status \notin {"cleaned", "stale"}
     /\ other.task = t \/ other.locks \intersect locks # {}}

\* Mutant: the task is saved first.
PlanWritesTaskFirst(t, task, w, record) ==
  IF record.status = "planned"
  THEN <<Write("tasks", t, [task EXCEPT !.worktree = w, !.status = "ready"]),
         Write("worktrees", w, record)>>
  ELSE <<Write("worktrees", w, record)>>

\* The worktree is saved before the task that points to it.
PlanWrites(t, task, w, record) ==
  IF record.status = "planned"
  THEN <<Write("worktrees", w, record),
         Write("tasks", t, [task EXCEPT !.worktree = w, !.status = "ready"])>>
  ELSE <<Write("worktrees", w, record)>>

PlanWorktree(p, locks) ==
  LET t == job[p].id
      w == drawn.worktrees + 1
      record == [task |-> t, locks |-> locks,
                 status |-> IF Conflicts(t, locks) = {} THEN "planned" ELSE "conflict"]
  IN
  /\ job[p].at = "plan"
  /\ "worktrees" \notin garbled
  /\ w \in WorktreeIds
  /\ drawn' = [drawn EXCEPT !.worktrees = w]
  /\ Saves(p, PlanWrites(t, job[p].rec, w, record))
  /\ history' = [history EXCEPT !.planned = IF record.status = "planned"
                                            THEN @ \union {t} ELSE @]
  /\ UNCHANGED <<Records, Git, lapsed, overlaps>>

MarkStale(p, w) ==
  /\ Starts(p)
  /\ Loads("worktrees", w)
  /\ Saves(p, <<Write("worktrees", w, [file["worktrees"][w] EXCEPT !.status = "stale"])>>)
  /\ UNCHANGED <<Records, Git, Rest, history>>

\* The identifiers in the order of their creation: there is just one such listing.
Listings ==
  LET ids == DOMAIN file["worktrees"] IN
  {listed \in [1..Cardinality(ids) -> ids] :
     \A i, j \in DOMAIN listed : i < j => listed[i] < listed[j]}

\* worktrees expire works through the records it listed, looking at the clock anew
\* and saving the copy it listed for each one that has lapsed.
ExpireLeases(p) ==
  /\ Starts(p)
  /\ "worktrees" \notin garbled
  /\ DOMAIN file["worktrees"] # {}
  /\ \E listed \in Listings :
       job' = [job EXCEPT ![p].at = "expire",
                 ![p].rest = [i \in DOMAIN listed |->
                   Write("worktrees", listed[i], file["worktrees"][listed[i]])]]
  /\ UNCHANGED <<Records, Git, Rest, history>>

Expires(listed) == listed.rec.status \in {"planned", "active"} /\ listed.id \in lapsed

ExpireNext(p) ==
  LET listed == Head(job[p].rest)
      left == Tail(job[p].rest)
  IN
  /\ job[p].at = "expire"
  /\ job' = [job EXCEPT ![p] =
       IF Expires(listed)
       THEN [@ EXCEPT !.at = "list", !.rest = left,
                      !.writes = <<[listed EXCEPT !.rec.status = "stale"]>>]
       ELSE IF left = <<>> THEN NoJob ELSE [@ EXCEPT !.rest = left]]
  /\ UNCHANGED <<Records, Git, Rest, overlaps, history>>

Materialize(p, w) ==
  /\ Starts(p)
  /\ Loads("worktrees", w)
  /\ file["worktrees"][w].status \notin {"conflict", "cleaned", "stale"}
  /\ job' = [job EXCEPT ![p].at = "add", ![p].id = w, ![p].rec = file["worktrees"][w]]
  /\ UNCHANGED <<Records, Git, Rest, history>>

\* git worktree add, then the copy loaded before it is saved as active.  A refusal,
\* an error or a timeout may leave the branch, or even the tree, behind.
GitAdd(p) ==
  LET t == job[p].rec.task IN
  /\ job[p].at = "add"
  /\ \/ /\ t \notin branches \union trees
        /\ trees' = trees \union {t}
        /\ branches' = branches \union {t}
        /\ Saves(p, <<Write("worktrees", job[p].id, [job[p].rec EXCEPT !.status = "active"])>>)
     \/ /\ t \notin branches \union trees
        /\ \E made \in {trees, trees \union {t}} : trees' = made
        /\ branches' = branches \union {t}
        /\ Quits(p)
     \/ Quits(p) /\ UNCHANGED Git
  /\ UNCHANGED <<Records, Rest, overlaps, history>>

Cleanup(p, w) ==
  /\ Starts(p)
  /\ Loads("worktrees", w)
  /\ file["worktrees"][w].status \in {"stale", "active"}
  /\ job' = [job EXCEPT ![p].at = "remove", ![p].id = w, ![p].rec = file["worktrees"][w]]
  /\ UNCHANGED <<Records, Git, Rest, history>>

\* Mutant: the record is marked whatever the command reported.
GitRemoveUnchecked(p) ==
  LET t == job[p].rec.task IN
  /\ job[p].at = "remove"
  /\ trees' \in {trees, trees \ {t}}
  /\ job' = [job EXCEPT ![p].at = "confirm"]
  /\ UNCHANGED <<Records, branches, Rest, overlaps, history>>

\* git worktree remove: only its success leads to mark_cleaned, but a timeout may
\* have removed the tree as well.
GitRemove(p) ==
  LET t == job[p].rec.task IN
  /\ job[p].at = "remove"
  /\ \/ /\ t \in trees
        /\ trees' = trees \ {t}
        /\ job' = [job EXCEPT ![p].at = "confirm"]
     \/ /\ t \in trees
        /\ trees' = trees \ {t}
        /\ Quits(p)
     \/ Quits(p) /\ UNCHANGED trees
  /\ UNCHANGED <<Records, branches, Rest, overlaps, history>>

\* mark_cleaned loads the record again and refuses when its status has changed.
MarkCleaned(p) ==
  LET w == job[p].id IN
  /\ job[p].at = "confirm"
  /\ IF Loads("worktrees", w) /\ file["worktrees"][w].status \in {"stale", "active"}
     THEN Saves(p, <<Write("worktrees", w,
                           [file["worktrees"][w] EXCEPT !.status = "cleaned"])>>)
     ELSE Quits(p)
  /\ UNCHANGED <<Records, Git, Rest, overlaps, history>>

\* Time passes: the lease of a worktree runs out.
Lapse(w) ==
  /\ w \in 1..drawn.worktrees \ lapsed
  /\ lapsed' = lapsed \union {w}
  /\ UNCHANGED <<Records, Git, job, drawn, overlaps, history>>

-----------------------------------------------------------------------------
(* Reviews. *)

Distinct(roles) == Cardinality({roles.producer, roles.verifier, roles.reviewer}) = 3

\* Mutant: a review does not wait for a worktree.
MayStartUnplanned(t, task, roles) == t \in CodeTasks => Distinct(roles)

\* ReviewCoordinator.start: code changes need a planned worktree and three people.
MayStart(t, task, roles) ==
  t \in CodeTasks => task.worktree # Nothing /\ Distinct(roles)

\* review start saves the review, then the task as it was loaded before that.
StartReview(p, t, roles) ==
  LET task == file["tasks"][t]
      r == drawn.reviews + 1
  IN
  /\ Starts(p)
  /\ Loads("tasks", t)
  /\ MayStart(t, task, roles)
  /\ r \in ReviewIds
  /\ drawn' = [drawn EXCEPT !.reviews = r]
  /\ Saves(p, <<Write("reviews", r,
                      [task |-> t, roles |-> roles, high |-> t \in CodeTasks,
                       noted |-> FALSE, status |-> "in_review", approvedBy |-> Nothing]),
                Write("tasks", t, [task EXCEPT !.review = r])>>)
  /\ UNCHANGED <<Records, Git, lapsed, history>>

\* Only the verifier named by the review gets past the check on the actor.
Verify(p, r) ==
  /\ Starts(p)
  /\ Loads("reviews", r)
  /\ Saves(p, <<Write("reviews", r, [file["reviews"][r] EXCEPT !.noted = TRUE])>>)
  /\ history' = [history EXCEPT !.verified = @ \union {r}]
  /\ UNCHANGED <<Records, Git, Rest>>

\* Mutant: the reviewer's word is enough.
MayApproveUnnoted(review) ==
  LET actor == review.roles.reviewer IN
  review.high => actor \notin {review.roles.producer, review.roles.verifier}

MayApprove(review) ==
  LET actor == review.roles.reviewer IN
  review.high => /\ actor \notin {review.roles.producer, review.roles.verifier}
                 /\ review.noted

\* Neither approve nor reject looks at the status the review has.
Approve(p, r) ==
  LET review == file["reviews"][r] IN
  /\ Starts(p)
  /\ Loads("reviews", r)
  /\ MayApprove(review)
  /\ Saves(p, <<Write("reviews", r, [review EXCEPT !.status = "approved",
                                                   !.approvedBy = review.roles.reviewer])>>)
  /\ UNCHANGED <<Records, Git, Rest, history>>

Reject(p, r) ==
  /\ Starts(p)
  /\ Loads("reviews", r)
  /\ Saves(p, <<Write("reviews", r, [file["reviews"][r] EXCEPT !.status = "rejected"])>>)
  /\ UNCHANGED <<Records, Git, Rest, history>>

-----------------------------------------------------------------------------
(* Saving a record: list, truncate, write. *)

\* Mutant: the file is written back with the saved record alone.
MergedAlone(rows, w) == [i \in {w.id} |-> w.rec]

Merged(rows, w) ==
  [i \in DOMAIN rows \union {w.id} |-> IF i = w.id THEN w.rec ELSE rows[i]]

List(p) ==
  LET w == Head(job[p].writes) IN
  /\ job[p].at = "list"
  /\ IF w.to \in garbled
     THEN Quits(p)
     ELSE job' = [job EXCEPT ![p].at = "truncate", ![p].rows = Merged(file[w.to], w)]
  /\ UNCHANGED <<Records, Git, Rest, overlaps, history>>

Truncate(p) ==
  LET f == Head(job[p].writes).to IN
  /\ job[p].at = "truncate"
  /\ file' = [file EXCEPT ![f] = <<>>]
  /\ garbled' = garbled \ {f}
  /\ job' = [job EXCEPT ![p].at = "fill"]
  /\ UNCHANGED <<Git, Rest, overlaps, history>>

\* Mutant: one write too many.
AfterWriteOnceMore(j) ==
  IF Len(j.writes) > 0 THEN [j EXCEPT !.at = "list", !.writes = Tail(@), !.rows = <<>>]
  ELSE IF j.rest # <<>> THEN [j EXCEPT !.at = "expire", !.writes = <<>>, !.rows = <<>>]
  ELSE NoJob

AfterWrite(j) ==
  IF Len(j.writes) > 1 THEN [j EXCEPT !.at = "list", !.writes = Tail(@), !.rows = <<>>]
  ELSE IF j.rest # <<>> THEN [j EXCEPT !.at = "expire", !.writes = <<>>, !.rows = <<>>]
  ELSE NoJob

\* Over rows another process has written since, shorter text leaves the end of the
\* longer one behind it: the file no longer parses.
Fill(p) ==
  LET w == Head(job[p].writes) IN
  /\ job[p].at = "fill"
  /\ \/ /\ file' = [file EXCEPT ![w.to] = job[p].rows]
        /\ garbled' = garbled \ {w.to}
     \/ /\ DOMAIN file[w.to] # {} \/ w.to \in garbled
        /\ file' = [file EXCEPT ![w.to] = <<>>]
        /\ garbled' = garbled \union {w.to}
  /\ job' = [job EXCEPT ![p] = AfterWrite(@)]
  /\ history' = [history EXCEPT !.saved[w.to] = @ \union {w.id}]
  /\ UNCHANGED <<Git, Rest, overlaps>>

\* The process dies; in the middle of a write it leaves the file empty.
Crash(p) ==
  /\ job[p].at # "idle"
  /\ history.crashes < MaxCrashes
  /\ Quits(p)
  /\ history' = [history EXCEPT !.crashes = @ + 1,
                               !.torn = IF job[p].at = "fill"
                                         THEN @ \union {Head(job[p].writes).to} ELSE @]
  /\ UNCHANGED <<Records, Git, Rest, overlaps>>

-----------------------------------------------------------------------------

Step(p) ==
  \/ \E t \in Tasks :
       \/ Create(p, t) \/ EditTodos(p, t) \/ Plan(p, t)
       \/ \E roles \in RoleSets : StartReview(p, t, roles)
  \/ \E w \in WorktreeIds : MarkStale(p, w) \/ Materialize(p, w) \/ Cleanup(p, w)
  \/ \E locks \in LockSets : PlanWorktree(p, locks)
  \/ ExpireLeases(p) \/ ExpireNext(p) \/ GitAdd(p) \/ GitRemove(p) \/ MarkCleaned(p)
  \/ \E r \in ReviewIds : Verify(p, r) \/ Approve(p, r) \/ Reject(p, r)
  \/ List(p) \/ Truncate(p) \/ Fill(p) \/ Crash(p)

Next == (\E p \in Procs : Step(p)) \/ (\E w \in WorktreeIds : Lapse(w))

Spec == Init /\ [][Next]_vars

-----------------------------------------------------------------------------
(* Properties. *)

\* The files hold well-formed records and every process is somewhere in a command;
\* an empty or unreadable file is no record at all (TaskStore, WorktreeStore,
\* ReviewStore and the models they validate).
TypeOK ==
  /\ \A t \in DOMAIN file["tasks"] : t \in Tasks /\ file["tasks"][t] \in TaskRecords
  /\ \A w \in DOMAIN file["worktrees"] :
       w \in WorktreeIds /\ file["worktrees"][w] \in WorktreeRecords
  /\ \A r \in DOMAIN file["reviews"] :
       r \in ReviewIds /\ file["reviews"][r] \in ReviewRecords
  /\ garbled \subseteq Files /\ \A f \in garbled : DOMAIN file[f] = {}
  /\ \A p \in Procs :
       /\ job[p].at \in Stages
       /\ job[p].writes \in Seq(Writes)
       /\ job[p].rest \in Seq([to : {"worktrees"}, id : WorktreeIds, rec : WorktreeRecords])
       /\ (job[p].at \in {"list", "truncate", "fill"}) = (job[p].writes # <<>>)
       /\ job[p].at = "expire" => job[p].rest # <<>>
  /\ trees \subseteq branches /\ branches \subseteq Tasks
  /\ drawn \in [worktrees : 0..MaxWorktrees, reviews : 0..MaxReviews]
  /\ lapsed \subseteq 1..drawn.worktrees
  /\ history \in Histories

\* No writer is between truncating a file and writing it.
Settled == \A p \in Procs : job[p].at # "fill"

\* One command at a time so far, and none died while it had f truncated.
Intact(f) == overlaps = 0 /\ f \notin history.torn /\ Settled

\* Run one at a time, commands never lose a record that was saved: each save writes
\* back everything it listed, whatever was saved for other tasks in between
\* (TaskStore.save, WorktreeStore.save, ReviewStore.save).
NothingSavedIsLost == \A f \in Files : Intact(f) => history.saved[f] \subseteq DOMAIN file[f]

\* A task points to a worktree that was planned for it and to a review of it, even
\* when the process died between its two saves (worktrees plan, review start).
LinksResolve ==
  \A t \in DOMAIN file["tasks"] :
    LET task == file["tasks"][t] IN
    /\ Intact("worktrees") /\ task.worktree # Nothing =>
         /\ task.worktree \in DOMAIN file["worktrees"]
         /\ file["worktrees"][task.worktree].task = t
         /\ file["worktrees"][task.worktree].status # "conflict"
    /\ Intact("reviews") /\ task.review # Nothing =>
         /\ task.review \in DOMAIN file["reviews"]
         /\ file["reviews"][task.review].task = t

Leases ==
  {w \in DOMAIN file["worktrees"] \ lapsed :
     file["worktrees"][w].status \in {"planned", "active"}}

\* Two leases that are running at the same time are for different tasks and share no
\* locked path, through planning, expiry, replanning, materialisation and cleanup
\* (WorktreeManager.plan_for_task, detect_conflicts).
LeasesExclusive ==
  Intact("worktrees") =>
    \A v, w \in Leases :
      v # w => /\ file["worktrees"][v].task # file["worktrees"][w].task
               /\ file["worktrees"][v].locks \intersect file["worktrees"][w].locks = {}

\* A record is marked cleaned only when its worktree is gone for good, in spite of
\* timeouts, of second records for the same task and of concurrent commands
\* (worktrees cleanup, mark_cleaned).
CleanedIsGone ==
  \A w \in DOMAIN file["worktrees"] :
    file["worktrees"][w].status = "cleaned" => file["worktrees"][w].task \notin trees

\* A code change is approved only after its verifier left a note, and by someone who
\* neither produced nor verified it, whatever commands overwrite each other's copy of
\* the review (ReviewCoordinator.start, verify, approve; docs/outer-loop-engineering.md).
ApprovedWasVerified ==
  \A r \in DOMAIN file["reviews"] :
    LET review == file["reviews"][r] IN
    review.status = "approved" /\ review.task \in CodeTasks =>
      /\ r \in history.verified
      /\ review.approvedBy # Nothing
      /\ review.approvedBy \notin {review.roles.producer, review.roles.verifier}

\* A code change is under review only if a worktree was planned for it, whatever
\* became of the files in the meantime (ReviewCoordinator.start, worktrees plan).
ReviewedWasPlanned ==
  \A r \in DOMAIN file["reviews"] :
    file["reviews"][r].task \in CodeTasks => file["reviews"][r].task \in history.planned

-----------------------------------------------------------------------------
(* What the three stores promise together. *)

\* The records of f: while somebody writes them, those being written.
Table(f) ==
  LET writers == {p \in Procs : job[p].at = "fill" /\ Head(job[p].writes).to = f}
  IN IF writers = {} THEN file[f] ELSE job[CHOOSE p \in writers : TRUE].rows

Book == INSTANCE RecordBook WITH book <- [f \in Files |-> Table(f)], torn <- history.torn

\* Run one at a time, commands work on three tables whose records change one by one, each
\* into a legal next version of the one that is there: loading, asking git, listing,
\* truncating and writing back lose nothing and use no stale copy, and a death costs the
\* table it interrupts (TaskStore.save, WorktreeStore.save, ReviewStore.save and the
\* commands above them).
BookSpec == Book!Spec

=============================================================================
