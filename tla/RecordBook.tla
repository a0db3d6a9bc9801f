---------------------------- MODULE RecordBook -----------------------------
(***************************************************************************)
(* What the stores of the outer loop promise to commands that are run one  *)
(* at a time, with no files, listings or processes:                        *)
(*   - three tables, and a save changes one record of one of them at once; *)
(*   - what is saved is a new record or a legal next version of the one the*)
(*     table holds at that moment, never of an older copy: a link only to a*)
(*     record that is there, a running lease only apart from all others, an*)
(*     approval only of a review that has its note;                        *)
(*   - nothing else is lost, but for the whole table that was being saved  *)
(*     when its writer died.                                               *)
(* OuterLoop implements this one as long as no two commands overlap.       *)
(***************************************************************************)
CONSTANTS
  CodeTasks,   \* tasks that need a worktree and three people
  WorktreeIds, \* identifiers of worktree records
  Nothing      \* no link, no name

VARIABLES
  book,   \* book[f]: the records of table f, by identifier
  lapsed, \* worktree records whose lease has run out
  torn    \* tables that have been lost

vars == <<book, lapsed, torn>>

Tables == {"tasks", "worktrees", "reviews"}

Init ==
  /\ book = [f \in Tables |-> <<>>]
  /\ lapsed = {}
  /\ torn = {}

-----------------------------------------------------------------------------
(* The next version of a record, given the tables b. *)

\* A task is created pending, and then linked to what was planned for it or started
\* about it.
NextTask(b, t, task) ==
  IF t \notin DOMAIN b["tasks"]
  THEN task = [status |-> "pending", worktree |-> Nothing, review |-> Nothing]
  ELSE \/ task = b["tasks"][t]
       \/ /\ task = [b["tasks"][t] EXCEPT !.worktree = task.worktree, !.status = "ready"]
          /\ task.worktree \in DOMAIN b["worktrees"]
          /\ b["worktrees"][task.worktree].task = t
          /\ b["worktrees"][task.worktree].status = "planned"
       \/ /\ task = [b["tasks"][t] EXCEPT !.review = task.review]
          /\ task.review \in DOMAIN b["reviews"]
          /\ b["reviews"][task.review].task = t

\* A worktree never changes its task or its locks.
NextWorktree(b, w, tree) ==
  IF w \notin DOMAIN b["worktrees"]
  THEN /\ tree.task \in DOMAIN b["tasks"] \intersect CodeTasks
       /\ tree.status \in {"planned", "conflict"}
  ELSE LET old == b["worktrees"][w] IN
       /\ tree = [old EXCEPT !.status = tree.status]
       /\ \/ tree.status = "stale"
          \/ tree.status = "active" /\ old.status \in {"planned", "active"}
          \/ tree.status = "cleaned" /\ old.status \in {"stale", "active"}

\* A review keeps its people; that of a code change starts with three of them, and is
\* approved after its note only.
NextReview(b, r, review) ==
  IF r \notin DOMAIN b["reviews"]
  THEN /\ review.status = "in_review" /\ review.approvedBy = Nothing /\ ~review.noted
       /\ review.task \in DOMAIN b["tasks"]
       /\ review.task \in CodeTasks =>
            /\ review.high
            /\ b["tasks"][review.task].worktree # Nothing
            /\ review.roles.producer # review.roles.verifier
            /\ review.roles.reviewer \notin {review.roles.producer, review.roles.verifier}
  ELSE LET old == b["reviews"][r] IN
       \/ review = [old EXCEPT !.noted = TRUE]
       \/ /\ review = [old EXCEPT !.status = "approved", !.approvedBy = old.roles.reviewer]
          /\ old.high => /\ old.noted
                         /\ old.roles.reviewer \notin {old.roles.producer, old.roles.verifier}
       \/ review = [old EXCEPT !.status = "rejected"]

NextVersion(b, f, i, record) ==
  \/ f = "tasks" /\ NextTask(b, i, record)
  \/ f = "worktrees" /\ NextWorktree(b, i, record)
  \/ f = "reviews" /\ NextReview(b, i, record)

Runs(w, tree) == w \notin lapsed /\ tree.status \in {"planned", "active"}

\* Leases that are running are for different tasks and share no locked path.
Exclusive(trees) ==
  \A v, w \in DOMAIN trees :
    v # w /\ Runs(v, trees[v]) /\ Runs(w, trees[w]) =>
      /\ trees[v].task # trees[w].task
      /\ trees[v].locks \intersect trees[w].locks = {}

-----------------------------------------------------------------------------

Updated(rows, i, record) == [j \in DOMAIN rows \union {i} |-> IF j = i THEN record ELSE rows[j]]

Save(f, i, record) ==
  /\ NextVersion(book, f, i, record)
  /\ book' = [book EXCEPT ![f] = Updated(@, i, record)]
  /\ Exclusive(book'["worktrees"])
  /\ UNCHANGED <<lapsed, torn>>

\* The process that was saving a record of f dies.
Lose(f) ==
  /\ book' = [book EXCEPT ![f] = <<>>]
  /\ torn' = torn \union {f}
  /\ UNCHANGED lapsed

Lapse(w) ==
  /\ lapsed' = lapsed \union {w}
  /\ UNCHANGED <<book, torn>>

\* What is saved can be read off the table it is in.
Next ==
  \/ \E f \in Tables : Lose(f) \/ \E i \in DOMAIN book'[f] : Save(f, i, book'[f][i])
  \/ \E w \in WorktreeIds : Lapse(w)

Spec == Init /\ [][Next]_vars

=============================================================================
