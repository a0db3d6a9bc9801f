--------------------------- MODULE OuterLoopProofs ---------------------------
(***************************************************************************)
(* Proofs about OuterLoop, for any number of processes, tasks and records, *)
(* any overlap of commands and any crashes.                                *)
(*                                                                         *)
(* A record exists in many copies: in a file, in the listing a process is  *)
(* about to write back, among the saves it has still to make, in its hands *)
(* between two loads.  Any copy may become the file again, so the          *)
(* invariant says of every copy that it is sound: what it claims (a plan,  *)
(* a verification, a removed tree) has happened, and the identifiers in it *)
(* were drawn for its task.  Such facts are never undone, hence old copies *)
(* stay sound while the files move on.                                     *)
(*                                                                         *)
(* That a record is still in its file holds only while commands run one at *)
(* a time.  Then the files, completed by the rows of the one write under   *)
(* way, are a database: a truncation merges one record into it, and        *)
(* neither the end of a write nor a crash elsewhere changes it.            *)
(* Moreover a lone command never saves an old copy, so these commands      *)
(* implement RecordBook, where each save is one legal change of one record.*)
(***************************************************************************)
EXTENDS OuterLoop, FiniteSetTheorems, TLAPS

\* What has happened: the plans made, the reviews verified, the trees removed for good,
\* the identifiers drawn for worktrees and for reviews, and what each was drawn for: the
\* task, and for a worktree the status it was first given.
Facts(owner) ==
  [planned |-> history.planned, verified |-> history.verified, gone |-> branches \ trees,
   drawn |-> drawn.worktrees, begun |-> drawn.reviews, owner |-> owner]

\* l knows all that k knows.
Extends(l, k) ==
  /\ k.planned \subseteq l.planned
  /\ k.verified \subseteq l.verified
  /\ k.gone \subseteq l.gone
  /\ 1..k.drawn \subseteq 1..l.drawn
  /\ \A w \in 1..k.drawn : l.owner.tree[w] = k.owner.tree[w]
  /\ 1..k.begun \subseteq 1..l.begun
  /\ \A i \in 1..k.begun : l.owner.review[i] = k.owner.review[i]

SoundTask(k, t, r) ==
  /\ t \in Tasks
  /\ r \in TaskRecords
  /\ r.worktree # Nothing =>
       /\ t \in k.planned
       /\ r.worktree \in 1..k.drawn
       /\ k.owner.tree[r.worktree].task = t
       /\ k.owner.tree[r.worktree].first = "planned"
  /\ r.review # Nothing => r.review \in 1..k.begun /\ k.owner.review[r.review] = t

SoundWorktree(k, w, r) ==
  /\ w \in WorktreeIds
  /\ w \in 1..k.drawn
  /\ r \in WorktreeRecords
  /\ r.task = k.owner.tree[w].task
  /\ r.status = "conflict" => k.owner.tree[w].first = "conflict"
  /\ r.status = "cleaned" => r.task \in k.gone

SoundReview(k, i, r) ==
  /\ i \in ReviewIds
  /\ i \in 1..k.begun
  /\ r \in ReviewRecords
  /\ r.task = k.owner.review[i]
  /\ r.high = (r.task \in CodeTasks)
  /\ r.task \in CodeTasks => r.task \in k.planned
  /\ r.noted => i \in k.verified
  /\ r.status = "approved" /\ r.task \in CodeTasks =>
       /\ i \in k.verified
       /\ r.approvedBy # Nothing
       /\ r.approvedBy \notin {r.roles.producer, r.roles.verifier}

Sound(k, f, i, r) ==
  \/ f = "tasks" /\ SoundTask(k, i, r)
  \/ f = "worktrees" /\ SoundWorktree(k, i, r)
  \/ f = "reviews" /\ SoundReview(k, i, r)

SoundWrite(k, w) == w \in Writes /\ Sound(k, w.to, w.id, w.rec)

Listed == [to : {"worktrees"}, id : WorktreeIds, rec : WorktreeRecords]

SoundJob(k, j) ==
  /\ DOMAIN j = {"at", "id", "rec", "writes", "rest", "rows"}
  /\ j.at \in Stages
  /\ j.writes \in Seq(Writes) /\ \A n \in 1..Len(j.writes) : SoundWrite(k, j.writes[n])
  /\ j.rest \in Seq(Listed) /\ \A n \in 1..Len(j.rest) : SoundWrite(k, j.rest[n])
  /\ (j.at \in {"list", "truncate", "fill"}) = (j.writes # <<>>)
  /\ j.at = "expire" => j.rest # <<>>
  /\ j.at = "plan" => j.id \in CodeTasks /\ SoundTask(k, j.id, j.rec)
  /\ j.at \in {"add", "remove", "confirm"} => SoundWorktree(k, j.id, j.rec)
  /\ j.at = "confirm" => j.rec.task \in k.gone
  /\ j.at \in {"truncate", "fill"} =>
       \A i \in DOMAIN j.rows : Sound(k, j.writes[1].to, i, j.rows[i])

SoundFiles(k) ==
  /\ file = [f \in Files |-> file[f]]
  /\ \A f \in Files : \A i \in DOMAIN file[f] : Sound(k, f, i, file[f][i])
  /\ garbled \subseteq Files /\ \A f \in garbled : DOMAIN file[f] = {}

\* What an identifier may be drawn for.
Owners == [tree : [WorktreeIds -> [task : Tasks \union {Nothing},
                                   first : {"planned", "conflict"}]],
           review : [ReviewIds -> Tasks \union {Nothing}]]

World(owner) ==
  /\ owner \in Owners
  /\ trees \subseteq branches /\ branches \subseteq Tasks
  /\ drawn \in [worktrees : 0..MaxWorktrees, reviews : 0..MaxReviews]
  /\ lapsed \subseteq 1..drawn.worktrees
  /\ history \in Histories

OuterInv(owner) ==
  /\ World(owner)
  /\ SoundFiles(Facts(owner))
  /\ job = [p \in Procs |-> job[p]]
  /\ \A p \in Procs : SoundJob(Facts(owner), job[p])

-----------------------------------------------------------------------------
(* Soundness outlives what happens later. *)

\* A copy that was sound stays sound as more becomes known.
LEMMA SoundStays ==
  ASSUME NEW k, NEW l, Extends(l, k), NEW f, NEW i, NEW r, Sound(k, f, i, r)
  PROVE  Sound(l, f, i, r)
<1>1. ASSUME SoundTask(k, i, r) PROVE SoundTask(l, i, r)
  BY <1>1 DEF SoundTask, Extends
<1>2. ASSUME SoundWorktree(k, i, r) PROVE SoundWorktree(l, i, r)
  BY <1>2 DEF SoundWorktree, Extends
<1>3. ASSUME SoundReview(k, i, r) PROVE SoundReview(l, i, r)
  BY <1>3 DEF SoundReview, Extends
<1> QED BY <1>1, <1>2, <1>3 DEF Sound

\* The same for the worktree record a process holds.
LEMMA WorktreeStays ==
  ASSUME NEW k, NEW l, Extends(l, k), NEW w, NEW r, SoundWorktree(k, w, r)
  PROVE  SoundWorktree(l, w, r)
BY DEF SoundWorktree, Extends

\* The same for everything a process holds.
LEMMA JobStays ==
  ASSUME NEW k, NEW l, Extends(l, k), NEW j, SoundJob(k, j)
  PROVE  SoundJob(l, j)
<1>1. /\ \A w : SoundWrite(k, w) => SoundWrite(l, w)
      /\ \A i \in DOMAIN j.rows :
           Sound(k, j.writes[1].to, i, j.rows[i]) => Sound(l, j.writes[1].to, i, j.rows[i])
  BY SoundStays DEF SoundWrite
<1>2. /\ SoundWorktree(k, j.id, j.rec) => SoundWorktree(l, j.id, j.rec)
      /\ SoundTask(k, j.id, j.rec) => SoundTask(l, j.id, j.rec)
  BY WorktreeStays DEF SoundTask, Extends
<1>3. k.gone \subseteq l.gone
  BY DEF Extends
<1> QED BY <1>1, <1>2, <1>3 DEF SoundJob

\* The same for the files.
LEMMA FilesStay ==
  ASSUME NEW k, NEW l, Extends(l, k), SoundFiles(k)
  PROVE  SoundFiles(l)
BY SoundStays DEF SoundFiles

-----------------------------------------------------------------------------
(* Jobs. *)

\* A process between two commands holds nothing.
LEMMA NoJobSound == ASSUME NEW k PROVE SoundJob(k, NoJob)
BY DEF SoundJob, NoJob, Stages

\* A process that sets out to make sound saves is sound.
LEMMA SavesSound ==
  ASSUME NEW k, NEW j, SoundJob(k, j), NEW ws \in Seq(Writes), ws # <<>>,
         \A n \in 1..Len(ws) : SoundWrite(k, ws[n])
  PROVE  SoundJob(k, [j EXCEPT !.at = "list", !.writes = ws])
<1> DEFINE new == [j EXCEPT !.at = "list", !.writes = ws]
<1>1. /\ DOMAIN new = {"at", "id", "rec", "writes", "rest", "rows"}
      /\ new.at = "list" /\ new.writes = ws /\ new.rest = j.rest
  BY DEF SoundJob
<1>2. /\ j.rest \in Seq(Listed)
      /\ \A n \in 1..Len(j.rest) : SoundWrite(k, j.rest[n])
  BY DEF SoundJob
<1> HIDE DEF new
<1> QED BY <1>1, <1>2 DEF SoundJob, Stages

\* A list of one sound save.
LEMMA OneWrite ==
  ASSUME NEW k, NEW w, SoundWrite(k, w)
  PROVE  /\ <<w>> \in Seq(Writes) /\ <<w>> # <<>>
         /\ \A n \in 1..Len(<<w>>) : SoundWrite(k, <<w>>[n])
BY DEF SoundWrite

\* A list of two sound saves.
LEMMA TwoWrites ==
  ASSUME NEW k, NEW v, NEW w, SoundWrite(k, v), SoundWrite(k, w)
  PROVE  /\ <<v, w>> \in Seq(Writes) /\ <<v, w>> # <<>>
         /\ \A n \in 1..Len(<<v, w>>) : SoundWrite(k, <<v, w>>[n])
<1>1. v \in Writes /\ w \in Writes
  BY DEF SoundWrite
<1>2. <<v, w>> \in Seq(Writes) /\ Len(<<v, w>>) = 2
  BY <1>1
<1>3. <<v, w>>[1] = v /\ <<v, w>>[2] = w
  OBVIOUS
<1> QED BY <1>2, <1>3

\* Saving a sound record is a sound save.
LEMMA WritesAreSound ==
  ASSUME NEW k, NEW f \in Files, NEW i, NEW r, Sound(k, f, i, r)
  PROVE  SoundWrite(k, Write(f, i, r))
BY DEF SoundWrite, Write, Writes, Sound, SoundTask, SoundWorktree, SoundReview, Files

-----------------------------------------------------------------------------
(* Steps. *)

\* One process gets a new job: everything else stays sound if nothing known is lost.
LEMMA OneJob ==
  ASSUME NEW owner, OuterInv(owner), NEW o, NEW l, l = Facts(o)', Extends(l, Facts(owner)),
         NEW p \in Procs, NEW j, job' = [job EXCEPT ![p] = j], SoundJob(l, j),
         World(o)', SoundFiles(Facts(o))'
  PROVE  OuterInv(o)'
<1>1. /\ job' = [q \in Procs |-> job'[q]]
      /\ job'[p] = j
      /\ \A q \in Procs \ {p} : job'[q] = job[q]
  BY DEF OuterInv
<1>2. \A q \in Procs : SoundJob(l, job'[q])
  BY <1>1, JobStays DEF OuterInv
<1> QED BY <1>1, <1>2 DEF OuterInv

\* Most steps change nothing else.
LEMMA JobOnly ==
  ASSUME NEW owner, OuterInv(owner), NEW p \in Procs, NEW j, job' = [job EXCEPT ![p] = j],
         SoundJob(Facts(owner), j), UNCHANGED <<file, garbled, trees, branches, lapsed, drawn>>,
         history' \in Histories, history'.planned = history.planned,
         history'.verified = history.verified
  PROVE  OuterInv(owner)'
<1>1. Facts(owner)' = Facts(owner)
  BY DEF Facts
<1>2. Extends(Facts(owner), Facts(owner))
  BY DEF Extends
<1>3. World(owner)'
  BY DEF OuterInv, World
<1>4. SoundFiles(Facts(owner))'
  BY <1>1 DEF OuterInv, SoundFiles
<1> QED BY <1>1, <1>2, <1>3, <1>4, OneJob

\* Saves keeps the invariant when what is to be saved is sound.
LEMMA SavesKeeps ==
  ASSUME NEW owner, OuterInv(owner), NEW p \in Procs, NEW ws, Saves(p, ws),
         ws \in Seq(Writes), ws # <<>>,
         \A n \in 1..Len(ws) : SoundWrite(Facts(owner), ws[n]),
         UNCHANGED <<file, garbled, trees, branches, lapsed, drawn>>,
         history' \in Histories, history'.planned = history.planned,
         history'.verified = history.verified
  PROVE  OuterInv(owner)'
<1> DEFINE j == [job[p] EXCEPT !.at = "list", !.writes = ws]
<1>1. job' = [job EXCEPT ![p] = j]
  BY DEF Saves
<1>2. SoundJob(Facts(owner), j)
  BY SavesSound DEF OuterInv
<1> HIDE DEF j
<1> QED BY <1>1, <1>2, JobOnly

\* Giving up keeps the invariant.
LEMMA QuitsKeeps ==
  ASSUME NEW owner, OuterInv(owner), NEW p \in Procs, Quits(p),
         UNCHANGED <<file, garbled, trees, branches, lapsed, drawn>>,
         history' \in Histories, history'.planned = history.planned,
         history'.verified = history.verified
  PROVE  OuterInv(owner)'
BY NoJobSound, JobOnly DEF Quits

\* What a command loads is sound.
LEMMA LoadsSound ==
  ASSUME NEW owner, OuterInv(owner), NEW f \in Files, NEW i, Loads(f, i)
  PROVE  Sound(Facts(owner), f, i, file[f][i])
BY DEF OuterInv, SoundFiles, Loads

\* A new task claims nothing.
LEMMA CreateKeeps ==
  ASSUME NEW owner, OuterInv(owner), NEW p \in Procs, NEW t \in Tasks, Create(p, t)
  PROVE  OuterInv(owner)'
<1> DEFINE w == Write("tasks", t, [status |-> "pending", worktree |-> Nothing,
                                   review |-> Nothing])
<1>1. SoundWrite(Facts(owner), w)
  BY WritesAreSound DEF Sound, SoundTask, TaskRecords, Files
<1>2. /\ history' \in Histories
      /\ history'.planned = history.planned /\ history'.verified = history.verified
  BY DEF Create, OuterInv, World, Histories
<1>3. /\ Saves(p, <<w>>)
      /\ UNCHANGED <<file, garbled, trees, branches, lapsed, drawn>>
  BY DEF Create, Records, Git, Rest
<1> HIDE DEF w
<1> QED BY <1>1, <1>2, <1>3, OneWrite, SavesKeeps

\* A task that was loaded is saved as it was.
LEMMA EditTodosKeeps ==
  ASSUME NEW owner, OuterInv(owner), NEW p \in Procs, NEW t \in Tasks, EditTodos(p, t)
  PROVE  OuterInv(owner)'
<1> DEFINE w == Write("tasks", t, file["tasks"][t])
<1>1. SoundWrite(Facts(owner), w)
  BY LoadsSound, WritesAreSound DEF EditTodos, Files
<1>2. /\ history' \in Histories
      /\ history'.planned = history.planned /\ history'.verified = history.verified
  BY DEF EditTodos, OuterInv, World
<1>3. /\ Saves(p, <<w>>)
      /\ UNCHANGED <<file, garbled, trees, branches, lapsed, drawn>>
  BY DEF EditTodos, Records, Git, Rest
<1> HIDE DEF w
<1> QED BY <1>1, <1>2, <1>3, OneWrite, SavesKeeps

-----------------------------------------------------------------------------
(* Worktrees. *)

\* A plan holds the task it loaded, which is a code task.
LEMMA PlanKeeps ==
  ASSUME NEW owner, OuterInv(owner), NEW p \in Procs, NEW t \in Tasks, Plan(p, t)
  PROVE  OuterInv(owner)'
<1> DEFINE j == [job[p] EXCEPT !.at = "plan", !.id = t, !.rec = file["tasks"][t]]
<1>1. SoundTask(Facts(owner), t, file["tasks"][t])
  BY LoadsSound DEF Plan, Files, Sound
<1>2. /\ job[p].at = "idle" /\ t \in CodeTasks
      /\ job' = [job EXCEPT ![p] = j]
      /\ UNCHANGED <<file, garbled, trees, branches, lapsed, drawn, history>>
  BY DEF Plan, Starts, Records, Git, Rest
<1>3. SoundJob(Facts(owner), job[p])
  BY DEF OuterInv
<1>4. SoundJob(Facts(owner), j)
  <2>1. /\ DOMAIN j = {"at", "id", "rec", "writes", "rest", "rows"}
        /\ j.at = "plan" /\ j.id = t /\ j.rec = file["tasks"][t]
        /\ j.writes = job[p].writes /\ j.rest = job[p].rest
    BY <1>3 DEF SoundJob
  <2> HIDE DEF j
  <2> QED BY <1>1, <1>2, <1>3, <2>1 DEF SoundJob, Stages, SoundTask
<1> HIDE DEF j
<1> QED BY <1>2, <1>4, JobOnly DEF OuterInv, World

\* Planning is the one step that learns something: the new identifier gets its task.
LEMMA PlanWorktreeKeeps ==
  ASSUME NEW owner, OuterInv(owner), NEW p \in Procs, NEW locks \in LockSets,
         PlanWorktree(p, locks)
  PROVE  \E o : OuterInv(o)'
<1>w. PICK w : w = drawn.worktrees + 1
  OBVIOUS
<1>t. PICK t : t = job[p].id
  OBVIOUS
<1>r. PICK record : record = [task |-> t, locks |-> locks,
                        status |-> IF Conflicts(t, locks) = {} THEN "planned" ELSE "conflict"]
  OBVIOUS
<1> DEFINE o == [owner EXCEPT !.tree[w] = [task |-> t, first |-> record.status]]
           l == Facts(o)'
           ws == PlanWrites(t, job[p].rec, w, record)
           j == [job[p] EXCEPT !.at = "list", !.writes = ws]
<1>1. /\ job[p].at = "plan"
      /\ w \in WorktreeIds
      /\ drawn' = [drawn EXCEPT !.worktrees = w]
      /\ history' = [history EXCEPT !.planned = IF record.status = "planned"
                                                THEN @ \union {t} ELSE @]
      /\ job' = [job EXCEPT ![p] = j]
      /\ UNCHANGED <<file, garbled, trees, branches, lapsed>>
  BY <1>w, <1>t, <1>r DEF PlanWorktree, Saves, Records, Git
<1>2. /\ SoundJob(Facts(owner), job[p])
      /\ t \in CodeTasks /\ t \in Tasks /\ SoundTask(Facts(owner), t, job[p].rec)
      /\ job[p].rec \in TaskRecords
  BY <1>1, <1>t, OuterAssumptions DEF OuterInv, SoundJob, SoundTask
<1>3. record \in WorktreeRecords /\ record.task = t /\ record.status \in {"planned", "conflict"}
  BY <1>2, <1>r DEF WorktreeRecords
<1>4. /\ o \in Owners /\ o.review = owner.review
      /\ o.tree[w].task = t /\ o.tree[w].first = record.status
      /\ \A v \in WorktreeIds : v # w => o.tree[v] = owner.tree[v]
  BY <1>1, <1>2, <1>3 DEF OuterInv, World, Owners
<1>5. /\ drawn.worktrees \in 0..MaxWorktrees /\ drawn'.worktrees = w
      /\ drawn'.reviews = drawn.reviews
      /\ drawn' \in [worktrees : 0..MaxWorktrees, reviews : 0..MaxReviews]
      /\ 1..drawn.worktrees \subseteq WorktreeIds \ {w}
      /\ w \in 1..w /\ 1..drawn.worktrees \subseteq 1..w
  BY <1>1, <1>w, OuterAssumptions DEF OuterInv, World, WorktreeIds
<1>6. /\ history' \in Histories
      /\ history.planned \subseteq history'.planned /\ history'.verified = history.verified
      /\ record.status = "planned" => t \in history'.planned
  BY <1>1, <1>2 DEF OuterInv, World, Histories
<1> HIDE DEF o
<1>7. /\ l.planned = history'.planned /\ l.verified = history.verified
      /\ l.gone = branches \ trees /\ l.drawn = w /\ l.begun = drawn.reviews
      /\ l.owner = o
  BY <1>1, <1>5, <1>6 DEF Facts
<1>8. Extends(l, Facts(owner))
  <2> HIDE DEF l
  <2> QED BY <1>4, <1>5, <1>6, <1>7 DEF Extends, Facts
<1>9. /\ ws \in Seq(Writes) /\ ws # <<>>
      /\ \A n \in 1..Len(ws) : SoundWrite(l, ws[n])
  <2>1. SoundWrite(l, Write("worktrees", w, record))
    <3>1. SoundWorktree(l, w, record)
      BY <1>1, <1>3, <1>4, <1>5, <1>7 DEF SoundWorktree
    <3> HIDE DEF l
    <3> QED BY <3>1, WritesAreSound DEF Sound, Files
  <2>2. ASSUME record.status = "planned"
        PROVE  SoundWrite(l, Write("tasks", t, [job[p].rec EXCEPT !.worktree = w,
                                                                  !.status = "ready"]))
    <3>1. SoundTask(l, t, [job[p].rec EXCEPT !.worktree = w, !.status = "ready"])
      <4> HIDE DEF l
      <4>1. SoundTask(l, t, job[p].rec)
        BY <1>2, <1>8 DEF SoundTask, Extends
      <4> QED BY <1>1, <1>2, <1>4, <1>5, <1>6, <1>7, <2>2, <4>1 DEF SoundTask, TaskRecords
    <3> HIDE DEF l
    <3> QED BY <3>1, WritesAreSound DEF Sound, Files
  <2> HIDE DEF l
  <2> QED BY <2>1, <2>2, OneWrite, TwoWrites DEF PlanWrites
<1>10. SoundJob(l, j)
  <2> HIDE DEF l, ws
  <2> QED BY <1>2, <1>8, <1>9, JobStays, SavesSound
<1>11. World(o)'
  BY <1>1, <1>4, <1>5, <1>6 DEF OuterInv, World
<1>12. SoundFiles(Facts(o))'
  <2>1. SoundFiles(l)
    <3> HIDE DEF l
    <3> QED BY <1>8, FilesStay DEF OuterInv
  <2> QED BY <1>1, <2>1 DEF SoundFiles
<1> HIDE DEF j
<1> QED BY <1>1, <1>8, <1>10, <1>11, <1>12, OneJob

\* A stale record is no longer a cleaned one.
LEMMA MarkStaleKeeps ==
  ASSUME NEW owner, OuterInv(owner), NEW p \in Procs, NEW w, MarkStale(p, w)
  PROVE  OuterInv(owner)'
<1> DEFINE r == file["worktrees"][w]
           v == Write("worktrees", w, [r EXCEPT !.status = "stale"])
<1>1. SoundWorktree(Facts(owner), w, r)
  BY LoadsSound DEF MarkStale, Files, Sound
<1>2. /\ Saves(p, <<v>>)
      /\ UNCHANGED <<file, garbled, trees, branches, lapsed, drawn, history>>
  BY DEF MarkStale, Records, Git, Rest
<1> HIDE DEF r
<1>3. SoundWorktree(Facts(owner), w, [r EXCEPT !.status = "stale"])
  BY <1>1 DEF SoundWorktree, WorktreeRecords
<1>4. SoundWrite(Facts(owner), v)
  BY <1>3, WritesAreSound DEF Sound, Files
<1> HIDE DEF v
<1> QED BY <1>2, <1>4, OneWrite, SavesKeeps DEF OuterInv, World

\* Every listed record is a sound one; there are finitely many.
LEMMA ExpireLeasesKeeps ==
  ASSUME NEW owner, OuterInv(owner), NEW p \in Procs, ExpireLeases(p)
  PROVE  OuterInv(owner)'
<1> DEFINE ids == DOMAIN file["worktrees"]
<1>1. \A w \in ids : SoundWorktree(Facts(owner), w, file["worktrees"][w])
  BY DEF OuterInv, SoundFiles, Sound, Files
<1>2. IsFiniteSet(ids) /\ Cardinality(ids) \in Nat \ {0}
  <2>1. ids \subseteq 1..MaxWorktrees
    BY <1>1 DEF SoundWorktree, WorktreeIds
  <2>2. ids # {}
    BY DEF ExpireLeases
  <2> HIDE DEF ids
  <2>3. IsFiniteSet(1..MaxWorktrees)
    BY OuterAssumptions, FS_Interval
  <2>4. IsFiniteSet(ids)
    BY <2>1, <2>3, FS_Subset
  <2> QED BY <2>2, <2>4, FS_CardinalityType, FS_EmptySet
<1>3. PICK listed \in [1..Cardinality(ids) -> ids] :
        job' = [job EXCEPT ![p].at = "expire",
                  ![p].rest = [i \in DOMAIN listed |->
                    Write("worktrees", listed[i], file["worktrees"][listed[i]])]]
  BY DEF ExpireLeases, Listings
<1> DEFINE rest == [i \in DOMAIN listed |->
                     Write("worktrees", listed[i], file["worktrees"][listed[i]])]
           j == [job[p] EXCEPT !.at = "expire", !.rest = rest]
<1>4. /\ job[p].at = "idle"
      /\ job' = [job EXCEPT ![p] = j]
      /\ UNCHANGED <<file, garbled, trees, branches, lapsed, drawn, history>>
  BY <1>3 DEF ExpireLeases, Starts, Records, Git, Rest
<1>5. /\ rest \in Seq(Listed) /\ rest # <<>>
      /\ \A n \in 1..Len(rest) : SoundWrite(Facts(owner), rest[n])
  <2>1. /\ DOMAIN listed = 1..Cardinality(ids)
        /\ \A i \in DOMAIN listed : listed[i] \in ids
    OBVIOUS
  <2>2. \A i \in DOMAIN listed : /\ rest[i] \in Listed
                                /\ SoundWrite(Facts(owner), rest[i])
    <3> SUFFICES ASSUME NEW i \in DOMAIN listed
                 PROVE  rest[i] \in Listed /\ SoundWrite(Facts(owner), rest[i])
      OBVIOUS
    <3>1. SoundWorktree(Facts(owner), listed[i], file["worktrees"][listed[i]])
      BY <1>1, <2>1
    <3>2. rest[i] = Write("worktrees", listed[i], file["worktrees"][listed[i]])
      OBVIOUS
    <3> HIDE DEF rest, ids
    <3>3. rest[i] \in Listed
      BY <3>1, <3>2 DEF SoundWorktree, Write, Listed
    <3> QED BY <3>1, <3>2, <3>3, WritesAreSound DEF Sound, Files
  <2>3. DOMAIN rest = 1..Cardinality(ids)
    BY <2>1
  <2>4. rest \in [1..Cardinality(ids) -> Listed]
    BY <2>1, <2>2
  <2> HIDE DEF rest, ids
  <2> QED BY <1>2, <2>1, <2>2, <2>3, <2>4
<1>6. SoundJob(Facts(owner), job[p])
  BY DEF OuterInv
<1> HIDE DEF rest, ids
<1>7. SoundJob(Facts(owner), j)
  <2>1. /\ DOMAIN j = {"at", "id", "rec", "writes", "rest", "rows"}
        /\ j.at = "expire" /\ j.writes = job[p].writes /\ j.rest = rest
    BY <1>6 DEF SoundJob
  <2> HIDE DEF j
  <2> QED BY <1>4, <1>5, <1>6, <2>1 DEF SoundJob, Stages
<1> HIDE DEF j
<1> QED BY <1>4, <1>7, JobOnly DEF OuterInv, World

\* A listed record is saved as stale, or passed over.
LEMMA ExpireNextKeeps ==
  ASSUME NEW owner, OuterInv(owner), NEW p \in Procs, ExpireNext(p)
  PROVE  OuterInv(owner)'
<1> DEFINE listed == Head(job[p].rest)
           left == Tail(job[p].rest)
           k == Facts(owner)
           v == [listed EXCEPT !.rec.status = "stale"]
           saving == [job[p] EXCEPT !.at = "list", !.rest = left, !.writes = <<v>>]
           going == [job[p] EXCEPT !.rest = left]
<1>1. SoundJob(k, job[p])
  BY DEF OuterInv
<1>2. /\ job[p].at = "expire" /\ job[p].rest # <<>> /\ job[p].rest \in Seq(Listed)
      /\ \A n \in 1..Len(job[p].rest) : SoundWrite(k, job[p].rest[n])
      /\ job[p].writes = <<>>
  BY <1>1 DEF ExpireNext, SoundJob
<1>3. /\ left \in Seq(Listed)
      /\ \A n \in 1..Len(left) : SoundWrite(k, left[n])
      /\ listed \in Listed /\ SoundWrite(k, listed)
  BY <1>2
<1>4. SoundWrite(k, v)
  <2> HIDE DEF listed
  <2>1. /\ SoundWorktree(k, listed.id, listed.rec)
    BY <1>3 DEF SoundWrite, Sound, Listed
  <2>2. SoundWorktree(k, listed.id, [listed.rec EXCEPT !.status = "stale"])
    BY <2>1 DEF SoundWorktree, WorktreeRecords
  <2>3. /\ v \in Listed /\ v.to = "worktrees" /\ v.id = listed.id
        /\ v.rec = [listed.rec EXCEPT !.status = "stale"]
    BY <1>3, <2>2 DEF Listed, SoundWorktree
  <2> HIDE DEF v
  <2> QED BY <2>2, <2>3 DEF SoundWrite, Sound, Writes, Listed
<1>5. SoundJob(k, saving)
  <2>1. /\ DOMAIN saving = {"at", "id", "rec", "writes", "rest", "rows"}
        /\ saving.at = "list" /\ saving.writes = <<v>> /\ saving.rest = left
    BY <1>1 DEF SoundJob
  <2> HIDE DEF saving, v, left
  <2> QED BY <1>3, <1>4, <2>1, OneWrite DEF SoundJob, Stages
<1>6. ASSUME left # <<>> PROVE SoundJob(k, going)
  <2>1. /\ DOMAIN going = {"at", "id", "rec", "writes", "rest", "rows"}
        /\ going.at = "expire" /\ going.writes = <<>> /\ going.rest = left
    BY <1>1, <1>2 DEF SoundJob
  <2> HIDE DEF going, left
  <2> QED BY <1>3, <1>6, <2>1 DEF SoundJob, Stages
<1>7. UNCHANGED <<file, garbled, trees, branches, lapsed, drawn, history>>
  BY DEF ExpireNext, Records, Git, Rest
<1>8. \/ job' = [job EXCEPT ![p] = saving]
      \/ job' = [job EXCEPT ![p] = NoJob]
      \/ left # <<>> /\ job' = [job EXCEPT ![p] = going]
  BY DEF ExpireNext
<1>9. history' \in Histories
  BY <1>7 DEF OuterInv, World
<1> HIDE DEF saving, going, left
<1> QED BY <1>5, <1>6, <1>7, <1>8, <1>9, NoJobSound, JobOnly

-----------------------------------------------------------------------------
(* Git. *)

\* A command that goes to git holds the record it loaded.
LEMMA HoldsKeeps ==
  ASSUME NEW owner, OuterInv(owner), NEW p \in Procs, NEW w, NEW at \in {"add", "remove"},
         job[p].at = "idle", Loads("worktrees", w),
         job' = [job EXCEPT ![p].at = at, ![p].id = w, ![p].rec = file["worktrees"][w]],
         UNCHANGED <<file, garbled, trees, branches, lapsed, drawn, history>>
  PROVE  OuterInv(owner)'
<1> DEFINE j == [job[p] EXCEPT !.at = at, !.id = w, !.rec = file["worktrees"][w]]
<1>1. SoundWorktree(Facts(owner), w, file["worktrees"][w])
  BY LoadsSound DEF Files, Sound
<1>2. job' = [job EXCEPT ![p] = j]
  OBVIOUS
<1>3. SoundJob(Facts(owner), job[p])
  BY DEF OuterInv
<1>4. SoundJob(Facts(owner), j)
  <2>1. /\ DOMAIN j = {"at", "id", "rec", "writes", "rest", "rows"}
        /\ j.at = at /\ j.id = w /\ j.rec = file["worktrees"][w]
        /\ j.writes = job[p].writes /\ j.rest = job[p].rest
    BY <1>3 DEF SoundJob
  <2> HIDE DEF j
  <2> QED BY <1>1, <1>3, <2>1 DEF SoundJob, Stages
<1> HIDE DEF j
<1> QED BY <1>2, <1>4, JobOnly DEF OuterInv, World

\* Materialising first loads the record.
LEMMA MaterializeKeeps ==
  ASSUME NEW owner, OuterInv(owner), NEW p \in Procs, NEW w, Materialize(p, w)
  PROVE  OuterInv(owner)'
BY HoldsKeeps DEF Materialize, Starts, Records, Git, Rest

\* Cleaning up first loads the record.
LEMMA CleanupKeeps ==
  ASSUME NEW owner, OuterInv(owner), NEW p \in Procs, NEW w, Cleanup(p, w)
  PROVE  OuterInv(owner)'
BY HoldsKeeps DEF Cleanup, Starts, Records, Git, Rest

\* Git adds a tree only under a name no branch has, and keeps the branch of a tree it
\* removes: what is gone stays gone.
LEMMA GitKeeps ==
  ASSUME NEW owner, OuterInv(owner), NEW p \in Procs, NEW j, job' = [job EXCEPT ![p] = j],
         branches \ trees \subseteq branches' \ trees',
         trees' \subseteq branches', branches' \subseteq Tasks,
         SoundJob(Facts(owner)', j),
         UNCHANGED <<file, garbled, lapsed, drawn, history>>
  PROVE  OuterInv(owner)'
<1> DEFINE l == Facts(owner)'
<1>1. Extends(l, Facts(owner))
  BY DEF Extends, Facts
<1>2. World(owner)'
  BY DEF OuterInv, World
<1>3. SoundFiles(l)
  <2> HIDE DEF l
  <2> QED BY <1>1, FilesStay DEF OuterInv
<1>4. SoundFiles(Facts(owner))'
  BY <1>3 DEF SoundFiles
<1> QED BY <1>1, <1>2, <1>4, OneJob

\* The record of an added tree is saved as active; a tree is never added twice.
LEMMA GitAddKeeps ==
  ASSUME NEW owner, OuterInv(owner), NEW p \in Procs, GitAdd(p)
  PROVE  OuterInv(owner)'
<1> DEFINE k == Facts(owner)
           l == Facts(owner)'
           t == job[p].rec.task
           v == Write("worktrees", job[p].id, [job[p].rec EXCEPT !.status = "active"])
           j == [job[p] EXCEPT !.at = "list", !.writes = <<v>>]
<1>1. SoundJob(k, job[p]) /\ SoundWorktree(k, job[p].id, job[p].rec)
  BY DEF OuterInv, SoundJob, GitAdd
<1>2. t \in Tasks
  BY <1>1 DEF SoundWorktree, WorktreeRecords
<1>3. /\ \/ job' = [job EXCEPT ![p] = j]
         \/ job' = [job EXCEPT ![p] = NoJob]
      /\ \/ /\ t \notin branches /\ branches' = branches \union {t}
            /\ trees' \in {trees, trees \union {t}}
         \/ UNCHANGED <<trees, branches>>
      /\ UNCHANGED <<file, garbled, lapsed, drawn, history>>
  BY DEF GitAdd, Saves, Quits, Records, Rest, Git
<1>4. /\ branches \ trees \subseteq branches' \ trees'
      /\ trees' \subseteq branches' /\ branches' \subseteq Tasks
  BY <1>2, <1>3 DEF OuterInv, World
<1>5. SoundJob(k, j)
  <2>1. SoundWorktree(k, job[p].id, [job[p].rec EXCEPT !.status = "active"])
    BY <1>1 DEF SoundWorktree, WorktreeRecords
  <2>2. SoundWrite(k, v)
    <3> HIDE DEF k
    <3> QED BY <2>1, WritesAreSound DEF Sound, Files
  <2> HIDE DEF k, v
  <2> QED BY <1>1, <2>2, OneWrite, SavesSound
<1>6. Extends(l, k)
  BY <1>3, <1>4 DEF Extends, Facts
<1>7. SoundJob(l, j) /\ SoundJob(l, NoJob)
  <2> HIDE DEF k, l, j
  <2> QED BY <1>5, <1>6, JobStays, NoJobSound
<1> HIDE DEF j
<1> QED BY <1>3, <1>4, <1>7, GitKeeps

\* Only after git has removed the tree does the command go on to confirm it.
LEMMA GitRemoveKeeps ==
  ASSUME NEW owner, OuterInv(owner), NEW p \in Procs, GitRemove(p)
  PROVE  OuterInv(owner)'
<1> DEFINE k == Facts(owner)
           l == Facts(owner)'
           t == job[p].rec.task
           j == [job[p] EXCEPT !.at = "confirm"]
<1>1. SoundJob(k, job[p]) /\ SoundWorktree(k, job[p].id, job[p].rec)
  BY DEF OuterInv, SoundJob, GitRemove
<1>2. /\ \/ /\ job' = [job EXCEPT ![p] = j]
            /\ t \in trees /\ trees' = trees \ {t}
         \/ /\ job' = [job EXCEPT ![p] = NoJob]
            /\ trees' \in {trees, trees \ {t}}
      /\ UNCHANGED <<file, garbled, branches, lapsed, drawn, history>>
  BY DEF GitRemove, Quits, Records, Rest
<1>3. /\ branches \ trees \subseteq branches' \ trees'
      /\ trees' \subseteq branches' /\ branches' \subseteq Tasks
  BY <1>2 DEF OuterInv, World
<1>4. Extends(l, k)
  BY <1>2, <1>3 DEF Extends, Facts
<1>5. SoundJob(l, job[p]) /\ SoundJob(l, NoJob) /\ SoundWorktree(l, job[p].id, job[p].rec)
  <2> HIDE DEF k, l
  <2> QED BY <1>1, <1>4, JobStays, NoJobSound, WorktreeStays
<1>6. ASSUME t \in trees, trees' = trees \ {t} PROVE SoundJob(l, j)
  <2>1. t \in l.gone
    BY <1>2, <1>6 DEF Facts, OuterInv, World
  <2>2. /\ DOMAIN j = {"at", "id", "rec", "writes", "rest", "rows"}
        /\ j.at = "confirm" /\ j.id = job[p].id /\ j.rec = job[p].rec
        /\ j.writes = job[p].writes /\ j.rest = job[p].rest
    BY <1>1 DEF SoundJob
  <2>3. job[p].at = "remove"
    BY DEF GitRemove
  <2> HIDE DEF l, j
  <2> QED BY <1>5, <2>1, <2>2, <2>3 DEF SoundJob, Stages
<1> HIDE DEF j
<1> QED BY <1>2, <1>3, <1>5, <1>6, GitKeeps

\* mark_cleaned finds the record of the tree that is gone: an identifier never changes
\* its task.
LEMMA MarkCleanedKeeps ==
  ASSUME NEW owner, OuterInv(owner), NEW p \in Procs, MarkCleaned(p)
  PROVE  OuterInv(owner)'
<1> DEFINE w == job[p].id
           r == file["worktrees"][w]
           v == Write("worktrees", w, [r EXCEPT !.status = "cleaned"])
<1>1. /\ SoundWorktree(Facts(owner), w, job[p].rec)
      /\ job[p].rec.task \in Facts(owner).gone
  BY DEF OuterInv, SoundJob, MarkCleaned
<1>2. UNCHANGED <<file, garbled, trees, branches, lapsed, drawn, history>>
  BY DEF MarkCleaned, Records, Git, Rest
<1>3. history' \in Histories
  BY <1>2 DEF OuterInv, World
<1>4. CASE Loads("worktrees", w) /\ Saves(p, <<v>>)
  <2>1. SoundWorktree(Facts(owner), w, r)
    BY <1>4, LoadsSound DEF Files, Sound
  <2> HIDE DEF r
  <2>2. SoundWorktree(Facts(owner), w, [r EXCEPT !.status = "cleaned"])
    BY <1>1, <2>1 DEF SoundWorktree, WorktreeRecords
  <2>3. SoundWrite(Facts(owner), v)
    BY <2>2, WritesAreSound DEF Sound, Files
  <2> HIDE DEF v
  <2> QED BY <1>2, <1>3, <1>4, <2>3, OneWrite, SavesKeeps
<1>5. CASE Quits(p)
  BY <1>2, <1>3, <1>5, QuitsKeeps
<1> QED BY <1>4, <1>5 DEF MarkCleaned

\* Time passing changes no record.
LEMMA LapseKeeps ==
  ASSUME NEW owner, OuterInv(owner), NEW w, Lapse(w)
  PROVE  OuterInv(owner)'
<1>1. /\ Facts(owner)' = Facts(owner)
      /\ UNCHANGED <<file, garbled, job>>
  BY DEF Lapse, Facts, Records, Git
<1>2. World(owner)'
  BY DEF Lapse, OuterInv, World, Git
<1>3. SoundFiles(Facts(owner))'
  BY <1>1 DEF OuterInv, SoundFiles
<1> QED BY <1>1, <1>2, <1>3 DEF OuterInv

-----------------------------------------------------------------------------
(* Reviews. *)

\* A task that points to a worktree was planned, so a review of it may start; the new
\* identifier gets its task.
LEMMA StartReviewKeeps ==
  ASSUME NEW owner, OuterInv(owner), NEW p \in Procs, NEW t \in Tasks,
         NEW roles \in RoleSets, StartReview(p, t, roles)
  PROVE  \E o : OuterInv(o)'
<1>r. PICK r : r = drawn.reviews + 1
  OBVIOUS
<1> DEFINE k == Facts(owner)
           task == file["tasks"][t]
           review == [task |-> t, roles |-> roles, high |-> t \in CodeTasks,
                      noted |-> FALSE, status |-> "in_review", approvedBy |-> Nothing]
           v == Write("reviews", r, review)
           w == Write("tasks", t, [task EXCEPT !.review = r])
           o == [owner EXCEPT !.review[r] = t]
           l == Facts(o)'
           j == [job[p] EXCEPT !.at = "list", !.writes = <<v, w>>]
<1>1. SoundTask(k, t, task)
  BY LoadsSound DEF StartReview, Files, Sound
<1>2. /\ MayStart(t, task, roles) /\ r \in ReviewIds
      /\ drawn' = [drawn EXCEPT !.reviews = r]
      /\ job' = [job EXCEPT ![p] = j]
      /\ UNCHANGED <<file, garbled, trees, branches, lapsed, history>>
  BY <1>r DEF StartReview, Saves, Records, Git
<1> HIDE DEF task
<1>3. /\ o \in Owners /\ o.tree = owner.tree /\ o.review[r] = t
      /\ \A i \in ReviewIds : i # r => o.review[i] = owner.review[i]
  BY <1>2 DEF OuterInv, World, Owners
<1>4. /\ drawn'.worktrees = drawn.worktrees /\ drawn'.reviews = r
      /\ drawn' \in [worktrees : 0..MaxWorktrees, reviews : 0..MaxReviews]
      /\ 1..drawn.reviews \subseteq ReviewIds \ {r}
      /\ r \in 1..r /\ 1..drawn.reviews \subseteq 1..r
  BY <1>2, <1>r, OuterAssumptions DEF OuterInv, World, ReviewIds
<1> HIDE DEF o
<1>5. /\ l.planned = history.planned /\ l.verified = history.verified
      /\ l.gone = branches \ trees /\ l.drawn = drawn.worktrees /\ l.begun = r
      /\ l.owner = o
  BY <1>2, <1>4 DEF Facts
<1>6. Extends(l, k)
  <2> HIDE DEF l
  <2> QED BY <1>3, <1>4, <1>5 DEF Extends, Facts
<1>7. SoundTask(l, t, task)
  <2> HIDE DEF l, k
  <2> QED BY <1>1, <1>6 DEF SoundTask, Extends
<1>8. SoundReview(l, r, review)
  <2> HIDE DEF l
  <2> QED BY <1>2, <1>3, <1>4, <1>5, <1>7 DEF SoundReview, ReviewRecords, MayStart, SoundTask
<1>9. SoundTask(l, t, [task EXCEPT !.review = r])
  <2> HIDE DEF l
  <2> QED BY <1>2, <1>3, <1>4, <1>5, <1>7 DEF SoundTask, TaskRecords
<1>10. SoundWrite(l, v) /\ SoundWrite(l, w)
  <2> HIDE DEF l, review
  <2> QED BY <1>8, <1>9, WritesAreSound DEF Sound, Files
<1>11. SoundJob(l, j)
  <2>1. SoundJob(k, job[p])
    BY DEF OuterInv
  <2> HIDE DEF k, l, v, w
  <2> QED BY <1>6, <1>10, <2>1, JobStays, TwoWrites, SavesSound
<1>12. World(o)'
  BY <1>2, <1>3, <1>4 DEF OuterInv, World
<1>13. SoundFiles(Facts(o))'
  <2>1. SoundFiles(l)
    <3> HIDE DEF l
    <3> QED BY <1>6, FilesStay DEF OuterInv
  <2> QED BY <1>2, <2>1 DEF SoundFiles
<1> HIDE DEF j
<1> QED BY <1>2, <1>6, <1>11, <1>12, <1>13, OneJob

\* A verification is a fact before it is in the file.
LEMMA VerifyKeeps ==
  ASSUME NEW owner, OuterInv(owner), NEW p \in Procs, NEW i, Verify(p, i)
  PROVE  OuterInv(owner)'
<1> DEFINE k == Facts(owner)
           l == Facts(owner)'
           r == file["reviews"][i]
           v == Write("reviews", i, [r EXCEPT !.noted = TRUE])
           j == [job[p] EXCEPT !.at = "list", !.writes = <<v>>]
<1>1. SoundReview(k, i, r)
  BY LoadsSound DEF Verify, Files, Sound
<1>2. /\ job' = [job EXCEPT ![p] = j]
      /\ history' = [history EXCEPT !.verified = @ \union {i}]
      /\ UNCHANGED <<file, garbled, trees, branches, lapsed, drawn>>
  BY DEF Verify, Saves, Records, Git, Rest
<1>3. /\ history' \in Histories /\ history'.planned = history.planned
      /\ history'.verified = history.verified \union {i}
  BY <1>1, <1>2 DEF OuterInv, World, Histories, SoundReview
<1>4. Extends(l, k) /\ i \in l.verified
  BY <1>2, <1>3 DEF Extends, Facts
<1>5. SoundJob(l, job[p]) /\ SoundFiles(l) /\ SoundReview(l, i, r)
  <2>1. SoundReview(l, i, r)
    <3> HIDE DEF k, l, r
    <3> QED BY <1>1, <1>4 DEF SoundReview, Extends
  <2> HIDE DEF l
  <2> QED BY <1>4, <2>1, JobStays, FilesStay DEF OuterInv
<1>6. SoundJob(l, j)
  <2> HIDE DEF l, r
  <2>1. SoundReview(l, i, [r EXCEPT !.noted = TRUE])
    BY <1>4, <1>5 DEF SoundReview, ReviewRecords
  <2>2. SoundWrite(l, v)
    BY <2>1, WritesAreSound DEF Sound, Files
  <2> HIDE DEF v
  <2> QED BY <1>5, <2>2, OneWrite, SavesSound
<1>7. World(owner)'
  BY <1>2, <1>3 DEF OuterInv, World
<1>8. SoundFiles(Facts(owner))'
  BY <1>2, <1>5 DEF SoundFiles
<1> HIDE DEF j
<1> QED BY <1>2, <1>4, <1>6, <1>7, <1>8, OneJob

\* An approval rests on the note in the review it loaded.
LEMMA ApproveKeeps ==
  ASSUME NEW owner, OuterInv(owner), NEW p \in Procs, NEW i, Approve(p, i)
  PROVE  OuterInv(owner)'
<1> DEFINE r == file["reviews"][i]
           v == Write("reviews", i, [r EXCEPT !.status = "approved",
                                              !.approvedBy = r.roles.reviewer])
<1>1. SoundReview(Facts(owner), i, r) /\ MayApprove(r)
  BY LoadsSound DEF Approve, Files, Sound
<1>2. /\ Saves(p, <<v>>)
      /\ UNCHANGED <<file, garbled, trees, branches, lapsed, drawn, history>>
  BY DEF Approve, Records, Git, Rest
<1> HIDE DEF r
<1>3. SoundReview(Facts(owner), i, [r EXCEPT !.status = "approved",
                                             !.approvedBy = r.roles.reviewer])
  BY <1>1, OuterAssumptions DEF SoundReview, ReviewRecords, MayApprove
<1>4. SoundWrite(Facts(owner), v)
  BY <1>3, WritesAreSound DEF Sound, Files
<1> HIDE DEF v
<1> QED BY <1>2, <1>4, OneWrite, SavesKeeps DEF OuterInv, World

\* A rejection takes an approval back.
LEMMA RejectKeeps ==
  ASSUME NEW owner, OuterInv(owner), NEW p \in Procs, NEW i, Reject(p, i)
  PROVE  OuterInv(owner)'
<1> DEFINE r == file["reviews"][i]
           v == Write("reviews", i, [r EXCEPT !.status = "rejected"])
<1>1. SoundReview(Facts(owner), i, r)
  BY LoadsSound DEF Reject, Files, Sound
<1>2. /\ Saves(p, <<v>>)
      /\ UNCHANGED <<file, garbled, trees, branches, lapsed, drawn, history>>
  BY DEF Reject, Records, Git, Rest
<1> HIDE DEF r
<1>3. SoundReview(Facts(owner), i, [r EXCEPT !.status = "rejected"])
  BY <1>1 DEF SoundReview, ReviewRecords
<1>4. SoundWrite(Facts(owner), v)
  BY <1>3, WritesAreSound DEF Sound, Files
<1> HIDE DEF v
<1> QED BY <1>2, <1>4, OneWrite, SavesKeeps DEF OuterInv, World

-----------------------------------------------------------------------------
(* Saving. *)

\* The first of the saves left is a sound one.
LEMMA HeadSound ==
  ASSUME NEW k, NEW j, SoundJob(k, j), j.at \in {"list", "truncate", "fill"}
  PROVE  /\ j.writes \in Seq(Writes) /\ j.writes # <<>>
         /\ Head(j.writes) = j.writes[1]
         /\ SoundWrite(k, Head(j.writes)) /\ Head(j.writes).to \in Files
         /\ Tail(j.writes) \in Seq(Writes)
         /\ \A n \in 1..Len(Tail(j.writes)) : SoundWrite(k, Tail(j.writes)[n])
<1>1. /\ j.writes \in Seq(Writes) /\ j.writes # <<>>
      /\ \A n \in 1..Len(j.writes) : SoundWrite(k, j.writes[n])
  BY DEF SoundJob
<1>2. SoundWrite(k, Head(j.writes)) /\ Head(j.writes) = j.writes[1]
  BY <1>1
<1>3. Head(j.writes).to \in Files
  BY <1>2 DEF SoundWrite, Sound, Files
<1> QED BY <1>1, <1>2, <1>3

\* A listing with one sound record merged in is sound.
LEMMA ListKeeps ==
  ASSUME NEW owner, OuterInv(owner), NEW p \in Procs, List(p)
  PROVE  OuterInv(owner)'
<1> DEFINE k == Facts(owner)
           w == Head(job[p].writes)
           rows == Merged(file[w.to], w)
           j == [job[p] EXCEPT !.at = "truncate", !.rows = rows]
<1>1. SoundJob(k, job[p]) /\ job[p].at = "list"
  BY DEF OuterInv, List
<1>2. /\ SoundWrite(k, w) /\ w.to \in Files /\ w = job[p].writes[1]
  <2> HIDE DEF k
  <2> QED BY <1>1, HeadSound
<1>3. \A i \in DOMAIN rows : Sound(k, w.to, i, rows[i])
  <2>1. \A i \in DOMAIN file[w.to] : Sound(k, w.to, i, file[w.to][i])
    BY <1>2 DEF OuterInv, SoundFiles
  <2> HIDE DEF k, w
  <2> QED BY <1>2, <2>1 DEF SoundWrite, Merged
<1>4. SoundJob(k, j)
  <2>1. /\ DOMAIN j = {"at", "id", "rec", "writes", "rest", "rows"}
        /\ j.at = "truncate" /\ j.writes = job[p].writes /\ j.rest = job[p].rest
        /\ j.rows = rows
    BY <1>1 DEF SoundJob
  <2> HIDE DEF k, j, rows, w
  <2> QED BY <1>1, <1>2, <1>3, <2>1 DEF SoundJob, Stages
<1>5. /\ UNCHANGED <<file, garbled, trees, branches, lapsed, drawn, history>>
      /\ job' = [job EXCEPT ![p] = j] \/ job' = [job EXCEPT ![p] = NoJob]
  BY DEF List, Quits, Records, Git, Rest
<1>6. history' \in Histories
  BY <1>5 DEF OuterInv, World
<1> HIDE DEF j
<1> QED BY <1>4, <1>5, <1>6, NoJobSound, JobOnly

\* An empty file claims nothing.
LEMMA TruncateKeeps ==
  ASSUME NEW owner, OuterInv(owner), NEW p \in Procs, Truncate(p)
  PROVE  OuterInv(owner)'
<1> DEFINE k == Facts(owner)
           f == Head(job[p].writes).to
           j == [job[p] EXCEPT !.at = "fill"]
<1>1. SoundJob(k, job[p]) /\ job[p].at = "truncate"
  BY DEF OuterInv, Truncate
<1>2. f \in Files
  <2> HIDE DEF k
  <2> QED BY <1>1, HeadSound
<1>3. /\ file' = [file EXCEPT ![f] = <<>>] /\ garbled' = garbled \ {f}
      /\ job' = [job EXCEPT ![p] = j]
      /\ UNCHANGED <<trees, branches, lapsed, drawn, history>>
  BY DEF Truncate, Git, Rest
<1>4. Facts(owner)' = k /\ World(owner)' /\ Extends(k, k)
  BY <1>3 DEF Facts, OuterInv, World, Extends
<1>5. SoundFiles(Facts(owner))'
  <2>1. SoundFiles(k)
    BY DEF OuterInv
  <2>2. DOMAIN <<>> = {}
    OBVIOUS
  <2> HIDE DEF k, f
  <2> QED BY <1>2, <1>3, <1>4, <2>1, <2>2 DEF SoundFiles
<1>6. SoundJob(k, j)
  <2>1. /\ DOMAIN j = {"at", "id", "rec", "writes", "rest", "rows"}
        /\ j.at = "fill" /\ j.writes = job[p].writes /\ j.rest = job[p].rest
        /\ j.rows = job[p].rows
    BY <1>1 DEF SoundJob
  <2> HIDE DEF k, j
  <2> QED BY <1>1, <2>1 DEF SoundJob, Stages
<1> HIDE DEF j
<1> QED BY <1>3, <1>4, <1>5, <1>6, OneJob

\* What is left after a save is sound.
LEMMA AfterWriteSound ==
  ASSUME NEW k, NEW j, SoundJob(k, j), j.at = "fill"
  PROVE  SoundJob(k, AfterWrite(j))
<1>1. /\ Tail(j.writes) \in Seq(Writes)
      /\ \A n \in 1..Len(Tail(j.writes)) : SoundWrite(k, Tail(j.writes)[n])
      /\ j.writes \in Seq(Writes)
  BY HeadSound
<1> DEFINE next == [j EXCEPT !.at = "list", !.writes = Tail(@), !.rows = <<>>]
           back == [j EXCEPT !.at = "expire", !.writes = <<>>, !.rows = <<>>]
<1>2. ASSUME Len(j.writes) > 1 PROVE SoundJob(k, next)
  <2>1. /\ DOMAIN next = {"at", "id", "rec", "writes", "rest", "rows"}
        /\ next.at = "list" /\ next.writes = Tail(j.writes) /\ next.rest = j.rest
    BY DEF SoundJob
  <2>2. Tail(j.writes) # <<>>
    <3> DEFINE rest == Tail(j.writes)
    <3>1. Len(rest) > 0
      BY <1>1, <1>2
    <3>2. rest \in Seq(Writes)
      BY <1>1
    <3> HIDE DEF rest
    <3>3. rest # <<>>
      BY <3>1, <3>2
    <3> QED BY <3>3 DEF rest
  <2> HIDE DEF next
  <2> QED BY <1>1, <2>1, <2>2 DEF SoundJob, Stages
<1>3. ASSUME j.rest # <<>> PROVE SoundJob(k, back)
  <2>1. /\ DOMAIN back = {"at", "id", "rec", "writes", "rest", "rows"}
        /\ back.at = "expire" /\ back.writes = <<>> /\ back.rest = j.rest
    BY DEF SoundJob
  <2> HIDE DEF back
  <2> QED BY <1>3, <2>1 DEF SoundJob, Stages
<1> QED BY <1>2, <1>3, NoJobSound DEF AfterWrite

\* Whichever of the two writers wins, the rows are sound or the file is unreadable.
LEMMA FillKeeps ==
  ASSUME NEW owner, OuterInv(owner), NEW p \in Procs, Fill(p)
  PROVE  OuterInv(owner)'
<1> DEFINE k == Facts(owner)
           w == Head(job[p].writes)
           j == AfterWrite(job[p])
<1>1. SoundJob(k, job[p]) /\ job[p].at = "fill"
  BY DEF OuterInv, Fill
<1>2. /\ w.to \in Files /\ w = job[p].writes[1] /\ SoundWrite(k, w)
  <2> HIDE DEF k
  <2> QED BY <1>1, HeadSound
<1>3. /\ \/ /\ file' = [file EXCEPT ![w.to] = job[p].rows]
            /\ garbled' = garbled \ {w.to}
         \/ /\ file' = [file EXCEPT ![w.to] = <<>>]
            /\ garbled' = garbled \union {w.to}
      /\ job' = [job EXCEPT ![p] = j]
      /\ history' = [history EXCEPT !.saved[w.to] = @ \union {w.id}]
      /\ UNCHANGED <<trees, branches, lapsed, drawn>>
  BY DEF Fill, Git, Rest
<1>4. /\ history' \in Histories
      /\ history'.planned = history.planned /\ history'.verified = history.verified
  <2>1. w.id \in Tasks \union WorktreeIds \union ReviewIds
    BY <1>2 DEF SoundWrite, Writes
  <2> HIDE DEF w, k
  <2> QED BY <1>2, <1>3, <2>1 DEF OuterInv, World, Histories
<1>5. Facts(owner)' = k /\ World(owner)' /\ Extends(k, k)
  BY <1>3, <1>4 DEF Facts, OuterInv, World, Extends
<1>6. SoundFiles(Facts(owner))'
  <2>1. SoundFiles(k) /\ \A i \in DOMAIN job[p].rows : Sound(k, w.to, i, job[p].rows[i])
    BY <1>1, <1>2 DEF OuterInv, SoundJob
  <2>2. DOMAIN <<>> = {}
    OBVIOUS
  <2> HIDE DEF k, w
  <2>3. file' = [f \in Files |-> file'[f]]
    BY <1>3, <2>1 DEF SoundFiles
  <2>4. CASE /\ file' = [file EXCEPT ![w.to] = job[p].rows]
             /\ garbled' = garbled \ {w.to}
    BY <1>2, <1>5, <2>1, <2>3, <2>4 DEF SoundFiles
  <2>5. CASE /\ file' = [file EXCEPT ![w.to] = <<>>]
             /\ garbled' = garbled \union {w.to}
    BY <1>2, <1>5, <2>1, <2>2, <2>3, <2>5 DEF SoundFiles
  <2> QED BY <1>3, <2>4, <2>5
<1>7. SoundJob(k, j)
  <2> HIDE DEF k
  <2> QED BY <1>1, AfterWriteSound
<1> HIDE DEF j
<1> QED BY <1>3, <1>5, <1>6, <1>7, OneJob

\* A process that dies takes its copies along.
LEMMA CrashKeeps ==
  ASSUME NEW owner, OuterInv(owner), NEW p \in Procs, Crash(p)
  PROVE  OuterInv(owner)'
<1>1. /\ Quits(p)
      /\ UNCHANGED <<file, garbled, trees, branches, lapsed, drawn>>
  BY DEF Crash, Records, Git, Rest
<1>2. job[p].at = "fill" => Head(job[p].writes).to \in Files
  BY HeadSound DEF OuterInv
<1>3. /\ history' \in Histories
      /\ history'.planned = history.planned /\ history'.verified = history.verified
  <2>1. PICK torn \in SUBSET Files, n \in Nat :
          history' = [history EXCEPT !.crashes = n, !.torn = torn]
    <3>1. history.crashes + 1 \in Nat /\ history.torn \subseteq Files
      BY DEF OuterInv, World, Histories
    <3> QED BY <1>2, <3>1 DEF Crash
  <2>2. history \in Histories
    BY DEF OuterInv, World
  <2> QED BY <2>1, <2>2 DEF Histories
<1> QED BY <1>1, <1>3, QuitsKeeps

-----------------------------------------------------------------------------
(* The specification keeps the invariant. *)

OuterSound == \E owner : OuterInv(owner)

\* Nothing has happened yet.
LEMMA OuterInit == Init => OuterSound
<1> SUFFICES ASSUME Init PROVE OuterSound
  OBVIOUS
<1> DEFINE owner == [tree |-> [w \in WorktreeIds |-> [task |-> Nothing, first |-> "planned"]],
                     review |-> [r \in ReviewIds |-> Nothing]]
<1>1. World(owner)
  BY OuterAssumptions DEF Init, World, Histories, Owners
<1>2. SoundFiles(Facts(owner))
  BY DEF Init, SoundFiles
<1>3. job = [p \in Procs |-> job[p]] /\ \A p \in Procs : SoundJob(Facts(owner), job[p])
  BY NoJobSound DEF Init
<1> QED BY <1>1, <1>2, <1>3 DEF OuterSound, OuterInv

\* The invariant looks at nothing outside vars.
LEMMA OuterStutter == OuterSound /\ UNCHANGED vars => OuterSound'
BY DEF OuterSound, OuterInv, World, SoundFiles, Facts, vars

\* Every step keeps it.
LEMMA OuterStep == OuterSound /\ Next => OuterSound'
<1> SUFFICES ASSUME NEW owner, OuterInv(owner), Next
             PROVE  \E o : OuterInv(o)'
  BY DEF OuterSound
<1>1. ASSUME NEW p \in Procs, Step(p) PROVE \E o : OuterInv(o)'
  <2>1. ASSUME NEW t \in Tasks,
               \/ Create(p, t) \/ EditTodos(p, t) \/ Plan(p, t)
               \/ \E roles \in RoleSets : StartReview(p, t, roles)
        PROVE  \E o : OuterInv(o)'
    BY <2>1, CreateKeeps, EditTodosKeeps, PlanKeeps, StartReviewKeeps
  <2>2. ASSUME NEW w \in WorktreeIds, MarkStale(p, w) \/ Materialize(p, w) \/ Cleanup(p, w)
        PROVE  OuterInv(owner)'
    BY <2>2, MarkStaleKeeps, MaterializeKeeps, CleanupKeeps
  <2>3. ASSUME NEW locks \in LockSets, PlanWorktree(p, locks) PROVE \E o : OuterInv(o)'
    BY <2>3, PlanWorktreeKeeps
  <2>4. ExpireLeases(p) \/ ExpireNext(p) \/ GitAdd(p) \/ GitRemove(p) \/ MarkCleaned(p)
        => OuterInv(owner)'
    BY ExpireLeasesKeeps, ExpireNextKeeps, GitAddKeeps, GitRemoveKeeps, MarkCleanedKeeps
  <2>5. ASSUME NEW r \in ReviewIds, Verify(p, r) \/ Approve(p, r) \/ Reject(p, r)
        PROVE  OuterInv(owner)'
    BY <2>5, VerifyKeeps, ApproveKeeps, RejectKeeps
  <2>6. List(p) \/ Truncate(p) \/ Fill(p) \/ Crash(p) => OuterInv(owner)'
    BY ListKeeps, TruncateKeeps, FillKeeps, CrashKeeps
  <2> QED BY <1>1, <2>1, <2>2, <2>3, <2>4, <2>5, <2>6 DEF Step
<1>2. ASSUME NEW w \in WorktreeIds, Lapse(w) PROVE OuterInv(owner)'
  BY <1>2, LapseKeeps
<1> QED BY <1>1, <1>2 DEF Next

\* So it always holds.
LEMMA OuterAlways == Spec => []OuterSound
BY OuterInit, OuterStutter, OuterStep, PTL DEF Spec

\* Types hold for any number of processes, tasks, overlaps and crashes.
THEOREM OuterTypeCorrect == Spec => []TypeOK
<1>1. OuterSound => TypeOK
  <2> SUFFICES ASSUME NEW owner, OuterInv(owner) PROVE TypeOK
    BY DEF OuterSound
  <2> DEFINE k == Facts(owner)
  <2>1. /\ \A t \in DOMAIN file["tasks"] : SoundTask(k, t, file["tasks"][t])
        /\ \A w \in DOMAIN file["worktrees"] : SoundWorktree(k, w, file["worktrees"][w])
        /\ \A r \in DOMAIN file["reviews"] : SoundReview(k, r, file["reviews"][r])
    BY DEF OuterInv, SoundFiles, Sound, Files
  <2>2. \A p \in Procs : SoundJob(k, job[p])
    BY DEF OuterInv
  <2>3. /\ garbled \subseteq Files /\ \A f \in garbled : DOMAIN file[f] = {}
        /\ trees \subseteq branches /\ branches \subseteq Tasks
        /\ drawn \in [worktrees : 0..MaxWorktrees, reviews : 0..MaxReviews]
        /\ lapsed \subseteq 1..drawn.worktrees
        /\ history \in Histories
    BY DEF OuterInv, World, SoundFiles
  <2> HIDE DEF k
  <2> QED BY <2>1, <2>2, <2>3
          DEF TypeOK, SoundTask, SoundWorktree, SoundReview, SoundJob, Listed
<1> QED BY <1>1, OuterAlways, PTL

\* No code change is approved without a verification, nor by its producer or verifier,
\* whatever commands overlap and die (ReviewCoordinator.approve).
THEOREM OuterApprovals == Spec => []ApprovedWasVerified
<1>1. OuterSound => ApprovedWasVerified
  BY DEF OuterSound, OuterInv, SoundFiles, Sound, SoundReview, Files, Facts,
         ApprovedWasVerified
<1> QED BY <1>1, OuterAlways, PTL

\* No code change is under review without a plan for its worktree, whatever commands
\* overlap and die (ReviewCoordinator.start).
THEOREM OuterReviews == Spec => []ReviewedWasPlanned
<1>1. OuterSound => ReviewedWasPlanned
  BY DEF OuterSound, OuterInv, SoundFiles, Sound, SoundReview, Files, Facts,
         ReviewedWasPlanned
<1> QED BY <1>1, OuterAlways, PTL

\* A worktree recorded as cleaned is gone and never comes back, whatever commands
\* overlap, time out and die (worktrees cleanup).
THEOREM OuterCleaned == Spec => []CleanedIsGone
<1>1. OuterSound => CleanedIsGone
  BY DEF OuterSound, OuterInv, SoundFiles, Sound, SoundWorktree, Files, Facts,
         CleanedIsGone
<1> QED BY <1>1, OuterAlways, PTL

-----------------------------------------------------------------------------
(* Whatever a task points to has been saved. *)

\* Both records a task may point to are among those that have been saved.
Linked(saved, r) ==
  /\ r.worktree # Nothing => r.worktree \in saved["worktrees"]
  /\ r.review # Nothing => r.review \in saved["reviews"]

With(saved, w) == [saved EXCEPT ![w.to] = @ \union {w.id}]

\* A task that a process holds is linked, and the second of two saves will be.
LinkedJob(saved, j) ==
  /\ j.at = "plan" => Linked(saved, j.rec)
  /\ j.writes # <<>> /\ j.writes[1].to = "tasks" => Linked(saved, j.writes[1].rec)
  /\ Len(j.writes) <= 2
  /\ Len(j.writes) = 2 =>
       j.writes[2].to = "tasks" /\ Linked(With(saved, j.writes[1]), j.writes[2].rec)
  /\ j.at \in {"truncate", "fill"} /\ j.writes[1].to = "tasks" =>
       \A t \in DOMAIN j.rows : Linked(saved, j.rows[t])

LinkInv ==
  /\ \A t \in DOMAIN file["tasks"] : Linked(history.saved, file["tasks"][t])
  /\ \A p \in Procs : LinkedJob(history.saved, job[p])

Shaped(j) ==
  /\ DOMAIN j = {"at", "id", "rec", "writes", "rest", "rows"}
  /\ j.writes \in Seq(Writes)
  /\ j.rest \in Seq(Listed)
  /\ (j.at \in {"list", "truncate", "fill"}) = (j.writes # <<>>)

\* What the sections below need of the types.
LEMMA Shapes ==
  ASSUME OuterSound
  PROVE  /\ file = [f \in Files |-> file[f]]
         /\ job = [p \in Procs |-> job[p]]
         /\ \A p \in Procs : Shaped(job[p])
         /\ history \in Histories
         /\ history.saved \in [Files -> SUBSET (Tasks \union WorktreeIds \union ReviewIds)]
BY DEF OuterSound, OuterInv, SoundFiles, SoundJob, Shaped, World, Histories

\* Saves is an update of the job.
LEMMA SavesJob ==
  ASSUME NEW p \in Procs, Shaped(job[p]), NEW ws, Saves(p, ws)
  PROVE  \E j : /\ job' = [job EXCEPT ![p] = j]
                /\ j.at = "list" /\ j.writes = ws /\ j.rest = job[p].rest
<1> DEFINE j == [job[p] EXCEPT !.at = "list", !.writes = ws]
<1>1. job' = [job EXCEPT ![p] = j]
  BY DEF Saves
<1>2. j.at = "list" /\ j.writes = ws /\ j.rest = job[p].rest
  BY DEF Shaped
<1> QED BY <1>1, <1>2

\* More saves undo no link.
LEMMA LinkedStays ==
  ASSUME NEW s, NEW u, \A f \in Files : s[f] \subseteq u[f], NEW r, Linked(s, r)
  PROVE  Linked(u, r)
BY DEF Linked, Files

\* The same for all that a process holds.
LEMMA LinkedJobStays ==
  ASSUME NEW S, NEW s \in [Files -> SUBSET S], NEW u \in [Files -> SUBSET S],
         \A f \in Files : s[f] \subseteq u[f], NEW j, Shaped(j), LinkedJob(s, j)
  PROVE  LinkedJob(u, j)
<1>1. /\ \A r : Linked(s, r) => Linked(u, r)
  BY LinkedStays
<1>2. ASSUME Len(j.writes) = 2
      PROVE  Linked(With(s, j.writes[1]), j.writes[2].rec)
             => Linked(With(u, j.writes[1]), j.writes[2].rec)
  <2>1. \A f \in Files : With(s, j.writes[1])[f] \subseteq With(u, j.writes[1])[f]
    BY DEF With
  <2> QED BY <2>1, LinkedStays
<1> QED BY <1>1, <1>2 DEF LinkedJob

\* One process gets a new job.
LEMMA LinksKept ==
  ASSUME LinkInv, OuterSound, OuterSound', NEW p \in Procs, NEW j,
         job' = [job EXCEPT ![p] = j], LinkedJob(history'.saved, j),
         \A f \in Files : history.saved[f] \subseteq history'.saved[f],
         \A t \in DOMAIN file'["tasks"] : Linked(history'.saved, file'["tasks"][t])
  PROVE  LinkInv'
<1>1. /\ \A q \in Procs : Shaped(job[q])
      /\ job = [q \in Procs |-> job[q]]
  BY Shapes
<1>2. history.saved \in [Files -> SUBSET (Tasks \union WorktreeIds \union ReviewIds)]
  BY Shapes
<1>3. history'.saved \in [Files -> SUBSET (Tasks \union WorktreeIds \union ReviewIds)]
  BY DEF OuterSound, OuterInv, World, Histories
<1>4. \A q \in Procs \ {p} : LinkedJob(history'.saved, job[q])
  BY <1>1, <1>2, <1>3, LinkedJobStays DEF LinkInv
<1>5. job'[p] = j /\ \A q \in Procs \ {p} : job'[q] = job[q]
  BY <1>1
<1> QED BY <1>4, <1>5 DEF LinkInv

\* Most steps touch neither the files nor what has been saved.
LEMMA LinksQuiet ==
  ASSUME LinkInv, OuterSound, OuterSound', NEW p \in Procs, NEW j,
         job' = [job EXCEPT ![p] = j], LinkedJob(history.saved, j),
         UNCHANGED file, history'.saved = history.saved
  PROVE  LinkInv'
BY LinksKept DEF LinkInv

\* A single save is linked, or of another file.
LEMMA LinksSaves ==
  ASSUME LinkInv, OuterSound, OuterSound', NEW p \in Procs, NEW v, Saves(p, <<v>>),
         v.to = "tasks" => Linked(history.saved, v.rec),
         UNCHANGED file, history'.saved = history.saved
  PROVE  LinkInv'
<1>1. Shaped(job[p])
  BY Shapes
<1>2. PICK j : /\ job' = [job EXCEPT ![p] = j]
               /\ j.at = "list" /\ j.writes = <<v>> /\ j.rest = job[p].rest
  BY <1>1, SavesJob
<1>3. LinkedJob(history.saved, j)
  BY <1>2 DEF LinkedJob
<1> QED BY <1>2, <1>3, LinksQuiet

\* Giving up leaves nothing to link.
LEMMA LinksQuits ==
  ASSUME LinkInv, OuterSound, OuterSound', NEW p \in Procs, Quits(p),
         UNCHANGED file, history'.saved = history.saved
  PROVE  LinkInv'
<1>1. LinkedJob(history.saved, NoJob)
  BY DEF LinkedJob, NoJob
<1> QED BY <1>1, LinksQuiet DEF Quits

\* A process that reads on, with the same saves to make.
LEMMA LinksReads ==
  ASSUME LinkInv, OuterSound, OuterSound', NEW p \in Procs, NEW j,
         job' = [job EXCEPT ![p] = j], j.writes = job[p].writes,
         j.at \notin {"plan", "truncate", "fill"},
         UNCHANGED file, history'.saved = history.saved
  PROVE  LinkInv'
<1>1. LinkedJob(history.saved, j)
  BY DEF LinkInv, LinkedJob
<1> QED BY <1>1, LinksQuiet

\* A worktree is saved before the task that points to it.
LEMMA PlanWorktreeLinks ==
  ASSUME LinkInv, OuterSound, OuterSound', NEW p \in Procs, NEW locks \in LockSets,
         PlanWorktree(p, locks)
  PROVE  LinkInv'
<1>w. PICK w : w = drawn.worktrees + 1
  OBVIOUS
<1>t. PICK t : t = job[p].id
  OBVIOUS
<1>r. PICK record : record = [task |-> t, locks |-> locks,
                        status |-> IF Conflicts(t, locks) = {} THEN "planned" ELSE "conflict"]
  OBVIOUS
<1> DEFINE ws == PlanWrites(t, job[p].rec, w, record)
           v == Write("worktrees", w, record)
           task == [job[p].rec EXCEPT !.worktree = w, !.status = "ready"]
<1>1. /\ job[p].at = "plan"
      /\ Saves(p, ws)
      /\ UNCHANGED file
      /\ history'.saved = history.saved
  <2>1. history \in Histories
    BY Shapes
  <2> QED BY <2>1, <1>w, <1>t, <1>r DEF PlanWorktree, Records, Histories
<1>2. Shaped(job[p]) /\ Linked(history.saved, job[p].rec)
  BY <1>1, Shapes DEF LinkInv, LinkedJob
<1>3. job[p].rec \in TaskRecords
  BY <1>1 DEF OuterSound, OuterInv, SoundJob, SoundTask
<1>4. PICK j : /\ job' = [job EXCEPT ![p] = j]
               /\ j.at = "list" /\ j.writes = ws /\ j.rest = job[p].rest
  BY <1>1, <1>2, SavesJob
<1>5. Linked(With(history.saved, v), task)
  <2>1. /\ history.saved \in [Files -> SUBSET (Tasks \union WorktreeIds \union ReviewIds)]
    BY Shapes
  <2>2. task.worktree = w /\ task.review = job[p].rec.review
    BY <1>3 DEF TaskRecords
  <2>3. /\ w \in With(history.saved, v)["worktrees"]
        /\ history.saved["reviews"] \subseteq With(history.saved, v)["reviews"]
    BY <2>1 DEF With, Write, Files
  <2> QED BY <1>2, <2>2, <2>3 DEF Linked
<1>6. CASE ws = <<v, Write("tasks", t, task)>>
  <2>1. /\ Len(ws) = 2 /\ ws[1] = v /\ ws[2].to = "tasks" /\ ws[2].rec = task
        /\ ws[1].to = "worktrees"
    BY <1>6 DEF Write
  <2> HIDE DEF ws, v, task
  <2>2. LinkedJob(history.saved, j)
    BY <1>4, <1>5, <2>1 DEF LinkedJob
  <2> QED BY <1>1, <1>4, <2>2, LinksQuiet
<1>7. CASE ws = <<v>>
  BY <1>1, <1>7, LinksSaves DEF Write
<1> QED BY <1>6, <1>7 DEF PlanWrites

\* A review is saved before the task that points to it.
LEMMA StartReviewLinks ==
  ASSUME LinkInv, OuterSound, OuterSound', NEW p \in Procs, NEW t \in Tasks,
         NEW roles \in RoleSets, StartReview(p, t, roles)
  PROVE  LinkInv'
<1>r. PICK r : r = drawn.reviews + 1
  OBVIOUS
<1>v. PICK v : v = Write("reviews", r,
                         [task |-> t, roles |-> roles, high |-> t \in CodeTasks,
                          noted |-> FALSE, status |-> "in_review", approvedBy |-> Nothing])
  OBVIOUS
<1> DEFINE task == [file["tasks"][t] EXCEPT !.review = r]
           ws == <<v, Write("tasks", t, task)>>
<1>1. /\ Loads("tasks", t)
      /\ Saves(p, ws)
      /\ UNCHANGED <<file, history>>
  BY <1>r, <1>v DEF StartReview, Records
<1>2. /\ Linked(history.saved, file["tasks"][t])
      /\ file["tasks"][t] \in TaskRecords
  BY <1>1 DEF LinkInv, Loads, OuterSound, OuterInv, SoundFiles, Sound, SoundTask, Files
<1>3. Linked(With(history.saved, v), task)
  <2>1. /\ history.saved \in [Files -> SUBSET (Tasks \union WorktreeIds \union ReviewIds)]
    BY Shapes
  <2>2. task.review = r /\ task.worktree = file["tasks"][t].worktree
    BY <1>2 DEF TaskRecords
  <2>3. /\ r \in With(history.saved, v)["reviews"]
        /\ history.saved["worktrees"] \subseteq With(history.saved, v)["worktrees"]
    BY <1>v, <2>1 DEF With, Write, Files
  <2> QED BY <1>2, <2>2, <2>3 DEF Linked
<1>4. PICK j : /\ job' = [job EXCEPT ![p] = j]
               /\ j.at = "list" /\ j.writes = ws /\ j.rest = job[p].rest
  BY <1>1, Shapes, SavesJob
<1>5. /\ Len(ws) = 2 /\ ws[1] = v /\ ws[2].to = "tasks" /\ ws[2].rec = task
      /\ ws[1].to = "reviews"
  BY <1>v DEF Write
<1> HIDE DEF ws, task
<1>6. LinkedJob(history.saved, j)
  BY <1>3, <1>4, <1>5 DEF LinkedJob
<1> QED BY <1>1, <1>4, <1>6, LinksQuiet

\* A listing with a linked task merged in is linked.
LEMMA ListLinks ==
  ASSUME LinkInv, OuterSound, OuterSound', NEW p \in Procs, List(p)
  PROVE  LinkInv'
<1> DEFINE w == Head(job[p].writes)
           rows == Merged(file[w.to], w)
           j == [job[p] EXCEPT !.at = "truncate", !.rows = rows]
<1>1. /\ job[p].at = "list" /\ UNCHANGED <<file, history>>
      /\ job' = [job EXCEPT ![p] = j] \/ Quits(p)
  BY DEF List, Records
<1>2. Shaped(job[p]) /\ w = job[p].writes[1]
  BY <1>1, Shapes DEF Shaped
<1>3. /\ j.at = "truncate" /\ j.rows = rows /\ j.writes = job[p].writes
  BY <1>2 DEF Shaped
<1>4. LinkedJob(history.saved, job[p]) /\ job[p].writes # <<>>
  BY <1>1, <1>2 DEF LinkInv, Shaped
<1>5. ASSUME w.to = "tasks" PROVE \A t \in DOMAIN rows : Linked(history.saved, rows[t])
  BY <1>2, <1>4, <1>5 DEF LinkInv, LinkedJob, Merged
<1> HIDE DEF rows, w, j
<1>6. LinkedJob(history.saved, j)
  BY <1>2, <1>3, <1>4, <1>5 DEF LinkedJob
<1> QED BY <1>1, <1>6, LinksQuiet, LinksQuits

\* An empty file has no links.
LEMMA TruncateLinks ==
  ASSUME LinkInv, OuterSound, OuterSound', NEW p \in Procs, Truncate(p)
  PROVE  LinkInv'
<1> DEFINE f == Head(job[p].writes).to
           j == [job[p] EXCEPT !.at = "fill"]
<1>1. /\ job[p].at = "truncate" /\ job' = [job EXCEPT ![p] = j]
      /\ file' = [file EXCEPT ![f] = <<>>] /\ UNCHANGED history
  BY DEF Truncate
<1>2. Shaped(job[p]) /\ file = [g \in Files |-> file[g]]
  BY Shapes
<1>3. /\ j.at = "fill" /\ j.rows = job[p].rows /\ j.writes = job[p].writes
  BY <1>2 DEF Shaped
<1>4. LinkedJob(history.saved, j)
  <2> HIDE DEF j
  <2> QED BY <1>1, <1>3 DEF LinkInv, LinkedJob
<1>5. \A t \in DOMAIN file'["tasks"] : Linked(history'.saved, file'["tasks"][t])
  BY <1>1, <1>2 DEF LinkInv, Files
<1> HIDE DEF j
<1> QED BY <1>1, <1>4, <1>5, LinksKept

\* When the first of two saves is done, the second is the only one left.
LEMMA TwoLeft ==
  ASSUME NEW S, NEW ws \in Seq(S), Len(ws) > 1, Len(ws) <= 2
  PROVE  Len(ws) = 2 /\ Len(Tail(ws)) = 1 /\ Tail(ws)[1] = ws[2]
<1>1. PICK n \in Nat : n = Len(ws)
  OBVIOUS
<1>2. Len(ws) = 2
  BY <1>1
<1>3. Len(Tail(ws)) = 1
  BY <1>2
<1>4. \A i \in 1..Len(Tail(ws)) : Tail(ws)[i] = ws[i + 1]
  OBVIOUS
<1> QED BY <1>2, <1>3, <1>4

\* A process with one linked save left is linked.
LEMMA LastLinked ==
  ASSUME NEW saved, NEW j, j.at = "list", Len(j.writes) = 1, Linked(saved, j.writes[1].rec)
  PROVE  LinkedJob(saved, j)
<1>1. Len(j.writes) # 2 /\ Len(j.writes) <= 2
  OBVIOUS
<1>2. j.at # "plan" /\ j.at \notin {"truncate", "fill"}
  OBVIOUS
<1> QED BY <1>1, <1>2 DEF LinkedJob

\* Once the first record is saved, the second is linked.
LEMMA FillLinks ==
  ASSUME LinkInv, OuterSound, OuterSound', NEW p \in Procs, Fill(p)
  PROVE  LinkInv'
<1> DEFINE w == Head(job[p].writes)
           j == AfterWrite(job[p])
<1>1. /\ job[p].at = "fill" /\ job' = [job EXCEPT ![p] = j]
      /\ \/ file' = [file EXCEPT ![w.to] = job[p].rows]
         \/ file' = [file EXCEPT ![w.to] = <<>>]
      /\ history' = [history EXCEPT !.saved[w.to] = @ \union {w.id}]
  BY DEF Fill
<1>2. /\ Shaped(job[p]) /\ file = [g \in Files |-> file[g]] /\ history \in Histories
      /\ history.saved \in [Files -> SUBSET (Tasks \union WorktreeIds \union ReviewIds)]
  BY Shapes
<1>3. LinkedJob(history.saved, job[p]) /\ job[p].writes # <<>> /\ w = job[p].writes[1]
  BY <1>1, <1>2 DEF LinkInv, Shaped
<1>4. w.to \in Files
  BY <1>2, <1>3 DEF Shaped, Writes, Files
<1>5. /\ history'.saved = With(history.saved, w)
      /\ \A f \in Files : history.saved[f] \subseteq history'.saved[f]
  BY <1>1, <1>2, <1>4 DEF Histories, With
<1>6. \A r : Linked(history.saved, r) => Linked(history'.saved, r)
  BY <1>5, LinkedStays
<1>7. \A t \in DOMAIN file'["tasks"] : Linked(history'.saved, file'["tasks"][t])
  <2>1. w.to = "tasks" => \A t \in DOMAIN job[p].rows : Linked(history.saved, job[p].rows[t])
    BY <1>1, <1>3 DEF LinkedJob
  <2> HIDE DEF w
  <2>2. \/ file'["tasks"] = file["tasks"]
        \/ w.to = "tasks" /\ file'["tasks"] = job[p].rows
        \/ file'["tasks"] = <<>>
    BY <1>1, <1>2, <1>4 DEF Files
  <2> QED BY <1>6, <2>1, <2>2 DEF LinkInv
<1>8. LinkedJob(history'.saved, j)
  <2> DEFINE next == [job[p] EXCEPT !.at = "list", !.writes = Tail(@), !.rows = <<>>]
             back == [job[p] EXCEPT !.at = "expire", !.writes = <<>>, !.rows = <<>>]
  <2>1. ASSUME Len(job[p].writes) > 1 PROVE LinkedJob(history'.saved, next)
    <3>1. next.at = "list" /\ next.writes = Tail(job[p].writes)
      BY <1>2 DEF Shaped
    <3>2. Len(job[p].writes) <= 2 /\ job[p].writes \in Seq(Writes)
      BY <1>2, <1>3 DEF LinkedJob, Shaped
    <3> HIDE DEF next, back, j, w
    <3>3. /\ Len(job[p].writes) = 2 /\ Len(Tail(job[p].writes)) = 1
          /\ Tail(job[p].writes)[1] = job[p].writes[2]
      BY <2>1, <3>2, TwoLeft
    <3>4. job[p].writes[2].to = "tasks" /\ Linked(history'.saved, job[p].writes[2].rec)
      BY <1>3, <1>5, <3>3 DEF LinkedJob
    <3>5. PICK ws : ws = next.writes
      OBVIOUS
    <3>6. Len(ws) = 1 /\ ws[1].to = "tasks" /\ Linked(history'.saved, ws[1].rec)
      BY <3>1, <3>3, <3>4, <3>5
    <3> QED BY <3>1, <3>5, <3>6, LastLinked
  <2>2. LinkedJob(history'.saved, back)
    <3>1. back.at = "expire" /\ back.writes = <<>>
      BY <1>2 DEF Shaped
    <3> HIDE DEF back
    <3> QED BY <3>1 DEF LinkedJob
  <2>3. LinkedJob(history'.saved, NoJob)
    BY DEF LinkedJob, NoJob
  <2> HIDE DEF next, back
  <2> QED BY <2>1, <2>2, <2>3 DEF AfterWrite, next, back
<1> HIDE DEF j
<1> QED BY <1>1, <1>5, <1>7, <1>8, LinksKept

\* Every step keeps the links.
LEMMA LinkStep == LinkInv /\ OuterSound /\ OuterSound' /\ Next => LinkInv'
<1> SUFFICES ASSUME LinkInv, OuterSound, OuterSound', Next PROVE LinkInv'
  OBVIOUS
<1>h. history \in Histories /\ \A p \in Procs : Shaped(job[p])
  BY Shapes
<1>1. ASSUME NEW p \in Procs, NEW t \in Tasks, Create(p, t) \/ EditTodos(p, t)
      PROVE  LinkInv'
  <2> DEFINE new == [status |-> "pending", worktree |-> Nothing, review |-> Nothing]
  <2>1. CASE Create(p, t)
    <3>1. /\ Saves(p, <<Write("tasks", t, new)>>) /\ UNCHANGED file
          /\ history'.saved = history.saved
      BY <1>h, <2>1 DEF Create, Records, Histories
    <3>2. Linked(history.saved, Write("tasks", t, new).rec)
      BY DEF Linked, Write
    <3> QED BY <3>1, <3>2, LinksSaves
  <2>2. CASE EditTodos(p, t)
    <3>1. /\ Saves(p, <<Write("tasks", t, file["tasks"][t])>>) /\ UNCHANGED <<file, history>>
          /\ t \in DOMAIN file["tasks"]
      BY <2>2 DEF EditTodos, Records, Loads
    <3>2. Linked(history.saved, Write("tasks", t, file["tasks"][t]).rec)
      BY <3>1 DEF LinkInv, Write
    <3> QED BY <3>1, <3>2, LinksSaves
  <2> QED BY <1>1, <2>1, <2>2
<1>2. ASSUME NEW p \in Procs, NEW t \in Tasks, Plan(p, t) PROVE LinkInv'
  <2> DEFINE j == [job[p] EXCEPT !.at = "plan", !.id = t, !.rec = file["tasks"][t]]
  <2>1. /\ job' = [job EXCEPT ![p] = j] /\ UNCHANGED <<file, history>>
        /\ t \in DOMAIN file["tasks"] /\ job[p].at = "idle"
    BY <1>2 DEF Plan, Records, Loads, Starts
  <2>2. j.at = "plan" /\ j.rec = file["tasks"][t] /\ j.writes = job[p].writes
    BY <1>h DEF Shaped
  <2>3. job[p].writes = <<>>
    BY <1>h, <2>1 DEF Shaped
  <2> HIDE DEF j
  <2>4. LinkedJob(history.saved, j)
    BY <2>1, <2>2, <2>3 DEF LinkInv, LinkedJob
  <2> QED BY <2>1, <2>4, LinksQuiet
<1>3. ASSUME NEW p \in Procs, NEW w,
             \/ MarkStale(p, w) \/ GitAdd(p) \/ MarkCleaned(p)
             \/ Verify(p, w) \/ Approve(p, w) \/ Reject(p, w)
      PROVE  LinkInv'
  <2>1. UNCHANGED file /\ history'.saved = history.saved
    BY <1>h, <1>3 DEF MarkStale, GitAdd, MarkCleaned, Verify, Approve, Reject, Records,
                     Histories
  <2>2. Quits(p) \/ \E f \in {"worktrees", "reviews"} : \E i, r : Saves(p, <<Write(f, i, r)>>)
    BY <1>3 DEF MarkStale, GitAdd, MarkCleaned, Verify, Approve, Reject
  <2>3. ASSUME NEW f \in {"worktrees", "reviews"}, NEW i, NEW r, Saves(p, <<Write(f, i, r)>>)
        PROVE  LinkInv'
    <3>1. Write(f, i, r).to # "tasks"
      BY DEF Write
    <3> QED BY <2>1, <2>3, <3>1, LinksSaves
  <2> QED BY <2>1, <2>2, <2>3, LinksQuits
<1>4. ASSUME NEW p \in Procs, NEW w,
             Materialize(p, w) \/ Cleanup(p, w) \/ ExpireLeases(p) \/ GitRemove(p)
      PROVE  LinkInv'
  <2>1. UNCHANGED <<file, history>>
    BY <1>4 DEF Materialize, Cleanup, ExpireLeases, GitRemove, Records
  <2>2. Quits(p) \/ \E at \in {"add", "remove", "expire", "confirm"} : \E i, r, l :
          job' = [job EXCEPT ![p] = [@ EXCEPT !.at = at, !.id = i, !.rec = r, !.rest = l]]
    <3>1. CASE Materialize(p, w)
      <4>1. job' = [job EXCEPT ![p] = [@ EXCEPT !.at = "add", !.id = w,
                      !.rec = file["worktrees"][w], !.rest = job[p].rest]]
        BY <1>h, <3>1 DEF Materialize, Shaped
      <4> QED BY <4>1
    <3>2. CASE Cleanup(p, w)
      <4>1. job' = [job EXCEPT ![p] = [@ EXCEPT !.at = "remove", !.id = w,
                      !.rec = file["worktrees"][w], !.rest = job[p].rest]]
        BY <1>h, <3>2 DEF Cleanup, Shaped
      <4> QED BY <4>1
    <3>3. CASE ExpireLeases(p)
      <4>1. PICK l : job' = [job EXCEPT ![p].at = "expire", ![p].rest = l]
        BY <3>3 DEF ExpireLeases
      <4>2. job' = [job EXCEPT ![p] = [@ EXCEPT !.at = "expire", !.id = job[p].id,
                      !.rec = job[p].rec, !.rest = l]]
        BY <1>h, <4>1 DEF Shaped
      <4> QED BY <4>2
    <3>4. CASE GitRemove(p)
      <4>1. CASE job' = [job EXCEPT ![p].at = "confirm"]
        <5>1. job' = [job EXCEPT ![p] = [@ EXCEPT !.at = "confirm", !.id = job[p].id,
                        !.rec = job[p].rec, !.rest = job[p].rest]]
          BY <1>h, <4>1 DEF Shaped
        <5> QED BY <5>1
      <4> QED BY <3>4, <4>1 DEF GitRemove
    <3> QED BY <1>4, <3>1, <3>2, <3>3, <3>4
  <2>3. ASSUME NEW at \in {"add", "remove", "expire", "confirm"}, NEW i, NEW r, NEW l,
               job' = [job EXCEPT ![p] = [@ EXCEPT !.at = at, !.id = i, !.rec = r, !.rest = l]]
        PROVE  LinkInv'
    <3> DEFINE j == [job[p] EXCEPT !.at = at, !.id = i, !.rec = r, !.rest = l]
    <3>1. job' = [job EXCEPT ![p] = j]
      BY <2>3
    <3>2. j.at = at /\ j.writes = job[p].writes
      BY <1>h DEF Shaped
    <3> HIDE DEF j
    <3> QED BY <2>1, <3>1, <3>2, LinksReads
  <2> QED BY <2>1, <2>2, <2>3, LinksQuits
<1>5. ASSUME NEW p \in Procs, ExpireNext(p) PROVE LinkInv'
  <2> DEFINE v == [Head(job[p].rest) EXCEPT !.rec.status = "stale"]
             saving == [job[p] EXCEPT !.at = "list", !.rest = Tail(job[p].rest),
                                      !.writes = <<v>>]
             going == [job[p] EXCEPT !.rest = Tail(job[p].rest)]
  <2>1. /\ \/ job' = [job EXCEPT ![p] = saving]
           \/ Quits(p)
           \/ job' = [job EXCEPT ![p] = going]
        /\ job[p].at = "expire" /\ UNCHANGED <<file, history>>
    BY <1>5 DEF ExpireNext, Quits, Records
  <2>2. job[p].rest # <<>> /\ job[p].rest \in Seq(Listed)
    BY <2>1 DEF OuterSound, OuterInv, SoundJob
  <2>3. v.to = "worktrees"
    <3>1. Head(job[p].rest) \in Listed
      BY <2>2
    <3> QED BY <3>1 DEF Listed
  <2>4. /\ saving.at = "list" /\ saving.writes = <<v>>
        /\ going.at = "expire" /\ going.writes = job[p].writes
    BY <1>h, <2>1 DEF Shaped
  <2> HIDE DEF saving, going, v
  <2>5. LinkedJob(history.saved, saving)
    BY <2>3, <2>4 DEF LinkedJob
  <2> QED BY <2>1, <2>4, <2>5, LinksQuiet, LinksQuits, LinksReads
<1>6. ASSUME NEW p \in Procs, Crash(p) PROVE LinkInv'
  BY <1>h, <1>6, LinksQuits DEF Crash, Records, Histories
<1>7. ASSUME NEW w, Lapse(w) PROVE LinkInv'
  BY <1>7 DEF Lapse, LinkInv, Records
<1> QED
  BY <1>1, <1>2, <1>3, <1>4, <1>5, <1>6, <1>7, PlanWorktreeLinks, StartReviewLinks, ListLinks,
     TruncateLinks, FillLinks DEF Next, Step

\* Nothing has been saved yet, and nothing points anywhere.
LEMMA LinkInit == Init => LinkInv
BY DEF Init, LinkInv, LinkedJob, NoJob, Files

\* The links look at nothing outside vars.
LEMMA LinkStutter == LinkInv /\ UNCHANGED vars => LinkInv'
BY DEF LinkInv, vars

-----------------------------------------------------------------------------
(* One command at a time: what the files hold, or will once the write under way is   *)
(* done, is a database that no step but a truncation changes.                         *)

Writing(p, f) == job[p].at = "fill" /\ job[p].writes[1].to = f

\* The lease of record i is running.
Runs(i, r) == i \notin lapsed /\ r.status \in {"planned", "active"}

Apart(r, s) == r.task # s.task /\ r.locks \intersect s.locks = {}

Exclusive(rows) ==
  \A v, w \in DOMAIN rows :
    v # w /\ Runs(v, rows[v]) /\ Runs(w, rows[w]) => Apart(rows[v], rows[w])

\* What a process holds agrees with the database db.
AloneJob(db, j) ==
  /\ j.at = "add" =>
       /\ j.id \in DOMAIN db["worktrees"]
       /\ db["worktrees"][j.id] = j.rec
       /\ j.rec.status \in {"planned", "active"}
  /\ j.at \in {"list", "truncate"} /\ j.writes[1].to = "worktrees" =>
       Exclusive(Merged(db["worktrees"], j.writes[1]))
  /\ j.at = "truncate" => j.rows = Merged(db[j.writes[1].to], j.writes[1])
  /\ j.at = "fill" => j.rows = db[j.writes[1].to] /\ j.writes[1].id \in DOMAIN j.rows

Alone(db) ==
  /\ garbled = {}
  /\ \A p, q \in Procs : job[p].at # "idle" /\ job[q].at # "idle" => p = q
  /\ db = [f \in Files |-> db[f]]
  /\ \A f \in Files \ history.torn : history.saved[f] \subseteq DOMAIN db[f]
  /\ \A f \in Files :
       /\ (\A p \in Procs : ~Writing(p, f)) => file[f] = db[f]
       /\ (\E p \in Procs : Writing(p, f)) => DOMAIN file[f] = {}
  /\ Exclusive(db["worktrees"])
  /\ \A p \in Procs : AloneJob(db, job[p])

AloneInv == overlaps \in Nat /\ (overlaps = 0 => \E db : Alone(db))

\* A record that is not running, or is apart from all others that are, may be merged in.
LEMMA MergedExclusive ==
  ASSUME NEW rows, Exclusive(rows), NEW v,
         Runs(v.id, v.rec) =>
           \A i \in DOMAIN rows \ {v.id} : Runs(i, rows[i]) => Apart(v.rec, rows[i])
  PROVE  Exclusive(Merged(rows, v))
<1>1. /\ DOMAIN Merged(rows, v) = DOMAIN rows \union {v.id}
      /\ Merged(rows, v)[v.id] = v.rec
      /\ \A i \in DOMAIN rows \ {v.id} : Merged(rows, v)[i] = rows[i]
  BY DEF Merged
<1>2. \A r, s : Apart(r, s) => Apart(s, r)
  BY DEF Apart
<1> QED BY <1>1, <1>2 DEF Exclusive

\* A step of the one process that is busy.
LEMMA AloneStays ==
  ASSUME OuterSound, NEW db, Alone(db), NEW p \in Procs,
         \A q \in Procs \ {p} : job[q].at = "idle",
         NEW j, job' = [job EXCEPT ![p] = j], garbled' = {},
         NEW e, e = [f \in Files |-> e[f]],
         \A f \in Files \ history'.torn : history'.saved[f] \subseteq DOMAIN e[f],
         \A f \in Files : IF j.at = "fill" /\ j.writes[1].to = f
                          THEN DOMAIN file'[f] = {} ELSE file'[f] = e[f],
         Exclusive(e["worktrees"])', AloneJob(e, j)'
  PROVE  Alone(e)'
<1>1. job'[p] = j /\ \A q \in Procs \ {p} : job'[q] = job[q]
  BY Shapes
<1>2. \A q \in Procs \ {p} : AloneJob(e, job[q])'
  BY <1>1 DEF AloneJob
<1>3. \A f \in Files : (\E q \in Procs : Writing(q, f)') <=> j.at = "fill" /\ j.writes[1].to = f
  BY <1>1 DEF Writing
<1>4. \A q \in Procs : AloneJob(e, job[q])'
  BY <1>1, <1>2
<1> QED BY <1>1, <1>3, <1>4 DEF Alone

\* Most steps change nothing but what the process holds.
LEMMA AloneQuiet ==
  ASSUME OuterSound, NEW db, Alone(db), NEW p \in Procs,
         \A q \in Procs \ {p} : job[q].at = "idle",
         NEW j, job' = [job EXCEPT ![p] = j], job[p].at # "fill", j.at # "fill",
         UNCHANGED <<file, garbled, lapsed>>,
         history'.saved = history.saved, history'.torn = history.torn,
         AloneJob(db, j)
  PROVE  Alone(db)'
<1>1. \A f \in Files : file'[f] = db[f]
  BY DEF Alone, Writing
<1>2. Exclusive(db["worktrees"])' /\ AloneJob(db, j)'
  BY DEF Alone, Exclusive, Runs, AloneJob
<1>3. garbled' = {} /\ db = [f \in Files |-> db[f]]
  BY DEF Alone
<1>4. \A f \in Files \ history'.torn : history'.saved[f] \subseteq DOMAIN db[f]
  BY DEF Alone
<1> QED BY <1>1, <1>2, <1>3, <1>4, AloneStays

\* A process that sets out to save a record that may be merged in.
LEMMA AloneSaves ==
  ASSUME OuterSound, NEW db, Alone(db), NEW p \in Procs,
         \A q \in Procs \ {p} : job[q].at = "idle",
         NEW ws, Saves(p, ws), job[p].at # "fill",
         ws[1].to = "worktrees" => Exclusive(Merged(db["worktrees"], ws[1])),
         UNCHANGED <<file, garbled, lapsed>>,
         history'.saved = history.saved, history'.torn = history.torn
  PROVE  Alone(db)'
<1>1. PICK j : /\ job' = [job EXCEPT ![p] = j]
               /\ j.at = "list" /\ j.writes = ws /\ j.rest = job[p].rest
  BY Shapes, SavesJob
<1>2. AloneJob(db, j)
  BY <1>1 DEF AloneJob
<1> QED BY <1>1, <1>2, AloneQuiet

\* A process that gives up outside a write.
LEMMA AloneQuits ==
  ASSUME OuterSound, NEW db, Alone(db), NEW p \in Procs,
         \A q \in Procs \ {p} : job[q].at = "idle",
         Quits(p), job[p].at # "fill", UNCHANGED <<file, garbled, lapsed>>,
         history'.saved = history.saved, history'.torn = history.torn
  PROVE  Alone(db)'
<1>1. AloneJob(db, NoJob) /\ NoJob.at # "fill"
  BY DEF AloneJob, NoJob
<1> QED BY <1>1, AloneQuiet DEF Quits

\* While nobody writes, the files are the database.
LEMMA AloneFiles ==
  ASSUME NEW db, Alone(db), NEW p \in Procs, \A q \in Procs \ {p} : job[q].at = "idle",
         job[p].at # "fill"
  PROVE  \A f \in Files : file[f] = db[f]
BY DEF Alone, Writing

\* A planned worktree is apart from every running one: detect_conflicts saw them all.
LEMMA PlanWorktreeAlone ==
  ASSUME OuterSound, NEW db, Alone(db), NEW p \in Procs,
         \A q \in Procs \ {p} : job[q].at = "idle",
         NEW locks \in LockSets, PlanWorktree(p, locks)
  PROVE  Alone(db)'
<1>w. PICK w : w = drawn.worktrees + 1
  OBVIOUS
<1>t. PICK t : t = job[p].id
  OBVIOUS
<1>r. PICK record : record = [task |-> t, locks |-> locks,
                        status |-> IF Conflicts(t, locks) = {} THEN "planned" ELSE "conflict"]
  OBVIOUS
<1>v. PICK v : v = Write("worktrees", w, record)
  OBVIOUS
<1> DEFINE ws == PlanWrites(t, job[p].rec, w, record)
<1>1. /\ job[p].at = "plan" /\ Saves(p, ws) /\ UNCHANGED <<file, garbled, lapsed>>
      /\ history'.saved = history.saved /\ history'.torn = history.torn
  <2>1. history \in Histories
    BY Shapes
  <2> QED BY <2>1, <1>w, <1>t, <1>r DEF PlanWorktree, Records, Histories
<1>2. ws[1] = v
  BY <1>v DEF PlanWrites
<1>3. file["worktrees"] = db["worktrees"]
  BY <1>1, AloneFiles DEF Files
<1>4. ASSUME Runs(v.id, v.rec), NEW i \in DOMAIN db["worktrees"], Runs(i, db["worktrees"][i])
      PROVE  Apart(v.rec, db["worktrees"][i])
  <2>1. v.rec = record /\ record.task = t /\ record.locks = locks /\ Conflicts(t, locks) = {}
    BY <1>4, <1>r, <1>v DEF Runs, Write
  <2>2. /\ i \in DOMAIN file["worktrees"] \ lapsed
        /\ file["worktrees"][i].status \notin {"cleaned", "stale"}
    BY <1>3, <1>4 DEF Runs
  <2>3. ~(file["worktrees"][i].task = t \/ file["worktrees"][i].locks \intersect locks # {})
    BY <2>1, <2>2 DEF Conflicts
  <2> QED BY <1>3, <2>1, <2>3 DEF Apart
<1>5. Exclusive(Merged(db["worktrees"], v))
  BY <1>4, MergedExclusive DEF Alone
<1> HIDE DEF ws
<1> QED BY <1>1, <1>2, <1>5, AloneSaves

\* A record becomes active only while it is running, and then it was apart before.
LEMMA GitAddAlone ==
  ASSUME OuterSound, NEW db, Alone(db), NEW p \in Procs,
         \A q \in Procs \ {p} : job[q].at = "idle", GitAdd(p)
  PROVE  Alone(db)'
<1>v. PICK v : v = Write("worktrees", job[p].id, [job[p].rec EXCEPT !.status = "active"])
  OBVIOUS
<1>1. /\ job[p].at = "add" /\ UNCHANGED <<file, garbled, lapsed, history>>
      /\ Saves(p, <<v>>) \/ Quits(p)
  BY <1>v DEF GitAdd, Records, Rest
<1>2. /\ job[p].id \in DOMAIN db["worktrees"]
      /\ db["worktrees"][job[p].id] = job[p].rec
      /\ job[p].rec.status \in {"planned", "active"}
  BY <1>1 DEF Alone, AloneJob
<1>3. job[p].rec \in WorktreeRecords
  BY <1>1 DEF OuterSound, OuterInv, SoundJob, SoundWorktree
<1>4. v.id = job[p].id /\ v.rec.task = job[p].rec.task /\ v.rec.locks = job[p].rec.locks
  BY <1>v, <1>3 DEF Write, WorktreeRecords
<1>5. ASSUME Runs(v.id, v.rec), NEW i \in DOMAIN db["worktrees"] \ {v.id},
             Runs(i, db["worktrees"][i])
      PROVE  Apart(v.rec, db["worktrees"][i])
  <2>1. Runs(v.id, db["worktrees"][v.id])
    BY <1>2, <1>4, <1>5 DEF Runs
  <2>2. Apart(db["worktrees"][v.id], db["worktrees"][i])
    BY <1>2, <1>4, <1>5, <2>1 DEF Alone, Exclusive
  <2> QED BY <1>2, <1>4, <2>2 DEF Apart
<1>6. Exclusive(Merged(db["worktrees"], v))
  BY <1>5, MergedExclusive DEF Alone
<1> QED BY <1>1, <1>6, AloneSaves, AloneQuits

\* A record that is saved as stale or cleaned runs no longer.
LEMMA EndedExclusive ==
  ASSUME NEW db, Alone(db), NEW v, v.rec.status \in {"stale", "cleaned"}
  PROVE  Exclusive(Merged(db["worktrees"], v))
BY MergedExclusive DEF Alone, Runs

\* A listing read in peace is the database.
LEMMA ListAlone ==
  ASSUME OuterSound, NEW db, Alone(db), NEW p \in Procs,
         \A q \in Procs \ {p} : job[q].at = "idle", List(p)
  PROVE  Alone(db)'
<1> DEFINE w == Head(job[p].writes)
           j == [job[p] EXCEPT !.at = "truncate", !.rows = Merged(file[w.to], w)]
<1>1. /\ job[p].at = "list" /\ UNCHANGED <<file, garbled, lapsed, history>>
      /\ job' = [job EXCEPT ![p] = j] \/ Quits(p)
  BY DEF List, Records, Rest
<1>2. Shaped(job[p]) /\ w = job[p].writes[1]
  BY <1>1, Shapes DEF Shaped
<1>3. w.to \in Files
  BY <1>1, <1>2 DEF Shaped, Writes, Files
<1>4. /\ j.at = "truncate" /\ j.rows = Merged(file[w.to], w) /\ j.writes = job[p].writes
  BY <1>2 DEF Shaped
<1>5. file[w.to] = db[w.to]
  BY <1>1, <1>3, AloneFiles
<1>6. AloneJob(db, job[p])
  BY DEF Alone
<1> HIDE DEF w, j
<1>7. AloneJob(db, j)
  BY <1>1, <1>2, <1>4, <1>5, <1>6 DEF AloneJob
<1> QED BY <1>1, <1>4, <1>7, AloneQuiet, AloneQuits

\* A truncation replaces one file of the database by the listing with the record in it.
LEMMA TruncateAlone ==
  ASSUME OuterSound, NEW db, Alone(db), NEW p \in Procs,
         \A q \in Procs \ {p} : job[q].at = "idle", Truncate(p)
  PROVE  \E e : Alone(e)'
<1> DEFINE w == Head(job[p].writes)
           rows == job[p].rows
           j == [job[p] EXCEPT !.at = "fill"]
           e == [db EXCEPT ![w.to] = rows]
<1>1. /\ job[p].at = "truncate" /\ job' = [job EXCEPT ![p] = j]
      /\ file' = [file EXCEPT ![w.to] = <<>>] /\ garbled' = garbled \ {w.to}
      /\ UNCHANGED <<lapsed, history>>
  BY DEF Truncate, Rest
<1>2. Shaped(job[p]) /\ w = job[p].writes[1] /\ file = [f \in Files |-> file[f]]
  BY <1>1, Shapes DEF Shaped
<1>3. w.to \in Files
  BY <1>1, <1>2 DEF Shaped, Writes, Files
<1>4. /\ j.at = "fill" /\ j.rows = rows /\ j.writes = job[p].writes
  BY <1>2 DEF Shaped
<1>5. AloneJob(db, job[p]) /\ db = [f \in Files |-> db[f]] /\ garbled = {}
  BY DEF Alone
<1>6. /\ rows = Merged(db[w.to], w)
      /\ w.to = "worktrees" => Exclusive(rows)
  BY <1>1, <1>2, <1>5 DEF AloneJob
<1>7. DOMAIN rows = DOMAIN db[w.to] \union {w.id}
  BY <1>6 DEF Merged
<1>8. /\ e = [f \in Files |-> e[f]] /\ e[w.to] = rows
      /\ \A f \in Files \ {w.to} : e[f] = db[f]
  BY <1>3, <1>5
<1>e. PICK c : c = e
  OBVIOUS
<1> HIDE DEF w, j, e, rows
<1>9. \A f \in Files \ history'.torn : history'.saved[f] \subseteq DOMAIN c[f]
  BY <1>1, <1>7, <1>8, <1>e DEF Alone
<1>d. PICK d : d = j
  OBVIOUS
<1>10. \A f \in Files : IF d.at = "fill" /\ d.writes[1].to = f
                        THEN DOMAIN file'[f] = {} ELSE file'[f] = c[f]
  <2>1. \A f \in Files : file[f] = db[f]
    BY <1>1, AloneFiles
  <2>2. DOMAIN <<>> = {}
    OBVIOUS
  <2> QED BY <1>1, <1>2, <1>3, <1>4, <1>8, <1>d, <1>e, <2>1, <2>2
<1>11. Exclusive(c["worktrees"])'
  <2>1. Exclusive(c["worktrees"])
    BY <1>6, <1>8, <1>e DEF Alone, Files
  <2> QED BY <1>1, <2>1 DEF Exclusive, Runs
<1>12. AloneJob(c, d)'
  BY <1>2, <1>4, <1>7, <1>8, <1>d, <1>e DEF AloneJob
<1>13. /\ job' = [job EXCEPT ![p] = d] /\ garbled' = {}
       /\ c = [f \in Files |-> c[f]]
  BY <1>1, <1>5, <1>8, <1>d, <1>e
<1>14. Alone(c)'
  BY <1>9, <1>10, <1>11, <1>12, <1>13, AloneStays
<1> QED BY <1>14

\* Filling an empty file makes it what the database says already.
LEMMA FillAlone ==
  ASSUME OuterSound, LinkInv, NEW db, Alone(db), NEW p \in Procs,
         \A q \in Procs \ {p} : job[q].at = "idle", Fill(p)
  PROVE  Alone(db)'
<1> DEFINE w == Head(job[p].writes)
           j == AfterWrite(job[p])
<1>1. Shaped(job[p]) /\ w = job[p].writes[1] /\ job[p].at = "fill" /\ job[p].writes # <<>>
  BY Shapes DEF Shaped, Fill
<1>2. w.to \in Files
  BY <1>1 DEF Shaped, Writes, Files
<1>3. AloneJob(db, job[p]) /\ db = [f \in Files |-> db[f]] /\ garbled = {}
  BY DEF Alone
<1>4. DOMAIN file[w.to] = {}
  BY <1>1, <1>2 DEF Alone, Writing
<1>5. /\ file' = [file EXCEPT ![w.to] = job[p].rows] /\ garbled' = {}
      /\ job' = [job EXCEPT ![p] = j]
      /\ history' = [history EXCEPT !.saved[w.to] = @ \union {w.id}]
      /\ UNCHANGED lapsed
  BY <1>3, <1>4 DEF Fill, Rest
<1>6. /\ history \in Histories /\ file = [f \in Files |-> file[f]]
      /\ history.saved \in [Files -> SUBSET (Tasks \union WorktreeIds \union ReviewIds)]
  BY Shapes
<1>7. job[p].rows = db[w.to] /\ w.id \in DOMAIN db[w.to]
  BY <1>1, <1>3 DEF AloneJob
<1>8. \A f \in Files \ history'.torn : history'.saved[f] \subseteq DOMAIN db[f]
  BY <1>2, <1>5, <1>6, <1>7 DEF Alone, Histories
<1>9. \A f \in Files : file'[f] = db[f]
  BY <1>1, <1>2, <1>5, <1>6, <1>7 DEF Alone, Writing
<1>10. /\ j.at \in {"idle", "expire", "list"}
       /\ j.at = "list" => j.writes[1].to = "tasks"
  <2> DEFINE next == [job[p] EXCEPT !.at = "list", !.writes = Tail(@), !.rows = <<>>]
             back == [job[p] EXCEPT !.at = "expire", !.writes = <<>>, !.rows = <<>>]
  <2>1. ASSUME Len(job[p].writes) > 1 PROVE next.at = "list" /\ next.writes[1].to = "tasks"
    <3>1. next.at = "list" /\ next.writes = Tail(job[p].writes)
      BY <1>1 DEF Shaped
    <3>2. LinkedJob(history.saved, job[p])
      BY DEF LinkInv
    <3>3. Len(job[p].writes) <= 2 /\ job[p].writes \in Seq(Writes)
      BY <1>1, <3>2 DEF LinkedJob, Shaped
    <3> HIDE DEF next, back, j, w
    <3>4. Len(job[p].writes) = 2 /\ Tail(job[p].writes)[1] = job[p].writes[2]
      BY <2>1, <3>3, TwoLeft
    <3> QED BY <3>1, <3>2, <3>4 DEF LinkedJob
  <2>2. back.at = "expire" /\ NoJob.at = "idle"
    BY <1>1 DEF Shaped, NoJob
  <2> HIDE DEF next, back
  <2> QED BY <2>1, <2>2 DEF AfterWrite, next, back
<1>d. PICK d : d = j
  OBVIOUS
<1> HIDE DEF j, w
<1>11. AloneJob(db, d)'
  BY <1>10, <1>d DEF AloneJob
<1>12. Exclusive(db["worktrees"])'
  BY <1>5 DEF Alone, Exclusive, Runs
<1> QED BY <1>3, <1>5, <1>8, <1>9, <1>10, <1>11, <1>12, <1>d, AloneStays

\* After a crash the files are all there is; a file that was being written is torn.
LEMMA CrashAlone ==
  ASSUME OuterSound, NEW db, Alone(db), NEW p \in Procs,
         \A q \in Procs \ {p} : job[q].at = "idle", Crash(p)
  PROVE  \E e : Alone(e)'
<1>e. PICK e : e = file
  OBVIOUS
<1> DEFINE w == Head(job[p].writes)
<1>1. /\ job' = [job EXCEPT ![p] = NoJob] /\ UNCHANGED <<file, garbled, lapsed>>
      /\ history'.saved = history.saved
      /\ history'.torn = IF job[p].at = "fill" THEN history.torn \union {w.to}
                                               ELSE history.torn
  <2>1. history \in Histories
    BY Shapes
  <2> QED BY <2>1 DEF Crash, Quits, Records, Rest, Histories
<1>2. Shaped(job[p]) /\ file = [f \in Files |-> file[f]]
  BY Shapes
<1>3. ASSUME job[p].at = "fill" PROVE w = job[p].writes[1]
  BY <1>2, <1>3 DEF Shaped
<1> HIDE DEF w
<1>4. \A f \in Files : \/ e[f] = db[f]
                       \/ DOMAIN e[f] = {} /\ f \in history'.torn
  <2> SUFFICES ASSUME NEW f \in Files
               PROVE  e[f] = db[f] \/ (DOMAIN e[f] = {} /\ f \in history'.torn)
    OBVIOUS
  <2>1. CASE Writing(p, f)
    BY <1>1, <1>3, <1>e, <2>1 DEF Alone, Writing
  <2>2. CASE ~Writing(p, f)
    <3>1. \A q \in Procs : ~Writing(q, f)
      BY <2>2 DEF Writing
    <3>2. file[f] = db[f]
      BY <3>1 DEF Alone
    <3> QED BY <1>e, <3>2
  <2> QED BY <2>1, <2>2
<1>5. \A f \in Files \ history'.torn : history'.saved[f] \subseteq DOMAIN e[f]
  BY <1>1, <1>4 DEF Alone
<1>6. Exclusive(e["worktrees"])'
  <2>1. e["worktrees"] = db["worktrees"] \/ DOMAIN e["worktrees"] = {}
    BY <1>4 DEF Files
  <2> QED BY <1>1, <2>1 DEF Alone, Exclusive, Runs
<1>7. AloneJob(e, NoJob)' /\ NoJob.at # "fill"
  BY DEF AloneJob, NoJob
<1>8. garbled' = {} /\ \A f \in Files : file'[f] = e[f]
  BY <1>1, <1>e DEF Alone
<1>9. e = [f \in Files |-> e[f]]
  BY <1>2, <1>e
<1>10. Alone(e)'
  BY <1>1, <1>5, <1>6, <1>7, <1>8, <1>9, AloneStays
<1> QED BY <1>10

\* Time ends leases, it starts none.
LEMMA LapseAlone ==
  ASSUME NEW db, Alone(db), NEW w, Lapse(w)
  PROVE  Alone(db)'
<1>1. /\ lapsed \subseteq lapsed' /\ UNCHANGED <<file, garbled, job, history>>
  BY DEF Lapse, Records
<1>2. \A rows : Exclusive(rows) => Exclusive(rows)'
  BY <1>1 DEF Exclusive, Runs
<1>3. \A p \in Procs : AloneJob(db, job[p])'
  BY <1>1, <1>2 DEF Alone, AloneJob
<1>4. \A p \in Procs, f \in Files : Writing(p, f)' = Writing(p, f)
  BY <1>1 DEF Writing
<1> QED BY <1>1, <1>2, <1>3, <1>4 DEF Alone

\* The commands that only read, or save one record that is safe to merge in.
LEMMA LoadsAlone ==
  ASSUME OuterSound, NEW db, Alone(db), NEW p \in Procs,
         \A q \in Procs \ {p} : job[q].at = "idle",
         NEW t, NEW w, NEW r, NEW roles,
         \/ Create(p, t) \/ EditTodos(p, t) \/ StartReview(p, t, roles)
         \/ MarkStale(p, w) \/ MarkCleaned(p)
         \/ Verify(p, r) \/ Approve(p, r) \/ Reject(p, r)
  PROVE  Alone(db)'
<1>1. history \in Histories
  BY Shapes
<1>2. /\ UNCHANGED <<file, garbled, lapsed>> /\ job[p].at # "fill"
      /\ history'.saved = history.saved /\ history'.torn = history.torn
  BY <1>1 DEF Create, EditTodos, StartReview, MarkStale, MarkCleaned, Verify, Approve, Reject,
              Starts, Records, Rest, Histories
<1>3. ASSUME NEW ws, Saves(p, ws), ws[1].to # "worktrees" PROVE Alone(db)'
  BY <1>2, <1>3, AloneSaves
<1>4. ASSUME NEW v, Saves(p, <<v>>), v.rec.status \in {"stale", "cleaned"} PROVE Alone(db)'
  BY <1>2, <1>4, AloneSaves, EndedExclusive
<1>5. ASSUME NEW f \in {"tasks", "reviews"}, NEW i, NEW s, Saves(p, <<Write(f, i, s)>>)
      PROVE  Alone(db)'
  BY <1>3, <1>5 DEF Write
<1>6. CASE Create(p, t) \/ EditTodos(p, t)
  BY <1>5, <1>6 DEF Create, EditTodos
<1>7. CASE Verify(p, r) \/ Approve(p, r) \/ Reject(p, r)
  BY <1>5, <1>7 DEF Verify, Approve, Reject
<1>8. CASE StartReview(p, t, roles)
  <2>1. PICK i, s, v : Saves(p, <<Write("reviews", i, s), v>>)
    BY <1>8 DEF StartReview
  <2>2. <<Write("reviews", i, s), v>>[1].to = "reviews"
    BY DEF Write
  <2> QED BY <1>3, <2>1, <2>2
<1>9. ASSUME NEW i, Loads("worktrees", i), NEW s \in {"stale", "cleaned"},
             Saves(p, <<Write("worktrees", i, [file["worktrees"][i] EXCEPT !.status = s])>>)
      PROVE  Alone(db)'
  <2>1. file["worktrees"][i] \in WorktreeRecords
    BY <1>9 DEF Loads, OuterSound, OuterInv, SoundFiles, Sound, SoundWorktree, Files
  <2>2. [file["worktrees"][i] EXCEPT !.status = s].status = s
    BY <2>1 DEF WorktreeRecords
  <2>3. Write("worktrees", i, [file["worktrees"][i] EXCEPT !.status = s]).rec.status = s
    BY <2>2 DEF Write
  <2> QED BY <1>4, <1>9, <2>3
<1>10. CASE MarkStale(p, w)
  BY <1>9, <1>10 DEF MarkStale
<1>11. CASE MarkCleaned(p)
  BY <1>2, <1>9, <1>11, AloneQuits DEF MarkCleaned
<1> QED BY <1>6, <1>7, <1>8, <1>10, <1>11

\* A process that goes on reading, to ask git or to look at the next listed record.
LEMMA ReadsAlone ==
  ASSUME OuterSound, NEW db, Alone(db), NEW p \in Procs,
         \A q \in Procs \ {p} : job[q].at = "idle",
         NEW t, NEW w,
         \/ Plan(p, t) \/ Materialize(p, w) \/ Cleanup(p, w) \/ GitRemove(p)
         \/ ExpireLeases(p) \/ ExpireNext(p)
  PROVE  Alone(db)'
<1>h. Shaped(job[p]) /\ job = [q \in Procs |-> job[q]]
  BY Shapes
<1>1. UNCHANGED <<file, garbled, lapsed, history>> /\ job[p].at # "fill"
  BY DEF Plan, Materialize, Cleanup, GitRemove, ExpireLeases, ExpireNext, Starts, Records, Rest
<1>2. ASSUME NEW j, job' = [job EXCEPT ![p] = j], j.at \in {"plan", "remove", "confirm", "expire"}
      PROVE  Alone(db)'
  <2>1. AloneJob(db, j) /\ j.at # "fill"
    BY <1>2 DEF AloneJob
  <2> QED BY <1>1, <1>2, <2>1, AloneQuiet
<1>3. CASE Plan(p, t)
  <2> DEFINE j == [job[p] EXCEPT !.at = "plan", !.id = t, !.rec = file["tasks"][t]]
  <2>1. j.at = "plan" /\ job' = [job EXCEPT ![p] = j]
    BY <1>h, <1>3 DEF Plan, Shaped
  <2> HIDE DEF j
  <2> QED BY <1>2, <2>1
<1>4. CASE Cleanup(p, w)
  <2> DEFINE j == [job[p] EXCEPT !.at = "remove", !.id = w, !.rec = file["worktrees"][w]]
  <2>1. j.at = "remove" /\ job' = [job EXCEPT ![p] = j]
    BY <1>h, <1>4 DEF Cleanup, Shaped
  <2> HIDE DEF j
  <2> QED BY <1>2, <2>1
<1>5. CASE GitRemove(p)
  <2> DEFINE j == [job[p] EXCEPT !.at = "confirm"]
  <2>1. j.at = "confirm" /\ (job' = [job EXCEPT ![p] = j] \/ Quits(p))
    BY <1>h, <1>5 DEF GitRemove, Shaped
  <2> HIDE DEF j
  <2> QED BY <1>1, <1>2, <2>1, AloneQuits
<1>6. CASE ExpireLeases(p)
  <2>1. PICK l : job' = [job EXCEPT ![p].at = "expire", ![p].rest = l]
    BY <1>6 DEF ExpireLeases
  <2> DEFINE j == [job[p] EXCEPT !.at = "expire", !.rest = l]
  <2>2. j.at = "expire" /\ job' = [job EXCEPT ![p] = j]
    BY <1>h, <2>1 DEF Shaped
  <2> HIDE DEF j
  <2> QED BY <1>2, <2>2
<1>7. CASE Materialize(p, w)
  <2> DEFINE j == [job[p] EXCEPT !.at = "add", !.id = w, !.rec = file["worktrees"][w]]
  <2>1. /\ j.at = "add" /\ j.id = w /\ j.rec = file["worktrees"][w]
        /\ job' = [job EXCEPT ![p] = j]
        /\ w \in DOMAIN file["worktrees"]
        /\ file["worktrees"][w].status \notin {"conflict", "cleaned", "stale"}
    BY <1>h, <1>7 DEF Materialize, Shaped, Loads
  <2>2. file["worktrees"] = db["worktrees"]
    BY <1>1, AloneFiles DEF Files
  <2>3. file["worktrees"][w].status \in {"planned", "active"}
    BY <2>1 DEF OuterSound, OuterInv, SoundFiles, Sound, SoundWorktree, WorktreeRecords, Files
  <2> HIDE DEF j
  <2>4. AloneJob(db, j)
    BY <2>1, <2>2, <2>3 DEF AloneJob
  <2> QED BY <1>1, <2>1, <2>4, AloneQuiet
<1>8. CASE ExpireNext(p)
  <2> DEFINE listed == Head(job[p].rest)
             v == [listed EXCEPT !.rec.status = "stale"]
             saving == [job[p] EXCEPT !.at = "list", !.rest = Tail(job[p].rest),
                                      !.writes = <<v>>]
             going == [job[p] EXCEPT !.rest = Tail(job[p].rest)]
  <2>1. /\ \/ job' = [job EXCEPT ![p] = saving]
           \/ Quits(p)
           \/ job' = [job EXCEPT ![p] = going]
        /\ job[p].at = "expire"
    BY <1>8 DEF ExpireNext, Quits
  <2>2. job[p].rest # <<>> /\ job[p].rest \in Seq(Listed)
    BY <2>1 DEF OuterSound, OuterInv, SoundJob
  <2>3. listed \in Listed
    BY <2>2
  <2>4. v.rec.status = "stale"
    <3> HIDE DEF listed
    <3> QED BY <2>3 DEF Listed, WorktreeRecords
  <2>5. /\ saving.at = "list" /\ saving.writes = <<v>>
        /\ going.at = "expire"
    BY <1>h, <2>1 DEF Shaped
  <2> HIDE DEF saving, going, v
  <2>6. AloneJob(db, saving)
    BY <2>4, <2>5, EndedExclusive DEF AloneJob
  <2> QED BY <1>1, <1>2, <2>1, <2>5, <2>6, AloneQuiet, AloneQuits
<1> QED BY <1>3, <1>4, <1>5, <1>6, <1>7, <1>8

\* A command that starts without overlap, or goes on without one, is the only one.
LEMMA OnlyOne ==
  ASSUME AloneInv, NEW p \in Procs, Step(p), overlaps' = 0
  PROVE  /\ overlaps = 0
         /\ \A q \in Procs \ {p} : job[q].at = "idle"
<1>1. \/ Starts(p)
      \/ UNCHANGED overlaps /\ job[p].at # "idle"
  BY DEF Step, Create, EditTodos, Plan, StartReview, MarkStale, Materialize, Cleanup,
         PlanWorktree, ExpireLeases, ExpireNext, GitAdd, GitRemove, MarkCleaned, Verify,
         Approve, Reject, List, Truncate, Fill, Crash
<1>2. overlaps \in Nat
  BY DEF AloneInv
<1>3. CASE Starts(p)
  BY <1>2, <1>3 DEF Starts
<1>4. CASE UNCHANGED overlaps /\ job[p].at # "idle"
  BY <1>4 DEF AloneInv, Alone
<1> QED BY <1>1, <1>3, <1>4

\* Every step keeps the database.
LEMMA AloneStep == AloneInv /\ LinkInv /\ OuterSound /\ Next => AloneInv'
<1> SUFFICES ASSUME AloneInv, LinkInv, OuterSound, Next PROVE AloneInv'
  OBVIOUS
<1>1. ASSUME NEW p \in Procs, Step(p) PROVE AloneInv'
  <2>1. overlaps' \in Nat
    <3>1. overlaps \in Nat
      BY DEF AloneInv
    <3>2. Starts(p) \/ UNCHANGED overlaps
      BY <1>1 DEF Step, Create, EditTodos, Plan, StartReview, MarkStale, Materialize, Cleanup,
             PlanWorktree, ExpireLeases, ExpireNext, GitAdd, GitRemove, MarkCleaned, Verify,
             Approve, Reject, List, Truncate, Fill, Crash
    <3> QED BY <3>1, <3>2 DEF Starts
  <2>2. ASSUME overlaps' = 0 PROVE \E e : Alone(e)'
    <3>1. /\ overlaps = 0
          /\ \A q \in Procs \ {p} : job[q].at = "idle"
      BY <1>1, <2>2, OnlyOne
    <3>2. PICK db : Alone(db)
      BY <3>1 DEF AloneInv
    <3>3. CASE \E locks \in LockSets : PlanWorktree(p, locks)
      BY <3>1, <3>2, <3>3, PlanWorktreeAlone
    <3>4. CASE GitAdd(p)
      BY <3>1, <3>2, <3>4, GitAddAlone
    <3>5. CASE List(p)
      BY <3>1, <3>2, <3>5, ListAlone
    <3>6. CASE Truncate(p)
      BY <3>1, <3>2, <3>6, TruncateAlone
    <3>7. CASE Fill(p)
      BY <3>1, <3>2, <3>7, FillAlone
    <3>8. CASE Crash(p)
      BY <3>1, <3>2, <3>8, CrashAlone
    <3>9. ASSUME NEW t, NEW w, NEW r, NEW roles,
                 \/ Create(p, t) \/ EditTodos(p, t) \/ StartReview(p, t, roles)
                 \/ MarkStale(p, w) \/ MarkCleaned(p)
                 \/ Verify(p, r) \/ Approve(p, r) \/ Reject(p, r)
          PROVE  \E e : Alone(e)'
      BY <3>1, <3>2, <3>9, LoadsAlone
    <3>10. ASSUME NEW t, NEW w,
                  \/ Plan(p, t) \/ Materialize(p, w) \/ Cleanup(p, w) \/ GitRemove(p)
                  \/ ExpireLeases(p) \/ ExpireNext(p)
           PROVE  \E e : Alone(e)'
      BY <3>1, <3>2, <3>10, ReadsAlone
    <3> QED BY <1>1, <3>3, <3>4, <3>5, <3>6, <3>7, <3>8, <3>9, <3>10 DEF Step
  <2> QED BY <2>1, <2>2 DEF AloneInv
<1>2. ASSUME NEW w, Lapse(w) PROVE AloneInv'
  <2>1. UNCHANGED overlaps
    BY <1>2 DEF Lapse
  <2> QED BY <1>2, <2>1, LapseAlone DEF AloneInv
<1> QED BY <1>1, <1>2 DEF Next

\* At first the database is empty.
LEMMA AloneInit == Init => AloneInv
<1> SUFFICES ASSUME Init PROVE \E db : Alone(db)
  BY DEF Init, AloneInv
<1>1. Alone(file)
  <2>1. /\ \A f \in Files : DOMAIN file[f] = {}
        /\ \A p \in Procs : job[p].at = "idle"
    BY DEF Init, NoJob
  <2>2. \A p \in Procs : AloneJob(file, job[p])
    BY <2>1 DEF AloneJob
  <2> QED BY <2>1, <2>2 DEF Init, Alone, Exclusive, Writing, Files
<1> QED BY <1>1

\* The database looks at nothing outside vars.
LEMMA AloneStutter == AloneInv /\ UNCHANGED vars => AloneInv'
<1> SUFFICES ASSUME AloneInv, UNCHANGED vars PROVE AloneInv'
  OBVIOUS
<1>1. UNCHANGED <<file, garbled, job, lapsed, overlaps, history>>
  BY DEF vars
<1>2. ASSUME NEW db, Alone(db) PROVE Alone(db)'
  <2>1. \A rows : Exclusive(rows)' = Exclusive(rows)
    BY <1>1 DEF Exclusive, Runs
  <2>2. \A p \in Procs : AloneJob(db, job[p])'
    BY <1>1, <1>2, <2>1 DEF Alone, AloneJob
  <2> QED BY <1>1, <1>2, <2>1, <2>2 DEF Alone, Writing
<1> QED BY <1>1, <1>2 DEF AloneInv

\* So the three always hold.
LEMMA AloneAlways == Spec => [](OuterSound /\ LinkInv /\ AloneInv)
<1>1. Init => OuterSound /\ LinkInv /\ AloneInv
  BY OuterInit, LinkInit, AloneInit
<1>2. OuterSound /\ LinkInv /\ AloneInv /\ [Next]_vars => (OuterSound /\ LinkInv /\ AloneInv)'
  BY OuterStutter, OuterStep, LinkStutter, LinkStep, AloneStutter, AloneStep
<1> QED BY <1>1, <1>2, PTL DEF Spec

\* Without overlap, and with nobody in the middle of a write, a file that was never torn
\* holds what the database holds.
LEMMA IntactFile ==
  ASSUME AloneInv, NEW f \in Files, Intact(f)
  PROVE  \E db : Alone(db) /\ file[f] = db[f]
<1>1. PICK db : Alone(db)
  BY DEF AloneInv, Intact
<1>2. \A p \in Procs : ~Writing(p, f)
  BY DEF Intact, Settled, Writing
<1> QED BY <1>1, <1>2 DEF Alone

\* Run one at a time, commands never lose a saved record, for any number of processes,
\* tasks and records and with crashes between any two steps (TaskStore.save,
\* WorktreeStore.save, ReviewStore.save).
THEOREM OuterKeepsSaved == Spec => []NothingSavedIsLost
<1>1. AloneInv => NothingSavedIsLost
  <2> SUFFICES ASSUME AloneInv, NEW f \in Files, Intact(f)
               PROVE  history.saved[f] \subseteq DOMAIN file[f]
    BY DEF NothingSavedIsLost
  <2>1. PICK db : Alone(db) /\ file[f] = db[f]
    BY IntactFile
  <2> QED BY <2>1 DEF Alone, Intact
<1> QED BY <1>1, AloneAlways, PTL

\* Run one at a time, the command line never grants two running leases for one task or
\* for a common path (WorktreeManager.plan_for_task, detect_conflicts).
THEOREM OuterLeases == Spec => []LeasesExclusive
<1>1. AloneInv => LeasesExclusive
  <2> SUFFICES ASSUME AloneInv, Intact("worktrees"), NEW v \in Leases, NEW w \in Leases, v # w
               PROVE  Apart(file["worktrees"][v], file["worktrees"][w])
    BY DEF LeasesExclusive, Apart
  <2>1. PICK db : Alone(db) /\ file["worktrees"] = db["worktrees"]
    BY IntactFile DEF Files
  <2> QED BY <2>1 DEF Alone, Exclusive, Leases, Runs
<1> QED BY <1>1, AloneAlways, PTL

\* Run one at a time, a task never points to a worktree or a review that is missing or
\* belongs to another task, wherever a process died (worktrees plan, review start).
THEOREM OuterLinks == Spec => []LinksResolve
<1>1. OuterSound /\ LinkInv /\ AloneInv => LinksResolve
  <2> SUFFICES ASSUME OuterSound, LinkInv, AloneInv, NEW t \in DOMAIN file["tasks"]
               PROVE  LET task == file["tasks"][t] IN
                      /\ Intact("worktrees") /\ task.worktree # Nothing =>
                           /\ task.worktree \in DOMAIN file["worktrees"]
                           /\ file["worktrees"][task.worktree].task = t
                           /\ file["worktrees"][task.worktree].status # "conflict"
                      /\ Intact("reviews") /\ task.review # Nothing =>
                           /\ task.review \in DOMAIN file["reviews"]
                           /\ file["reviews"][task.review].task = t
    BY DEF LinksResolve
  <2> DEFINE task == file["tasks"][t]
  <2>1. PICK owner : OuterInv(owner)
    BY DEF OuterSound
  <2>2. SoundTask(Facts(owner), t, task) /\ Linked(history.saved, task)
    BY <2>1 DEF OuterInv, SoundFiles, Sound, Files, LinkInv
  <2>3. \A f \in Files : Intact(f) => history.saved[f] \subseteq DOMAIN file[f]
    <3> SUFFICES ASSUME NEW f \in Files, Intact(f)
                 PROVE  history.saved[f] \subseteq DOMAIN file[f]
      OBVIOUS
    <3>1. PICK db : Alone(db) /\ file[f] = db[f]
      BY IntactFile
    <3> QED BY <3>1 DEF Alone, Intact
  <2> HIDE DEF task
  <2>4. ASSUME Intact("worktrees"), task.worktree # Nothing
        PROVE  /\ task.worktree \in DOMAIN file["worktrees"]
               /\ file["worktrees"][task.worktree].task = t
               /\ file["worktrees"][task.worktree].status # "conflict"
    <3>1. task.worktree \in DOMAIN file["worktrees"]
      BY <2>2, <2>3, <2>4 DEF Linked, Files
    <3>2. SoundWorktree(Facts(owner), task.worktree, file["worktrees"][task.worktree])
      BY <2>1, <3>1 DEF OuterInv, SoundFiles, Sound, Files
    <3> QED BY <2>2, <2>4, <3>1, <3>2 DEF SoundTask, SoundWorktree
  <2>5. ASSUME Intact("reviews"), task.review # Nothing
        PROVE  /\ task.review \in DOMAIN file["reviews"]
               /\ file["reviews"][task.review].task = t
    <3>1. task.review \in DOMAIN file["reviews"]
      BY <2>2, <2>3, <2>5 DEF Linked, Files
    <3>2. SoundReview(Facts(owner), task.review, file["reviews"][task.review])
      BY <2>1, <3>1 DEF OuterInv, SoundFiles, Sound, Files
    <3> QED BY <2>2, <2>5, <3>1, <3>2 DEF SoundTask, SoundReview
  <2> QED BY <2>4, <2>5 DEF task
<1> QED BY <1>1, AloneAlways, PTL

-----------------------------------------------------------------------------
(* The book.  Run one at a time, commands implement RecordBook: the tables are the    *)
(* files, completed by the rows of the write under way.  What a process has read and  *)
(* goes on to save is fresh: it is a legal next version of the record the tables hold *)
(* now, whatever the process has done since it read it.                               *)

\* The tables as a lone command finds them.
BookNow == [f \in Files |-> Table(f)]

\* Saving v in the tables b.
After(b, v) == [b EXCEPT ![v.to] = Merged(@, v)]

Legal(b, v) == Book!NextVersion(b, v.to, v.id, v.rec)

\* The listing l of worktrees is that of the tables b.
Current(b, l) ==
  \A n \in DOMAIN l : /\ l[n].id \in DOMAIN b["worktrees"]
                      /\ b["worktrees"][l[n].id] = l[n].rec

Various(l) == \A m, n \in DOMAIN l : m # n => l[m].id # l[n].id

\* What a process holds is no older than the tables b.
FreshJob(b, created, j) ==
  /\ j.at = "plan" => j.id \in DOMAIN b["tasks"] /\ b["tasks"][j.id] = j.rec
  /\ j.at \in {"list", "truncate"} =>
       /\ Legal(b, j.writes[1])
       /\ Len(j.writes) = 2 => Legal(After(b, j.writes[1]), j.writes[2])
       /\ j.writes[1].to = "worktrees" =>
            \A n \in DOMAIN j.rest : j.rest[n].id # j.writes[1].id
  /\ j.at = "fill" /\ Len(j.writes) = 2 => Legal(b, j.writes[2])
  /\ \A n \in DOMAIN j.writes : j.writes[n].to = "tasks" => j.writes[n].id \in created
  /\ Len(j.writes) = 2 => j.rest = <<>>
  /\ j.at \in {"idle", "plan", "add", "remove", "confirm"} => j.rest = <<>>
  /\ Current(b, j.rest) /\ Various(j.rest)

FreshInv ==
  overlaps = 0 =>
    /\ DOMAIN BookNow["tasks"] \subseteq history.created
    /\ \A p \in Procs : FreshJob(BookNow, history.created, job[p])
    /\ \A p \in Procs, f \in Files : Writing(p, f) => file[f] = <<>>

\* The database is what the tables hold.
LEMMA BookIsAlone ==
  ASSUME OuterSound, NEW db, Alone(db)
  PROVE  BookNow = db
<1>1. ASSUME NEW f \in Files PROVE Table(f) = db[f]
  <2> DEFINE writers == {p \in Procs : job[p].at = "fill" /\ Head(job[p].writes).to = f}
  <2>1. \A p \in Procs : p \in writers <=> Writing(p, f)
    <3> SUFFICES ASSUME NEW p \in Procs
                 PROVE  p \in writers <=> Writing(p, f)
      OBVIOUS
    <3>1. Shaped(job[p])
      BY Shapes
    <3>2. CASE job[p].at = "fill"
      BY <3>1, <3>2 DEF Writing, Shaped
    <3> QED BY <3>2 DEF Writing
  <2>2. Table(f) = IF writers = {} THEN file[f] ELSE job[CHOOSE p \in writers : TRUE].rows
    BY DEF Table
  <2>p. \A p \in writers : p \in Procs
    OBVIOUS
  <2> HIDE DEF writers
  <2>3. CASE writers = {}
    BY <2>1, <2>2, <2>3 DEF Alone
  <2>4. CASE writers # {}
    <3>1. PICK p : p = CHOOSE q \in writers : TRUE
      OBVIOUS
    <3>2. p \in writers /\ p \in Procs
      BY <2>4, <2>p, <3>1
    <3>3. job[p].rows = db[f]
      BY <2>1, <3>2 DEF Alone, AloneJob, Writing
    <3> QED BY <2>2, <2>4, <3>1, <3>3
  <2> QED BY <2>3, <2>4
<1>2. db = [f \in Files |-> db[f]]
  BY DEF Alone
<1> QED BY <1>1, <1>2 DEF BookNow

\* While no two commands have overlapped, the tables are the database.
LEMMA BookAlone ==
  ASSUME OuterSound, AloneInv, overlaps = 0
  PROVE  Alone(BookNow)
BY BookIsAlone DEF AloneInv

\* While nobody writes, the files are the tables.
LEMMA BookFiles ==
  ASSUME OuterSound, AloneInv, overlaps = 0, NEW p \in Procs,
         \A q \in Procs \ {p} : job[q].at = "idle", job[p].at # "fill"
  PROVE  \A f \in Files : file[f] = BookNow[f]
BY BookAlone, AloneFiles

\* A step that changes no file, by a process that neither was nor is writing.
LEMMA FreshQuiet ==
  ASSUME OuterSound, OuterSound', FreshInv, overlaps = 0, NEW p \in Procs,
         \A q \in Procs \ {p} : job[q].at = "idle",
         NEW j, job' = [job EXCEPT ![p] = j], job[p].at # "fill", j.at # "fill",
         UNCHANGED file, history.created \subseteq history'.created,
         FreshJob(BookNow, history'.created, j)
  PROVE  FreshInv' /\ BookNow' = BookNow
<1>1. job'[p] = j /\ \A q \in Procs \ {p} : job'[q] = job[q]
  BY Shapes
<1>2. \A q \in Procs : job[q].at # "fill" /\ job'[q].at # "fill"
  BY <1>1
<1>3. /\ \A f \in Files : Table(f) = file[f]
      /\ (\A f \in Files : Table(f) = file[f])'
  BY <1>2 DEF Table
<1>4. BookNow' = BookNow
  BY <1>3 DEF BookNow
<1>5. \A q \in Procs \ {p} : FreshJob(BookNow, history'.created, job'[q])
  BY <1>1 DEF FreshInv, FreshJob
<1>6. \A q \in Procs, f \in Files : ~Writing(q, f)'
  BY <1>2 DEF Writing
<1> QED BY <1>1, <1>4, <1>5, <1>6 DEF FreshInv

\* p is alone, and everything so far was done by one process at a time.
Lone(p) ==
  /\ OuterSound /\ OuterSound' /\ AloneInv /\ FreshInv /\ overlaps = 0
  /\ \A q \in Procs \ {p} : job[q].at = "idle"

\* What the model's commands do to the tables until they truncate a file: nothing.
Unseen == FreshInv' /\ BookNow' = BookNow

\* What a process holds that has just begun or has asked git.
LEMMA FreshHere ==
  ASSUME NEW p \in Procs, Lone(p)
  PROVE  /\ FreshJob(BookNow, history.created, job[p]) /\ Shaped(job[p])
         /\ job[p].at \in {"idle", "plan", "add", "remove", "confirm"} => job[p].rest = <<>>
         /\ job[p].at # "fill" => \A f \in Files : file[f] = BookNow[f]
         /\ \A f \in Files : f \in DOMAIN BookNow
BY Shapes, BookFiles DEF Lone, FreshInv, FreshJob, BookNow

\* A process that gives up holds nothing that could be old.
LEMMA FreshQuits ==
  ASSUME NEW p \in Procs, Lone(p), Quits(p), job[p].at # "fill", UNCHANGED file,
         history'.created = history.created
  PROVE  Unseen
<1>1. NoJob.at = "idle" /\ NoJob.rest = <<>> /\ NoJob.writes = <<>>
  BY DEF NoJob
<1>2. FreshJob(BookNow, history'.created, NoJob)
  BY <1>1 DEF FreshJob, Current, Various
<1>3. job' = [job EXCEPT ![p] = NoJob]
  BY DEF Quits
<1> HIDE DEF NoJob
<1> QED BY <1>1, <1>2, <1>3, FreshQuiet DEF Lone, Unseen

\* A process that reads on.
LEMMA FreshReads ==
  ASSUME NEW p \in Procs, Lone(p), NEW j, job' = [job EXCEPT ![p] = j],
         job[p].at \in {"idle", "add", "remove"}, j.at \in {"add", "remove", "confirm"},
         j.rest = job[p].rest, j.writes = job[p].writes,
         UNCHANGED file, history'.created = history.created
  PROVE  Unseen
<1>1. FreshJob(BookNow, history.created, job[p]) /\ job[p].rest = <<>>
  BY FreshHere
<1>2. FreshJob(BookNow, history'.created, j)
  BY <1>1 DEF FreshJob
<1> QED BY <1>2, FreshQuiet DEF Lone, Unseen

\* A process that sets out to save one legal version.
LEMMA FreshSaves ==
  ASSUME NEW p \in Procs, Lone(p), NEW v, Saves(p, <<v>>),
         job[p].at \in {"idle", "plan", "add", "confirm"},
         Legal(BookNow, v), v.to = "tasks" => v.id \in history'.created,
         UNCHANGED file, history.created \subseteq history'.created
  PROVE  Unseen
<1>1. Shaped(job[p]) /\ job[p].rest = <<>>
  BY FreshHere
<1>2. PICK j : /\ job' = [job EXCEPT ![p] = j]
               /\ j.at = "list" /\ j.writes = <<v>> /\ j.rest = job[p].rest
  BY <1>1, SavesJob
<1>3. Current(BookNow, <<>>) /\ Various(<<>>)
  BY DEF Current, Various
<1>4. FreshJob(BookNow, history'.created, j)
  BY <1>1, <1>2, <1>3 DEF FreshJob
<1> QED BY <1>2, <1>4, FreshQuiet DEF Lone, Unseen

\* The same for two saves, the second of which is legal after the first.
LEMMA FreshSavesTwo ==
  ASSUME NEW p \in Procs, Lone(p), NEW v, NEW u, Saves(p, <<v, u>>),
         job[p].at \in {"idle", "plan"},
         Legal(BookNow, v), v.to # "tasks",
         Legal(After(BookNow, v), u), u.id \in history'.created,
         UNCHANGED file, history.created \subseteq history'.created
  PROVE  Unseen
<1>1. Shaped(job[p]) /\ job[p].rest = <<>>
  BY FreshHere
<1>2. PICK j : /\ job' = [job EXCEPT ![p] = j]
               /\ j.at = "list" /\ j.writes = <<v, u>> /\ j.rest = job[p].rest
  BY <1>1, SavesJob
<1>3. Current(BookNow, <<>>) /\ Various(<<>>)
  BY DEF Current, Various
<1>4. FreshJob(BookNow, history'.created, j)
  BY <1>1, <1>2, <1>3 DEF FreshJob
<1> QED BY <1>2, <1>4, FreshQuiet DEF Lone, Unseen

\* What the files hold, of which type, and that no identifier is drawn twice.
LEMMA FileTypes ==
  ASSUME OuterSound
  PROVE  /\ \A t \in DOMAIN file["tasks"] : t \in Tasks /\ file["tasks"][t] \in TaskRecords
         /\ \A w \in DOMAIN file["worktrees"] : file["worktrees"][w] \in WorktreeRecords
         /\ \A r \in DOMAIN file["reviews"] : file["reviews"][r] \in ReviewRecords
         /\ drawn.worktrees + 1 \notin DOMAIN file["worktrees"]
         /\ drawn.reviews + 1 \notin DOMAIN file["reviews"]
<1>1. PICK owner : OuterInv(owner)
  BY DEF OuterSound
<1>2. \A f \in Files : \A i \in DOMAIN file[f] : Sound(Facts(owner), f, i, file[f][i])
  BY <1>1 DEF OuterInv, SoundFiles
<1>3. \A t \in DOMAIN file["tasks"] : SoundTask(Facts(owner), t, file["tasks"][t])
  BY <1>2 DEF Sound, Files
<1>4. \A w \in DOMAIN file["worktrees"] : SoundWorktree(Facts(owner), w, file["worktrees"][w])
  BY <1>2 DEF Sound, Files
<1>5. \A r \in DOMAIN file["reviews"] : SoundReview(Facts(owner), r, file["reviews"][r])
  BY <1>2 DEF Sound, Files
<1>6. drawn.worktrees \in Nat /\ drawn.reviews \in Nat
  BY <1>1, OuterAssumptions DEF OuterInv, World
<1>7. Facts(owner).drawn = drawn.worktrees /\ Facts(owner).begun = drawn.reviews
  BY DEF Facts
<1>8. drawn.worktrees + 1 \notin DOMAIN file["worktrees"]
  BY <1>4, <1>6, <1>7 DEF SoundWorktree
<1>9. drawn.reviews + 1 \notin DOMAIN file["reviews"]
  BY <1>5, <1>6, <1>7 DEF SoundReview
<1> QED BY <1>3, <1>4, <1>5, <1>8, <1>9 DEF SoundTask, SoundWorktree, SoundReview

\* A version is legal by the rules of its table.
LEMMA LegalWrite ==
  ASSUME NEW b, NEW i, NEW r
  PROVE  /\ Book!NextTask(b, i, r) => Legal(b, Write("tasks", i, r))
         /\ Book!NextWorktree(b, i, r) => Legal(b, Write("worktrees", i, r))
         /\ Book!NextReview(b, i, r) => Legal(b, Write("reviews", i, r))
BY DEF Legal, Write, Book!NextVersion

\* The commands on tasks save a new record, or the one that is there.
LEMMA TasksFresh ==
  ASSUME NEW p \in Procs, Lone(p), NEW t, Create(p, t) \/ EditTodos(p, t)
  PROVE  Unseen
<1>1. /\ job[p].at = "idle" /\ UNCHANGED file /\ history \in Histories
      /\ history.created \subseteq history'.created
      /\ Create(p, t) => t \in history'.created
  BY Shapes DEF Create, EditTodos, Starts, Records, Histories, Lone
<1>2. /\ file["tasks"] = BookNow["tasks"]
      /\ DOMAIN BookNow["tasks"] \subseteq history.created
  BY <1>1, FreshHere DEF Files, Lone, FreshInv
<1>3. CASE Create(p, t)
  <2>1. PICK r : r = [status |-> "pending", worktree |-> Nothing, review |-> Nothing]
    OBVIOUS
  <2>2. Saves(p, <<Write("tasks", t, r)>>) /\ t \notin DOMAIN BookNow["tasks"]
    BY <1>2, <1>3, <2>1 DEF Create
  <2>3. Book!NextTask(BookNow, t, r)
    BY <2>1, <2>2 DEF Book!NextTask
  <2>4. Write("tasks", t, r).id = t
    BY DEF Write
  <2> QED BY <1>1, <1>3, <2>2, <2>3, <2>4, LegalWrite, FreshSaves
<1>4. CASE EditTodos(p, t)
  <2>1. PICK r : r = file["tasks"][t]
    OBVIOUS
  <2>2. Saves(p, <<Write("tasks", t, r)>>) /\ t \in DOMAIN BookNow["tasks"]
    BY <1>2, <1>4, <2>1 DEF EditTodos, Loads
  <2>3. Book!NextTask(BookNow, t, r)
    BY <1>2, <2>1, <2>2 DEF Book!NextTask
  <2>4. Write("tasks", t, r).id = t
    BY DEF Write
  <2> QED BY <1>1, <1>2, <2>2, <2>3, <2>4, LegalWrite, FreshSaves
<1> QED BY <1>3, <1>4

\* Marking a worktree stale or cleaned is a legal next version of the one just loaded.
LEMMA EndsFresh ==
  ASSUME NEW p \in Procs, Lone(p), NEW w, MarkStale(p, w) \/ MarkCleaned(p)
  PROVE  Unseen
<1>1. /\ job[p].at \in {"idle", "confirm"} /\ UNCHANGED <<file, history>>
  BY DEF MarkStale, MarkCleaned, Starts, Records, Rest
<1>2. /\ file["worktrees"] = BookNow["worktrees"]
  BY <1>1, FreshHere DEF Files
<1>3. ASSUME NEW i \in DOMAIN file["worktrees"], NEW s,
             s = "stale" \/ (s = "cleaned" /\ file["worktrees"][i].status \in {"stale", "active"}),
             Saves(p, <<Write("worktrees", i, [file["worktrees"][i] EXCEPT !.status = s])>>)
      PROVE  Unseen
  <2>1. PICK r : r = [file["worktrees"][i] EXCEPT !.status = s]
    OBVIOUS
  <2>2. file["worktrees"][i] \in WorktreeRecords
    BY FileTypes DEF Lone
  <2>3. r.status = s
    BY <2>1, <2>2 DEF WorktreeRecords
  <2>4. Book!NextWorktree(BookNow, i, r)
    BY <1>2, <1>3, <2>1, <2>3 DEF Book!NextWorktree
  <2>5. Write("worktrees", i, r).to = "worktrees"
    BY DEF Write
  <2> QED BY <1>1, <1>3, <2>1, <2>4, <2>5, LegalWrite, FreshSaves
<1>4. CASE MarkStale(p, w)
  BY <1>3, <1>4 DEF MarkStale, Loads
<1>5. CASE MarkCleaned(p)
  BY <1>1, <1>3, <1>5, FreshQuits DEF MarkCleaned, Loads
<1> QED BY <1>4, <1>5

\* A verdict on a review is a legal next version of the one just loaded.
LEMMA VerdictsFresh ==
  ASSUME NEW p \in Procs, Lone(p), NEW r, Verify(p, r) \/ Approve(p, r) \/ Reject(p, r)
  PROVE  Unseen
<1>1. /\ job[p].at = "idle" /\ UNCHANGED file /\ r \in DOMAIN file["reviews"]
      /\ history'.created = history.created
  BY Shapes DEF Verify, Approve, Reject, Starts, Loads, Records, Histories, Lone
<1>2. /\ file["reviews"] = BookNow["reviews"]
  BY <1>1, FreshHere DEF Files
<1>3. PICK old : old = file["reviews"][r]
  OBVIOUS
<1>4. ASSUME NEW new, Book!NextReview(BookNow, r, new), Saves(p, <<Write("reviews", r, new)>>)
      PROVE  Unseen
  <2>1. Write("reviews", r, new).to = "reviews"
    BY DEF Write
  <2> QED BY <1>1, <1>4, <2>1, LegalWrite, FreshSaves
<1>5. CASE Verify(p, r)
  BY <1>1, <1>2, <1>4, <1>5 DEF Verify, Book!NextReview
<1>6. CASE Approve(p, r)
  <2>1. PICK new : new = [old EXCEPT !.status = "approved", !.approvedBy = old.roles.reviewer]
    OBVIOUS
  <2>2. /\ Saves(p, <<Write("reviews", r, new)>>)
        /\ old.high => /\ old.roles.reviewer \notin {old.roles.producer, old.roles.verifier}
                       /\ old.noted
    BY <1>3, <1>6, <2>1 DEF Approve, MayApprove
  <2>3. Book!NextReview(BookNow, r, new)
    BY <1>1, <1>2, <1>3, <2>1, <2>2 DEF Book!NextReview
  <2> QED BY <1>4, <2>2, <2>3
<1>7. CASE Reject(p, r)
  BY <1>1, <1>2, <1>4, <1>7 DEF Reject, Book!NextReview
<1> QED BY <1>5, <1>6, <1>7

\* A planned worktree is new, and the task is linked to it as it was loaded: nothing has
\* changed in between.
LEMMA PlanFresh ==
  ASSUME NEW p \in Procs, Lone(p), NEW locks \in LockSets, PlanWorktree(p, locks)
  PROVE  Unseen
<1>w. PICK w : w = drawn.worktrees + 1
  OBVIOUS
<1>t. PICK t : t = job[p].id
  OBVIOUS
<1>k. PICK task : task = job[p].rec
  OBVIOUS
<1>r. PICK record : record = [task |-> t, locks |-> locks,
                        status |-> IF Conflicts(t, locks) = {} THEN "planned" ELSE "conflict"]
  OBVIOUS
<1>u. PICK new : new = [task EXCEPT !.worktree = w, !.status = "ready"]
  OBVIOUS
<1>b. PICK b : b = BookNow
  OBVIOUS
<1>1. /\ job[p].at = "plan" /\ UNCHANGED file
      /\ Saves(p, PlanWrites(t, task, w, record))
      /\ history'.created = history.created
  BY <1>w, <1>t, <1>k, <1>r, Shapes DEF PlanWorktree, Records, Histories, Lone
<1>2. /\ \A f \in Files : file[f] = b[f]
      /\ \A f \in Files : f \in DOMAIN b
      /\ t \in DOMAIN b["tasks"] /\ b["tasks"][t] = task
      /\ t \in history'.created
  BY <1>1, <1>t, <1>k, <1>b, FreshHere DEF FreshJob, Lone, FreshInv
<1>3. t \in CodeTasks
  BY <1>1, <1>t DEF Lone, OuterSound, OuterInv, SoundJob
<1>4. w \notin DOMAIN b["worktrees"] /\ task \in TaskRecords
  BY <1>2, <1>w, FileTypes DEF Lone, Files
<1>5. record.task = t /\ record.status \in {"planned", "conflict"}
  BY <1>r
<1>6. Book!NextWorktree(b, w, record)
  BY <1>2, <1>3, <1>4, <1>5 DEF Book!NextWorktree
<1>v. PICK v : v = Write("worktrees", w, record)
  OBVIOUS
<1>7. v.to = "worktrees" /\ v.id = w /\ v.rec = record /\ Legal(b, v)
  BY <1>6, <1>v, LegalWrite DEF Write
<1>8. CASE record.status = "planned"
  <2>1. Saves(p, <<v, Write("tasks", t, new)>>)
    BY <1>1, <1>8, <1>u, <1>v DEF PlanWrites
  <2>2. /\ After(b, v)["tasks"] = b["tasks"]
        /\ w \in DOMAIN After(b, v)["worktrees"]
        /\ After(b, v)["worktrees"][w] = record
    BY <1>2, <1>7 DEF After, Merged, Files
  <2>3. new = [task EXCEPT !.worktree = new.worktree, !.status = "ready"] /\ new.worktree = w
    BY <1>4, <1>u DEF TaskRecords
  <2>4. Book!NextTask(After(b, v), t, new)
    BY <1>2, <1>5, <1>8, <2>2, <2>3 DEF Book!NextTask
  <2>5. Legal(After(b, v), Write("tasks", t, new)) /\ Write("tasks", t, new).id = t
    BY <2>4, LegalWrite DEF Write
  <2> QED BY <1>1, <1>2, <1>7, <1>b, <2>1, <2>5, FreshSavesTwo
<1>9. CASE record.status # "planned"
  <2>1. Saves(p, <<v>>)
    BY <1>1, <1>9, <1>v DEF PlanWrites
  <2> QED BY <1>1, <1>7, <1>b, <2>1, FreshSaves
<1> QED BY <1>8, <1>9

\* Three people are three only if no two of them are the same.
LEMMA ThreePeople ==
  ASSUME NEW a, NEW b, NEW c, Cardinality({a, b, c}) = 3
  PROVE  a # b /\ c \notin {a, b}
<1>1. \A x, y : Cardinality({x, y}) # 3
  <2> SUFFICES ASSUME NEW x, NEW y PROVE Cardinality({x, y}) # 3
    OBVIOUS
  <2>1. IsFiniteSet({x}) /\ Cardinality({x}) = 1
    BY FS_Singleton
  <2>2. {x, y} = {x} \union {y}
    OBVIOUS
  <2>3. Cardinality({x} \union {y}) = IF y \in {x} THEN 1 ELSE 2
    BY <2>1, FS_AddElement
  <2> QED BY <2>2, <2>3
<1>2. (a = b => {a, b, c} = {a, c}) /\ (c \in {a, b} => {a, b, c} = {a, b})
  OBVIOUS
<1> QED BY <1>1, <1>2

\* A review that is started is new, and the task is linked to it as it was loaded.
LEMMA StartFresh ==
  ASSUME NEW p \in Procs, Lone(p), NEW t, NEW roles, StartReview(p, t, roles)
  PROVE  Unseen
<1>i. PICK i : i = drawn.reviews + 1
  OBVIOUS
<1>k. PICK task : task = file["tasks"][t]
  OBVIOUS
<1>r. PICK r : r = [task |-> t, roles |-> roles, high |-> t \in CodeTasks,
                    noted |-> FALSE, status |-> "in_review", approvedBy |-> Nothing]
  OBVIOUS
<1>u. PICK new : new = [task EXCEPT !.review = i]
  OBVIOUS
<1>v. PICK v : v = Write("reviews", i, r)
  OBVIOUS
<1>b. PICK b : b = BookNow
  OBVIOUS
<1>1. /\ job[p].at = "idle" /\ UNCHANGED file
      /\ Saves(p, <<v, Write("tasks", t, new)>>)
      /\ history'.created = history.created
      /\ t \in DOMAIN file["tasks"]
      /\ MayStart(t, task, roles)
  BY <1>i, <1>k, <1>r, <1>u, <1>v DEF StartReview, Starts, Loads, Records
<1>2. /\ \A f \in Files : file[f] = b[f]
      /\ \A f \in Files : f \in DOMAIN b
      /\ DOMAIN BookNow["tasks"] \subseteq history.created
  BY <1>1, <1>b, FreshHere DEF Lone, FreshInv
<1>3. t \in DOMAIN b["tasks"] /\ b["tasks"][t] = task /\ t \in history'.created
  BY <1>1, <1>2, <1>b, <1>k DEF Files
<1>4. i \notin DOMAIN b["reviews"] /\ task \in TaskRecords
  BY <1>1, <1>2, <1>i, <1>k, FileTypes DEF Lone, Files
<1>5. /\ r.task = t /\ r.roles = roles /\ ~r.noted /\ r.status = "in_review"
      /\ r.approvedBy = Nothing
      /\ t \in CodeTasks => r.high
  BY <1>r
<1>6. Book!NextReview(b, i, r)
  <2>1. t \in CodeTasks =>
          /\ b["tasks"][t].worktree # Nothing
          /\ roles.producer # roles.verifier
          /\ roles.reviewer \notin {roles.producer, roles.verifier}
    BY <1>1, <1>3, ThreePeople DEF MayStart, Distinct
  <2> QED BY <1>3, <1>4, <1>5, <2>1 DEF Book!NextReview
<1>7. v.to = "reviews" /\ v.id = i /\ v.rec = r /\ Legal(b, v)
  BY <1>6, <1>v, LegalWrite DEF Write
<1>8. /\ After(b, v)["tasks"] = b["tasks"]
      /\ i \in DOMAIN After(b, v)["reviews"]
      /\ After(b, v)["reviews"][i] = r
  BY <1>2, <1>7 DEF After, Merged, Files
<1>9. new = [task EXCEPT !.review = new.review] /\ new.review = i
  BY <1>4, <1>u DEF TaskRecords
<1>10. Book!NextTask(After(b, v), t, new)
  BY <1>3, <1>5, <1>8, <1>9 DEF Book!NextTask
<1>11. Legal(After(b, v), Write("tasks", t, new)) /\ Write("tasks", t, new).id = t
  BY <1>10, LegalWrite DEF Write
<1> QED BY <1>1, <1>3, <1>7, <1>b, <1>11, FreshSavesTwo

\* A worktree becomes active from the record that was loaded before git was asked.
LEMMA GitAddFresh ==
  ASSUME NEW p \in Procs, Lone(p), GitAdd(p)
  PROVE  Unseen
<1>r. PICK r : r = [job[p].rec EXCEPT !.status = "active"]
  OBVIOUS
<1>1. /\ job[p].at = "add" /\ UNCHANGED <<file, history>>
      /\ Saves(p, <<Write("worktrees", job[p].id, r)>>) \/ Quits(p)
  BY <1>r DEF GitAdd, Records, Rest
<1>2. AloneJob(BookNow, job[p])
  BY BookAlone DEF Lone, Alone
<1>3. job[p].rec \in WorktreeRecords
  BY <1>1 DEF Lone, OuterSound, OuterInv, SoundJob, SoundWorktree
<1>4. Book!NextWorktree(BookNow, job[p].id, r)
  BY <1>1, <1>2, <1>3, <1>r DEF AloneJob, Book!NextWorktree, WorktreeRecords
<1>5. Write("worktrees", job[p].id, r).to = "worktrees"
  BY DEF Write
<1> QED BY <1>1, <1>4, <1>5, LegalWrite, FreshSaves, FreshQuits

\* Loading a record, or asking git, before a command saves anything.
LEMMA LoadsFresh ==
  ASSUME NEW p \in Procs, Lone(p), NEW t, NEW w,
         Plan(p, t) \/ Materialize(p, w) \/ Cleanup(p, w) \/ GitRemove(p)
  PROVE  Unseen
<1>1. UNCHANGED <<file, history>> /\ job[p].at \in {"idle", "remove"}
  BY DEF Plan, Materialize, Cleanup, GitRemove, Starts, Records, Rest
<1>2. Shaped(job[p]) /\ job[p].rest = <<>> /\ FreshJob(BookNow, history.created, job[p])
  BY <1>1, FreshHere
<1>3. CASE Plan(p, t)
  <2> DEFINE j == [job[p] EXCEPT !.at = "plan", !.id = t, !.rec = file["tasks"][t]]
  <2>1. /\ j.at = "plan" /\ j.id = t /\ j.rec = file["tasks"][t] /\ job' = [job EXCEPT ![p] = j]
        /\ j.rest = job[p].rest /\ j.writes = job[p].writes
        /\ t \in DOMAIN file["tasks"] /\ job[p].at = "idle"
    BY <1>2, <1>3, Shapes DEF Plan, Shaped, Starts, Loads, Lone
  <2>2. file["tasks"] = BookNow["tasks"]
    BY <2>1, FreshHere DEF Files
  <2> HIDE DEF j
  <2>3. FreshJob(BookNow, history'.created, j)
    BY <1>1, <1>2, <2>1, <2>2 DEF FreshJob
  <2> QED BY <1>1, <2>1, <2>3, FreshQuiet DEF Lone, Unseen
<1>4. ASSUME NEW j, job' = [job EXCEPT ![p] = j], j.at \in {"add", "remove", "confirm"},
             j.rest = job[p].rest, j.writes = job[p].writes
      PROVE  Unseen
  BY <1>1, <1>4, FreshReads
<1>5. CASE Materialize(p, w)
  <2> DEFINE j == [job[p] EXCEPT !.at = "add", !.id = w, !.rec = file["worktrees"][w]]
  <2>1. /\ j.at = "add" /\ j.rest = job[p].rest /\ j.writes = job[p].writes
        /\ job' = [job EXCEPT ![p] = j]
    BY <1>2, <1>5 DEF Materialize, Shaped
  <2> HIDE DEF j
  <2> QED BY <1>4, <2>1
<1>6. CASE Cleanup(p, w)
  <2> DEFINE j == [job[p] EXCEPT !.at = "remove", !.id = w, !.rec = file["worktrees"][w]]
  <2>1. /\ j.at = "remove" /\ j.rest = job[p].rest /\ j.writes = job[p].writes
        /\ job' = [job EXCEPT ![p] = j]
    BY <1>2, <1>6 DEF Cleanup, Shaped
  <2> HIDE DEF j
  <2> QED BY <1>4, <2>1
<1>7. CASE GitRemove(p)
  <2> DEFINE j == [job[p] EXCEPT !.at = "confirm"]
  <2>1. /\ j.at = "confirm" /\ j.rest = job[p].rest /\ j.writes = job[p].writes
        /\ (job' = [job EXCEPT ![p] = j] \/ Quits(p))
    BY <1>2, <1>7 DEF GitRemove, Shaped
  <2> HIDE DEF j
  <2> QED BY <1>1, <1>4, <2>1, FreshQuits
<1> QED BY <1>3, <1>5, <1>6, <1>7

\* worktrees expire saves, for each lease that has lapsed, the record it listed, and no
\* save of its own touches another one.
LEMMA ExpireFresh ==
  ASSUME NEW p \in Procs, Lone(p), ExpireLeases(p)
  PROVE  Unseen
<1>1. job[p].at = "idle" /\ UNCHANGED <<file, history>>
  BY DEF ExpireLeases, Starts, Records, Rest
<1>2. /\ Shaped(job[p]) /\ FreshJob(BookNow, history.created, job[p])
      /\ file["worktrees"] = BookNow["worktrees"]
  BY <1>1, FreshHere DEF Files
<1>3. PICK listed \in Listings :
        job' = [job EXCEPT ![p].at = "expire",
                  ![p].rest = [i \in DOMAIN listed |->
                    Write("worktrees", listed[i], file["worktrees"][listed[i]])]]
  BY DEF ExpireLeases
<1>4. PICK l : l = [i \in DOMAIN listed |->
                      Write("worktrees", listed[i], file["worktrees"][listed[i]])]
  OBVIOUS
<1>5. /\ \A i \in DOMAIN listed : listed[i] \in DOMAIN file["worktrees"]
      /\ \A i, m \in DOMAIN listed : i < m => listed[i] < listed[m]
      /\ DOMAIN listed \subseteq Nat
  <2>1. PICK n : n = Cardinality(DOMAIN file["worktrees"])
    OBVIOUS
  <2>2. listed \in [1..n -> DOMAIN file["worktrees"]]
    BY <1>3, <2>1 DEF Listings
  <2> QED BY <1>3, <2>2 DEF Listings
<1>6. \A n \in DOMAIN l : /\ n \in DOMAIN listed /\ l[n].id = listed[n]
                          /\ l[n].rec = file["worktrees"][listed[n]]
  BY <1>4 DEF Write
<1>7. Current(BookNow, l)
  BY <1>2, <1>5, <1>6 DEF Current
<1>8. \A i \in DOMAIN file["worktrees"] : i \in Nat
  <2>1. PICK owner : OuterInv(owner)
    BY DEF Lone, OuterSound
  <2> QED BY <2>1, OuterAssumptions DEF OuterInv, SoundFiles, Sound, SoundWorktree, WorktreeIds, Files
<1>9. Various(l)
  <2> SUFFICES ASSUME NEW m \in DOMAIN l, NEW n \in DOMAIN l, m # n
               PROVE  listed[m] # listed[n]
    BY <1>6 DEF Various
  <2>1. m \in Nat /\ n \in Nat /\ listed[m] \in Nat /\ listed[n] \in Nat
    BY <1>5, <1>6, <1>8
  <2>2. m < n \/ n < m
    BY <2>1
  <2>3. listed[m] < listed[n] \/ listed[n] < listed[m]
    BY <1>5, <1>6, <2>2
  <2> QED BY <2>1, <2>3
<1>10. PICK j : j = [job[p] EXCEPT !.at = "expire", !.rest = l]
  OBVIOUS
<1>11. /\ j.at = "expire" /\ j.rest = l /\ j.writes = job[p].writes
       /\ job' = [job EXCEPT ![p] = j]
  BY <1>2, <1>3, <1>4, <1>10, Shapes DEF Shaped, Lone
<1>12. job[p].writes = <<>>
  BY <1>1, <1>2 DEF Shaped
<1>13. FreshJob(BookNow, history'.created, j)
  BY <1>1, <1>2, <1>7, <1>9, <1>11, <1>12 DEF FreshJob
<1> QED BY <1>1, <1>11, <1>13, FreshQuiet DEF Lone, Unseen

\* Without its first record a listing is as current and as various as it was, and what
\* was first is none of the others.
LEMMA ListingTail ==
  ASSUME NEW b, NEW l \in Seq(Listed), l # <<>>, Current(b, l), Various(l)
  PROVE  /\ Current(b, Tail(l)) /\ Various(Tail(l))
         /\ \A n \in DOMAIN Tail(l) : Tail(l)[n].id # Head(l).id
         /\ Head(l).id \in DOMAIN b["worktrees"]
         /\ b["worktrees"][Head(l).id] = Head(l).rec
         /\ Head(l) \in Listed
<1>1. \A n \in DOMAIN Tail(l) : n \in Nat /\ n + 1 \in DOMAIN l /\ Tail(l)[n] = l[n + 1] /\ n + 1 # 1
  OBVIOUS
<1>2. 1 \in DOMAIN l /\ Head(l) = l[1] /\ l[1] \in Listed
  OBVIOUS
<1>3. Current(b, Tail(l))
  BY <1>1 DEF Current
<1>4. Various(Tail(l))
  <2> SUFFICES ASSUME NEW m \in DOMAIN Tail(l), NEW n \in DOMAIN Tail(l), m # n
               PROVE  Tail(l)[m].id # Tail(l)[n].id
    BY DEF Various
  <2>1. m + 1 # n + 1
    BY <1>1
  <2> QED BY <1>1, <2>1 DEF Various
<1>5. \A n \in DOMAIN Tail(l) : Tail(l)[n].id # Head(l).id
  BY <1>1, <1>2 DEF Various
<1> QED BY <1>2, <1>3, <1>4, <1>5 DEF Current

\* The copy that worktrees expire saves is still the record that is there.
LEMMA ExpireNextFresh ==
  ASSUME NEW p \in Procs, Lone(p), ExpireNext(p)
  PROVE  Unseen
<1> DEFINE listed == Head(job[p].rest)
           v == [listed EXCEPT !.rec.status = "stale"]
           saving == [job[p] EXCEPT !.at = "list", !.rest = Tail(job[p].rest),
                                    !.writes = <<v>>]
           going == [job[p] EXCEPT !.rest = Tail(job[p].rest)]
<1>1. /\ \/ job' = [job EXCEPT ![p] = saving]
         \/ Quits(p)
         \/ job' = [job EXCEPT ![p] = going]
      /\ job[p].at = "expire" /\ UNCHANGED <<file, history>>
  BY DEF ExpireNext, Quits, Records, Rest
<1>2. Shaped(job[p]) /\ FreshJob(BookNow, history.created, job[p])
  BY FreshHere
<1>3. job[p].rest # <<>> /\ job[p].rest \in Seq(Listed) /\ job[p].writes = <<>>
  BY <1>1, <1>2 DEF Lone, OuterSound, OuterInv, SoundJob, Shaped
<1>4. PICK left : left = Tail(job[p].rest)
  OBVIOUS
<1>5. /\ Current(BookNow, left) /\ Various(left)
      /\ \A n \in DOMAIN left : left[n].id # listed.id
      /\ listed.id \in DOMAIN BookNow["worktrees"]
      /\ BookNow["worktrees"][listed.id] = listed.rec
      /\ listed \in Listed
  BY <1>2, <1>3, <1>4, ListingTail DEF FreshJob
<1>6. /\ saving.at = "list" /\ saving.writes = <<v>> /\ saving.rest = left
      /\ going.at = "expire" /\ going.writes = job[p].writes /\ going.rest = left
  BY <1>1, <1>2, <1>4 DEF Shaped
<1> HIDE DEF listed
<1>7. /\ v.to = "worktrees" /\ v.id = listed.id
      /\ v.rec = [listed.rec EXCEPT !.status = "stale"] /\ v.rec.status = "stale"
  BY <1>5 DEF Listed, WorktreeRecords
<1> HIDE DEF saving, going, v
<1>8. Legal(BookNow, v)
  BY <1>5, <1>7 DEF Legal, Book!NextVersion, Book!NextWorktree
<1>9. FreshJob(BookNow, history'.created, saving)
  BY <1>5, <1>6, <1>7, <1>8 DEF FreshJob
<1>10. FreshJob(BookNow, history'.created, going)
  BY <1>3, <1>5, <1>6 DEF FreshJob
<1>11. CASE job' = [job EXCEPT ![p] = saving]
  BY <1>1, <1>6, <1>9, <1>11, FreshQuiet DEF Lone, Unseen
<1>12. CASE job' = [job EXCEPT ![p] = going]
  BY <1>1, <1>6, <1>10, <1>12, FreshQuiet DEF Lone, Unseen
<1> QED BY <1>1, <1>11, <1>12, FreshQuits

\* Listing a file changes nothing of what is to be saved.
LEMMA ListFresh ==
  ASSUME NEW p \in Procs, Lone(p), List(p)
  PROVE  Unseen
<1> DEFINE w == Head(job[p].writes)
           j == [job[p] EXCEPT !.at = "truncate", !.rows = Merged(file[w.to], w)]
<1>1. /\ job[p].at = "list" /\ UNCHANGED <<file, history>>
      /\ job' = [job EXCEPT ![p] = j] \/ Quits(p)
  BY DEF List, Records, Rest
<1>2. Shaped(job[p]) /\ FreshJob(BookNow, history.created, job[p])
  BY FreshHere
<1>3. /\ j.at = "truncate" /\ j.writes = job[p].writes /\ j.rest = job[p].rest
  BY <1>2 DEF Shaped
<1> HIDE DEF w, j
<1>4. FreshJob(BookNow, history'.created, j)
  BY <1>1, <1>2, <1>3 DEF FreshJob
<1>5. CASE job' = [job EXCEPT ![p] = j]
  BY <1>1, <1>3, <1>4, <1>5, FreshQuiet DEF Lone, Unseen
<1> QED BY <1>1, <1>5, FreshQuits

\* A step of the book, or nothing that it shows.
Noticed == FreshInv' /\ (Book!Next \/ UNCHANGED Book!vars)

\* What the tables are is a matter of definition.
LEMMA BookVars ==
  ASSUME UNCHANGED <<BookNow, lapsed>>, history'.torn = history.torn
  PROVE  UNCHANGED Book!vars
BY DEF BookNow, Book!vars

\* The truncation is the moment at which a record is saved.
LEMMA TruncateFresh ==
  ASSUME NEW p \in Procs, Lone(p), Truncate(p)
  PROVE  Noticed
<1>w. PICK w : w = job[p].writes[1]
  OBVIOUS
<1>b. PICK b : b = BookNow
  OBVIOUS
<1>c. PICK c : c = After(b, w)
  OBVIOUS
<1> DEFINE j == [job[p] EXCEPT !.at = "fill"]
<1>1. Shaped(job[p]) /\ FreshJob(b, history.created, job[p])
  BY <1>b, FreshHere
<1>2. Head(job[p].writes) = w /\ job[p].at = "truncate"
  BY <1>w, <1>1 DEF Truncate, Shaped
<1>3. /\ job' = [job EXCEPT ![p] = j]
      /\ file' = [file EXCEPT ![w.to] = <<>>]
      /\ UNCHANGED <<lapsed, history>>
  BY <1>2 DEF Truncate, Rest
<1>4. w.to \in Files
  BY <1>1, <1>2, <1>w DEF Shaped, Writes, Files
<1>5. j.at = "fill" /\ j.rows = job[p].rows /\ j.writes = job[p].writes /\ j.rest = job[p].rest
  BY <1>1 DEF Shaped
<1>j. PICK k : k = j
  OBVIOUS
<1> HIDE DEF j
<1>6. /\ job'[p] = k /\ (\A q \in Procs \ {p} : job'[q] = job[q])
      /\ file = [f \in Files |-> file[f]]
  BY <1>3, <1>j, Shapes DEF Lone
<1>7. Alone(b)
  BY <1>b, BookAlone DEF Lone
<1>8. k.rows = Merged(b[w.to], w) /\ k.at = "fill" /\ Head(k.writes) = w /\ k.writes[1] = w
  BY <1>2, <1>5, <1>7, <1>j, <1>w DEF Alone, AloneJob
<1>9. \A f \in Files : file[f] = b[f]
  BY <1>2, <1>b, FreshHere
<1>10. BookNow' = c
  <2>1. /\ b = [f \in Files |-> b[f]]
        /\ c = [f \in Files |-> IF f = w.to THEN k.rows ELSE file'[f]]
    BY <1>3, <1>4, <1>6, <1>7, <1>8, <1>9, <1>c DEF Alone, After
  <2>2. ASSUME NEW f \in Files PROVE Table(f)' = c[f]
    <3> DEFINE writers == {q \in Procs : job'[q].at = "fill" /\ Head(job'[q].writes).to = f}
    <3>1. \A q \in Procs \ {p} : job'[q].at # "fill"
      BY <1>6 DEF Lone
    <3>2. Table(f)' = IF writers = {} THEN file'[f] ELSE job'[CHOOSE q \in writers : TRUE].rows
      BY DEF Table
    <3>3. CASE f = w.to
      <4>1. writers = {p}
        BY <1>6, <1>8, <3>1, <3>3
      <4> HIDE DEF writers
      <4>2. (CHOOSE q \in writers : TRUE) = p
        BY <4>1
      <4> QED BY <1>6, <2>1, <3>2, <3>3, <4>1, <4>2
    <3>4. CASE f # w.to
      <4>1. writers = {}
        BY <1>6, <1>8, <3>1, <3>4
      <4> HIDE DEF writers
      <4> QED BY <2>1, <3>2, <3>4, <4>1
    <3> QED BY <3>3, <3>4
  <2> QED BY <2>1, <2>2 DEF BookNow
<1>11. Legal(b, w) /\ w.id \in DOMAIN c[w.to] /\ c[w.to][w.id] = w.rec
  <2>1. c[w.to] = Merged(b[w.to], w)
    BY <1>4, <1>7, <1>c DEF Alone, After
  <2> QED BY <1>1, <1>2, <1>w, <2>1 DEF FreshJob, Merged
<1>12. Book!Exclusive(c["worktrees"])
  <2>1. Exclusive(b["worktrees"]) /\ AloneJob(b, job[p])
    BY <1>7 DEF Alone
  <2>2. c["worktrees"] = IF w.to = "worktrees" THEN Merged(b["worktrees"], w) ELSE b["worktrees"]
    BY <1>4, <1>7, <1>c DEF Alone, After, Files
  <2>3. Exclusive(c["worktrees"])
    BY <1>2, <1>w, <2>1, <2>2 DEF AloneJob
  <2> QED BY <2>3 DEF Exclusive, Runs, Apart, Book!Exclusive, Book!Runs
<1>13. Book!Next
  <2>1. c = [b EXCEPT ![w.to] = Book!Updated(b[w.to], w.id, w.rec)]
    BY <1>c DEF After, Merged, Book!Updated
  <2>2. Book!NextVersion(BookNow, w.to, w.id, w.rec)
    BY <1>11, <1>b DEF Legal
  <2>3. /\ BookNow' = [BookNow EXCEPT ![w.to] = Book!Updated(BookNow[w.to], w.id, w.rec)]
        /\ Book!Exclusive(BookNow'["worktrees"])
    BY <1>10, <1>12, <1>b, <2>1
  <2>4. UNCHANGED <<lapsed, history>>
    BY <1>3
  <2>5. Book!Save(w.to, w.id, w.rec)
    BY <2>2, <2>3, <2>4 DEF BookNow, Book!Save
  <2>6. w.to \in Book!Tables /\ w.id \in DOMAIN BookNow'[w.to] /\ BookNow'[w.to][w.id] = w.rec
    BY <1>4, <1>10, <1>11 DEF Files, Book!Tables
  <2> QED BY <2>5, <2>6 DEF BookNow, Book!Next
<1>14. FreshInv'
  <2>1. DOMAIN c["tasks"] \subseteq history'.created
    <3>1. DOMAIN b["tasks"] \subseteq history.created
      BY <1>b DEF Lone, FreshInv
    <3>2. w.to = "tasks" => w.id \in history.created
      <4>1. 1 \in DOMAIN job[p].writes
        BY <1>1, <1>2 DEF Shaped
      <4> QED BY <1>1, <1>w, <4>1 DEF FreshJob
    <3>3. DOMAIN c["tasks"] = IF w.to = "tasks" THEN DOMAIN b["tasks"] \union {w.id}
                                                ELSE DOMAIN b["tasks"]
      BY <1>4, <1>7, <1>c DEF Alone, After, Merged, Files
    <3> QED BY <1>3, <3>1, <3>2, <3>3
  <2>2. Current(c, k.rest)
    <3>1. Current(b, k.rest)
      BY <1>1, <1>5, <1>j DEF FreshJob
    <3>2. w.to = "worktrees" => \A n \in DOMAIN k.rest : k.rest[n].id # w.id
      BY <1>1, <1>2, <1>5, <1>j, <1>w DEF FreshJob
    <3>3. \A i \in DOMAIN b["worktrees"] :
            w.to # "worktrees" \/ i # w.id =>
              i \in DOMAIN c["worktrees"] /\ c["worktrees"][i] = b["worktrees"][i]
      BY <1>4, <1>7, <1>c DEF Alone, After, Merged, Files
    <3> QED BY <3>1, <3>2, <3>3 DEF Current
  <2>3. FreshJob(c, history'.created, k)
    BY <1>1, <1>2, <1>3, <1>5, <1>8, <1>c, <1>j, <1>w, <2>2 DEF FreshJob
  <2>4. ASSUME NEW q \in Procs PROVE FreshJob(c, history'.created, job'[q])
    <3>1. CASE q = p
      BY <1>6, <2>3, <3>1
    <3>2. CASE q # p
      <4>1. job'[q] = job[q] /\ job[q].at = "idle" /\ FreshJob(b, history.created, job[q])
        BY <1>6, <1>b, <3>2 DEF Lone, FreshInv
      <4>2. Current(c, job[q].rest)
        BY <4>1 DEF FreshJob, Current
      <4> QED BY <1>3, <4>1, <4>2 DEF FreshJob
    <3> QED BY <3>1, <3>2
  <2>5. ASSUME NEW q \in Procs, NEW f \in Files, Writing(q, f)' PROVE file'[f] = <<>>
    <3>1. q = p
      BY <1>6, <2>5 DEF Writing, Lone
    <3>2. f = w.to
      BY <1>6, <1>8, <2>5, <3>1 DEF Writing
    <3> QED BY <1>3, <1>6, <3>2
  <2> QED BY <1>10, <2>1, <2>4, <2>5 DEF FreshInv
<1> QED BY <1>13, <1>14 DEF Noticed

\* What is left of two saves.
LEMMA TailOfTwo ==
  ASSUME NEW S, NEW s \in Seq(S), Len(s) = 2
  PROVE  Len(Tail(s)) = 1 /\ DOMAIN Tail(s) = {1} /\ 2 \in DOMAIN s
<1>1. Len(Tail(s)) = 1
  BY TwoLeft
<1>2. Tail(s) \in Seq(S) /\ 1..1 = {1} /\ 2 \in 1..2
  OBVIOUS
<1>3. DOMAIN s = 1..Len(s)
  OBVIOUS
<1>4. DOMAIN Tail(s) = 1..Len(Tail(s))
  BY <1>2
<1> QED BY <1>1, <1>2, <1>3, <1>4

\* Writing back what the tables already hold.
LEMMA FillFresh ==
  ASSUME NEW p \in Procs, Lone(p), LinkInv, Fill(p)
  PROVE  Unseen
<1>w. PICK w : w = job[p].writes[1]
  OBVIOUS
<1>b. PICK b : b = BookNow
  OBVIOUS
<1>j. PICK j : j = AfterWrite(job[p])
  OBVIOUS
<1>1. Shaped(job[p]) /\ FreshJob(b, history.created, job[p])
  BY <1>b, FreshHere
<1>2. Head(job[p].writes) = w /\ job[p].at = "fill" /\ job[p].writes # <<>>
  BY <1>w, <1>1 DEF Fill, Shaped
<1>3. w.to \in Files
  BY <1>1, <1>2, <1>w DEF Shaped, Writes, Files
<1>4. Alone(b)
  BY <1>b, BookAlone DEF Lone
<1>5. file[w.to] = <<>> /\ garbled = {} /\ job[p].rows = b[w.to]
  BY <1>2, <1>3, <1>4, <1>w DEF Lone, FreshInv, Writing, Alone, AloneJob
<1>6. /\ file' = [file EXCEPT ![w.to] = job[p].rows]
      /\ job' = [job EXCEPT ![p] = j]
      /\ history' = [history EXCEPT !.saved[w.to] = @ \union {w.id}]
  <2>1. DOMAIN file[w.to] = {} /\ w.to \notin garbled
    BY <1>5
  <2> QED BY <1>2, <2>1, <1>j DEF Fill
<1>7. history'.created = history.created /\ file = [f \in Files |-> file[f]]
  BY <1>6, Shapes DEF Lone, Histories
<1>8. \A f \in Files : file'[f] = b[f]
  <2> SUFFICES ASSUME NEW f \in Files, f # w.to PROVE file[f] = b[f]
    BY <1>3, <1>5, <1>6, <1>7
  <2>1. \A q \in Procs : ~Writing(q, f)
    BY <1>2, <1>w DEF Writing, Lone
  <2> QED BY <1>4, <2>1 DEF Alone
<1>9. /\ j.at \in {"idle", "list", "expire"}
      /\ FreshJob(b, history'.created, j)
  <2> DEFINE next == [job[p] EXCEPT !.at = "list", !.writes = Tail(@), !.rows = <<>>]
             back == [job[p] EXCEPT !.at = "expire", !.writes = <<>>, !.rows = <<>>]
  <2>1. CASE Len(job[p].writes) > 1
    <3>1. j.at = "list" /\ j.writes = Tail(job[p].writes) /\ j.rest = job[p].rest
      <4>1. next.at = "list" /\ next.writes = Tail(job[p].writes) /\ next.rest = job[p].rest
        BY <1>1 DEF Shaped
      <4> HIDE DEF next
      <4> QED BY <1>j, <2>1, <4>1 DEF AfterWrite, next
    <3>2. LinkedJob(history.saved, job[p])
      BY DEF LinkInv
    <3>3. Len(job[p].writes) <= 2 /\ job[p].writes \in Seq(Writes)
      BY <1>1, <3>2 DEF LinkedJob, Shaped
    <3>4. Len(job[p].writes) = 2 /\ Tail(job[p].writes)[1] = job[p].writes[2]
      BY <2>1, <3>3, TwoLeft
    <3>5. /\ Len(j.writes) = 1 /\ DOMAIN j.writes = {1} /\ j.writes[1] = job[p].writes[2]
          /\ 2 \in DOMAIN job[p].writes
      BY <3>1, <3>3, <3>4, TailOfTwo
    <3>6. job[p].writes[2].to = "tasks"
      BY <3>2, <3>4 DEF LinkedJob
    <3>7. /\ Legal(b, j.writes[1]) /\ j.writes[1].to = "tasks"
          /\ j.writes[1].id \in history'.created
          /\ j.rest = <<>> /\ Current(b, j.rest) /\ Various(j.rest)
      BY <1>1, <1>2, <1>7, <3>1, <3>4, <3>5, <3>6 DEF FreshJob
    <3> QED BY <3>1, <3>5, <3>7 DEF FreshJob
  <2>2. CASE ~(Len(job[p].writes) > 1) /\ job[p].rest # <<>>
    <3>1. j.at = "expire" /\ j.writes = <<>> /\ j.rest = job[p].rest
      <4>1. back.at = "expire" /\ back.writes = <<>> /\ back.rest = job[p].rest
        BY <1>1 DEF Shaped
      <4> HIDE DEF back
      <4> QED BY <1>j, <2>2, <4>1 DEF AfterWrite, back
    <3> QED BY <1>1, <3>1 DEF FreshJob
  <2>3. CASE ~(Len(job[p].writes) > 1) /\ job[p].rest = <<>>
    <3>1. j.at = "idle" /\ j.writes = <<>> /\ j.rest = <<>>
      BY <1>j, <2>3 DEF AfterWrite, NoJob
    <3> QED BY <1>1, <2>3, <3>1 DEF FreshJob
  <2> QED BY <2>1, <2>2, <2>3
<1>10. job'[p] = j /\ \A q \in Procs \ {p} : job'[q] = job[q] /\ job[q].at = "idle"
  BY <1>6, Shapes DEF Lone
<1>11. \A q \in Procs : job'[q].at # "fill"
  BY <1>9, <1>10
<1>12. BookNow' = b
  <2>1. \A f \in Files : Table(f)' = b[f]
    BY <1>8, <1>11 DEF Table
  <2>2. b = [f \in Files |-> b[f]]
    BY <1>4 DEF Alone
  <2> QED BY <2>1, <2>2 DEF BookNow
<1>13. \A q \in Procs : FreshJob(b, history'.created, job'[q])
  BY <1>7, <1>9, <1>10, <1>b DEF Lone, FreshInv
<1>14. \A q \in Procs, f \in Files : ~Writing(q, f)'
  BY <1>11 DEF Writing
<1> QED BY <1>7, <1>12, <1>13, <1>14, <1>b DEF Lone, FreshInv, Unseen

\* A death in the middle of a write loses the table that was being written; any other
\* loses nothing.
LEMMA CrashFresh ==
  ASSUME NEW p \in Procs, Lone(p), Crash(p)
  PROVE  Noticed
<1>b. PICK b : b = BookNow
  OBVIOUS
<1>w. PICK w : w = job[p].writes[1]
  OBVIOUS
<1>1. /\ Quits(p) /\ UNCHANGED <<file, lapsed>> /\ history'.created = history.created
      /\ history'.torn = IF job[p].at = "fill"
                         THEN history.torn \union {Head(job[p].writes).to} ELSE history.torn
  <2>1. history \in Histories
    BY Shapes DEF Lone
  <2> QED BY <2>1 DEF Crash, Records, Rest, Histories
<1>2. CASE job[p].at # "fill"
  <2>1. Unseen /\ history'.torn = history.torn
    BY <1>1, <1>2, FreshQuits
  <2> QED BY <1>1, <2>1, BookVars DEF Unseen, Noticed
<1>3. CASE job[p].at = "fill"
  <2>1. Shaped(job[p]) /\ FreshJob(b, history.created, job[p])
    BY <1>b, FreshHere
  <2>2. Head(job[p].writes) = w /\ w.to \in Files
    BY <1>3, <1>w, <2>1 DEF Shaped, Writes, Files
  <2>3. Alone(b)
    BY <1>b, BookAlone DEF Lone
  <2>4. \A f \in Files : file[f] = IF f = w.to THEN <<>> ELSE b[f]
    <3>1. file[w.to] = <<>>
      BY <1>3, <1>w, <2>2 DEF Lone, FreshInv, Writing
    <3>2. ASSUME NEW f \in Files, f # w.to PROVE file[f] = b[f]
      <4>1. \A q \in Procs : ~Writing(q, f)
        BY <1>w, <3>2 DEF Writing, Lone, Shaped
      <4> QED BY <2>3, <4>1 DEF Alone
    <3> QED BY <3>1, <3>2
  <2>5. /\ job'[p] = NoJob /\ NoJob.at = "idle" /\ NoJob.rest = <<>> /\ NoJob.writes = <<>>
        /\ \A q \in Procs \ {p} : job'[q] = job[q] /\ job[q].at = "idle"
    BY <1>1, Shapes DEF Quits, NoJob, Lone
  <2>6. \A q \in Procs : job'[q].at # "fill"
    BY <2>5
  <2>7. BookNow' = [b EXCEPT ![w.to] = <<>>]
    <3>1. \A f \in Files : Table(f)' = file[f]
      BY <1>1, <2>6 DEF Table
    <3>2. b = [f \in Files |-> b[f]]
      BY <2>3 DEF Alone
    <3> QED BY <2>2, <2>4, <3>1, <3>2 DEF BookNow
  <2>8. Book!Lose(w.to)
    BY <1>1, <1>3, <1>b, <2>2, <2>7 DEF BookNow, Book!Lose
  <2>9. Book!Next
    BY <2>2, <2>8 DEF Book!Next, Book!Tables, Files
  <2>10. DOMAIN BookNow'["tasks"] \subseteq history'.created
    <3>1. DOMAIN <<>> = {}
      OBVIOUS
    <3>2. BookNow'["tasks"] = b["tasks"] \/ BookNow'["tasks"] = <<>>
      BY <2>3, <2>7 DEF Alone, Files
    <3> QED BY <1>1, <1>b, <3>1, <3>2 DEF Lone, FreshInv
  <2>11. ASSUME NEW q \in Procs PROVE FreshJob(BookNow', history'.created, job'[q])
    <3>1. job'[q].at = "idle" /\ job'[q].rest = <<>>
      BY <2>5, FreshHere DEF Lone, FreshInv, FreshJob
    <3>2. job'[q].writes = <<>>
      BY <2>5, Shapes DEF Lone, Shaped
    <3> QED BY <3>1, <3>2 DEF FreshJob, Current, Various
  <2>12. \A q \in Procs, f \in Files : ~Writing(q, f)'
    BY <2>6 DEF Writing
  <2>13. FreshInv'
    BY <2>10, <2>11, <2>12 DEF FreshInv
  <2> QED BY <2>9, <2>13 DEF Noticed
<1> QED BY <1>2, <1>3

\* Every step of a command, and every lapse, is one of the book or does not show in it.
LEMMA FreshStep ==
  ASSUME OuterSound, OuterSound', LinkInv, AloneInv, FreshInv, Next, overlaps' = 0
  PROVE  overlaps = 0 /\ Noticed
<1>1. ASSUME NEW p \in Procs, Step(p) PROVE overlaps = 0 /\ Noticed
  <2>1. Lone(p) /\ overlaps = 0
    BY <1>1, OnlyOne DEF Lone
  <2>2. history \in Histories
    BY Shapes
  <2>3. CASE Truncate(p) \/ Crash(p)
    BY <2>1, <2>3, TruncateFresh, CrashFresh
  <2>4. ASSUME Unseen, UNCHANGED lapsed, history'.torn = history.torn PROVE Noticed
    BY <2>4, BookVars DEF Unseen, Noticed
  <2>5. ASSUME NEW t, NEW w, NEW r, NEW roles,
               \/ Create(p, t) \/ EditTodos(p, t) \/ StartReview(p, t, roles)
               \/ MarkStale(p, w) \/ MarkCleaned(p)
               \/ Verify(p, r) \/ Approve(p, r) \/ Reject(p, r)
        PROVE  Noticed
    <3>1. UNCHANGED lapsed /\ history'.torn = history.torn
      BY <2>2, <2>5 DEF Create, EditTodos, StartReview, MarkStale, MarkCleaned, Verify, Approve,
                        Reject, Rest, Histories
    <3>2. Unseen
      BY <2>1, <2>5, TasksFresh, StartFresh, EndsFresh, VerdictsFresh
    <3> QED BY <2>4, <3>1, <3>2
  <2>6. ASSUME NEW t, NEW w,
               \/ Plan(p, t) \/ Materialize(p, w) \/ Cleanup(p, w) \/ GitRemove(p)
               \/ GitAdd(p) \/ ExpireLeases(p) \/ ExpireNext(p)
        PROVE  Noticed
    <3>1. UNCHANGED <<lapsed, history>>
      BY <2>6 DEF Plan, Materialize, Cleanup, GitRemove, GitAdd, ExpireLeases, ExpireNext, Rest
    <3>2. Unseen
      BY <2>1, <2>6, LoadsFresh, GitAddFresh, ExpireFresh, ExpireNextFresh
    <3> QED BY <2>4, <3>1, <3>2
  <2>7. ASSUME NEW locks \in LockSets, PlanWorktree(p, locks) PROVE Noticed
    <3>1. UNCHANGED lapsed /\ history'.torn = history.torn
      BY <2>2, <2>7 DEF PlanWorktree, Histories
    <3> QED BY <2>1, <2>4, <2>7, <3>1, PlanFresh
  <2>8. CASE List(p) \/ Fill(p)
    <3>1. UNCHANGED lapsed /\ history'.torn = history.torn
      BY <2>2, <2>8 DEF List, Fill, Rest, Histories
    <3> QED BY <2>1, <2>4, <2>8, <3>1, ListFresh, FillFresh
  <2> QED BY <1>1, <2>1, <2>3, <2>5, <2>6, <2>7, <2>8 DEF Step
<1>2. ASSUME NEW w \in WorktreeIds, Lapse(w) PROVE overlaps = 0 /\ Noticed
  <2>1. /\ lapsed' = lapsed \union {w} /\ UNCHANGED <<file, job, overlaps, history>>
    BY <1>2 DEF Lapse, Records
  <2>2. BookNow' = BookNow
    BY <2>1 DEF BookNow, Table
  <2>3. FreshInv'
    BY <2>1, <2>2 DEF FreshInv, Writing
  <2>4. Book!Lapse(w)
    BY <2>1, <2>2 DEF BookNow, Book!Lapse
  <2> QED BY <2>1, <2>3, <2>4 DEF Noticed, Book!Next
<1> QED BY <1>1, <1>2 DEF Next

\* At first the tables are empty.
LEMMA FreshInit == Init => FreshInv /\ Book!Init
<1> SUFFICES ASSUME Init PROVE FreshInv /\ Book!Init
  OBVIOUS
<1>1. /\ \A p \in Procs : job[p].at = "idle" /\ job[p].rest = <<>> /\ job[p].writes = <<>>
      /\ file = [f \in Files |-> <<>>] /\ lapsed = {} /\ history.torn = {}
  BY DEF Init, NoJob
<1>2. BookNow = [f \in Files |-> <<>>]
  BY <1>1 DEF BookNow, Table
<1>3. Book!Init
  BY <1>1, <1>2 DEF BookNow, Book!Init, Book!Tables, Files
<1>4. DOMAIN BookNow["tasks"] \subseteq history.created
  <2>1. DOMAIN <<>> = {}
    OBVIOUS
  <2> QED BY <1>2, <2>1 DEF Files
<1>5. \A p \in Procs : FreshJob(BookNow, history.created, job[p])
  BY <1>1 DEF FreshJob, Current, Various
<1>6. \A p \in Procs, f \in Files : ~Writing(p, f)
  BY <1>1 DEF Writing
<1> QED BY <1>3, <1>4, <1>5, <1>6 DEF FreshInv

\* Freshness looks at nothing outside vars.
LEMMA FreshStutter ==
  ASSUME UNCHANGED vars
  PROVE  (FreshInv => FreshInv') /\ UNCHANGED Book!vars
<1>1. UNCHANGED <<file, job, lapsed, overlaps, history>>
  BY DEF vars
<1>2. BookNow' = BookNow
  BY <1>1 DEF BookNow, Table
<1>3. FreshInv => FreshInv'
  BY <1>1, <1>2 DEF FreshInv, Writing
<1> QED BY <1>1, <1>2, <1>3, BookVars

\* As long as no two commands overlap, the outer loop keeps three tables whose records
\* change one at a time, each into a legal next version of the record that is there, and
\* loses nothing but the table a dying process was writing; for any number of processes,
\* tasks and records, with crashes and time passing between any two steps
\* (TaskStore.save, WorktreeStore.save, ReviewStore.save and the commands above them).
THEOREM OuterKeepsBook == Spec /\ [](overlaps = 0) => BookSpec
<1>1. Init => FreshInv /\ Book!Init
  BY FreshInit
<1>2. /\ OuterSound /\ LinkInv /\ AloneInv /\ OuterSound'
      /\ FreshInv /\ (overlaps = 0)' /\ [Next]_vars
      => FreshInv' /\ [Book!Next]_(Book!vars)
  <2>1. CASE UNCHANGED vars
    BY <2>1, FreshStutter
  <2>2. ASSUME OuterSound, OuterSound', LinkInv, AloneInv, FreshInv, Next, overlaps' = 0
        PROVE  FreshInv' /\ [Book!Next]_(Book!vars)
    BY <2>2, FreshStep DEF Noticed
  <2> QED BY <2>1, <2>2
<1> QED BY <1>1, <1>2, AloneAlways, PTL DEF Spec, BookSpec, Book!Spec

=============================================================================
