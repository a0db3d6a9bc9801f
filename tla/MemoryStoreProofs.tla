------------------------- MODULE MemoryStoreProofs -------------------------
(***************************************************************************)
(* Proofs about MemoryStore, for any processes and contents and any number *)
(* of commands and deaths: what the index answers from is in the files, and*)
(* once all is settled the index lists all that the files hold.            *)
(*                                                                         *)
(* Both rest on what the commands under way still have to write.  A row    *)
(* that says that a file holds something is written after the line that    *)
(* holds it, so that the index never runs ahead of the files; and whatever *)
(* line has been written already, the row that goes with it is still to    *)
(* come, from the command that wrote it or from a reindex that has not     *)
(* read the file yet.  At the end, that a disabled skill stays disabled    *)
(* while no two commands overlap.                                          *)
(***************************************************************************)
EXTENDS MemoryStore, NumberLemmas, FiniteSetTheorems, TLAPS

-----------------------------------------------------------------------------
(* What a process does, and the tables of the index. *)

Proposals == [id : Ids, status : Closings \ {"merged"}, item : Items]

SkillProposals == [id : Ids, name : SkillNames, status : Closings]

WriteRecords ==
  [to : {"beliefs", "items"}, row : Items] \union [to : {"skillFile", "skills"}, row : Skills]
    \union [to : {"proposals"}, row : Proposals]
    \union [to : {"skillProposals"}, row : SkillProposals]

ReviewingItem == [at : {"review"}, item : Items, proposal : BOOLEAN]

ReviewingSkill == [at : {"reviewSkill"}, row : SkillProposals, item : Items]

MatchingSkill == [at : {"match"}, row : SkillProposals, item : Items, rejected : BOOLEAN]

WritingRows ==
  [at : {"write"}, writes : Seq(WriteRecords) \ {<<>>}, then : {NoCommand, ReadsSkills}]

CallTyped(c) ==
  \/ c \in {NoCommand, ReadsBeliefs, ReadsSkills}
  \/ c \in ReviewingItem \/ c \in ReviewingSkill \/ c \in MatchingSkill
  \/ c \in WritingRows

\* A table of rows, each at its id.
Tabled(table, Rows) ==
  /\ table = [id \in DOMAIN table |-> table[id]]
  /\ \A id \in DOMAIN table : table[id] \in Rows /\ table[id].id = id

Tables == {"items", "skills", "proposals", "skillProposals", "profile"}

IndexTyped ==
  /\ DOMAIN index = Tables /\ index = [t \in Tables |-> index[t]]
  /\ Tabled(index.items, Items)
  /\ Tabled(index.skills, Skills)
  /\ Tabled(index.proposals, Proposals)
  /\ Tabled(index.skillProposals, SkillProposals)
  /\ index.profile \in Values \union {NoValue}

-----------------------------------------------------------------------------
(* The files, and the order of writes. *)

Pasts == [commands : 0..MaxCommands, crashes : 0..MaxMemoryDeaths,
          raced : BOOLEAN, unsettled : BOOLEAN]

\* A file whose last line has no end holds a line that cannot be read.
FilesTyped ==
  /\ beliefs \in Seq(Items \union {TornRow})
  /\ skills \in Seq(Skills \union {TornRow})
  /\ cut \subseteq Files
  /\ "beliefs" \in cut => ~Parses(beliefs)
  /\ "skillFile" \in cut => ~Parses(skills)

\* A line of the file is written before the row of the table it is for.
Followed(ws, file, table) ==
  \A i \in 1..Len(ws) : ws[i].to = file =>
    \E j \in (i + 1)..Len(ws) : ws[j].to = table /\ ws[j].row.id = ws[i].row.id

\* What a write says that a file holds.
FromBeliefs(w) == w.to = "items" \/ (w.to = "proposals" /\ w.row.status = "accepted")

FromSkills(w) == w.to = "skills"

Before(ws, i, file) == \E j \in 1..(i - 1) : ws[j].to = file /\ ws[j].row.id = ws[i].row.id

BackedByBeliefs(ws, ids) ==
  \A i \in 1..Len(ws) : FromBeliefs(ws[i]) => ws[i].row.id \in ids \/ Before(ws, i, "beliefs")

BackedBySkills(ws, ids) ==
  \A i \in 1..Len(ws) : FromSkills(ws[i]) => ws[i].row.id \in ids \/ Before(ws, i, "skillFile")

\* The writes of a command are in an order that keeps index and files together.
Queue(ws) ==
  /\ Followed(ws, "beliefs", "items") /\ Followed(ws, "skillFile", "skills")
  /\ Parses(beliefs) => BackedByBeliefs(ws, IdsOf(beliefs))
  /\ Parses(skills) => BackedBySkills(ws, IdsOf(skills))

CallSound(c) == CallTyped(c) /\ (c.at = "write" => Queue(c.writes))

\* The index does not run ahead of the files.
Backed ==
  /\ Parses(beliefs) =>
       /\ DOMAIN index.items \subseteq IdsOf(beliefs)
       /\ \A id \in DOMAIN index.proposals :
            index.proposals[id].status = "accepted" => id \in IdsOf(beliefs)
  /\ Parses(skills) => DOMAIN index.skills \subseteq IdsOf(skills)

\* What a process will bring to the index: a row it has still to write, or all
\* that a file holds that it has not read yet.
Pending(c, table, id) ==
  c.at = "write" /\ \E i \in 1..Len(c.writes) : c.writes[i].to = table /\ c.writes[i].row.id = id

WillReadSkills(c) ==
  c.at \in {"readBeliefs", "readSkills"} \/ (c.at = "write" /\ c.then = ReadsSkills)

BringsItem(c, id) == c.at = "readBeliefs" \/ Pending(c, "items", id)

BringsSkill(c, id) == WillReadSkills(c) \/ Pending(c, "skills", id)

\* Nor does it lag behind: what a file holds and the index does not is on its
\* way, and a file that cannot be read is noticed by who reads it.
Complete ==
  /\ Parses(beliefs) \/ \E p \in Processes : calls[p].at = "readBeliefs"
  /\ Parses(skills) \/ \E p \in Processes : WillReadSkills(calls[p])
  /\ Parses(beliefs) => \A id \in IdsOf(beliefs) :
       id \in DOMAIN index.items \/ \E p \in Processes : BringsItem(calls[p], id)
  /\ Parses(skills) => \A id \in IdsOf(skills) :
       id \in DOMAIN index.skills \/ \E p \in Processes : BringsSkill(calls[p], id)

MemoryInv ==
  /\ FilesTyped /\ IndexTyped /\ past \in Pasts
  /\ DOMAIN calls = Processes /\ \A p \in Processes : CallSound(calls[p])
  /\ Backed
  /\ ~past.unsettled => Complete

-----------------------------------------------------------------------------
LEMMA RowIds ==
  /\ \A row \in Items \union Skills \union Proposals \union SkillProposals : row.id \in Ids
  /\ \A row \in Items \union Skills : row # TornRow
  /\ TornRow.id \notin Ids
  BY DEF Items, Skills, Proposals, SkillProposals, TornRow, Ids

\* Whatever a step appends to a file leaves it unreadable when it was.
LEMMA AddedLine ==
  ASSUME NEW Rows, \A row \in Rows : row.id \in Ids, NEW lines \in Seq(Rows \union {TornRow}),
         NEW row \in Rows \union {TornRow}, NEW open \in BOOLEAN, open => ~Parses(lines)
  PROVE  /\ Added(lines, open, row) \in Seq(Rows \union {TornRow})
         /\ Parses(Added(lines, open, row)) =>
              /\ Parses(lines) /\ row \in Rows
              /\ IdsOf(Added(lines, open, row)) = IdsOf(lines) \union {row.id}
         /\ row = TornRow => ~Parses(Added(lines, open, row))
         /\ row # TornRow /\ Parses(lines) => Parses(Added(lines, open, row))
<1>1. CASE open
  <2>1. PICK i \in DOMAIN lines : lines[i] = TornRow
    BY <1>1 DEF Parses
  <2>2. PICK added : added = [lines EXCEPT ![Len(lines)] = TornRow]
    OBVIOUS
  <2>3. added \in Seq(Rows \union {TornRow}) /\ i \in DOMAIN added /\ added[i] = TornRow
    BY <2>1, <2>2
  <2>4. ~Parses(added)
    BY <2>3 DEF Parses
  <2> QED  BY <1>1, <2>2, <2>3, <2>4 DEF Added
<1>2. CASE ~open
  <2>1. PICK added : added = Append(lines, row)
    OBVIOUS
  <2>2. /\ added \in Seq(Rows \union {TornRow}) /\ DOMAIN added = 1..(Len(lines) + 1)
        /\ added[Len(lines) + 1] = row /\ \A i \in 1..Len(lines) : added[i] = lines[i]
    BY <2>1
  <2>3. DOMAIN lines = 1..Len(lines) /\ Len(lines) \in Nat
    OBVIOUS
  <2>4. Parses(added) <=> Parses(lines) /\ row # TornRow
    BY <2>2, <2>3 DEF Parses
  <2>5. row \in Rows => IdsOf(added) = IdsOf(lines) \union {row.id}
    <3> SUFFICES ASSUME row \in Rows PROVE IdsOf(added) = IdsOf(lines) \union {row.id}
      OBVIOUS
    <3>1. row.id # TornRow.id
      BY DEF TornRow, Ids
    <3>2. ASSUME NEW id \in IdsOf(added)  PROVE id \in IdsOf(lines) \union {row.id}
      BY <2>2, <2>3, <3>2 DEF IdsOf
    <3>3. ASSUME NEW id \in IdsOf(lines)  PROVE id \in IdsOf(added)
      BY <2>2, <2>3, <3>3 DEF IdsOf
    <3>4. row.id \in IdsOf(added)
      BY <2>2, <2>3, <3>1 DEF IdsOf
    <3> QED  BY <3>2, <3>3, <3>4
  <2> QED  BY <1>2, <2>1, <2>2, <2>4, <2>5 DEF Added
<1> QED  BY <1>1, <1>2

\* A row put into a table.
LEMMA UpsertTable ==
  ASSUME NEW Rows, NEW table, Tabled(table, Rows), NEW row \in Rows
  PROVE  /\ Tabled(Upsert(table, row), Rows)
         /\ DOMAIN Upsert(table, row) = DOMAIN table \union {row.id}
         /\ Upsert(table, row)[row.id] = row
         /\ \A id \in DOMAIN table : id # row.id => Upsert(table, row)[id] = table[id]
  BY DEF Upsert, Tabled

-----------------------------------------------------------------------------
(* Governance keeps the item it is about. *)

LEMMA ItemChanges ==
  ASSUME NEW item \in Items, NEW clashes \in BOOLEAN, NEW status \in {"active", "conflicted"}
  PROVE  /\ [item EXCEPT !.clashes = clashes] \in Items
         /\ [item EXCEPT !.clashes = clashes].id = item.id
         /\ [item EXCEPT !.status = status] \in Items
         /\ [item EXCEPT !.status = status].id = item.id
         /\ [item EXCEPT !.clashes = clashes, !.status = status] \in Items
         /\ [item EXCEPT !.clashes = clashes, !.status = status].id = item.id
  BY DEF Items

DecidesOn(d, id) ==
  d.action \in {"merge", "reject", "allow"} /\ d.item \in Items /\ d.item.id = id

LEMMA ReviewTyped ==
  ASSUME NEW item \in Items, NEW existing, NEW noted \in BOOLEAN
  PROVE  DecidesOn(Review(item, existing, noted), item.id)
         /\ DOMAIN Review(item, existing, noted) = {"action", "item"}
<1>1. PICK clashes \in BOOLEAN :
        clashes = (item.clashes \/ \E prior \in existing : Clash(prior, item.content))
  OBVIOUS
<1>2. PICK merged \in BOOLEAN : merged = (item.clashes \/ (noted /\ clashes))
  OBVIOUS
<1>3. PICK r : r = Review(item, existing, noted)
  OBVIOUS
<1>4. PICK a, b, c :
        /\ a = [item EXCEPT !.clashes = merged]
        /\ b = [item EXCEPT !.clashes = clashes]
        /\ c = [item EXCEPT !.clashes = TRUE, !.status = "conflicted"]
  OBVIOUS
<1>5. \/ r = [action |-> "merge", item |-> a]
      \/ r = [action |-> "reject", item |-> a]
      \/ r = [action |-> "reject", item |-> b]
      \/ r = [action |-> "merge", item |-> c]
      \/ r = [action |-> "allow", item |-> item]
  <2> DEFINE clash == item.clashes \/ \E prior \in existing : Clash(prior, item.content)
  <2>1. \/ r = [action |-> "merge", item |-> [item EXCEPT !.clashes = @ \/ (noted /\ clash)]]
        \/ r = [action |-> "reject", item |-> [item EXCEPT !.clashes = @ \/ (noted /\ clash)]]
        \/ r = [action |-> "reject", item |-> [item EXCEPT !.clashes = clash]]
        \/ r = [action |-> "merge", item |-> [item EXCEPT !.clashes = TRUE, !.status = "conflicted"]]
        \/ r = [action |-> "allow", item |-> item]
    BY <1>3, Zenon DEF Review
  <2>2. clash = clashes
    BY <1>1
  <2>3. (item.clashes \/ (noted /\ clash)) = merged
    BY <1>2, <2>2
  <2> HIDE DEF clash
  <2>4. [item EXCEPT !.clashes = @ \/ (noted /\ clash)] = a
    BY <1>4, <2>3, Zenon
  <2>5. [item EXCEPT !.clashes = clash] = b
    BY <1>4, <2>2, Zenon
  <2> QED  BY <1>4, <2>1, <2>4, <2>5, Zenon
<1>6. a \in Items /\ a.id = item.id /\ b \in Items /\ b.id = item.id /\ c \in Items /\ c.id = item.id
  BY <1>4, ItemChanges
<1>7. DecidesOn(r, item.id) /\ DOMAIN r = {"action", "item"}
  BY <1>5, <1>6 DEF DecidesOn
<1> QED  BY <1>3, <1>7

LEMMA WriteMemoryTyped ==
  ASSUME NEW item \in Items, NEW existing, NEW noted \in BOOLEAN
  PROVE  DecidesOn(WriteMemory(item, existing, noted), item.id)
<1>1. PICK r : r = Review(item, existing, noted)
  OBVIOUS
<1>2. DecidesOn(r, item.id) /\ DOMAIN r = {"action", "item"}
  BY <1>1, ReviewTyped
<1>3. PICK w : w = WriteMemory(item, existing, noted)
  OBVIOUS
<1>4. \/ w = [action |-> "reject", item |-> item]
      \/ w = [r EXCEPT !.item.status = "conflicted"]
      \/ w = r
  BY <1>1, <1>3 DEF WriteMemory
<1>5. CASE w = [r EXCEPT !.item.status = "conflicted"]
  <2>1. w.action = r.action /\ w.item = [r.item EXCEPT !.status = "conflicted"]
    BY <1>5, <1>2
  <2>2. r.item \in Items /\ r.item.id = item.id /\ r.action \in {"merge", "reject", "allow"}
    BY <1>2 DEF DecidesOn
  <2>3. w.item \in Items /\ w.item.id = item.id
    BY <2>1, <2>2, ItemChanges
  <2> QED  BY <2>1, <2>2, <2>3, <1>3 DEF DecidesOn
<1> QED  BY <1>2, <1>3, <1>4, <1>5 DEF DecidesOn

LEMMA NewItemTyped ==
  ASSUME NEW id \in Ids,
         NEW content \in Contents \union {SkillContent[name] : name \in SkillNames}
                            \union {ProfileContent[value] : value \in Values}
  PROVE  NewItem(id, content) \in Items /\ NewItem(id, content).id = id
  BY DEF NewItem, Items

-----------------------------------------------------------------------------
(* The lists of writes that commands make. *)

LEMMA WriteTyped ==
  /\ \A item \in Items : ToBeliefs(item) \in WriteRecords /\ ToItems(item) \in WriteRecords
  /\ \A skill \in Skills : ToSkillFile(skill) \in WriteRecords /\ ToSkills(skill) \in WriteRecords
  /\ \A row \in Proposals : ToProposals(row) \in WriteRecords
  /\ \A row \in SkillProposals : ToSkillProposals(row) \in WriteRecords
  BY DEF ToBeliefs, ToItems, ToSkillFile, ToSkills, ToProposals, ToSkillProposals, WriteRecords

LEMMA WritingCall ==
  ASSUME NEW ws \in Seq(WriteRecords), NEW then \in {NoCommand, ReadsSkills}
  PROVE  /\ CallTyped(Writing(ws, then))
         /\ Writing(ws, then).at = "write" =>
              ws # <<>> /\ Writing(ws, then).writes = ws /\ Writing(ws, then).then = then
         /\ \A i \in 1..Len(ws) : Pending(Writing(ws, then), ws[i].to, ws[i].row.id)
         /\ then = ReadsSkills => WillReadSkills(Writing(ws, then))
<1>1. CASE ws = <<>>
  <2>1. Writing(ws, then) = then
    BY <1>1 DEF Writing
  <2>2. then.at \in {"idle", "readSkills"} /\ then.at # "write"
    BY DEF NoCommand, ReadsSkills
  <2>3. Len(ws) = 0
    BY <1>1
  <2> QED  BY <2>1, <2>2, <2>3 DEF CallTyped, WillReadSkills, ReadsSkills
<1>2. CASE ws # <<>>
  <2>1. PICK c : c = [at |-> "write", writes |-> ws, then |-> then]
    OBVIOUS
  <2>2. Writing(ws, then) = c
    BY <1>2, <2>1 DEF Writing
  <2>3. c \in WritingRows /\ c.at = "write" /\ c.writes = ws /\ c.then = then
    BY <1>2, <2>1 DEF WritingRows
  <2> QED  BY <1>2, <2>2, <2>3 DEF CallTyped, Pending, WillReadSkills
<1> QED  BY <1>1, <1>2

\* A list of no writes, or of one that says nothing a file has to hold.
LEMMA NoQueue == Queue(<<>>)
  BY DEF Queue, Followed, BackedByBeliefs, BackedBySkills

LEMMA LoneQueue ==
  ASSUME NEW w, w.to \notin Files, ~FromBeliefs(w), ~FromSkills(w)
  PROVE  Queue(<<w>>)
  BY DEF Queue, Followed, BackedByBeliefs, BackedBySkills, Files

LEMMA RememberedQueue ==
  ASSUME NEW item \in Items
  PROVE  /\ Queue(Remembered(item))
         /\ \A row \in Proposals : row.id = item.id =>
              Queue(Remembered(item) \o <<ToProposals(row)>>)
<1>1. PICK a, b : a = ToBeliefs(item) /\ b = ToItems(item)
  OBVIOUS
<1>2. a.to = "beliefs" /\ a.row = item /\ b.to = "items" /\ b.row = item
  BY <1>1 DEF ToBeliefs, ToItems
<1>3. Remembered(item) = <<a, b>>
  BY <1>1 DEF Remembered
<1>4. Queue(<<a, b>>)
  BY <1>2 DEF Queue, Followed, BackedByBeliefs, BackedBySkills, FromBeliefs, FromSkills, Before
<1>5. ASSUME NEW row \in Proposals, row.id = item.id
      PROVE  Queue(Remembered(item) \o <<ToProposals(row)>>)
  <2>1. PICK c : c = ToProposals(row)
    OBVIOUS
  <2>2. c.to = "proposals" /\ c.row = row
    BY <2>1 DEF ToProposals
  <2>3. PICK ws : ws = <<a, b>> \o <<c>>
    OBVIOUS
  <2>4. Len(ws) = 3 /\ ws[1] = a /\ ws[2] = b /\ ws[3] = c
    BY <2>3
  <2>5. Queue(ws)
    BY <1>2, <2>2, <1>5, <2>4
       DEF Queue, Followed, BackedByBeliefs, BackedBySkills, FromBeliefs, FromSkills, Before
  <2> QED  BY <1>3, <2>1, <2>3, <2>5
<1> QED  BY <1>3, <1>4, <1>5

LEMMA SkillQueue ==
  ASSUME NEW skill \in Skills
  PROVE  /\ Queue(<<ToSkillFile(skill), ToSkills(skill)>>)
         /\ \A row : Queue(<<ToSkillFile(skill), ToSkills(skill)>> \o <<ToSkillProposals(row)>>)
         /\ \A row : \A item \in Items :
              Queue(Remembered(item) \o <<ToSkillFile(skill), ToSkills(skill)>>
                      \o <<ToSkillProposals(row)>>)
<1>1. PICK a, b : a = ToSkillFile(skill) /\ b = ToSkills(skill)
  OBVIOUS
<1>2. a.to = "skillFile" /\ a.row = skill /\ b.to = "skills" /\ b.row = skill
  BY <1>1 DEF ToSkillFile, ToSkills
<1>3. Queue(<<a, b>>)
  BY <1>2 DEF Queue, Followed, BackedByBeliefs, BackedBySkills, FromBeliefs, FromSkills, Before
<1>4. ASSUME NEW row  PROVE Queue(<<a, b>> \o <<ToSkillProposals(row)>>)
  <2>1. PICK c : c = ToSkillProposals(row)
    OBVIOUS
  <2>2. c.to = "skillProposals"
    BY <2>1 DEF ToSkillProposals
  <2>3. PICK ws : ws = <<a, b>> \o <<c>>
    OBVIOUS
  <2>4. Len(ws) = 3 /\ ws[1] = a /\ ws[2] = b /\ ws[3] = c
    BY <2>3
  <2>5. Queue(ws)
    BY <1>2, <2>2, <2>4
       DEF Queue, Followed, BackedByBeliefs, BackedBySkills, FromBeliefs, FromSkills, Before
  <2> QED  BY <2>1, <2>3, <2>5
<1>5. ASSUME NEW row, NEW item \in Items
      PROVE  Queue(Remembered(item) \o <<a, b>> \o <<ToSkillProposals(row)>>)
  <2>1. PICK c, x, y : c = ToSkillProposals(row) /\ x = ToBeliefs(item) /\ y = ToItems(item)
    OBVIOUS
  <2>2. /\ c.to = "skillProposals" /\ x.to = "beliefs" /\ x.row = item
        /\ y.to = "items" /\ y.row = item
    BY <2>1 DEF ToSkillProposals, ToBeliefs, ToItems
  <2>3. PICK ws : ws = <<x, y>> \o <<a, b>> \o <<c>>
    OBVIOUS
  <2>4. Len(ws) = 5 /\ ws[1] = x /\ ws[2] = y /\ ws[3] = a /\ ws[4] = b /\ ws[5] = c
    BY <2>3
  <2>5. Queue(ws)
    BY <1>2, <2>2, <2>4
       DEF Queue, Followed, BackedByBeliefs, BackedBySkills, FromBeliefs, FromSkills, Before
  <2>6. Remembered(item) = <<x, y>>
    BY <2>1 DEF Remembered
  <2> QED  BY <2>1, <2>3, <2>5, <2>6
<1> QED  BY <1>1, <1>3, <1>4, <1>5

\* What is left of a list when its first write is done.
Advanced(ws, rest, w) ==
  /\ rest \in Seq(WriteRecords) /\ w \in WriteRecords
  /\ \A file, table : Followed(ws, file, table) =>
       /\ Followed(rest, file, table)
       /\ w.to = file => \E j \in 1..Len(rest) : rest[j].to = table /\ rest[j].row.id = w.row.id
  /\ \A ids : BackedByBeliefs(ws, ids) =>
       /\ FromBeliefs(w) => w.row.id \in ids
       /\ w.to # "beliefs" => BackedByBeliefs(rest, ids)
       /\ BackedByBeliefs(rest, ids \union {w.row.id})
  /\ \A ids : BackedBySkills(ws, ids) =>
       /\ FromSkills(w) => w.row.id \in ids
       /\ w.to # "skillFile" => BackedBySkills(rest, ids)
       /\ BackedBySkills(rest, ids \union {w.row.id})
  /\ \A i \in 1..Len(ws) : ws[i] = w \/ \E j \in 1..Len(rest) : rest[j] = ws[i]

LEMMA RestOfQueue ==
  ASSUME NEW ws \in Seq(WriteRecords), ws # <<>>
  PROVE  Advanced(ws, Tail(ws), Head(ws))
<1>1. PICK rest, w : rest = Tail(ws) /\ w = Head(ws)
  OBVIOUS
<1>2. /\ rest \in Seq(WriteRecords) /\ w \in WriteRecords /\ w = ws[1]
      /\ Len(rest) = Len(ws) - 1 /\ Len(ws) \in Nat /\ Len(ws) >= 1
      /\ \A i \in 1..Len(rest) : rest[i] = ws[i + 1]
  BY <1>1
<1>3. \A i \in 2..Len(ws) : i - 1 \in 1..Len(rest) /\ rest[i - 1] = ws[i]
  BY <1>2
<1>4. ASSUME NEW file, NEW table, Followed(ws, file, table)
      PROVE  /\ Followed(rest, file, table)
             /\ w.to = file => \E j \in 1..Len(rest) : rest[j].to = table /\ rest[j].row.id = w.row.id
  <2>1. ASSUME NEW i \in 1..Len(rest), rest[i].to = file
        PROVE  \E j \in (i + 1)..Len(rest) : rest[j].to = table /\ rest[j].row.id = rest[i].row.id
    <3>1. i + 1 \in 1..Len(ws) /\ ws[i + 1] = rest[i]
      BY <1>2
    <3>2. PICK j \in (i + 2)..Len(ws) : ws[j].to = table /\ ws[j].row.id = rest[i].row.id
      BY <3>1, <2>1, <1>4 DEF Followed
    <3>3. j - 1 \in (i + 1)..Len(rest) /\ rest[j - 1] = ws[j]
      BY <3>2, <1>2, <1>3
    <3> QED  BY <3>2, <3>3
  <2>2. ASSUME w.to = file
        PROVE  \E j \in 1..Len(rest) : rest[j].to = table /\ rest[j].row.id = w.row.id
    <3>1. PICK j \in 2..Len(ws) : ws[j].to = table /\ ws[j].row.id = w.row.id
      BY <1>2, <2>2, <1>4 DEF Followed
    <3> QED  BY <3>1, <1>3
  <2> QED  BY <2>1, <2>2 DEF Followed
<1>5. ASSUME NEW ids, NEW file, NEW i \in 1..Len(rest),
             ws[i + 1].row.id \in ids \/ Before(ws, i + 1, file)
      PROVE  /\ rest[i].row.id \in ids \union {w.row.id} \/ Before(rest, i, file)
             /\ w.to # file => rest[i].row.id \in ids \/ Before(rest, i, file)
  <2>1. rest[i] = ws[i + 1]
    BY <1>2
  <2>2. CASE Before(ws, i + 1, file)
    <3>1. PICK j \in 1..i : ws[j].to = file /\ ws[j].row.id = ws[i + 1].row.id
      BY <2>2 DEF Before
    <3>2. CASE j = 1
      BY <3>1, <3>2, <2>1, <1>2
    <3>3. CASE j # 1
      <4>1. j - 1 \in 1..(i - 1) /\ rest[j - 1] = ws[j]
        BY <3>1, <3>3, <1>2, <1>3
      <4> QED  BY <4>1, <3>1, <2>1 DEF Before
    <3> QED  BY <3>2, <3>3
  <2> QED  BY <1>5, <2>1, <2>2
<1>6. ASSUME NEW ids, BackedByBeliefs(ws, ids)
      PROVE  /\ FromBeliefs(w) => w.row.id \in ids
             /\ w.to # "beliefs" => BackedByBeliefs(rest, ids)
             /\ BackedByBeliefs(rest, ids \union {w.row.id})
  <2>1. FromBeliefs(w) => w.row.id \in ids
    BY <1>2, <1>6 DEF BackedByBeliefs, Before
  <2>2. \A i \in 1..Len(rest) : FromBeliefs(rest[i]) =>
          ws[i + 1].row.id \in ids \/ Before(ws, i + 1, "beliefs")
    BY <1>2, <1>6 DEF BackedByBeliefs
  <2> QED  BY <2>1, <2>2, <1>5 DEF BackedByBeliefs
<1>7. ASSUME NEW ids, BackedBySkills(ws, ids)
      PROVE  /\ FromSkills(w) => w.row.id \in ids
             /\ w.to # "skillFile" => BackedBySkills(rest, ids)
             /\ BackedBySkills(rest, ids \union {w.row.id})
  <2>1. FromSkills(w) => w.row.id \in ids
    BY <1>2, <1>7 DEF BackedBySkills, Before
  <2>2. \A i \in 1..Len(rest) : FromSkills(rest[i]) =>
          ws[i + 1].row.id \in ids \/ Before(ws, i + 1, "skillFile")
    BY <1>2, <1>7 DEF BackedBySkills
  <2> QED  BY <2>1, <2>2, <1>5 DEF BackedBySkills
<1>8. \A i \in 1..Len(ws) : ws[i] = w \/ \E j \in 1..Len(rest) : rest[j] = ws[i]
  <2> TAKE i \in 1..Len(ws)
  <2>1. i = 1 \/ i \in 2..Len(ws)
    BY <1>2
  <2> QED  BY <2>1, <1>2, <1>3
<1>9. Advanced(ws, rest, w)
  BY <1>2, <1>4, <1>6, <1>7, <1>8 DEF Advanced
<1> QED  BY <1>1, <1>9

-----------------------------------------------------------------------------
(* Steps that do not touch the files. *)

\* A process turns from what reads and writes nothing to c.
LEMMA CallStep ==
  ASSUME MemoryInv, NEW p \in Processes, NEW c, CallSound(c), calls' = [calls EXCEPT ![p] = c],
         UNCHANGED <<beliefs, skills, cut>>,
         IndexTyped', index'.items = index.items, index'.skills = index.skills,
         \A id \in DOMAIN index'.proposals : index'.proposals[id].status = "accepted" =>
           id \in DOMAIN index.proposals /\ index.proposals[id].status = "accepted",
         past' \in Pasts, ~past'.unsettled => ~past.unsettled,
         calls[p].at \notin {"readBeliefs", "readSkills", "write"}
  PROVE  MemoryInv'
<1>1. /\ DOMAIN calls' = Processes /\ calls'[p] = c
      /\ \A q \in Processes : q # p => calls'[q] = calls[q]
  BY DEF MemoryInv
<1>2. FilesTyped'
  BY DEF MemoryInv, FilesTyped
<1>3. CallSound(c)'
  BY DEF CallSound, Queue
<1>4. \A q \in Processes : CallSound(calls[q])'
  <2> TAKE q \in Processes
  <2>1. CASE q = p
    BY <2>1, <1>1, <1>3
  <2>2. CASE q # p
    <3>1. CallSound(calls[q])
      BY DEF MemoryInv
    <3> QED  BY <3>1, <2>2, <1>1 DEF CallSound, Queue
  <2> QED  BY <2>1, <2>2
<1>5. Backed'
  BY DEF MemoryInv, Backed
<1>6. ASSUME ~past'.unsettled  PROVE Complete'
  <2>1. Complete
    BY <1>6 DEF MemoryInv
  <2>2. \A q \in Processes :
          /\ calls[q].at = "readBeliefs" => calls'[q].at = "readBeliefs"
          /\ WillReadSkills(calls[q]) => WillReadSkills(calls[q])'
          /\ \A id : BringsItem(calls[q], id) => BringsItem(calls[q], id)'
          /\ \A id : BringsSkill(calls[q], id) => BringsSkill(calls[q], id)'
    <3> TAKE q \in Processes
    <3>1. CASE q = p
      BY <3>1 DEF WillReadSkills, BringsItem, BringsSkill, Pending
    <3>2. CASE q # p
      BY <3>2, <1>1 DEF WillReadSkills, BringsItem, BringsSkill, Pending
    <3> QED  BY <3>1, <3>2
  <2>3. Parses(beliefs)' = Parses(beliefs) /\ Parses(skills)' = Parses(skills)
          /\ IdsOf(beliefs)' = IdsOf(beliefs) /\ IdsOf(skills)' = IdsOf(skills)
    OBVIOUS
  <2> QED  BY <2>1, <2>2, <2>3 DEF Complete
<1> QED  BY <1>1, <1>2, <1>4, <1>5, <1>6 DEF MemoryInv

\* What a start makes of the past.
LEMMA StartsPast ==
  ASSUME MemoryInv, NEW p \in Processes, NEW c, Starts(p, c)
  PROVE  /\ past' \in Pasts /\ Fresh \in Ids
         /\ calls[p] = NoCommand /\ calls' = [calls EXCEPT ![p] = c]
         /\ c # ReadsBeliefs => (~past'.unsettled => ~past.unsettled)
<1>1. past \in Pasts /\ past.commands < MaxCommands
  BY DEF MemoryInv, Starts
<1>2. PICK o \in BOOLEAN, u \in BOOLEAN :
        /\ o = (past.raced \/ \E other \in Processes : calls[other] # NoCommand)
        /\ u = (past.unsettled /\ c # ReadsBeliefs)
  OBVIOUS
<1>3. past' = [past EXCEPT !.commands = @ + 1, !.raced = o, !.unsettled = u]
  BY <1>2 DEF Starts
<1>4. past.commands + 1 \in 1..MaxCommands
  BY <1>1, MemoryAssumptions DEF Pasts
<1>5. PICK n \in 0..MaxCommands : n = past.commands + 1
  BY <1>4, MemoryAssumptions
<1>6. past' = [past EXCEPT !.commands = n, !.raced = o, !.unsettled = u]
  BY <1>3, <1>5
<1>7. past' \in Pasts /\ past'.unsettled = u
  <2>1. past \in Pasts
    BY <1>1
  <2>2. past'.unsettled = u
    BY <2>1, <1>6 DEF Pasts
  <2>3. past' \in Pasts
    BY <2>1, <1>6 DEF Pasts
  <2> QED  BY <2>2, <2>3
<1>8. c # ReadsBeliefs => (~past'.unsettled => ~past.unsettled)
  BY <1>2, <1>7
<1>9. Fresh \in Ids
  BY <1>4 DEF Fresh, Ids
<1> QED  BY <1>7, <1>8, <1>9 DEF Starts, Goes

LEMMA IdleSound == CallSound(NoCommand) /\ CallSound(ReadsBeliefs) /\ CallSound(ReadsSkills)
  BY DEF CallSound, CallTyped, NoCommand, ReadsBeliefs, ReadsSkills

\* A process that goes on to a list of writes.
LEMMA WritingSound ==
  ASSUME NEW ws \in Seq(WriteRecords), NEW then \in {NoCommand, ReadsSkills}, Queue(ws)
  PROVE  CallSound(Writing(ws, then))
<1>1. PICK c : c = Writing(ws, then)
  OBVIOUS
<1>2. CallTyped(c) /\ (c.at = "write" => c.writes = ws)
  BY <1>1, WritingCall
<1> QED  BY <1>1, <1>2 DEF CallSound

\* The proposals get another row, which says nothing the beliefs have to hold.
LEMMA ProposalStep ==
  ASSUME IndexTyped, NEW row \in Proposals, row.status # "accepted",
         index' = [index EXCEPT !.proposals = Upsert(@, row)]
  PROVE  /\ IndexTyped' /\ index'.items = index.items /\ index'.skills = index.skills
         /\ \A id \in DOMAIN index'.proposals : index'.proposals[id].status = "accepted" =>
              id \in DOMAIN index.proposals /\ index.proposals[id].status = "accepted"
<1>1. PICK table : table = Upsert(index.proposals, row)
  OBVIOUS
<1>2. /\ Tabled(table, Proposals) /\ DOMAIN table = DOMAIN index.proposals \union {row.id}
      /\ table[row.id] = row
      /\ \A id \in DOMAIN index.proposals : id # row.id => table[id] = index.proposals[id]
  <2>1. Tabled(index.proposals, Proposals)
    BY DEF IndexTyped
  <2> QED  BY <1>1, <2>1, UpsertTable
<1>3. index' = [index EXCEPT !.proposals = table]
  BY <1>1
<1>4. /\ DOMAIN index' = Tables /\ index' = [t \in Tables |-> index'[t]]
      /\ index'.proposals = table /\ index'.items = index.items /\ index'.skills = index.skills
      /\ index'.skillProposals = index.skillProposals /\ index'.profile = index.profile
  BY <1>3 DEF IndexTyped, Tables
<1> QED  BY <1>2, <1>4 DEF IndexTyped

LEMMA ProposeInv ==
  ASSUME MemoryInv, NEW p \in Processes, NEW content \in Contents, Propose(p, content)
  PROVE  MemoryInv'
<1>1. Starts(p, NoCommand) /\ NoCommand # ReadsBeliefs
  BY DEF Propose, NoCommand, ReadsBeliefs
<1>2. PICK row : row = [id |-> Fresh, status |-> "pending", item |-> NewItem(Fresh, content)]
  OBVIOUS
<1>3. Fresh \in Ids
  BY <1>1, StartsPast
<1>4. row \in Proposals /\ row.status # "accepted"
  BY <1>2, <1>3, NewItemTyped DEF Proposals, Closings
<1>5. index' = [index EXCEPT !.proposals = Upsert(@, row)]
  BY <1>2 DEF Propose
<1>6. calls[p].at \notin {"readBeliefs", "readSkills", "write"}
  BY <1>1, StartsPast DEF NoCommand
<1>7. /\ IndexTyped' /\ index'.items = index.items /\ index'.skills = index.skills
      /\ \A id \in DOMAIN index'.proposals : index'.proposals[id].status = "accepted" =>
           id \in DOMAIN index.proposals /\ index.proposals[id].status = "accepted"
  BY <1>4, <1>5, ProposalStep DEF MemoryInv
<1>8. /\ past' \in Pasts /\ (~past'.unsettled => ~past.unsettled)
      /\ calls' = [calls EXCEPT ![p] = NoCommand]
  BY <1>1, StartsPast
<1>9. UNCHANGED <<beliefs, skills, cut>>
  BY DEF Propose
<1> QED  BY <1>6, <1>7, <1>8, <1>9, IdleSound, CallStep

LEMMA SameIndex ==
  ASSUME MemoryInv, index' = index
  PROVE  /\ IndexTyped' /\ index'.items = index.items /\ index'.skills = index.skills
         /\ \A id \in DOMAIN index'.proposals : index'.proposals[id].status = "accepted" =>
              id \in DOMAIN index.proposals /\ index.proposals[id].status = "accepted"
  BY DEF MemoryInv, IndexTyped

LEMMA DecideProposalInv ==
  ASSUME MemoryInv, NEW p \in Processes, NEW id \in Ids, NEW decision \in {"accepted", "rejected"},
         DecideProposal(p, id, decision)
  PROVE  MemoryInv'
<1>1. PICK row : row = index.proposals[id]
  OBVIOUS
<1>2. row \in Proposals
  BY <1>1 DEF DecideProposal, MemoryInv, IndexTyped, Tabled
<1>3. PICK c : /\ Starts(p, c)
               /\ c = IF decision = "accepted"
                      THEN [at |-> "review", item |-> row.item, proposal |-> TRUE]
                      ELSE Writing(<<ToProposals([row EXCEPT !.status = "rejected"])>>, NoCommand)
  BY <1>1 DEF DecideProposal
<1>4. CallSound(c) /\ c # ReadsBeliefs
  <2>1. CASE decision = "accepted"
    <3>1. c = [at |-> "review", item |-> row.item, proposal |-> TRUE]
      BY <1>3, <2>1
    <3>2. c \in ReviewingItem /\ c.at = "review"
      BY <1>2, <3>1 DEF ReviewingItem, Proposals
    <3> QED  BY <3>2 DEF CallSound, CallTyped, ReadsBeliefs
  <2>2. CASE decision # "accepted"
    <3>1. PICK w : w = ToProposals([row EXCEPT !.status = "rejected"])
      OBVIOUS
    <3>2. [row EXCEPT !.status = "rejected"] \in Proposals
      BY <1>2 DEF Proposals, Closings
    <3>3. w \in WriteRecords /\ w.to = "proposals" /\ w.row.status = "rejected"
      BY <1>2, <3>1, <3>2, WriteTyped DEF ToProposals, Proposals
    <3>4. Queue(<<w>>)
      BY <3>3, LoneQueue DEF Files, FromBeliefs, FromSkills
    <3>5. c = Writing(<<w>>, NoCommand)
      BY <1>3, <2>2, <3>1
    <3>6. c = [at |-> "write", writes |-> <<w>>, then |-> NoCommand]
      BY <3>5 DEF Writing
    <3>7. c # ReadsBeliefs
      BY <3>6 DEF ReadsBeliefs
    <3>8. <<w>> \in Seq(WriteRecords)
      BY <3>3
    <3> QED  BY <3>4, <3>5, <3>7, <3>8, WritingSound
  <2> QED  BY <2>1, <2>2
<1>5. /\ past' \in Pasts /\ (~past'.unsettled => ~past.unsettled)
      /\ calls' = [calls EXCEPT ![p] = c] /\ calls[p].at \notin {"readBeliefs", "readSkills", "write"}
  BY <1>3, <1>4, StartsPast DEF NoCommand
<1>6. UNCHANGED <<beliefs, skills, cut, index>>
  BY DEF DecideProposal
<1>7. /\ IndexTyped' /\ index'.items = index.items /\ index'.skills = index.skills
      /\ \A i \in DOMAIN index'.proposals : index'.proposals[i].status = "accepted" =>
           i \in DOMAIN index.proposals /\ index.proposals[i].status = "accepted"
  BY <1>6, SameIndex
<1> QED  BY <1>4, <1>5, <1>6, <1>7, CallStep

LEMMA SetProfileInv ==
  ASSUME MemoryInv, NEW p \in Processes, NEW value \in Values, SetProfile(p, value)
  PROVE  MemoryInv'
<1>1. PICK c : /\ Starts(p, c)
               /\ c = [at |-> "review", item |-> NewItem(Fresh, ProfileContent[value]),
                       proposal |-> FALSE]
  BY DEF SetProfile
<1>2. NewItem(Fresh, ProfileContent[value]) \in Items
  BY <1>1, StartsPast, NewItemTyped
<1>3. c \in ReviewingItem /\ c.at = "review"
  BY <1>1, <1>2 DEF ReviewingItem
<1>4. CallSound(c) /\ c # ReadsBeliefs
  BY <1>3 DEF CallSound, CallTyped, ReadsBeliefs
<1>5. /\ past' \in Pasts /\ (~past'.unsettled => ~past.unsettled)
      /\ calls' = [calls EXCEPT ![p] = c] /\ calls[p].at \notin {"readBeliefs", "readSkills", "write"}
  BY <1>1, <1>4, StartsPast DEF NoCommand
<1>6. UNCHANGED <<beliefs, skills, cut>> /\ index' = [index EXCEPT !.profile = value]
  BY DEF SetProfile
<1>7. IndexTyped
  BY DEF MemoryInv
<1>8. /\ DOMAIN index' = Tables /\ index' = [t \in Tables |-> index'[t]]
      /\ index'.proposals = index.proposals /\ index'.items = index.items
      /\ index'.skills = index.skills /\ index'.skillProposals = index.skillProposals
      /\ index'.profile = value
  BY <1>6, <1>7 DEF IndexTyped, Tables
<1>9. IndexTyped'
  BY <1>7, <1>8 DEF IndexTyped
<1> QED  BY <1>4, <1>5, <1>6, <1>8, <1>9, CallStep

LEMMA ReviewsInv ==
  ASSUME MemoryInv, NEW p \in Processes, NEW noted \in BOOLEAN, Reviews(p, noted)
  PROVE  MemoryInv'
<1>1. PICK call : call = calls[p]
  OBVIOUS
<1>2. call.at = "review" /\ call \in ReviewingItem
  BY <1>1 DEF Reviews, MemoryInv, CallSound, CallTyped, NoCommand, ReadsBeliefs, ReadsSkills,
     ReviewingSkill, MatchingSkill, WritingRows
<1>3. PICK written : written = WriteMemory(call.item, Active(index.items), noted)
  OBVIOUS
<1>4. DecidesOn(written, call.item.id)
  BY <1>2, <1>3, WriteMemoryTyped DEF ReviewingItem
<1>5. PICK kept, closed, last :
        /\ kept = IF written.action = "reject" THEN <<>> ELSE Remembered(written.item)
        /\ closed = [id |-> call.item.id, item |-> written.item,
                     status |-> IF written.action = "reject" THEN "rejected" ELSE "accepted"]
        /\ last = IF call.proposal THEN <<ToProposals(closed)>> ELSE <<>>
  OBVIOUS
<1>6. calls' = [calls EXCEPT ![p] = Writing(kept \o last, NoCommand)]
  BY <1>1, <1>3, <1>5 DEF Reviews, Goes
<1>7. call.item \in Items /\ written.item \in Items /\ written.item.id = call.item.id
  BY <1>2, <1>4 DEF ReviewingItem, DecidesOn
<1>8. closed \in Proposals /\ closed.id = written.item.id
        /\ (written.action = "reject" => closed.status = "rejected")
  BY <1>5, <1>7 DEF Proposals, Closings, Items
<1>9. ToProposals(closed) \in WriteRecords /\ Remembered(written.item) \in Seq(WriteRecords)
  BY <1>7, <1>8, WriteTyped DEF Remembered
<1>10. kept \o last \in Seq(WriteRecords) /\ Queue(kept \o last)
  <2>1. kept \in Seq(WriteRecords) /\ last \in Seq(WriteRecords)
    BY <1>5, <1>9
  <2>2. CASE last = <<>>
    <3>1. kept \o last = kept
      BY <2>1, <2>2
    <3>2. Queue(kept)
      BY <1>5, <1>7, NoQueue, RememberedQueue
    <3> QED  BY <2>1, <3>1, <3>2
  <2>3. CASE last = <<ToProposals(closed)>>
    <3>1. CASE written.action = "reject"
      <4>1. kept \o last = last
        BY <1>5, <2>1, <3>1
      <4>2. PICK w : w = ToProposals(closed)
        OBVIOUS
      <4>3. w.to = "proposals" /\ w.row.status = "rejected"
        BY <1>8, <3>1, <4>2 DEF ToProposals
      <4>4. Queue(<<w>>)
        BY <4>3, LoneQueue DEF Files, FromBeliefs, FromSkills
      <4> QED  BY <2>1, <2>3, <4>1, <4>2, <4>4
    <3>2. CASE written.action # "reject"
      <4>1. Queue(Remembered(written.item) \o <<ToProposals(closed)>>)
        BY <1>7, <1>8, RememberedQueue
      <4> QED  BY <2>1, <2>3, <3>2, <4>1, <1>5
    <3> QED  BY <3>1, <3>2
  <2> QED  BY <1>5, <2>2, <2>3
<1>11. CallSound(Writing(kept \o last, NoCommand))
  BY <1>10, WritingSound
<1>12. UNCHANGED <<beliefs, skills, cut, index, past>>
  BY DEF Reviews
<1>13. calls[p].at \notin {"readBeliefs", "readSkills", "write"} /\ past' \in Pasts
         /\ past'.unsettled = past.unsettled
  BY <1>1, <1>2, <1>12 DEF MemoryInv
<1>14. PICK c : c = Writing(kept \o last, NoCommand)
  OBVIOUS
<1>15. /\ IndexTyped' /\ index'.items = index.items /\ index'.skills = index.skills
       /\ \A i \in DOMAIN index'.proposals : index'.proposals[i].status = "accepted" =>
            i \in DOMAIN index.proposals /\ index.proposals[i].status = "accepted"
  BY <1>12, SameIndex
<1> QED  BY <1>6, <1>11, <1>12, <1>13, <1>14, <1>15, CallStep

-----------------------------------------------------------------------------
(* The lines of an id. *)

\* An id that is there has a last line.
LEMMA LastLine ==
  ASSUME NEW Rows, NEW lines \in Seq(Rows \union {TornRow}), NEW id \in IdsOf(lines)
  PROVE  \E i \in DOMAIN lines : lines[i].id = id /\ \A j \in DOMAIN lines : lines[j].id = id => j <= i
<1> DEFINE Back == {k \in Nat : \E i \in DOMAIN lines : lines[i].id = id /\ k = Len(lines) - i}
<1>1. Len(lines) \in Nat /\ DOMAIN lines = 1..Len(lines)
  OBVIOUS
<1>2. PICK i \in DOMAIN lines : lines[i].id = id
  BY DEF IdsOf
<1>3. Len(lines) - i \in Back
  BY <1>1, <1>2
<1>4. PICK k \in Back : \A m \in Back : k <= m
  BY <1>3, Least
<1>5. PICK last \in DOMAIN lines : lines[last].id = id /\ k = Len(lines) - last
  BY <1>4
<1>6. \A j \in DOMAIN lines : lines[j].id = id => j <= last
  <2> SUFFICES ASSUME NEW j \in DOMAIN lines, lines[j].id = id PROVE j <= last
    OBVIOUS
  <2>1. Len(lines) - j \in Back
    BY <1>1
  <2>2. k <= Len(lines) - j
    BY <1>4, <2>1
  <2> QED  BY <1>1, <1>5, <2>2
<1> QED  BY <1>5, <1>6

\* The latest line of an id that is there is a line of that id.
LEMMA LatestLine ==
  ASSUME NEW Rows, NEW lines \in Seq(Rows \union {TornRow}), NEW id \in IdsOf(lines)
  PROVE  Latest(lines, id) \in Rows /\ Latest(lines, id).id = id
<1>1. PICK at : at = CHOOSE j \in DOMAIN lines :
                       lines[j].id = id /\ \A m \in DOMAIN lines : lines[m].id = id => m <= j
  OBVIOUS
<1>2. at \in DOMAIN lines /\ lines[at].id = id
  BY <1>1, LastLine
<1>3. Latest(lines, id) = lines[at]
  BY <1>1 DEF Latest
<1>4. lines[at] \in Rows \union {TornRow} /\ id # TornRow.id
  BY <1>2 DEF IdsOf
<1> QED  BY <1>2, <1>3, <1>4

\* The first line of an id that is there is among the first lines.
LEMMA FirstLine ==
  ASSUME NEW Rows, NEW lines \in Seq(Rows \union {TornRow}), NEW id \in IdsOf(lines)
  PROVE  \E i \in FirstLines(lines) : lines[i].id = id
<1> DEFINE Mine == {i \in Nat : i \in DOMAIN lines /\ lines[i].id = id}
<1>1. Len(lines) \in Nat /\ DOMAIN lines = 1..Len(lines)
  OBVIOUS
<1>2. Mine # {}
  BY <1>1 DEF IdsOf
<1>3. PICK i \in Mine : \A j \in Mine : i <= j
  BY <1>2, Least
<1>4. ASSUME NEW j \in 1..(i - 1)  PROVE lines[j].id # id
  <2>1. j \in Nat /\ j \in DOMAIN lines /\ ~(i <= j)
    BY <1>1, <1>3
  <2> QED  BY <2>1, <1>3
<1> QED  BY <1>3, <1>4 DEF FirstLines

\* An ascending sequence of a finite set of numbers names each of them.
LEMMA AscendingOnto ==
  ASSUME NEW S, S \subseteq Nat, IsFiniteSet(S), NEW part \in Ascending(S)
  PROVE  /\ DOMAIN part = 1..Cardinality(S) /\ Cardinality(S) \in Nat
         /\ \A n \in DOMAIN part : part[n] \in S
         /\ \A i \in S : \E n \in DOMAIN part : part[n] = i
<1> DEFINE n == Cardinality(S)
           Listed == {part[m] : m \in 1..n}
<1>1. n \in Nat /\ part \in [1..n -> S]
  BY FS_CardinalityType DEF Ascending
<1>2. \A l, m \in 1..n : l < m => part[l] < part[m]
  BY <1>1 DEF Ascending
<1>3. \A l, m \in 1..n : part[l] = part[m] => l = m
  <2> SUFFICES ASSUME NEW l \in 1..n, NEW m \in 1..n, part[l] = part[m] PROVE l = m
    OBVIOUS
  <2>1. part[l] \in S /\ part[m] \in S
    BY <1>1
  <2>2. part[l] \in Nat /\ part[m] \in Nat
    BY <2>1
  <2>3. ~(l < m) /\ ~(m < l)
    BY <1>2, <2>2
  <2> HIDE DEF n
  <2>4. l \in Int /\ m \in Int
    BY <1>1
  <2> QED  BY <2>3, <2>4
<1>4. part \in Bijection(1..n, Listed)
  <2>1. part \in [1..n -> Listed]
    BY <1>1
  <2> QED  BY <1>3, <2>1 DEF Bijection, Injection, Surjection, IsInjective
<1>5. IsFiniteSet(1..n) /\ Cardinality(1..n) = n
  BY <1>1, FS_Interval
<1>6. Listed \subseteq S
  BY <1>1
<1>7. IsFiniteSet(Listed) /\ Cardinality(Listed) = n
  <2>1. ExistsBijection(1..n, Listed)
    BY <1>4 DEF ExistsBijection
  <2> HIDE DEF n, Listed
  <2> QED  BY <1>5, <2>1, FS_Bijection
<1>8. Listed = S
  BY <1>6, <1>7, FS_Subset
<1> QED  BY <1>1, <1>8

-----------------------------------------------------------------------------
(* The commands about skills. *)

LEMMA ProposeSkillInv ==
  ASSUME MemoryInv, NEW p \in Processes, NEW name \in SkillNames, ProposeSkill(p, name)
  PROVE  MemoryInv'
<1>1. Starts(p, NoCommand) /\ NoCommand # ReadsBeliefs
  BY DEF ProposeSkill, NoCommand, ReadsBeliefs
<1>2. PICK row : row = [id |-> Fresh, name |-> name, status |-> "pending"]
  OBVIOUS
<1>3. Fresh \in Ids
  BY <1>1, StartsPast
<1>4. row \in SkillProposals
  BY <1>2, <1>3 DEF SkillProposals, Closings
<1>5. PICK table : table = Upsert(index.skillProposals, row)
  OBVIOUS
<1>6. IndexTyped
  BY DEF MemoryInv
<1>7. Tabled(table, SkillProposals)
  <2>1. Tabled(index.skillProposals, SkillProposals)
    BY <1>6 DEF IndexTyped
  <2> QED  BY <1>4, <1>5, <2>1, UpsertTable
<1>8. index' = [index EXCEPT !.skillProposals = table]
  BY <1>2, <1>5 DEF ProposeSkill
<1>9. /\ DOMAIN index' = Tables /\ index' = [t \in Tables |-> index'[t]]
      /\ index'.proposals = index.proposals /\ index'.items = index.items
      /\ index'.skills = index.skills /\ index'.skillProposals = table
      /\ index'.profile = index.profile
  BY <1>6, <1>8 DEF IndexTyped, Tables
<1>10. IndexTyped'
  BY <1>6, <1>7, <1>9 DEF IndexTyped
<1>11. /\ past' \in Pasts /\ (~past'.unsettled => ~past.unsettled)
       /\ calls' = [calls EXCEPT ![p] = NoCommand]
       /\ calls[p].at \notin {"readBeliefs", "readSkills", "write"}
  BY <1>1, StartsPast DEF NoCommand
<1>12. UNCHANGED <<beliefs, skills, cut>>
  BY DEF ProposeSkill
<1> QED  BY <1>9, <1>10, <1>11, <1>12, IdleSound, CallStep

LEMMA AcceptSkillInv ==
  ASSUME MemoryInv, NEW p \in Processes, NEW id \in Ids, AcceptSkill(p, id)
  PROVE  MemoryInv'
<1>1. PICK row, c :
        /\ row = index.skillProposals[id] /\ Starts(p, c)
        /\ c = [at |-> "reviewSkill", row |-> row, item |-> NewItem(Fresh, SkillContent[row.name])]
  BY DEF AcceptSkill
<1>2. row \in SkillProposals
  BY <1>1 DEF AcceptSkill, MemoryInv, IndexTyped, Tabled
<1>3. NewItem(Fresh, SkillContent[row.name]) \in Items
  <2>1. row.name \in SkillNames
    BY <1>2 DEF SkillProposals
  <2> QED  BY <1>1, <2>1, StartsPast, NewItemTyped
<1>4. c \in ReviewingSkill /\ c.at = "reviewSkill"
  BY <1>1, <1>2, <1>3 DEF ReviewingSkill
<1>5. CallSound(c) /\ c # ReadsBeliefs
  BY <1>4 DEF CallSound, CallTyped, ReadsBeliefs
<1>6. /\ past' \in Pasts /\ (~past'.unsettled => ~past.unsettled)
      /\ calls' = [calls EXCEPT ![p] = c] /\ calls[p].at \notin {"readBeliefs", "readSkills", "write"}
  BY <1>1, <1>5, StartsPast DEF NoCommand
<1>7. UNCHANGED <<beliefs, skills, cut, index>>
  BY DEF AcceptSkill
<1>8. /\ IndexTyped' /\ index'.items = index.items /\ index'.skills = index.skills
      /\ \A i \in DOMAIN index'.proposals : index'.proposals[i].status = "accepted" =>
           i \in DOMAIN index.proposals /\ index.proposals[i].status = "accepted"
  BY <1>7, SameIndex
<1> QED  BY <1>5, <1>6, <1>7, <1>8, CallStep

\* The end of a skill proposal is written, and nothing else.
LEMMA ClosedSkill ==
  ASSUME NEW row \in SkillProposals, NEW status \in Closings
  PROVE  /\ ToSkillProposals([row EXCEPT !.status = status]) \in WriteRecords
         /\ Queue(<<ToSkillProposals([row EXCEPT !.status = status])>>)
<1>1. PICK w : w = ToSkillProposals([row EXCEPT !.status = status])
  OBVIOUS
<1>2. [row EXCEPT !.status = status] \in SkillProposals
  BY DEF SkillProposals
<1>3. w \in WriteRecords /\ w.to = "skillProposals"
  BY <1>1, <1>2, WriteTyped DEF ToSkillProposals
<1>4. Queue(<<w>>)
  BY <1>3, LoneQueue DEF Files, FromBeliefs, FromSkills
<1> QED  BY <1>1, <1>3, <1>4

LEMMA ReviewsSkillInv ==
  ASSUME MemoryInv, NEW p \in Processes, NEW noted \in BOOLEAN, ReviewsSkill(p, noted)
  PROVE  MemoryInv'
<1>1. PICK call, review : call = calls[p] /\ review = Review(call.item, Active(index.items), noted)
  OBVIOUS
<1>2. call.at = "reviewSkill" /\ call \in ReviewingSkill
  BY <1>1 DEF ReviewsSkill, MemoryInv, CallSound, CallTyped, NoCommand, ReadsBeliefs, ReadsSkills,
     ReviewingItem, MatchingSkill, WritingRows
<1>3. call.row \in SkillProposals /\ call.item \in Items
  BY <1>2 DEF ReviewingSkill
<1>4. DecidesOn(review, call.item.id)
  BY <1>1, <1>3, ReviewTyped
<1>0. PICK rejected \in BOOLEAN : rejected = (review.action = "reject")
  OBVIOUS
<1>5. PICK w : w = ToSkillProposals([call.row EXCEPT !.status = "rejected"])
  OBVIOUS
<1>6. PICK c : /\ calls' = [calls EXCEPT ![p] = c]
               /\ \/ c = Writing(<<w>>, NoCommand)
                  \/ c = [at |-> "match", row |-> call.row, item |-> review.item,
                          rejected |-> rejected]
  <2>1. PICK c : /\ calls' = [calls EXCEPT ![p] = c]
                 /\ \/ c = Writing(<<w>>, NoCommand)
                    \/ c = [at |-> "match", row |-> call.row, item |-> review.item,
                            rejected |-> review.action = "reject"]
    BY <1>1, <1>5 DEF ReviewsSkill, Goes
  <2>2. [at |-> "match", row |-> call.row, item |-> review.item, rejected |-> review.action = "reject"]
          = [at |-> "match", row |-> call.row, item |-> review.item, rejected |-> rejected]
    BY <1>0, Zenon
  <2> QED  BY <2>1, <2>2
<1>7. CallSound(c)
  <2>1. CASE c = Writing(<<w>>, NoCommand)
    <3>1. w \in WriteRecords /\ Queue(<<w>>)
      BY <1>3, <1>5, ClosedSkill DEF Closings
    <3>2. <<w>> \in Seq(WriteRecords)
      BY <3>1
    <3> QED  BY <2>1, <3>1, <3>2, WritingSound
  <2>2. CASE c = [at |-> "match", row |-> call.row, item |-> review.item, rejected |-> rejected]
    <3>1. c \in MatchingSkill /\ c.at = "match"
      BY <1>3, <1>4, <1>5, <2>2 DEF MatchingSkill, DecidesOn
    <3> QED  BY <3>1 DEF CallSound, CallTyped
  <2> QED  BY <1>6, <2>1, <2>2
<1>8. UNCHANGED <<beliefs, skills, cut, index, past>>
  BY DEF ReviewsSkill
<1>9. calls[p].at \notin {"readBeliefs", "readSkills", "write"} /\ past' \in Pasts
         /\ past'.unsettled = past.unsettled
  BY <1>1, <1>2, <1>8 DEF MemoryInv
<1>10. /\ IndexTyped' /\ index'.items = index.items /\ index'.skills = index.skills
       /\ \A i \in DOMAIN index'.proposals : index'.proposals[i].status = "accepted" =>
            i \in DOMAIN index.proposals /\ index.proposals[i].status = "accepted"
  BY <1>8, SameIndex
<1> QED  BY <1>6, <1>7, <1>8, <1>9, <1>10, CallStep

\* A skill that is read is a skill, with the counts or the status it is given.
LEMMA SkillChanges ==
  ASSUME NEW skill \in Skills
  PROVE  /\ [skill EXCEPT !.uses = @ + 1] \in Skills
         /\ [skill EXCEPT !.status = "disabled"] \in Skills
  BY DEF Skills

LEMMA CommitsInv ==
  ASSUME MemoryInv, NEW p \in Processes, Commits(p)
  PROVE  MemoryInv'
<1>1. PICK call, known : call = calls[p] /\ known = Matching(skills, call.row.name)
  OBVIOUS
<1>2. call.at = "match" /\ call \in MatchingSkill
  BY <1>1 DEF Commits, MemoryInv, CallSound, CallTyped, NoCommand, ReadsBeliefs, ReadsSkills,
     ReviewingItem, ReviewingSkill, WritingRows
<1>3. call.row \in SkillProposals /\ call.item \in Items
  BY <1>2 DEF MatchingSkill
<1>4. PICK merged, skill, r, m, a, c :
        /\ merged = [(CHOOSE s \in known : TRUE) EXCEPT !.uses = @ + 1]
        /\ skill = [id |-> call.row.id, name |-> call.row.name, uses |-> 1, status |-> "active"]
        /\ r = ToSkillProposals([call.row EXCEPT !.status = "rejected"])
        /\ m = ToSkillProposals([call.row EXCEPT !.status = "merged"])
        /\ a = ToSkillProposals([call.row EXCEPT !.status = "accepted"])
        /\ calls' = [calls EXCEPT ![p] = c]
        /\ \/ c = NoCommand
           \/ c = Writing(<<r>>, NoCommand)
           \/ known # {} /\ c = Writing(<<ToSkillFile(merged), ToSkills(merged)>> \o <<m>>, NoCommand)
           \/ c = Writing(Remembered(call.item) \o <<ToSkillFile(skill), ToSkills(skill)>> \o <<a>>,
                          NoCommand)
  BY <1>1 DEF Commits, Goes
<1>5. /\ r \in WriteRecords /\ m \in WriteRecords /\ a \in WriteRecords /\ Queue(<<r>>)
  BY <1>3, <1>4, ClosedSkill DEF Closings
<1>6. skill \in Skills
  BY <1>3, <1>4 DEF SkillProposals, Skills
<1>7. known # {} => merged \in Skills
  <2> SUFFICES ASSUME known # {} PROVE merged \in Skills
    OBVIOUS
  <2>1. PICK s : s \in known /\ s = CHOOSE t \in known : TRUE
    OBVIOUS
  <2>2. PICK id \in IdsOf(skills) : s = Latest(skills, id)
    BY <1>1, <2>1 DEF Matching
  <2>3. skills \in Seq(Skills \union {TornRow})
    BY DEF MemoryInv, FilesTyped
  <2>4. s \in Skills
    BY <2>2, <2>3, LatestLine
  <2> QED  BY <1>4, <2>1, <2>4, SkillChanges
<1>8. CallSound(c)
  <2>1. CASE c = NoCommand
    BY <2>1, IdleSound
  <2>2. CASE c = Writing(<<r>>, NoCommand)
    <3>1. <<r>> \in Seq(WriteRecords)
      BY <1>5
    <3> QED  BY <1>5, <2>2, <3>1, WritingSound
  <2>3. CASE known # {} /\ c = Writing(<<ToSkillFile(merged), ToSkills(merged)>> \o <<m>>, NoCommand)
    <3>1. PICK ws : ws = <<ToSkillFile(merged), ToSkills(merged)>> \o <<m>>
      OBVIOUS
    <3>2. ToSkillFile(merged) \in WriteRecords /\ ToSkills(merged) \in WriteRecords
      BY <1>7, <2>3, WriteTyped
    <3>3. ws \in Seq(WriteRecords)
      BY <1>5, <3>1, <3>2
    <3>4. Queue(ws)
      BY <1>4, <1>7, <2>3, <3>1, SkillQueue
    <3> QED  BY <2>3, <3>1, <3>3, <3>4, WritingSound
  <2>4. CASE c = Writing(Remembered(call.item) \o <<ToSkillFile(skill), ToSkills(skill)>> \o <<a>>,
                         NoCommand)
    <3>1. PICK ws : ws = Remembered(call.item) \o <<ToSkillFile(skill), ToSkills(skill)>> \o <<a>>
      OBVIOUS
    <3>2. /\ ToSkillFile(skill) \in WriteRecords /\ ToSkills(skill) \in WriteRecords
          /\ ToBeliefs(call.item) \in WriteRecords /\ ToItems(call.item) \in WriteRecords
      BY <1>3, <1>6, WriteTyped
    <3>3. Remembered(call.item) \in Seq(WriteRecords)
      BY <3>2 DEF Remembered
    <3>4. ws \in Seq(WriteRecords)
      BY <1>5, <3>1, <3>2, <3>3
    <3>5. Queue(ws)
      BY <1>3, <1>4, <1>6, <3>1, SkillQueue
    <3> QED  BY <2>4, <3>1, <3>4, <3>5, WritingSound
  <2> QED  BY <1>4, <2>1, <2>2, <2>3, <2>4
<1>9. UNCHANGED <<beliefs, skills, cut, index, past>>
  BY DEF Commits
<1>10. calls[p].at \notin {"readBeliefs", "readSkills", "write"} /\ past' \in Pasts
         /\ past'.unsettled = past.unsettled
  BY <1>1, <1>2, <1>9 DEF MemoryInv
<1>11. /\ IndexTyped' /\ index'.items = index.items /\ index'.skills = index.skills
       /\ \A i \in DOMAIN index'.proposals : index'.proposals[i].status = "accepted" =>
            i \in DOMAIN index.proposals /\ index.proposals[i].status = "accepted"
  BY <1>9, SameIndex
<1>12. calls' = [calls EXCEPT ![p] = c]
  BY <1>4
<1> QED  BY <1>8, <1>9, <1>10, <1>11, <1>12, CallStep

LEMMA DisableInv ==
  ASSUME MemoryInv, NEW p \in Processes, NEW id \in Ids, Disable(p, id)
  PROVE  MemoryInv'
<1>1. PICK skill, ws, c :
        /\ skill = [Latest(skills, id) EXCEPT !.status = "disabled"]
        /\ ws = <<ToSkillFile(skill), ToSkills(skill)>>
        /\ c = Writing(ws, NoCommand) /\ Starts(p, c)
  BY DEF Disable
<1>2. skill \in Skills
  <2>1. skills \in Seq(Skills \union {TornRow}) /\ id \in IdsOf(skills)
    BY DEF MemoryInv, FilesTyped, Disable
  <2>2. Latest(skills, id) \in Skills
    BY <2>1, LatestLine
  <2> QED  BY <1>1, <2>2, SkillChanges
<1>3. ws \in Seq(WriteRecords)
  BY <1>1, <1>2, WriteTyped
<1>4. Queue(ws)
  BY <1>1, <1>2, SkillQueue
<1>5. CallSound(c)
  BY <1>1, <1>3, <1>4, WritingSound
<1>6. c # ReadsBeliefs
  <2>1. ws # <<>>
    BY <1>1
  <2>2. c.at = "write"
    BY <1>1, <2>1 DEF Writing
  <2> QED  BY <2>2 DEF ReadsBeliefs
<1>7. /\ past' \in Pasts /\ (~past'.unsettled => ~past.unsettled)
      /\ calls' = [calls EXCEPT ![p] = c] /\ calls[p].at \notin {"readBeliefs", "readSkills", "write"}
  BY <1>1, <1>6, StartsPast DEF NoCommand
<1>8. UNCHANGED <<beliefs, skills, cut, index>>
  BY DEF Disable
<1>9. /\ IndexTyped' /\ index'.items = index.items /\ index'.skills = index.skills
      /\ \A i \in DOMAIN index'.proposals : index'.proposals[i].status = "accepted" =>
           i \in DOMAIN index.proposals /\ index.proposals[i].status = "accepted"
  BY <1>8, SameIndex
<1> QED  BY <1>5, <1>7, <1>8, <1>9, CallStep

-----------------------------------------------------------------------------
(* Reindexing. *)

LEMMA ReindexInv ==
  ASSUME MemoryInv, NEW p \in Processes, Reindex(p)
  PROVE  MemoryInv'
<1>1. /\ Starts(p, ReadsBeliefs) /\ UNCHANGED <<beliefs, skills, cut>>
      /\ index' = [items |-> Empty, skills |-> Empty, proposals |-> Empty,
                   skillProposals |-> Empty, profile |-> NoValue]
  BY DEF Reindex
<1>2. /\ past' \in Pasts /\ calls' = [calls EXCEPT ![p] = ReadsBeliefs]
      /\ DOMAIN calls' = Processes /\ calls'[p] = ReadsBeliefs
      /\ \A q \in Processes : q # p => calls'[q] = calls[q]
  BY <1>1, StartsPast DEF MemoryInv
<1>3. IndexTyped'
  <2>1. \A Rows : Tabled(Empty, Rows)
    BY DEF Tabled, Empty
  <2> QED  BY <1>1, <2>1 DEF IndexTyped, Tables
<1>4. Backed'
  BY <1>1 DEF Backed, Empty
<1>5. \A q \in Processes : CallSound(calls[q])'
  <2> TAKE q \in Processes
  <2>1. CASE q = p
    BY <2>1, <1>2 DEF CallSound, CallTyped, ReadsBeliefs
  <2>2. CASE q # p
    <3>1. CallSound(calls[q])
      BY DEF MemoryInv
    <3> QED  BY <3>1, <2>2, <1>1, <1>2 DEF CallSound, Queue
  <2> QED  BY <2>1, <2>2
<1>6. Complete'
  <2>1. calls'[p].at = "readBeliefs"
    BY <1>2 DEF ReadsBeliefs
  <2> QED  BY <2>1 DEF Complete, WillReadSkills, BringsItem, BringsSkill
<1>7. FilesTyped'
  BY <1>1 DEF MemoryInv, FilesTyped
<1> QED  BY <1>2, <1>3, <1>4, <1>5, <1>6, <1>7 DEF MemoryInv

\* A process turns to c, which brings what it would have brought.
LEMMA BringsStep ==
  ASSUME MemoryInv, NEW p \in Processes, NEW c, CallSound(c), calls' = [calls EXCEPT ![p] = c],
         UNCHANGED <<beliefs, skills, cut, index>>, past' \in Pasts, calls[p].at # "write",
         ~past'.unsettled =>
           /\ ~past.unsettled
           /\ calls[p].at = "readBeliefs" =>
                Parses(beliefs) /\ \A id \in IdsOf(beliefs) : BringsItem(c, id)
           /\ WillReadSkills(calls[p]) =>
                \/ WillReadSkills(c)
                \/ Parses(skills) /\ \A id \in IdsOf(skills) : BringsSkill(c, id)
  PROVE  MemoryInv'
<1>1. /\ DOMAIN calls' = Processes /\ calls'[p] = c
      /\ \A q \in Processes : q # p => calls'[q] = calls[q]
  BY DEF MemoryInv
<1>2. FilesTyped'
  BY DEF MemoryInv, FilesTyped
<1>3. IndexTyped'
  BY DEF MemoryInv, IndexTyped
<1>4. \A q \in Processes : CallSound(calls[q])'
  <2> TAKE q \in Processes
  <2>1. CASE q = p
    <3>1. CallSound(c)'
      BY DEF CallSound, Queue
    <3> QED  BY <2>1, <1>1, <3>1
  <2>2. CASE q # p
    <3>1. CallSound(calls[q])
      BY DEF MemoryInv
    <3> QED  BY <3>1, <2>2, <1>1 DEF CallSound, Queue
  <2> QED  BY <2>1, <2>2
<1>5. Backed'
  BY DEF MemoryInv, Backed
<1>6. ASSUME ~past'.unsettled  PROVE Complete'
  <2>1. Complete
    BY <1>6 DEF MemoryInv
  <2>2. Parses(beliefs)' \/ \E q \in Processes : calls'[q].at = "readBeliefs"
    <3>1. CASE Parses(beliefs)
      BY <3>1
    <3>2. CASE ~Parses(beliefs)
      BY <3>2, <2>1, <1>1, <1>6 DEF Complete
    <3> QED  BY <3>1, <3>2
  <2>3. ASSUME NEW q \in Processes, WillReadSkills(calls[q])
        PROVE  \/ \E r \in Processes : WillReadSkills(calls'[r])
               \/ Parses(skills) /\ \A id \in IdsOf(skills) : BringsSkill(calls'[p], id)
    <3>1. CASE q = p
      BY <2>3, <3>1, <1>1, <1>6
    <3>2. CASE q # p
      BY <2>3, <3>2, <1>1
    <3> QED  BY <3>1, <3>2
  <2>4. Parses(skills)' \/ \E q \in Processes : WillReadSkills(calls'[q])
    BY <2>1, <2>3 DEF Complete
  <2>5. ASSUME Parses(beliefs)', NEW id \in IdsOf(beliefs)'
        PROVE  id \in DOMAIN index'.items \/ \E q \in Processes : BringsItem(calls'[q], id)
    <3>1. id \in DOMAIN index.items \/ \E q \in Processes : BringsItem(calls[q], id)
      BY <2>1, <2>5 DEF Complete
    <3>2. ASSUME NEW q \in Processes, BringsItem(calls[q], id)
          PROVE  \E r \in Processes : BringsItem(calls'[r], id)
      <4>1. CASE q = p
        <5>1. calls[p].at = "readBeliefs"
          BY <3>2, <4>1 DEF BringsItem, Pending
        <5> QED  BY <5>1, <2>5, <1>1, <1>6
      <4>2. CASE q # p
        BY <3>2, <4>2, <1>1
      <4> QED  BY <4>1, <4>2
    <3> QED  BY <3>1, <3>2
  <2>6. ASSUME Parses(skills)', NEW id \in IdsOf(skills)'
        PROVE  id \in DOMAIN index'.skills \/ \E q \in Processes : BringsSkill(calls'[q], id)
    <3>1. id \in DOMAIN index.skills \/ \E q \in Processes : BringsSkill(calls[q], id)
      BY <2>1, <2>6 DEF Complete
    <3>2. ASSUME NEW q \in Processes, BringsSkill(calls[q], id)
          PROVE  \E r \in Processes : BringsSkill(calls'[r], id)
      <4>1. CASE q = p
        <5>1. WillReadSkills(calls[p])
          BY <3>2, <4>1 DEF BringsSkill, Pending
        <5>2. BringsSkill(c, id)
          BY <5>1, <2>6, <1>6 DEF BringsSkill
        <5> QED  BY <5>2, <1>1
      <4>2. CASE q # p
        BY <3>2, <4>2, <1>1
      <4> QED  BY <4>1, <4>2
    <3> QED  BY <3>1, <3>2
  <2> QED  BY <2>2, <2>4, <2>5, <2>6 DEF Complete, WillReadSkills, BringsItem, BringsSkill, Pending
<1> QED  BY <1>1, <1>2, <1>3, <1>4, <1>5, <1>6 DEF MemoryInv

\* What a restoring step makes of the past, and of the call when a line is torn.
LEMMA RestoresPast ==
  ASSUME MemoryInv, NEW p \in Processes, NEW at, NEW lines, NEW writes, NEW then,
         Restores(p, at, lines, writes, then)
  PROVE  /\ past' \in Pasts
         /\ Parses(lines) => /\ past'.unsettled = past.unsettled
                             /\ calls' = [calls EXCEPT ![p] = Writing(writes, then)]
         /\ ~Parses(lines) => past'.unsettled /\ calls' = [calls EXCEPT ![p] = NoCommand]
<1>1. past \in Pasts
  BY DEF MemoryInv
<1>2. PICK u \in BOOLEAN : u = (past.unsettled \/ ~Parses(lines))
  OBVIOUS
<1>3. past' = [past EXCEPT !.unsettled = u]
  <2>1. past' = [past EXCEPT !.unsettled = past.unsettled \/ ~Parses(lines)]
    BY Zenon DEF Restores
  <2> QED  BY <2>1, <1>2, Zenon
<1>4. past' \in Pasts
  BY <1>1, <1>3 DEF Pasts
<1>5. past'.unsettled = u /\ past.unsettled \in BOOLEAN
  BY <1>1, <1>3 DEF Pasts
<1> QED  BY <1>2, <1>4, <1>5 DEF Restores, Goes

LEMMA RestoresItemsInv ==
  ASSUME MemoryInv, NEW p \in Processes, RestoresItems(p)
  PROVE  MemoryInv'
<1>1. /\ calls[p].at = "readBeliefs" /\ UNCHANGED <<beliefs, skills, cut, index>>
      /\ Restores(p, "readBeliefs", beliefs, ItemRows, ReadsSkills)
  BY DEF RestoresItems, Restores
<1>2. CASE ~Parses(beliefs)
  <2>1. past'.unsettled /\ past' \in Pasts /\ calls' = [calls EXCEPT ![p] = NoCommand]
    BY <1>1, <1>2, RestoresPast
  <2> QED  BY <1>1, <2>1, IdleSound, BringsStep
<1>3. CASE Parses(beliefs)
  <2>1. PICK ws : ws = ItemRows
    OBVIOUS
  <2>2. beliefs \in Seq(Items \union {TornRow})
    BY DEF MemoryInv, FilesTyped
  <2>3. \A i \in DOMAIN beliefs : beliefs[i] \in Items /\ beliefs[i].id \in IdsOf(beliefs)
    <3>1. \A i \in DOMAIN beliefs : beliefs[i] \in Items
      BY <1>3, <2>2 DEF Parses
    <3> QED  BY <3>1, RowIds DEF IdsOf
  <2>4. ws \in Seq(WriteRecords) /\ DOMAIN ws = DOMAIN beliefs
    <3>1. \A i \in DOMAIN beliefs : ToItems(beliefs[i]) \in WriteRecords
      BY <2>3, WriteTyped
    <3> QED  BY <2>1, <2>2, <3>1 DEF ItemRows
  <2>5. 1..Len(ws) = DOMAIN beliefs
    BY <2>4
  <2>6. \A i \in 1..Len(ws) : ws[i].to = "items" /\ ws[i].row = beliefs[i]
    BY <2>1, <2>5 DEF ToItems, ItemRows
  <2>7. Queue(ws)
    BY <2>3, <2>5, <2>6
       DEF Queue, Followed, BackedByBeliefs, BackedBySkills, FromBeliefs, FromSkills
  <2>8. PICK c : c = Writing(ws, ReadsSkills)
    OBVIOUS
  <2>9. CallSound(c)
    BY <2>4, <2>7, <2>8, WritingSound
  <2>10. WillReadSkills(c) /\ \A i \in 1..Len(ws) : Pending(c, ws[i].to, ws[i].row.id)
    BY <2>4, <2>8, WritingCall
  <2>11. ASSUME NEW id \in IdsOf(beliefs)  PROVE BringsItem(c, id)
    <3>1. PICK i \in DOMAIN beliefs : beliefs[i].id = id
      BY DEF IdsOf
    <3> QED  BY <3>1, <2>5, <2>6, <2>10 DEF BringsItem
  <2>12. /\ past' \in Pasts /\ past'.unsettled = past.unsettled
         /\ calls' = [calls EXCEPT ![p] = c]
    BY <1>1, <1>3, <2>1, <2>8, RestoresPast
  <2> QED  BY <1>1, <1>3, <2>9, <2>10, <2>11, <2>12, BringsStep
<1> QED  BY <1>2, <1>3

LEMMA RestoresSkillsInv ==
  ASSUME MemoryInv, NEW p \in Processes, RestoresSkills(p)
  PROVE  MemoryInv'
<1>0. PICK part \in Ascending(FirstLines(skills)) :
        Restores(p, "readSkills", skills,
                 [n \in DOMAIN part |-> ToSkills(Latest(skills, skills[part[n]].id))], NoCommand)
  BY DEF RestoresSkills
<1>1. PICK ws : /\ ws = [n \in DOMAIN part |-> ToSkills(Latest(skills, skills[part[n]].id))]
                /\ Restores(p, "readSkills", skills, ws, NoCommand)
  BY <1>0
<1>2. calls[p].at = "readSkills" /\ UNCHANGED <<beliefs, skills, cut, index>>
  BY <1>1 DEF Restores
<1>3. CASE ~Parses(skills)
  <2>1. past'.unsettled /\ past' \in Pasts /\ calls' = [calls EXCEPT ![p] = NoCommand]
    BY <1>1, <1>3, RestoresPast
  <2> QED  BY <1>2, <2>1, IdleSound, BringsStep
<1>4. CASE Parses(skills)
  <2>1. skills \in Seq(Skills \union {TornRow}) /\ Len(skills) \in Nat /\ DOMAIN skills = 1..Len(skills)
    BY DEF MemoryInv, FilesTyped
  <2>2. FirstLines(skills) \subseteq 1..Len(skills)
    BY <2>1 DEF FirstLines
  <2>3. IsFiniteSet(FirstLines(skills))
    <3>1. IsFiniteSet(1..Len(skills))
      BY <2>1, FS_Interval
    <3> QED  BY <2>2, <3>1, FS_Subset
  <2>4. /\ DOMAIN part = 1..Cardinality(FirstLines(skills))
        /\ Cardinality(FirstLines(skills)) \in Nat
        /\ \A n \in DOMAIN part : part[n] \in FirstLines(skills)
        /\ \A i \in FirstLines(skills) : \E n \in DOMAIN part : part[n] = i
    BY <2>2, <2>3, AscendingOnto
  <2>5. \A n \in DOMAIN part : skills[part[n]].id \in IdsOf(skills)
    <3> TAKE n \in DOMAIN part
    <3>1. part[n] \in DOMAIN skills
      BY <2>1, <2>2, <2>4
    <3>2. skills[part[n]] \in Skills
      BY <1>4, <2>1, <3>1 DEF Parses
    <3> QED  BY <3>1, <3>2, RowIds DEF IdsOf
  <2>6. \A n \in DOMAIN part : /\ Latest(skills, skills[part[n]].id) \in Skills
                               /\ Latest(skills, skills[part[n]].id).id = skills[part[n]].id
    BY <2>1, <2>5, LatestLine
  <2>7. \A n \in DOMAIN part : /\ ws[n] \in WriteRecords /\ ws[n].to = "skills"
                               /\ ws[n].row.id = skills[part[n]].id
    BY <1>1, <2>6, WriteTyped DEF ToSkills
  <2>8. ws \in Seq(WriteRecords) /\ DOMAIN part = 1..Len(ws)
    BY <1>1, <2>4, <2>7
  <2>9. Queue(ws)
    BY <2>5, <2>7, <2>8
       DEF Queue, Followed, BackedByBeliefs, BackedBySkills, FromBeliefs, FromSkills
  <2>10. PICK c : c = Writing(ws, NoCommand)
    OBVIOUS
  <2>11. CallSound(c)
    BY <2>8, <2>9, <2>10, WritingSound
  <2>12. \A i \in 1..Len(ws) : Pending(c, ws[i].to, ws[i].row.id)
    BY <2>8, <2>10, WritingCall
  <2>13. ASSUME NEW id \in IdsOf(skills)  PROVE BringsSkill(c, id)
    <3>1. PICK i \in FirstLines(skills) : skills[i].id = id
      BY <2>1, FirstLine
    <3>2. PICK n \in DOMAIN part : part[n] = i
      BY <2>4
    <3> QED  BY <3>1, <3>2, <2>7, <2>8, <2>12 DEF BringsSkill
  <2>14. /\ past' \in Pasts /\ past'.unsettled = past.unsettled
         /\ calls' = [calls EXCEPT ![p] = c]
    BY <1>1, <1>4, <2>10, RestoresPast
  <2> QED  BY <1>2, <1>4, <2>11, <2>13, <2>14, BringsStep
<1> QED  BY <1>3, <1>4

-----------------------------------------------------------------------------
(* Writes and deaths. *)

\* What a write makes of the index.
LEMMA WriteToIndex ==
  ASSUME IndexTyped, NEW w \in WriteRecords,
         index' = IF w.to \in Files THEN index ELSE [index EXCEPT ![w.to] = Upsert(@, w.row)]
  PROVE  /\ IndexTyped'
         /\ DOMAIN index'.items =
              DOMAIN index.items \union (IF w.to = "items" THEN {w.row.id} ELSE {})
         /\ DOMAIN index'.skills =
              DOMAIN index.skills \union (IF w.to = "skills" THEN {w.row.id} ELSE {})
         /\ \A id \in DOMAIN index'.proposals : index'.proposals[id].status = "accepted" =>
              \/ id \in DOMAIN index.proposals /\ index.proposals[id].status = "accepted"
              \/ w.to = "proposals" /\ w.row.status = "accepted" /\ w.row.id = id
<1>1. \/ w.to \in Files
      \/ w.to = "items" /\ w.row \in Items
      \/ w.to = "skills" /\ w.row \in Skills
      \/ w.to = "proposals" /\ w.row \in Proposals
      \/ w.to = "skillProposals" /\ w.row \in SkillProposals
  BY DEF WriteRecords, Files
<1>2. /\ Tabled(index.items, Items) /\ Tabled(index.skills, Skills)
      /\ Tabled(index.proposals, Proposals) /\ Tabled(index.skillProposals, SkillProposals)
      /\ DOMAIN index = Tables /\ index = [t \in Tables |-> index[t]]
      /\ index.profile \in Values \union {NoValue}
  BY DEF IndexTyped
<1>3. CASE w.to \in Files
  BY <1>3 DEF IndexTyped, Files
<1>4. CASE w.to = "items" /\ w.row \in Items
  <2>1. PICK old, row, table : old = index.items /\ row = w.row /\ table = Upsert(old, row)
    OBVIOUS
  <2>2. Tabled(table, Items) /\ DOMAIN table = DOMAIN index.items \union {w.row.id}
    <3>1. Tabled(old, Items) /\ row \in Items
      BY <1>2, <1>4, <2>1
    <3>2. Tabled(table, Items)
      BY <2>1, <3>1, UpsertTable
    <3>3. DOMAIN table = DOMAIN old \union {row.id}
      BY <2>1 DEF Upsert
    <3> QED  BY <2>1, <3>2, <3>3
  <2>3. index' = [index EXCEPT !.items = table]
    BY <1>4, <2>1 DEF Files
  <2>4. /\ DOMAIN index' = Tables /\ index' = [t \in Tables |-> index'[t]]
        /\ index'.items = table /\ index'.skills = index.skills
        /\ index'.proposals = index.proposals /\ index'.skillProposals = index.skillProposals
        /\ index'.profile = index.profile
    BY <1>2, <2>3 DEF Tables
  <2> QED  BY <1>2, <1>4, <2>2, <2>4 DEF IndexTyped
<1>5. CASE w.to = "skills" /\ w.row \in Skills
  <2>1. PICK old, row, table : old = index.skills /\ row = w.row /\ table = Upsert(old, row)
    OBVIOUS
  <2>2. Tabled(table, Skills) /\ DOMAIN table = DOMAIN index.skills \union {w.row.id}
    <3>1. Tabled(old, Skills) /\ row \in Skills
      BY <1>2, <1>5, <2>1
    <3>2. Tabled(table, Skills)
      BY <2>1, <3>1, UpsertTable
    <3>3. DOMAIN table = DOMAIN old \union {row.id}
      BY <2>1 DEF Upsert
    <3> QED  BY <2>1, <3>2, <3>3
  <2>3. index' = [index EXCEPT !.skills = table]
    BY <1>5, <2>1 DEF Files
  <2>4. /\ DOMAIN index' = Tables /\ index' = [t \in Tables |-> index'[t]]
        /\ index'.skills = table /\ index'.items = index.items
        /\ index'.proposals = index.proposals /\ index'.skillProposals = index.skillProposals
        /\ index'.profile = index.profile
    BY <1>2, <2>3 DEF Tables
  <2> QED  BY <1>2, <1>5, <2>2, <2>4 DEF IndexTyped
<1>6. CASE w.to = "proposals" /\ w.row \in Proposals
  <2>1. PICK table : table = Upsert(index.proposals, w.row)
    OBVIOUS
  <2>2. /\ Tabled(table, Proposals) /\ DOMAIN table = DOMAIN index.proposals \union {w.row.id}
        /\ table[w.row.id] = w.row
        /\ \A id \in DOMAIN index.proposals : id # w.row.id => table[id] = index.proposals[id]
    <3>1. Tabled(index.proposals, Proposals) /\ w.row \in Proposals
      BY <1>2, <1>6
    <3>2. PICK old, row : old = index.proposals /\ row = w.row
      OBVIOUS
    <3>3. Tabled(old, Proposals) /\ row \in Proposals
      BY <3>1, <3>2
    <3>4. Tabled(Upsert(old, row), Proposals)
      BY <3>3, UpsertTable
    <3>5. /\ DOMAIN Upsert(old, row) = DOMAIN old \union {row.id}
          /\ Upsert(old, row)[row.id] = row
          /\ \A id \in DOMAIN old : id # row.id => Upsert(old, row)[id] = old[id]
      BY DEF Upsert
    <3> QED  BY <2>1, <3>2, <3>4, <3>5
  <2>3. index' = [index EXCEPT !.proposals = table]
    BY <1>6, <2>1 DEF Files
  <2>4. /\ DOMAIN index' = Tables /\ index' = [t \in Tables |-> index'[t]]
        /\ index'.proposals = table /\ index'.items = index.items
        /\ index'.skills = index.skills /\ index'.skillProposals = index.skillProposals
        /\ index'.profile = index.profile
    BY <1>2, <2>3 DEF Tables
  <2>5. IndexTyped'
    BY <1>2, <2>2, <2>4 DEF IndexTyped
  <2> QED  BY <1>6, <2>2, <2>4, <2>5
<1>7. CASE w.to = "skillProposals" /\ w.row \in SkillProposals
  <2>1. PICK table : table = Upsert(index.skillProposals, w.row)
    OBVIOUS
  <2>2. Tabled(table, SkillProposals)
    <3>1. Tabled(index.skillProposals, SkillProposals) /\ w.row \in SkillProposals
      BY <1>2, <1>7
    <3> QED  BY <2>1, <3>1, UpsertTable
  <2>3. index' = [index EXCEPT !.skillProposals = table]
    BY <1>7, <2>1 DEF Files
  <2>4. /\ DOMAIN index' = Tables /\ index' = [t \in Tables |-> index'[t]]
        /\ index'.skillProposals = table /\ index'.items = index.items
        /\ index'.skills = index.skills /\ index'.proposals = index.proposals
        /\ index'.profile = index.profile
    BY <1>2, <2>3 DEF Tables
  <2> QED  BY <1>2, <1>7, <2>2, <2>4 DEF IndexTyped
<1> QED  BY <1>1, <1>3, <1>4, <1>5, <1>6, <1>7

\* What a write makes of the files.
LEMMA WriteToFiles ==
  ASSUME FilesTyped, NEW w \in WriteRecords, cut' = cut \ {w.to},
         beliefs' = IF w.to = "beliefs" THEN Added(beliefs, "beliefs" \in cut, w.row) ELSE beliefs,
         skills' = IF w.to = "skillFile" THEN Added(skills, "skillFile" \in cut, w.row) ELSE skills
  PROVE  /\ FilesTyped' /\ (Parses(beliefs)' <=> Parses(beliefs)) /\ (Parses(skills)' <=> Parses(skills))
         /\ Parses(beliefs) => IdsOf(beliefs)' =
              IdsOf(beliefs) \union (IF w.to = "beliefs" THEN {w.row.id} ELSE {})
         /\ Parses(skills) => IdsOf(skills)' =
              IdsOf(skills) \union (IF w.to = "skillFile" THEN {w.row.id} ELSE {})
<1>1. /\ w.to = "beliefs" => w.row \in Items
      /\ w.to = "skillFile" => w.row \in Skills
  BY DEF WriteRecords
<1>2. /\ beliefs \in Seq(Items \union {TornRow}) /\ skills \in Seq(Skills \union {TornRow})
      /\ \A row \in Items : row.id \in Ids /\ row # TornRow
      /\ \A row \in Skills : row.id \in Ids /\ row # TornRow
  BY RowIds DEF FilesTyped
<1>3. /\ beliefs' \in Seq(Items \union {TornRow}) /\ (Parses(beliefs)' <=> Parses(beliefs))
      /\ Parses(beliefs) => IdsOf(beliefs)' =
           IdsOf(beliefs) \union (IF w.to = "beliefs" THEN {w.row.id} ELSE {})
  <2>1. CASE w.to = "beliefs"
    <3>1. PICK open \in BOOLEAN : open = ("beliefs" \in cut)
      <4>1. ("beliefs" \in cut) \in BOOLEAN
        OBVIOUS
      <4> QED  BY <4>1, Zenon
    <3>2. beliefs' = Added(beliefs, open, w.row)
      BY <2>1, <3>1
    <3>3. open => ~Parses(beliefs)
      BY <3>1 DEF FilesTyped
    <3>4. w.row \in Items /\ w.row # TornRow
      BY <1>1, <1>2, <2>1
    <3>5. PICK added : added = Added(beliefs, open, w.row)
      OBVIOUS
    <3>6. /\ added \in Seq(Items \union {TornRow}) /\ (Parses(added) <=> Parses(beliefs))
          /\ Parses(added) => IdsOf(added) = IdsOf(beliefs) \union {w.row.id}
      BY <1>2, <3>3, <3>4, <3>5, AddedLine
    <3> QED  BY <2>1, <3>2, <3>5, <3>6
  <2>2. CASE w.to # "beliefs"
    BY <1>2, <2>2
  <2> QED  BY <2>1, <2>2
<1>4. /\ skills' \in Seq(Skills \union {TornRow}) /\ (Parses(skills)' <=> Parses(skills))
      /\ Parses(skills) => IdsOf(skills)' =
           IdsOf(skills) \union (IF w.to = "skillFile" THEN {w.row.id} ELSE {})
  <2>1. CASE w.to = "skillFile"
    <3>1. PICK open \in BOOLEAN : open = ("skillFile" \in cut)
      <4>1. ("skillFile" \in cut) \in BOOLEAN
        OBVIOUS
      <4> QED  BY <4>1, Zenon
    <3>2. skills' = Added(skills, open, w.row)
      BY <2>1, <3>1
    <3>3. open => ~Parses(skills)
      BY <3>1 DEF FilesTyped
    <3>4. w.row \in Skills /\ w.row # TornRow
      BY <1>1, <1>2, <2>1
    <3>5. PICK added : added = Added(skills, open, w.row)
      OBVIOUS
    <3>6. /\ added \in Seq(Skills \union {TornRow}) /\ (Parses(added) <=> Parses(skills))
          /\ Parses(added) => IdsOf(added) = IdsOf(skills) \union {w.row.id}
      BY <1>2, <3>3, <3>4, <3>5, AddedLine
    <3> QED  BY <2>1, <3>2, <3>5, <3>6
  <2>2. CASE w.to # "skillFile"
    BY <1>2, <2>2
  <2> QED  BY <2>1, <2>2
<1> QED  BY <1>3, <1>4 DEF FilesTyped

LEMMA WritesInv ==
  ASSUME MemoryInv, NEW p \in Processes, Writes(p)
  PROVE  MemoryInv'
<1>1. PICK ws, then, w, rest, c :
        /\ ws = calls[p].writes /\ then = calls[p].then /\ w = Head(ws) /\ rest = Tail(ws)
        /\ c = Writing(rest, then)
  OBVIOUS
<1>2. /\ calls[p].at = "write" /\ calls' = [calls EXCEPT ![p] = c] /\ cut' = cut \ {w.to}
      /\ beliefs' = IF w.to = "beliefs" THEN Added(beliefs, "beliefs" \in cut, w.row) ELSE beliefs
      /\ skills' = IF w.to = "skillFile" THEN Added(skills, "skillFile" \in cut, w.row) ELSE skills
      /\ index' = IF w.to \in Files THEN index ELSE [index EXCEPT ![w.to] = Upsert(@, w.row)]
      /\ past' = past
  BY <1>1 DEF Writes, Goes
<1>3. CallSound(calls[p]) /\ FilesTyped /\ IndexTyped /\ Backed /\ past \in Pasts
      /\ (~past.unsettled => Complete)
  BY DEF MemoryInv
<1>4. ws \in Seq(WriteRecords) /\ ws # <<>> /\ then \in {NoCommand, ReadsSkills} /\ Queue(ws)
  <2>1. calls[p] \in WritingRows
    BY <1>2, <1>3 DEF CallSound, CallTyped, NoCommand, ReadsBeliefs, ReadsSkills, ReviewingItem,
       ReviewingSkill, MatchingSkill
  <2> QED  BY <1>1, <1>2, <1>3, <2>1 DEF CallSound, WritingRows
<1>5. Advanced(ws, rest, w)
  BY <1>1, <1>4, RestOfQueue
<1>6. /\ FilesTyped' /\ (Parses(beliefs)' <=> Parses(beliefs)) /\ (Parses(skills)' <=> Parses(skills))
      /\ Parses(beliefs) => IdsOf(beliefs)' =
           IdsOf(beliefs) \union (IF w.to = "beliefs" THEN {w.row.id} ELSE {})
      /\ Parses(skills) => IdsOf(skills)' =
           IdsOf(skills) \union (IF w.to = "skillFile" THEN {w.row.id} ELSE {})
  BY <1>2, <1>3, <1>5, WriteToFiles DEF Advanced
<1>7. /\ IndexTyped'
      /\ DOMAIN index'.items =
           DOMAIN index.items \union (IF w.to = "items" THEN {w.row.id} ELSE {})
      /\ DOMAIN index'.skills =
           DOMAIN index.skills \union (IF w.to = "skills" THEN {w.row.id} ELSE {})
      /\ \A id \in DOMAIN index'.proposals : index'.proposals[id].status = "accepted" =>
           \/ id \in DOMAIN index.proposals /\ index.proposals[id].status = "accepted"
           \/ w.to = "proposals" /\ w.row.status = "accepted" /\ w.row.id = id
  BY <1>2, <1>3, <1>5, WriteToIndex DEF Advanced
<1>8. /\ DOMAIN calls' = Processes /\ calls'[p] = c
      /\ \A q \in Processes : q # p => calls'[q] = calls[q]
  BY <1>2 DEF MemoryInv
<1>9. /\ CallTyped(c) /\ (c.at = "write" => c.writes = rest)
      /\ \A i \in 1..Len(rest) : Pending(c, rest[i].to, rest[i].row.id)
      /\ then = ReadsSkills => WillReadSkills(c)
  BY <1>1, <1>4, <1>5, WritingCall DEF Advanced
<1>10. Queue(rest)'
  <2>1. Followed(rest, "beliefs", "items") /\ Followed(rest, "skillFile", "skills")
    BY <1>4, <1>5 DEF Queue, Advanced
  <2>2. Parses(beliefs)' => BackedByBeliefs(rest, IdsOf(beliefs)')
    BY <1>4, <1>5, <1>6 DEF Queue, Advanced
  <2>3. Parses(skills)' => BackedBySkills(rest, IdsOf(skills)')
    BY <1>4, <1>5, <1>6 DEF Queue, Advanced
  <2> QED  BY <2>1, <2>2, <2>3 DEF Queue
<1>11. \A q \in Processes : CallSound(calls[q])'
  <2> TAKE q \in Processes
  <2>1. CASE q = p
    BY <2>1, <1>8, <1>9, <1>10 DEF CallSound
  <2>2. CASE q # p
    <3>1. CallSound(calls[q])
      BY DEF MemoryInv
    <3>2. ASSUME NEW xs, Queue(xs)  PROVE Queue(xs)'
      BY <3>2, <1>6 DEF Queue, BackedByBeliefs, BackedBySkills
    <3> QED  BY <3>1, <3>2, <2>2, <1>8 DEF CallSound
  <2> QED  BY <2>1, <2>2
<1>12. Backed'
  <2>1. Parses(beliefs) => (FromBeliefs(w) => w.row.id \in IdsOf(beliefs))
    BY <1>4, <1>5 DEF Queue, Advanced
  <2>2. Parses(skills) => (FromSkills(w) => w.row.id \in IdsOf(skills))
    BY <1>4, <1>5 DEF Queue, Advanced
  <2>3. Parses(beliefs)' => DOMAIN index'.items \subseteq IdsOf(beliefs)'
    BY <1>3, <1>6, <1>7, <2>1 DEF Backed, FromBeliefs
  <2>4. Parses(skills)' => DOMAIN index'.skills \subseteq IdsOf(skills)'
    BY <1>3, <1>6, <1>7, <2>2 DEF Backed, FromSkills
  <2>5. Parses(beliefs)' => \A id \in DOMAIN index'.proposals :
          index'.proposals[id].status = "accepted" => id \in IdsOf(beliefs)'
    BY <1>3, <1>6, <1>7, <2>1 DEF Backed, FromBeliefs
  <2> QED  BY <2>3, <2>4, <2>5 DEF Backed
<1>13. ASSUME ~past'.unsettled  PROVE Complete'
  <2>1. Complete
    BY <1>2, <1>3, <1>13
  <2>2. ASSUME NEW q \in Processes, calls[q].at = "readBeliefs"  PROVE calls'[q].at = "readBeliefs"
    BY <2>2, <1>2, <1>8
  <2>3. ASSUME NEW q \in Processes, WillReadSkills(calls[q])  PROVE WillReadSkills(calls'[q])
    <3>1. CASE q = p
      BY <2>3, <3>1, <1>1, <1>2, <1>8, <1>9 DEF WillReadSkills
    <3>2. CASE q # p
      BY <2>3, <3>2, <1>8
    <3> QED  BY <3>1, <3>2
  <2>4. ASSUME NEW q \in Processes, NEW table, NEW id, Pending(calls[q], table, id)
        PROVE  Pending(calls'[q], table, id) \/ (w.to = table /\ w.row.id = id)
    <3>1. CASE q = p
      <4>1. PICK i \in 1..Len(ws) : ws[i].to = table /\ ws[i].row.id = id
        BY <2>4, <3>1, <1>1 DEF Pending
      <4>2. CASE ws[i] = w
        BY <4>1, <4>2
      <4>3. CASE ws[i] # w
        <5>1. PICK j \in 1..Len(rest) : rest[j] = ws[i]
          BY <4>3, <1>5 DEF Advanced
        <5>2. Pending(c, rest[j].to, rest[j].row.id)
          BY <1>9
        <5> QED  BY <4>1, <5>1, <5>2, <3>1, <1>8
      <4> QED  BY <4>2, <4>3
    <3>2. CASE q # p
      BY <2>4, <3>2, <1>8
    <3> QED  BY <3>1, <3>2
  <2>5. ASSUME Parses(beliefs)', NEW id \in IdsOf(beliefs)'
        PROVE  id \in DOMAIN index'.items \/ \E q \in Processes : BringsItem(calls'[q], id)
    <3>1. CASE id \in IdsOf(beliefs)
      <4>1. id \in DOMAIN index.items \/ \E q \in Processes : BringsItem(calls[q], id)
        BY <2>1, <2>5, <3>1, <1>6 DEF Complete
      <4> QED  BY <4>1, <1>7, <2>2, <2>4 DEF BringsItem
    <3>2. CASE w.to = "beliefs" /\ id = w.row.id
      <4>1. PICK j \in 1..Len(rest) : rest[j].to = "items" /\ rest[j].row.id = id
        BY <3>2, <1>4, <1>5 DEF Queue, Advanced
      <4>2. Pending(calls'[p], "items", id)
        BY <4>1, <1>8, <1>9
      <4> QED  BY <4>2 DEF BringsItem
    <3> QED  BY <2>5, <3>1, <3>2, <1>6
  <2>6. ASSUME Parses(skills)', NEW id \in IdsOf(skills)'
        PROVE  id \in DOMAIN index'.skills \/ \E q \in Processes : BringsSkill(calls'[q], id)
    <3>1. CASE id \in IdsOf(skills)
      <4>1. id \in DOMAIN index.skills \/ \E q \in Processes : BringsSkill(calls[q], id)
        BY <2>1, <2>6, <3>1, <1>6 DEF Complete
      <4> QED  BY <4>1, <1>7, <2>3, <2>4 DEF BringsSkill
    <3>2. CASE w.to = "skillFile" /\ id = w.row.id
      <4>1. PICK j \in 1..Len(rest) : rest[j].to = "skills" /\ rest[j].row.id = id
        BY <3>2, <1>4, <1>5 DEF Queue, Advanced
      <4>2. Pending(calls'[p], "skills", id)
        BY <4>1, <1>8, <1>9
      <4> QED  BY <4>2 DEF BringsSkill
    <3> QED  BY <2>6, <3>1, <3>2, <1>6
  <2>7. Parses(beliefs)' \/ \E q \in Processes : calls'[q].at = "readBeliefs"
    BY <2>1, <2>2, <1>6 DEF Complete
  <2>8. Parses(skills)' \/ \E q \in Processes : WillReadSkills(calls'[q])
    BY <2>1, <2>3, <1>6 DEF Complete
  <2> QED  BY <2>5, <2>6, <2>7, <2>8 DEF Complete, WillReadSkills, BringsItem, BringsSkill, Pending
<1> QED  BY <1>2, <1>3, <1>6, <1>7, <1>8, <1>11, <1>12, <1>13 DEF MemoryInv

LEMMA DiesInv ==
  ASSUME MemoryInv, NEW p \in Processes, NEW part \in BOOLEAN, Dies(p, part)
  PROVE  MemoryInv'
<1>1. PICK to : to = IF calls[p].at = "write" THEN Head(calls[p].writes).to ELSE "nowhere"
  OBVIOUS
<1>2. /\ part => to \in Files
      /\ beliefs' = IF part /\ to = "beliefs" THEN Added(beliefs, to \in cut, TornRow) ELSE beliefs
      /\ skills' = IF part /\ to = "skillFile" THEN Added(skills, to \in cut, TornRow) ELSE skills
      /\ cut' = IF part THEN cut \union {to} ELSE cut
      /\ calls' = [calls EXCEPT ![p] = NoCommand]
      /\ index' = index
  BY <1>1 DEF Dies, Goes
<1>3. FilesTyped /\ IndexTyped /\ Backed /\ past \in Pasts
  BY DEF MemoryInv
<1>4. past' \in Pasts /\ past'.unsettled
  <2>1. past.crashes + 1 \in 0..MaxMemoryDeaths
    BY <1>3, MemoryAssumptions DEF Dies, Pasts
  <2>2. PICK n \in 0..MaxMemoryDeaths : n = past.crashes + 1
    BY <2>1
  <2>3. past' = [past EXCEPT !.crashes = n, !.unsettled = TRUE]
    BY <2>2 DEF Dies
  <2> QED  BY <1>3, <2>3 DEF Pasts
<1>5. /\ beliefs' \in Seq(Items \union {TornRow})
      /\ \/ beliefs' = beliefs /\ ("beliefs" \in cut' => "beliefs" \in cut)
         \/ ~Parses(beliefs)'
  <2>1. CASE part /\ to = "beliefs"
    <3>1. PICK open \in BOOLEAN : open = (to \in cut)
      <4>1. (to \in cut) \in BOOLEAN
        OBVIOUS
      <4> QED  BY <4>1, Zenon
    <3>2. PICK added : added = Added(beliefs, open, TornRow)
      OBVIOUS
    <3>3. beliefs \in Seq(Items \union {TornRow}) /\ \A row \in Items : row.id \in Ids
      BY <1>3, RowIds DEF FilesTyped
    <3>4. open => ~Parses(beliefs)
      BY <1>3, <2>1, <3>1 DEF FilesTyped
    <3>5. added \in Seq(Items \union {TornRow}) /\ ~Parses(added)
      BY <3>2, <3>3, <3>4, AddedLine
    <3>6. beliefs' = added
      BY <1>2, <2>1, <3>1, <3>2
    <3> QED  BY <3>5, <3>6
  <2>2. CASE ~(part /\ to = "beliefs")
    BY <1>2, <1>3, <2>2 DEF FilesTyped
  <2> QED  BY <2>1, <2>2
<1>6. /\ skills' \in Seq(Skills \union {TornRow})
      /\ \/ skills' = skills /\ ("skillFile" \in cut' => "skillFile" \in cut)
         \/ ~Parses(skills)'
  <2>1. CASE part /\ to = "skillFile"
    <3>1. PICK open \in BOOLEAN : open = (to \in cut)
      <4>1. (to \in cut) \in BOOLEAN
        OBVIOUS
      <4> QED  BY <4>1, Zenon
    <3>2. PICK added : added = Added(skills, open, TornRow)
      OBVIOUS
    <3>3. skills \in Seq(Skills \union {TornRow}) /\ \A row \in Skills : row.id \in Ids
      BY <1>3, RowIds DEF FilesTyped
    <3>4. open => ~Parses(skills)
      BY <1>3, <2>1, <3>1 DEF FilesTyped
    <3>5. added \in Seq(Skills \union {TornRow}) /\ ~Parses(added)
      BY <3>2, <3>3, <3>4, AddedLine
    <3>6. skills' = added
      BY <1>2, <2>1, <3>1, <3>2
    <3> QED  BY <3>5, <3>6
  <2>2. CASE ~(part /\ to = "skillFile")
    BY <1>2, <1>3, <2>2 DEF FilesTyped
  <2> QED  BY <2>1, <2>2
<1>7. FilesTyped'
  <2>1. cut' \subseteq Files
    BY <1>2, <1>3 DEF FilesTyped
  <2>2. ("beliefs" \in cut' => ~Parses(beliefs)') /\ ("skillFile" \in cut' => ~Parses(skills)')
    BY <1>3, <1>5, <1>6 DEF FilesTyped
  <2> QED  BY <1>5, <1>6, <2>1, <2>2 DEF FilesTyped
<1>8. IndexTyped'
  BY <1>2, <1>3 DEF IndexTyped
<1>9. Backed'
  BY <1>2, <1>3, <1>5, <1>6 DEF Backed
<1>10. /\ DOMAIN calls' = Processes /\ calls'[p] = NoCommand
       /\ \A q \in Processes : q # p => calls'[q] = calls[q]
  BY <1>2 DEF MemoryInv
<1>11. \A q \in Processes : CallSound(calls[q])'
  <2> TAKE q \in Processes
  <2>1. CASE q = p
    BY <2>1, <1>10 DEF CallSound, CallTyped, NoCommand
  <2>2. CASE q # p
    <3>1. CallSound(calls[q])
      BY DEF MemoryInv
    <3>2. ASSUME NEW xs, Queue(xs)  PROVE Queue(xs)'
      BY <3>2, <1>5, <1>6 DEF Queue
    <3> QED  BY <3>1, <3>2, <2>2, <1>10 DEF CallSound
  <2> QED  BY <2>1, <2>2
<1> QED  BY <1>4, <1>7, <1>8, <1>9, <1>10, <1>11 DEF MemoryInv

-----------------------------------------------------------------------------
(* The theorems. *)

LEMMA MemoryStartsSound == MemoryInit => MemoryInv
<1> SUFFICES ASSUME MemoryInit PROVE MemoryInv
  OBVIOUS
<1>1. FilesTyped
  BY DEF MemoryInit, FilesTyped
<1>2. IndexTyped
  <2>1. \A Rows : Tabled(Empty, Rows)
    BY DEF Tabled, Empty
  <2> QED  BY <2>1 DEF MemoryInit, IndexTyped, Tables
<1>3. past \in Pasts
  BY MemoryAssumptions DEF MemoryInit, Pasts
<1>4. DOMAIN calls = Processes /\ \A p \in Processes : CallSound(calls[p])
  BY IdleSound DEF MemoryInit
<1>5. Backed
  BY DEF MemoryInit, Backed, Empty
<1>6. Complete
  <2>1. Parses(beliefs) /\ Parses(skills) /\ IdsOf(beliefs) = {} /\ IdsOf(skills) = {}
    BY DEF MemoryInit, Parses, IdsOf
  <2> QED  BY <2>1 DEF Complete
<1> QED  BY <1>1, <1>2, <1>3, <1>4, <1>5, <1>6 DEF MemoryInv

LEMMA MemoryStepSound == MemoryInv /\ [MemoryNext]_memoryVars => MemoryInv'
<1> SUFFICES ASSUME MemoryInv, [MemoryNext]_memoryVars PROVE MemoryInv'
  OBVIOUS
<1>1. CASE UNCHANGED memoryVars
  <2>1. UNCHANGED <<beliefs, skills, cut, index, calls, past>>
    BY <1>1 DEF memoryVars
  <2>2. FilesTyped' /\ IndexTyped' /\ Backed' /\ past' \in Pasts
    BY <2>1 DEF MemoryInv, FilesTyped, IndexTyped, Backed
  <2>3. \A p \in Processes : CallSound(calls[p])'
    <3> TAKE p \in Processes
    <3>1. CallSound(calls[p])
      BY DEF MemoryInv
    <3> QED  BY <2>1, <3>1 DEF CallSound, Queue
  <2>4. ~past'.unsettled => Complete'
    BY <2>1 DEF MemoryInv, Complete, WillReadSkills, BringsItem, BringsSkill, Pending
  <2>5. DOMAIN calls' = Processes
    BY <2>1 DEF MemoryInv
  <2> QED  BY <2>2, <2>3, <2>4, <2>5 DEF MemoryInv
<1>2. CASE MemoryNext
  BY <1>2, ProposeInv, DecideProposalInv, SetProfileInv, ReviewsInv, ProposeSkillInv,
     AcceptSkillInv, ReviewsSkillInv, CommitsInv, DisableInv, ReindexInv, RestoresItemsInv,
     RestoresSkillsInv, WritesInv, DiesInv DEF MemoryNext
<1> QED  BY <1>1, <1>2

\* When no command runs, nothing is about to be brought.
LEMMA SettledAgrees == MemoryInv => IndexAgrees
<1> SUFFICES ASSUME MemoryInv PROVE IndexAgrees
  OBVIOUS
<1>1. Backed
  BY DEF MemoryInv
<1>2. ASSUME \A p \in Processes : calls[p] = NoCommand, ~past.unsettled
      PROVE  IdsOf(beliefs) = DOMAIN index.items /\ IdsOf(skills) = DOMAIN index.skills
  <2>1. Complete
    BY <1>2 DEF MemoryInv
  <2>2. \A p \in Processes : calls[p].at = "idle"
    BY <1>2 DEF NoCommand
  <2>3. Parses(beliefs) /\ Parses(skills)
    BY <2>1, <2>2 DEF Complete, WillReadSkills
  <2>4. IdsOf(beliefs) \subseteq DOMAIN index.items /\ IdsOf(skills) \subseteq DOMAIN index.skills
    BY <2>1, <2>2, <2>3 DEF Complete, WillReadSkills, BringsItem, BringsSkill, Pending
  <2> QED  BY <1>1, <2>3, <2>4 DEF Backed
<1> QED  BY <1>1, <1>2 DEF IndexAgrees, Backed

LEMMA MemoryInvariant == MemorySpec => []MemoryInv
  BY MemoryStartsSound, MemoryStepSound, PTL DEF MemorySpec

\* The memory and the skills the index lists are in the files, whatever commands
\* overlap and die, and once no command runs it lists all of them, unless one
\* died or met a torn line since the latest reindex (MemoryRepository, SkillStore
\* and MemoryIndex).
THEOREM MemoryIndexAgrees == MemorySpec => []IndexAgrees
  BY MemoryInvariant, SettledAgrees, PTL

LEMMA InvTyped == MemoryInv => MemoryTypeOK
<1> SUFFICES ASSUME MemoryInv PROVE MemoryTypeOK
  OBVIOUS
<1>1. beliefs \in Seq(Items \union {TornRow}) /\ skills \in Seq(Skills \union {TornRow})
        /\ cut \subseteq Files
  BY DEF MemoryInv, FilesTyped
<1>2. IndexTyped
  BY DEF MemoryInv
<1>3. /\ \A id \in DOMAIN index.items : id = index.items[id].id /\ index.items[id] \in Items
      /\ \A id \in DOMAIN index.skills : id = index.skills[id].id /\ index.skills[id] \in Skills
      /\ index.profile \in Values \union {NoValue}
  BY <1>2 DEF IndexTyped, Tabled
<1>4. \A id \in DOMAIN index.proposals :
        index.proposals[id] \in [id : {id}, status : Closings \ {"merged"}, item : Items]
  BY <1>2 DEF IndexTyped, Tabled, Proposals
<1>5. \A id \in DOMAIN index.skillProposals :
        index.skillProposals[id] \in [id : {id}, name : SkillNames, status : Closings]
  BY <1>2 DEF IndexTyped, Tabled, SkillProposals
<1>6. \A p \in Processes :
        calls[p].at \in {"idle", "review", "reviewSkill", "match", "readBeliefs", "readSkills", "write"}
  BY DEF MemoryInv, CallSound, CallTyped, NoCommand, ReadsBeliefs, ReadsSkills, ReviewingItem,
     ReviewingSkill, MatchingSkill, WritingRows
<1>7. past \in [commands : 0..MaxCommands, crashes : 0..MaxMemoryDeaths,
                raced : BOOLEAN, unsettled : BOOLEAN]
  BY DEF MemoryInv, Pasts
<1> QED  BY <1>1, <1>3, <1>4, <1>5, <1>6, <1>7 DEF MemoryTypeOK

\* Every line, row and process keeps its kind.
THEOREM MemoryTypeCorrect == MemorySpec => []MemoryTypeOK
  BY MemoryInvariant, InvTyped, PTL

-----------------------------------------------------------------------------
(* Disabled skills. *)

NamedIn(lines, name, status) ==
  {id \in IdsOf(lines) : Latest(lines, id).name = name /\ Latest(lines, id).status = status}

\* Saving the row brings back no name all of whose skills are disabled.
SafeSave(lines, row) ==
  row.status = "active" /\ NamedIn(lines, row.name, "disabled") # {} =>
    NamedIn(lines, row.name, "active") # {}

\* A command saves one skill at most, and safely.
SavesSafely(lines, ws) ==
  \A i \in 1..Len(ws) : ws[i].to = "skillFile" =>
    /\ SafeSave(lines, ws[i].row)
    /\ \A j \in 1..Len(ws) : ws[j].to = "skillFile" => j = i

\* Before two commands have overlapped no more than one runs, and it knows the
\* skills as they are.
AloneInv ==
  /\ "skillFile" \in cut => skills # <<>> /\ skills[Len(skills)] = TornRow
  /\ ~past.raced =>
       /\ \A p, q \in Processes : calls[p] # NoCommand /\ calls[q] # NoCommand => p = q
       /\ \A p \in Processes : calls[p].at = "write" => SavesSafely(skills, calls[p].writes)

\* A step of p to c that leaves the skill file alone.
Turns(p, c) ==
  /\ UNCHANGED <<skills, cut>>
  /\ calls' = [calls EXCEPT ![p] = c]
  /\ c.at = "write" => SavesSafely(skills, c.writes)
  /\ ~past'.raced => ~past.raced
  /\ ~past'.raced => calls[p] # NoCommand \/ \A q \in Processes : calls[q] = NoCommand

LEMMA NamedAgain ==
  \A name, status : Named(name, status) = NamedIn(skills, name, status)
  BY DEF Named, NamedIn

LEMMA TurnsAlone ==
  ASSUME MemoryInv, AloneInv, NEW p \in Processes, NEW c, Turns(p, c)
  PROVE  AloneInv' /\ skills' = skills
<1>1. /\ calls'[p] = c /\ \A q \in Processes : q # p => calls'[q] = calls[q]
      /\ skills' = skills /\ cut' = cut
  BY DEF MemoryInv, Turns
<1>2. ASSUME ~past'.raced
      PROVE  /\ \A q, r \in Processes : calls'[q] # NoCommand /\ calls'[r] # NoCommand => q = r
             /\ \A q \in Processes : calls'[q].at = "write" => SavesSafely(skills, calls'[q].writes)
  <2>1. \A q \in Processes : q # p => calls'[q] = NoCommand
    BY <1>1, <1>2 DEF Turns, AloneInv
  <2>2. \A q \in Processes : q # p => calls'[q].at # "write"
    BY <2>1 DEF NoCommand
  <2>3. c.at = "write" => SavesSafely(skills, c.writes)
    BY DEF Turns
  <2> QED  BY <1>1, <2>1, <2>2, <2>3
<1> QED  BY <1>1, <1>2 DEF AloneInv

\* A command starts when no other runs, or races.
LEMMA StartsTurn ==
  ASSUME MemoryInv, NEW p \in Processes, NEW c, Starts(p, c), UNCHANGED <<skills, cut>>,
         c.at = "write" => SavesSafely(skills, c.writes)
  PROVE  Turns(p, c)
<1>1. PICK o \in BOOLEAN, u \in BOOLEAN :
        /\ o = (past.raced \/ \E other \in Processes : calls[other] # NoCommand)
        /\ u = (past.unsettled /\ c # ReadsBeliefs)
  OBVIOUS
<1>2. past' = [past EXCEPT !.commands = @ + 1, !.raced = o, !.unsettled = u]
  BY <1>1 DEF Starts
<1>3. past'.raced = o
  <2>1. past \in Pasts
    BY DEF MemoryInv
  <2> QED  BY <1>2, <2>1 DEF Pasts
<1> QED  BY <1>1, <1>3 DEF Turns, Starts, Goes

LEMMA GoesTurn ==
  ASSUME MemoryInv, NEW p \in Processes, NEW c, calls' = [calls EXCEPT ![p] = c],
         calls[p].at # "idle", UNCHANGED <<skills, cut>>, past'.raced = past.raced,
         c.at = "write" => SavesSafely(skills, c.writes)
  PROVE  Turns(p, c)
  BY DEF Turns, NoCommand

LEMMA WritingSaves ==
  ASSUME NEW lines, NEW ws, NEW then, then.at # "write", SavesSafely(lines, ws)
  PROVE  Writing(ws, then).at = "write" => SavesSafely(lines, Writing(ws, then).writes)
<1>1. CASE ws = <<>>
  BY <1>1 DEF Writing
<1>2. CASE ws # <<>>
  <2>1. PICK c : c = [at |-> "write", writes |-> ws, then |-> then]
    OBVIOUS
  <2> QED  BY <1>2, <2>1 DEF Writing
<1> QED  BY <1>1, <1>2

LEMMA NoSaves ==
  ASSUME NEW lines, NEW ws, \A i \in 1..Len(ws) : ws[i].to # "skillFile"
  PROVE  SavesSafely(lines, ws)
  BY DEF SavesSafely

\* The latest line of an id stays the latest when a line of another one follows.
LEMMA LatestAppended ==
  ASSUME NEW lines \in Seq(Skills \union {TornRow}), NEW row \in Skills \union {TornRow}
  PROVE  /\ \A id \in IdsOf(lines) : id # row.id => Latest(Append(lines, row), id) = Latest(lines, id)
         /\ row \in Skills => /\ IdsOf(Append(lines, row)) = IdsOf(lines) \union {row.id}
                            /\ Latest(Append(lines, row), row.id) = row
         /\ row = TornRow => IdsOf(Append(lines, row)) = IdsOf(lines)
<1>1. PICK added : added = Append(lines, row)
  OBVIOUS
<1>2. /\ Len(lines) \in Nat /\ DOMAIN lines = 1..Len(lines)
      /\ DOMAIN added = 1..(Len(lines) + 1) /\ added[Len(lines) + 1] = row
      /\ \A i \in 1..Len(lines) : added[i] = lines[i]
  BY <1>1
<1>3. DOMAIN added = DOMAIN lines \union {Len(lines) + 1} /\ Len(lines) + 1 \notin DOMAIN lines
  BY <1>2
<1>4. ASSUME NEW id \in IdsOf(lines), id # row.id
      PROVE  Latest(added, id) = Latest(lines, id)
  <2>1. \A i : /\ i \in DOMAIN added
               /\ added[i].id = id
               /\ \A j \in DOMAIN added : added[j].id = id => j <= i
           <=> /\ i \in DOMAIN lines
               /\ lines[i].id = id
               /\ \A j \in DOMAIN lines : lines[j].id = id => j <= i
    BY <1>2, <1>3, <1>4
  <2>2. PICK at : at = CHOOSE i \in DOMAIN lines :
                         lines[i].id = id /\ \A j \in DOMAIN lines : lines[j].id = id => j <= i
    OBVIOUS
  <2>3. (CHOOSE i \in DOMAIN added :
           added[i].id = id /\ \A j \in DOMAIN added : added[j].id = id => j <= i) = at
    BY <2>1, <2>2
  <2>4. at \in DOMAIN lines
    <3>1. \E i \in DOMAIN lines : lines[i].id = id /\ \A j \in DOMAIN lines : lines[j].id = id => j <= i
      BY LastLine
    <3> QED  BY <2>2, <3>1
  <2> QED  BY <2>2, <2>3, <2>4, <1>2 DEF Latest
<1>5. ASSUME row \in Skills
      PROVE  IdsOf(added) = IdsOf(lines) \union {row.id} /\ Latest(added, row.id) = row
  <2>1. row.id # TornRow.id
    BY <1>5, RowIds
  <2>2. IdsOf(added) = IdsOf(lines) \union {row.id}
    BY <1>2, <1>3, <2>1 DEF IdsOf
  <2>3. \A i : /\ i \in DOMAIN added
               /\ added[i].id = row.id
               /\ \A j \in DOMAIN added : added[j].id = row.id => j <= i
           <=> i = Len(lines) + 1
    BY <1>2, <1>3
  <2>4. PICK at : at = CHOOSE i \in DOMAIN added :
                         added[i].id = row.id
                           /\ \A j \in DOMAIN added : added[j].id = row.id => j <= i
    OBVIOUS
  <2>5. at = Len(lines) + 1
    BY <2>3, <2>4
  <2> QED  BY <2>2, <2>4, <2>5, <1>2 DEF Latest
<1>6. row = TornRow => IdsOf(added) = IdsOf(lines)
  BY <1>2, <1>3 DEF IdsOf
<1> QED  BY <1>1, <1>4, <1>5, <1>6

\* A line moves its own id, and no other, to its name and status.
LEMMA NamedAppended ==
  ASSUME NEW lines \in Seq(Skills \union {TornRow}), NEW row \in Skills, NEW name, NEW status
  PROVE  NamedIn(Append(lines, row), name, status) \subseteq
           NamedIn(lines, name, status)
             \union (IF row.name = name /\ row.status = status THEN {row.id} ELSE {})
<1>1. PICK added : added = Append(lines, row)
  OBVIOUS
<1>2. /\ \A id \in IdsOf(lines) : id # row.id => Latest(added, id) = Latest(lines, id)
      /\ IdsOf(added) = IdsOf(lines) \union {row.id} /\ Latest(added, row.id) = row
  <2>1. row \in Skills \union {TornRow}
    OBVIOUS
  <2>2. \A id \in IdsOf(lines) : id # row.id => Latest(Append(lines, row), id) = Latest(lines, id)
    BY <2>1, LatestAppended
  <2>3. /\ IdsOf(Append(lines, row)) = IdsOf(lines) \union {row.id}
        /\ Latest(Append(lines, row), row.id) = row
    BY <2>1, LatestAppended
  <2> QED  BY <1>1, <2>2, <2>3
<1>3. ASSUME NEW id \in NamedIn(added, name, status), id # row.id
      PROVE  id \in NamedIn(lines, name, status)
  BY <1>2, <1>3 DEF NamedIn
<1>4. row.id \in NamedIn(added, name, status) => row.name = name /\ row.status = status
  BY <1>2 DEF NamedIn
<1> QED  BY <1>1, <1>3, <1>4

\* Part of a line changes nothing of what the file says.
LEMMA NamedTorn ==
  ASSUME NEW lines \in Seq(Skills \union {TornRow}), NEW name, NEW status
  PROVE  NamedIn(Append(lines, TornRow), name, status) = NamedIn(lines, name, status)
<1>1. PICK added : added = Append(lines, TornRow)
  OBVIOUS
<1>2. /\ \A id \in IdsOf(lines) : id # TornRow.id => Latest(added, id) = Latest(lines, id)
      /\ IdsOf(added) = IdsOf(lines)
  BY <1>1, LatestAppended
<1>3. \A id \in IdsOf(lines) : id # TornRow.id
  BY DEF IdsOf
<1> QED  BY <1>1, <1>2, <1>3 DEF NamedIn

\* A skill of a name is found when there is one.
LEMMA MatchingFound ==
  ASSUME NEW lines \in Seq(Skills \union {TornRow}), NEW name, Matching(lines, name) = {},
         NEW status
  PROVE  NamedIn(lines, name, status) = {}
<1> DEFINE Found == {id \in IdsOf(lines) : Latest(lines, id).name = name}
           Firsts == {i \in Nat : \E id \in Found : i = First(lines, id)}
<1>1. SUFFICES ASSUME NEW seen \in Found PROVE FALSE
  BY DEF NamedIn
<1>2. ASSUME NEW id \in Found  PROVE First(lines, id) \in Nat
  <2> DEFINE Mine == {i \in Nat : i \in DOMAIN lines /\ lines[i].id = id}
  <2>1. Len(lines) \in Nat /\ DOMAIN lines = 1..Len(lines)
    OBVIOUS
  <2>2. Mine # {}
    BY <1>2, <2>1 DEF IdsOf
  <2>3. PICK i \in Mine : \A j \in Mine : i <= j
    BY <2>2, Least
  <2>4. ASSUME NEW j \in 1..(i - 1)  PROVE lines[j].id # id
    <3>1. j \in Nat /\ j \in DOMAIN lines /\ ~(i <= j)
      BY <2>1, <2>3
    <3> QED  BY <3>1, <2>3
  <2>5. \E k \in DOMAIN lines : lines[k].id = id /\ \A j \in 1..(k - 1) : lines[j].id # id
    BY <2>3, <2>4
  <2>6. First(lines, id) \in DOMAIN lines
    BY <2>5 DEF First
  <2> QED  BY <2>1, <2>6
<1>3. Firsts # {}
  BY <1>1, <1>2
<1>4. PICK k \in Firsts : \A m \in Firsts : k <= m
  BY <1>3, Least
<1>5. PICK id \in Found : k = First(lines, id)
  BY <1>4
<1>6. \A j \in Found : First(lines, id) <= First(lines, j)
  BY <1>2, <1>4, <1>5
<1>7. Latest(lines, id) \in Matching(lines, name)
  BY <1>5, <1>6 DEF Matching
<1> QED  BY <1>7

-----------------------------------------------------------------------------
(* The commands, as far as they may save a skill. *)

LEMMA IdleTurns == NoCommand.at # "write" /\ ReadsBeliefs.at # "write" /\ ReadsSkills.at # "write"
  BY DEF NoCommand, ReadsBeliefs, ReadsSkills

LEMMA ProposeTurns ==
  ASSUME MemoryInv, NEW p \in Processes, NEW content, Propose(p, content)
  PROVE  Turns(p, NoCommand)
  BY IdleTurns, StartsTurn DEF Propose

LEMMA ProposeSkillTurns ==
  ASSUME MemoryInv, NEW p \in Processes, NEW name, ProposeSkill(p, name)
  PROVE  Turns(p, NoCommand)
  BY IdleTurns, StartsTurn DEF ProposeSkill

LEMMA ReindexTurns ==
  ASSUME MemoryInv, NEW p \in Processes, Reindex(p)
  PROVE  Turns(p, ReadsBeliefs)
  BY IdleTurns, StartsTurn DEF Reindex

LEMMA DecideProposalTurns ==
  ASSUME MemoryInv, NEW p \in Processes, NEW id, NEW decision, DecideProposal(p, id, decision)
  PROVE  \E c : Turns(p, c)
<1>1. PICK row, w, review, c :
        /\ row = index.proposals[id]
        /\ w = ToProposals([row EXCEPT !.status = "rejected"])
        /\ review = [at |-> "review", item |-> row.item, proposal |-> TRUE]
        /\ c = IF decision = "accepted" THEN review ELSE Writing(<<w>>, NoCommand)
        /\ Starts(p, c)
  BY DEF DecideProposal
<1>2. SavesSafely(skills, <<w>>)
  <2>1. PICK ws : ws = <<w>>
    OBVIOUS
  <2>2. Len(ws) = 1 /\ ws[1].to # "skillFile"
    BY <1>1, <2>1 DEF ToProposals
  <2> QED  BY <2>1, <2>2, NoSaves
<1>3. c.at = "write" => SavesSafely(skills, c.writes)
  BY <1>1, <1>2, IdleTurns, WritingSaves
<1>4. UNCHANGED <<skills, cut>>
  BY DEF DecideProposal
<1>5. Turns(p, c)
  BY <1>1, <1>3, <1>4, StartsTurn
<1> QED  BY <1>5

LEMMA SetProfileTurns ==
  ASSUME MemoryInv, NEW p \in Processes, NEW value, SetProfile(p, value)
  PROVE  \E c : Turns(p, c)
<1>1. PICK c : /\ c = [at |-> "review", item |-> NewItem(Fresh, ProfileContent[value]),
                       proposal |-> FALSE]
               /\ Starts(p, c)
  BY DEF SetProfile
<1>2. Turns(p, c)
  BY <1>1, StartsTurn DEF SetProfile
<1> QED  BY <1>2

LEMMA AcceptSkillTurns ==
  ASSUME MemoryInv, NEW p \in Processes, NEW id, AcceptSkill(p, id)
  PROVE  \E c : Turns(p, c)
<1>1. PICK row, item, c : c = [at |-> "reviewSkill", row |-> row, item |-> item] /\ Starts(p, c)
  BY DEF AcceptSkill
<1>2. Turns(p, c)
  BY <1>1, StartsTurn DEF AcceptSkill
<1> QED  BY <1>2

LEMMA DisableTurns ==
  ASSUME MemoryInv, NEW p \in Processes, NEW id, Disable(p, id)
  PROVE  \E c : Turns(p, c)
<1>1. PICK skill, ws, c :
        /\ skill = [Latest(skills, id) EXCEPT !.status = "disabled"]
        /\ ws = <<ToSkillFile(skill), ToSkills(skill)>>
        /\ c = Writing(ws, NoCommand) /\ Starts(p, c)
  BY DEF Disable
<1>2. skill.status = "disabled"
  <2>1. skills \in Seq(Skills \union {TornRow}) /\ id \in IdsOf(skills)
    BY DEF MemoryInv, FilesTyped, Disable
  <2>2. Latest(skills, id) \in Skills
    BY <2>1, LatestLine
  <2> QED  BY <1>1, <2>2 DEF Skills
<1>3. Len(ws) = 2 /\ ws[1].row = skill /\ ws[2].to # "skillFile"
  BY <1>1 DEF ToSkillFile, ToSkills
<1>4. SavesSafely(skills, ws)
  BY <1>2, <1>3 DEF SavesSafely, SafeSave
<1>5. Turns(p, c)
  BY <1>1, <1>4, IdleTurns, WritingSaves, StartsTurn DEF Disable
<1> QED  BY <1>5

LEMMA RestoredPast ==
  ASSUME MemoryInv, NEW p, NEW at, NEW lines, NEW ws, NEW then, Restores(p, at, lines, ws, then)
  PROVE  past'.raced = past.raced /\ calls[p].at = at /\ UNCHANGED <<skills, cut>>
<1>1. PICK u \in BOOLEAN : u = (past.unsettled \/ ~Parses(lines))
  OBVIOUS
<1>2. past' = [past EXCEPT !.unsettled = u]
  BY <1>1 DEF Restores
<1>3. past'.raced = past.raced
  BY <1>2 DEF MemoryInv, Pasts
<1> QED  BY <1>3 DEF Restores

LEMMA ReviewsTurns ==
  ASSUME MemoryInv, NEW p \in Processes, NEW noted \in BOOLEAN, Reviews(p, noted)
  PROVE  \E c : Turns(p, c)
<1>1. PICK written, kept, closed, last, c :
        /\ kept = IF written.action = "reject" THEN <<>> ELSE Remembered(written.item)
        /\ last = IF calls[p].proposal THEN <<ToProposals(closed)>> ELSE <<>>
        /\ c = Writing(kept \o last, NoCommand)
        /\ calls' = [calls EXCEPT ![p] = c]
  BY DEF Reviews, Goes
<1>2. kept \in {<<>>, <<ToBeliefs(written.item), ToItems(written.item)>>}
      /\ last \in {<<>>, <<ToProposals(closed)>>}
  BY <1>1 DEF Remembered
<1>3. PICK ws : ws = kept \o last
  OBVIOUS
<1>4. \A i \in 1..Len(ws) : ws[i] \in {ToBeliefs(written.item), ToItems(written.item), ToProposals(closed)}
  BY <1>2, <1>3
<1>5. \A i \in 1..Len(ws) : ws[i].to # "skillFile"
  BY <1>4 DEF ToBeliefs, ToItems, ToProposals
<1>6. c.at = "write" => SavesSafely(skills, c.writes)
  BY <1>1, <1>3, <1>5, IdleTurns, NoSaves, WritingSaves
<1>7. Turns(p, c)
  BY <1>1, <1>6, GoesTurn DEF Reviews
<1> QED  BY <1>7

LEMMA ReviewsSkillTurns ==
  ASSUME MemoryInv, NEW p \in Processes, NEW noted \in BOOLEAN, ReviewsSkill(p, noted)
  PROVE  \E c : Turns(p, c)
<1>1. PICK row, item, rejected, w, c :
        /\ w = ToSkillProposals(row)
        /\ \/ c = Writing(<<w>>, NoCommand)
           \/ c = [at |-> "match", row |-> row, item |-> item, rejected |-> rejected]
        /\ calls' = [calls EXCEPT ![p] = c]
  <2>1. CASE ~calls[p].item.content.permitted
    BY <2>1 DEF ReviewsSkill, Goes
  <2>2. CASE calls[p].item.content.permitted
    <3>0. PICK review : review = Review(calls[p].item, Active(index.items), noted)
      OBVIOUS
    <3>1. PICK rejected \in BOOLEAN : rejected = (review.action = "reject")
      <4>1. (review.action = "reject") \in BOOLEAN
        OBVIOUS
      <4> QED  BY <4>1, Zenon
    <3>2. calls' = [calls EXCEPT ![p] = [at |-> "match", row |-> calls[p].row, item |-> review.item,
                                         rejected |-> (review.action = "reject")]]
      BY <2>2, <3>0, Zenon DEF ReviewsSkill, Goes
    <3>3. calls' = [calls EXCEPT ![p] = [at |-> "match", row |-> calls[p].row, item |-> review.item,
                                         rejected |-> rejected]]
      BY <3>1, <3>2, Zenon
    <3> QED  BY <3>3
  <2> QED  BY <2>1, <2>2
<1>2. SavesSafely(skills, <<w>>)
  <2>1. PICK ws : ws = <<w>>
    OBVIOUS
  <2>2. Len(ws) = 1 /\ ws[1].to # "skillFile"
    BY <1>1, <2>1 DEF ToSkillProposals
  <2> QED  BY <2>1, <2>2, NoSaves
<1>3. c.at = "write" => SavesSafely(skills, c.writes)
  BY <1>1, <1>2, IdleTurns, WritingSaves
<1>4. Turns(p, c)
  BY <1>1, <1>3, GoesTurn DEF ReviewsSkill
<1> QED  BY <1>4

LEMMA RestoresItemsTurns ==
  ASSUME MemoryInv, NEW p \in Processes, RestoresItems(p)
  PROVE  \E c : Turns(p, c)
<1>1. PICK ws, c :
        /\ ws = [i \in DOMAIN beliefs |-> ToItems(beliefs[i])]
        /\ c = IF Parses(beliefs) THEN Writing(ws, ReadsSkills) ELSE NoCommand
        /\ calls' = [calls EXCEPT ![p] = c]
  BY DEF RestoresItems, Restores, Goes, ItemRows
<1>2. beliefs \in Seq(Items \union {TornRow})
  BY DEF MemoryInv, FilesTyped
<1>3. \A i \in 1..Len(ws) : ws[i].to # "skillFile"
  BY <1>1, <1>2 DEF ToItems
<1>4. c.at = "write" => SavesSafely(skills, c.writes)
  BY <1>1, <1>3, IdleTurns, NoSaves, WritingSaves
<1>5. past'.raced = past.raced /\ calls[p].at = "readBeliefs" /\ UNCHANGED <<skills, cut>>
  BY RestoredPast DEF RestoresItems
<1>6. Turns(p, c)
  BY <1>1, <1>4, <1>5, GoesTurn
<1> QED  BY <1>6

LEMMA RestoresSkillsTurns ==
  ASSUME MemoryInv, NEW p \in Processes, RestoresSkills(p)
  PROVE  \E c : Turns(p, c)
<1>0. PICK part \in Ascending(FirstLines(skills)) :
        Restores(p, "readSkills", skills,
                 [n \in DOMAIN part |-> ToSkills(Latest(skills, skills[part[n]].id))], NoCommand)
  BY DEF RestoresSkills
<1>1. PICK ws, c :
        /\ ws = [n \in DOMAIN part |-> ToSkills(Latest(skills, skills[part[n]].id))]
        /\ c = IF Parses(skills) THEN Writing(ws, NoCommand) ELSE NoCommand
        /\ calls' = [calls EXCEPT ![p] = c]
  BY <1>0 DEF Restores, Goes
<1>2. DOMAIN part = 1..Cardinality(FirstLines(skills)) /\ Cardinality(FirstLines(skills)) \in Nat
  <2>1. skills \in Seq(Skills \union {TornRow}) /\ Len(skills) \in Nat /\ DOMAIN skills = 1..Len(skills)
    BY DEF MemoryInv, FilesTyped
  <2>2. FirstLines(skills) \subseteq 1..Len(skills) /\ IsFiniteSet(1..Len(skills))
    BY <2>1, FS_Interval DEF FirstLines
  <2>3. IsFiniteSet(FirstLines(skills))
    BY <2>2, FS_Subset
  <2> QED  BY <2>2, <2>1, <2>3, AscendingOnto
<1>3. \A i \in 1..Len(ws) : ws[i].to # "skillFile"
  <2>1. Len(ws) = Cardinality(FirstLines(skills))
    BY <1>1, <1>2
  <2> QED  BY <2>1, <1>1, <1>2 DEF ToSkills
<1>4. c.at = "write" => SavesSafely(skills, c.writes)
  BY <1>1, <1>3, IdleTurns, NoSaves, WritingSaves
<1>5. past'.raced = past.raced /\ calls[p].at = "readSkills" /\ UNCHANGED <<skills, cut>>
  BY <1>0, RestoredPast
<1>6. Turns(p, c)
  BY <1>1, <1>4, <1>5, GoesTurn
<1> QED  BY <1>6

LEMMA CommitsTurns ==
  ASSUME MemoryInv, NEW p \in Processes, Commits(p)
  PROVE  \E c : Turns(p, c)
<1>1. PICK call, known : call = calls[p] /\ known = Matching(skills, call.row.name)
  OBVIOUS
<1>2. call.at = "match" /\ calls[p].at # "idle" /\ UNCHANGED <<skills, cut>>
        /\ past'.raced = past.raced
  BY <1>1 DEF Commits
<1>3. skills \in Seq(Skills \union {TornRow})
  BY DEF MemoryInv, FilesTyped
<1>4. PICK merged, skill, r, m, a, c :
        /\ merged = [(CHOOSE s \in known : TRUE) EXCEPT !.uses = @ + 1]
        /\ skill = [id |-> call.row.id, name |-> call.row.name, uses |-> 1, status |-> "active"]
        /\ r = ToSkillProposals([call.row EXCEPT !.status = "rejected"])
        /\ m = ToSkillProposals([call.row EXCEPT !.status = "merged"])
        /\ a = ToSkillProposals([call.row EXCEPT !.status = "accepted"])
        /\ calls' = [calls EXCEPT ![p] = c]
        /\ \/ c = NoCommand
           \/ c = Writing(<<r>>, NoCommand)
           \/ known # {} /\ c = Writing(<<ToSkillFile(merged), ToSkills(merged)>> \o <<m>>, NoCommand)
           \/ /\ known = {}
              /\ c = Writing(Remembered(call.item) \o <<ToSkillFile(skill), ToSkills(skill)>> \o <<a>>,
                             NoCommand)
  BY <1>1 DEF Commits, Goes
<1>5. r.to # "skillFile" /\ m.to # "skillFile" /\ a.to # "skillFile"
  BY <1>4 DEF ToSkillProposals
<1>6. c.at = "write" => SavesSafely(skills, c.writes)
  <2>1. CASE c = NoCommand
    BY <2>1, IdleTurns
  <2>2. CASE c = Writing(<<r>>, NoCommand)
    <3>1. PICK ws : ws = <<r>>
      OBVIOUS
    <3>2. SavesSafely(skills, ws)
      BY <1>5, <3>1, NoSaves
    <3> QED  BY <2>2, <3>1, <3>2, IdleTurns, WritingSaves
  <2>3. CASE known # {} /\ c = Writing(<<ToSkillFile(merged), ToSkills(merged)>> \o <<m>>, NoCommand)
    <3>1. PICK ws : ws = <<ToSkillFile(merged), ToSkills(merged)>> \o <<m>>
      OBVIOUS
    <3>2. Len(ws) = 3 /\ ws[1].row = merged /\ ws[2].to # "skillFile" /\ ws[3] = m
      BY <3>1 DEF ToSkillFile, ToSkills
    <3>3. SafeSave(skills, merged)
      <4>1. PICK s : s \in known /\ s = CHOOSE t \in known : TRUE
        BY <2>3
      <4>2. PICK id \in IdsOf(skills) : s = Latest(skills, id) /\ s.name = call.row.name
        BY <1>1, <4>1 DEF Matching
      <4>3. s \in Skills
        BY <1>3, <4>2, LatestLine
      <4>4. merged.name = s.name /\ merged.status = s.status
        BY <1>4, <4>1, <4>3 DEF Skills
      <4>5. id \in NamedIn(skills, s.name, s.status)
        BY <4>2 DEF NamedIn
      <4> QED  BY <4>4, <4>5 DEF SafeSave
    <3>4. SavesSafely(skills, ws)
      BY <1>5, <3>2, <3>3 DEF SavesSafely
    <3> QED  BY <2>3, <3>1, <3>4, IdleTurns, WritingSaves
  <2>4. CASE /\ known = {}
             /\ c = Writing(Remembered(call.item) \o <<ToSkillFile(skill), ToSkills(skill)>> \o <<a>>,
                            NoCommand)
    <3>1. PICK ws : ws = Remembered(call.item) \o <<ToSkillFile(skill), ToSkills(skill)>> \o <<a>>
      OBVIOUS
    <3>2. /\ Len(ws) = 5 /\ ws[3].row = skill /\ ws[5] = a
          /\ \A i \in {1, 2, 4} : ws[i].to # "skillFile"
      BY <3>1 DEF Remembered, ToBeliefs, ToItems, ToSkillFile, ToSkills
    <3>3. SafeSave(skills, skill)
      <4>1. NamedIn(skills, call.row.name, "disabled") = {}
        BY <1>1, <1>3, <2>4, MatchingFound
      <4> QED  BY <1>4, <4>1 DEF SafeSave
    <3>4. SavesSafely(skills, ws)
      BY <1>5, <3>2, <3>3 DEF SavesSafely
    <3> QED  BY <2>4, <3>1, <3>4, IdleTurns, WritingSaves
  <2> QED  BY <1>4, <2>1, <2>2, <2>3, <2>4
<1>7. Turns(p, c)
  BY <1>2, <1>4, <1>6, GoesTurn
<1> QED  BY <1>7

\* A name all of whose skills are disabled gets no active one.
StaysDisabled ==
  \A name \in SkillNames :
    ~past'.raced /\ Named(name, "disabled") # {} /\ Named(name, "active") = {}
      => Named(name, "active")' = {}

LEMMA SameSkills == ASSUME skills' = skills PROVE StaysDisabled
  BY DEF StaysDisabled, Named

\* A write saves what the command that runs alone found to be safe.
LEMMA WritesAlone ==
  ASSUME MemoryInv, AloneInv, NEW p \in Processes, Writes(p)
  PROVE  AloneInv' /\ StaysDisabled
<1>1. PICK ws, then, w, rest, c :
        /\ ws = calls[p].writes /\ then = calls[p].then /\ w = Head(ws) /\ rest = Tail(ws)
        /\ c = Writing(rest, then)
  OBVIOUS
<1>2. /\ calls[p].at = "write" /\ calls' = [calls EXCEPT ![p] = c]
      /\ skills' = IF w.to = "skillFile" THEN Added(skills, "skillFile" \in cut, w.row) ELSE skills
      /\ cut' = cut \ {w.to} /\ past' = past
  BY <1>1 DEF Writes, Goes
<1>3. skills \in Seq(Skills \union {TornRow})
  BY DEF MemoryInv, FilesTyped
<1>4. ws \in Seq(WriteRecords) /\ ws # <<>> /\ then \in {NoCommand, ReadsSkills}
  <2>1. calls[p] \in WritingRows
    BY <1>2 DEF MemoryInv, CallSound, CallTyped, NoCommand, ReadsBeliefs, ReadsSkills, ReviewingItem,
       ReviewingSkill, MatchingSkill
  <2> QED  BY <1>1, <2>1 DEF WritingRows
<1>5. /\ w = ws[1] /\ Len(ws) \in Nat /\ Len(ws) >= 1 /\ Len(rest) = Len(ws) - 1
      /\ \A i \in 1..Len(rest) : rest[i] = ws[i + 1] /\ i + 1 \in 1..Len(ws)
  BY <1>1, <1>4
<1>6. w.to = "skillFile" => w.row \in Skills
  <2>1. w \in WriteRecords
    BY <1>4, <1>5
  <2> QED  BY <2>1 DEF WriteRecords
<1>7. skills' = skills \/ (w.to = "skillFile" /\ skills' = Append(skills, w.row) /\ "skillFile" \notin cut)
  <2>1. CASE w.to = "skillFile" /\ "skillFile" \in cut
    <3>1. skills # <<>> /\ skills[Len(skills)] = TornRow
      BY <2>1 DEF AloneInv
    <3>2. PICK added : added = [skills EXCEPT ![Len(skills)] = TornRow]
      OBVIOUS
    <3>3. added = skills
      BY <1>3, <3>1, <3>2
    <3> QED  BY <1>2, <2>1, <3>2, <3>3 DEF Added
  <2>2. CASE w.to = "skillFile" /\ "skillFile" \notin cut
    BY <1>2, <2>2 DEF Added
  <2> QED  BY <1>2, <2>1, <2>2
<1>8. "skillFile" \in cut' => skills' # <<>> /\ skills'[Len(skills')] = TornRow
  <2>1. "skillFile" \in cut' => w.to # "skillFile" /\ "skillFile" \in cut
    BY <1>2
  <2> QED  BY <1>2, <2>1 DEF AloneInv
<1>9. ASSUME ~past.raced
      PROVE  /\ SavesSafely(skills, ws) /\ \A q \in Processes : q # p => calls[q] = NoCommand
  BY <1>1, <1>2, <1>9 DEF AloneInv, NoCommand
<1>10. ASSUME ~past'.raced
       PROVE  /\ \A q, r \in Processes : calls'[q] # NoCommand /\ calls'[r] # NoCommand => q = r
              /\ \A q \in Processes : calls'[q].at = "write" => SavesSafely(skills', calls'[q].writes)
  <2>1. /\ calls'[p] = c /\ \A q \in Processes : q # p => calls'[q] = NoCommand
    BY <1>2, <1>9, <1>10 DEF MemoryInv
  <2>2. SavesSafely(skills', rest)
    <3>1. CASE w.to = "skillFile"
      <4>1. \A i \in 1..Len(rest) : rest[i].to # "skillFile"
        BY <1>2, <1>5, <1>9, <1>10, <3>1 DEF SavesSafely
      <4> QED  BY <4>1, NoSaves
    <3>2. CASE w.to # "skillFile"
      <4>1. SavesSafely(skills, ws) /\ skills' = skills
        BY <1>2, <1>9, <1>10, <3>2
      <4>2. SavesSafely(skills, rest)
        <5>1. SUFFICES ASSUME NEW i \in 1..Len(rest), rest[i].to = "skillFile"
                       PROVE  /\ SafeSave(skills, rest[i].row)
                              /\ \A j \in 1..Len(rest) : rest[j].to = "skillFile" => j = i
          BY DEF SavesSafely
        <5>2. i + 1 \in 1..Len(ws) /\ ws[i + 1] = rest[i]
          BY <1>5
        <5>3. /\ SafeSave(skills, rest[i].row)
              /\ \A j \in 1..Len(ws) : ws[j].to = "skillFile" => j = i + 1
          BY <4>1, <5>1, <5>2 DEF SavesSafely
        <5>4. ASSUME NEW j \in 1..Len(rest), rest[j].to = "skillFile"  PROVE j = i
          BY <1>5, <5>3, <5>4
        <5> QED  BY <5>3, <5>4
      <4> QED  BY <4>1, <4>2
    <3> QED  BY <3>1, <3>2
  <2>3. then.at # "write"
    BY <1>4, IdleTurns
  <2>4. c.at = "write" => SavesSafely(skills', c.writes)
    BY <1>1, <2>2, <2>3, WritingSaves
  <2> QED  BY <2>1, <2>4, IdleTurns
<1>11. AloneInv'
  BY <1>8, <1>10 DEF AloneInv
<1>12. StaysDisabled
  <2>1. CASE skills' = skills
    BY <2>1, SameSkills
  <2>2. CASE w.to = "skillFile" /\ skills' = Append(skills, w.row)
    <3>1. SUFFICES ASSUME NEW name \in SkillNames, ~past'.raced,
                          NamedIn(skills, name, "disabled") # {}, NamedIn(skills, name, "active") = {}
                   PROVE  NamedIn(skills', name, "active") = {}
      BY DEF StaysDisabled, Named, NamedIn
    <3>2. SafeSave(skills, w.row)
      BY <1>2, <1>5, <1>9, <2>2, <3>1 DEF SavesSafely
    <3>3. ~(w.row.name = name /\ w.row.status = "active")
      BY <3>1, <3>2 DEF SafeSave
    <3>4. PICK row : row = w.row
      OBVIOUS
    <3>5. NamedIn(Append(skills, row), name, "active") \subseteq NamedIn(skills, name, "active")
      BY <1>3, <1>6, <2>2, <3>3, <3>4, NamedAppended
    <3> QED  BY <2>2, <3>1, <3>4, <3>5
  <2> QED  BY <1>7, <2>1, <2>2
<1> QED  BY <1>11, <1>12

\* Part of a line is no skill.
LEMMA DiesAlone ==
  ASSUME MemoryInv, AloneInv, NEW p \in Processes, NEW part \in BOOLEAN, Dies(p, part)
  PROVE  AloneInv' /\ StaysDisabled
<1>1. PICK to : to = IF calls[p].at = "write" THEN Head(calls[p].writes).to ELSE "nowhere"
  OBVIOUS
<1>2. /\ calls[p] # NoCommand /\ calls' = [calls EXCEPT ![p] = NoCommand]
      /\ skills' = IF part /\ to = "skillFile" THEN Added(skills, to \in cut, TornRow) ELSE skills
      /\ cut' = IF part THEN cut \union {to} ELSE cut
  BY <1>1 DEF Dies, Goes
<1>3. past'.raced = past.raced
  <2>1. past \in Pasts
    BY DEF MemoryInv
  <2> QED  BY <2>1 DEF Dies, Pasts
<1>4. skills \in Seq(Skills \union {TornRow})
  BY DEF MemoryInv, FilesTyped
<1>5. \/ skills' = skills /\ ("skillFile" \in cut' => "skillFile" \in cut)
      \/ skills' = Append(skills, TornRow)
  <2>1. CASE part /\ to = "skillFile" /\ to \in cut
    <3>1. skills # <<>> /\ skills[Len(skills)] = TornRow
      BY <2>1 DEF AloneInv
    <3>2. PICK added : added = [skills EXCEPT ![Len(skills)] = TornRow]
      OBVIOUS
    <3>3. added = skills
      BY <1>4, <3>1, <3>2
    <3> QED  BY <1>2, <2>1, <3>2, <3>3 DEF Added
  <2>2. CASE part /\ to = "skillFile" /\ to \notin cut
    BY <1>2, <2>2 DEF Added
  <2>3. CASE ~(part /\ to = "skillFile")
    BY <1>2, <2>3
  <2> QED  BY <2>1, <2>2, <2>3
<1>6. "skillFile" \in cut' => skills' # <<>> /\ skills'[Len(skills')] = TornRow
  <2>1. CASE skills' = Append(skills, TornRow)
    <3>1. PICK added : added = Append(skills, TornRow)
      OBVIOUS
    <3>2. added # <<>> /\ added[Len(added)] = TornRow
      BY <1>4, <3>1
    <3> QED  BY <2>1, <3>1, <3>2
  <2> QED  BY <1>5, <2>1 DEF AloneInv
<1>7. ASSUME ~past'.raced
      PROVE  /\ \A q, r \in Processes : calls'[q] # NoCommand /\ calls'[r] # NoCommand => q = r
             /\ \A q \in Processes : calls'[q].at = "write" => SavesSafely(skills', calls'[q].writes)
  <2>1. \A q \in Processes : calls'[q] = NoCommand
    BY <1>2, <1>3, <1>7 DEF AloneInv, MemoryInv
  <2> QED  BY <2>1, IdleTurns
<1>8. AloneInv'
  BY <1>6, <1>7 DEF AloneInv
<1>9. StaysDisabled
  <2>1. CASE skills' = skills
    BY <2>1, SameSkills
  <2>2. CASE skills' = Append(skills, TornRow)
    <3>1. \A name : NamedIn(Append(skills, TornRow), name, "active") = NamedIn(skills, name, "active")
      BY <1>4, NamedTorn
    <3>2. SUFFICES ASSUME NEW name \in SkillNames, NamedIn(skills, name, "active") = {}
                   PROVE  NamedIn(skills', name, "active") = {}
      BY DEF StaysDisabled, Named, NamedIn
    <3> QED  BY <2>2, <3>1, <3>2
  <2> QED  BY <1>5, <2>1, <2>2
<1> QED  BY <1>8, <1>9

LEMMA AloneStep ==
  ASSUME MemoryInv, AloneInv, [MemoryNext]_memoryVars
  PROVE  AloneInv' /\ StaysDisabled
<1>1. CASE UNCHANGED memoryVars
  <2>1. skills' = skills /\ cut' = cut /\ calls' = calls /\ past' = past
    BY <1>1 DEF memoryVars
  <2> QED  BY <2>1, SameSkills DEF AloneInv
<1>2. ASSUME NEW p \in Processes, \E c : Turns(p, c)  PROVE AloneInv' /\ StaysDisabled
  BY <1>2, TurnsAlone, SameSkills
<1>3. CASE MemoryNext
  <2>1. PICK p \in Processes :
          \/ \E content \in Contents : Propose(p, content)
          \/ \E id \in Ids, decision \in {"accepted", "rejected"} : DecideProposal(p, id, decision)
          \/ \E value \in Values : SetProfile(p, value)
          \/ \E noted \in BOOLEAN : Reviews(p, noted)
          \/ \E name \in SkillNames : ProposeSkill(p, name)
          \/ \E id \in Ids : AcceptSkill(p, id)
          \/ \E noted \in BOOLEAN : ReviewsSkill(p, noted)
          \/ Commits(p)
          \/ \E id \in Ids : Disable(p, id)
          \/ Reindex(p)
          \/ RestoresItems(p)
          \/ RestoresSkills(p)
          \/ Writes(p)
          \/ \E part \in BOOLEAN : Dies(p, part)
    BY <1>3 DEF MemoryNext
  <2>2. CASE Writes(p)
    BY <2>2, WritesAlone
  <2>3. CASE \E part \in BOOLEAN : Dies(p, part)
    BY <2>3, DiesAlone
  <2>4. CASE ~Writes(p) /\ ~(\E part \in BOOLEAN : Dies(p, part))
    <3>1. \E c : Turns(p, c)
      BY <2>1, <2>4, ProposeTurns, DecideProposalTurns, SetProfileTurns, ReviewsTurns,
         ProposeSkillTurns, AcceptSkillTurns, ReviewsSkillTurns, CommitsTurns, DisableTurns,
         ReindexTurns, RestoresItemsTurns, RestoresSkillsTurns
    <3> QED  BY <1>2, <3>1
  <2> QED  BY <2>2, <2>3, <2>4
<1> QED  BY <1>1, <1>3

LEMMA AloneStarts == MemoryInit => AloneInv
  BY IdleTurns DEF MemoryInit, AloneInv

\* Until two commands have overlapped, a skill that was disabled does not come
\* back under its name: a merge saves it with the status it has, a new skill is
\* saved only under a name nobody has, and part of a line is no skill
\* (SkillStore.disable, accept and find_similar).
THEOREM DisabledSkillsStay == MemorySpec => DisabledStaysDisabled
<1>1. MemoryInv /\ AloneInv /\ [MemoryNext]_memoryVars => AloneInv' /\ StaysDisabled
  BY AloneStep
<1>2. StaysDisabled <=>
        \A name \in SkillNames :
          ~past'.raced /\ Named(name, "disabled") # {} /\ Named(name, "active") = {}
            => Named(name, "active")' = {}
  BY DEF StaysDisabled
<1> QED  BY <1>1, <1>2, MemoryInvariant, AloneStarts, PTL DEF MemorySpec, DisabledStaysDisabled
=============================================================================
