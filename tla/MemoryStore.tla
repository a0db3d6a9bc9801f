---------------------------- MODULE MemoryStore ----------------------------
(***************************************************************************)
(* The memory repository: two append-only files, an index, and the         *)
(* commands that several processes run over them.                          *)
(*                                                                         *)
(* beliefs.jsonl and skills.jsonl are appended to, line by line.  The      *)
(* SQLite index holds a row per memory item and per skill, which reindex   *)
(* rebuilds from the files, and the proposals and the profile, which are   *)
(* nowhere else.  Every statement is a transaction of its own, so a        *)
(* command is a sequence of reads and writes: other processes come between *)
(* any two of them, and the process may die there.                         *)
(***************************************************************************)
EXTENDS Integers, Sequences, FiniteSets

CONSTANTS
  Processes,   \* the processes that run commands
  Contents,    \* what memory items may say
  SkillNames,  \* the names of skills
  Values,      \* the values of the one profile key
  SkillContent,   \* the memory that goes with a skill
  ProfileContent, \* the memory that goes with a profile value
  NoValue,     \* no value
  MaxCommands, \* bound on the commands run
  MaxMemoryDeaths   \* bound on the processes that die

Said(content) ==
  /\ content.permitted \in BOOLEAN   \* by policy
  /\ content.sound \in BOOLEAN       \* confidence, source, version, layer and scope pass

ASSUME MemoryAssumptions ==
  /\ \A content \in Contents : Said(content)
  /\ \A name \in SkillNames : Said(SkillContent[name])
  /\ \A value \in Values : Said(ProfileContent[value])
  /\ MaxCommands \in Nat
  /\ MaxMemoryDeaths \in Nat

VARIABLES
  beliefs, \* the lines of beliefs.jsonl
  skills,  \* the lines of skills.jsonl
  cut,     \* the files whose last line has no end
  index,   \* the SQLite tables
  calls,   \* what each process is doing
  past  \* what happened, for the bounds and the properties

memoryVars == <<beliefs, skills, cut, index, calls, past>>

Ids == 1..MaxCommands

\* A line that is not JSON: MemoryItem and Skill cannot be read past it.
TornRow == [id |-> 0]

NoCommand == [at |-> "idle"]
ReadsBeliefs == [at |-> "readBeliefs"]
ReadsSkills == [at |-> "readSkills"]

Empty == [id \in {} |-> NoValue]

MemoryInit ==
  /\ beliefs = <<>>
  /\ skills = <<>>
  /\ cut = {}
  /\ index = [items |-> Empty, skills |-> Empty, proposals |-> Empty,
              skillProposals |-> Empty, profile |-> NoValue]
  /\ calls = [process \in Processes |-> NoCommand]
  /\ past = [commands |-> 0, crashes |-> 0, raced |-> FALSE, unsettled |-> FALSE]

\* INSERT OR REPLACE.
Upsert(table, row) ==
  [id \in DOMAIN table \union {row.id} |-> IF id = row.id THEN row ELSE table[id]]

-----------------------------------------------------------------------------
(* Governance. *)

Active(table) == {table[id] : id \in {i \in DOMAIN table : table[i].status = "active"}}

SameContent(prior, content) ==
  prior.content.kind = content.kind /\ prior.content.normal = content.normal

Clash(prior, content) ==
  prior.content.tags \intersect content.tags # {} /\ prior.content.text # content.text

\* A duplicate ends the review: a clash met before it is noted, one that comes
\* after it is not.
Review(item, existing, noted) ==
  LET content == item.content
      clashes == item.clashes \/ \E prior \in existing : Clash(prior, content)
  IN  IF \E prior \in existing : SameContent(prior, content)
      THEN [action |-> IF content.type = "skill" THEN "merge" ELSE "reject",
            item |-> [item EXCEPT !.clashes = @ \/ (noted /\ clashes)]]
      ELSE IF ~content.sound
      THEN [action |-> "reject", item |-> [item EXCEPT !.clashes = clashes]]
      ELSE IF clashes
      THEN [action |-> "merge", item |-> [item EXCEPT !.clashes = TRUE, !.status = "conflicted"]]
      ELSE [action |-> "allow", item |-> item]

\* What policy does not allow is not reviewed; a merge is kept as a conflict.
WriteMemory(item, existing, noted) ==
  LET review == Review(item, existing, noted)
  IN  IF ~item.content.permitted THEN [action |-> "reject", item |-> item]
      ELSE IF review.action = "merge" THEN [review EXCEPT !.item.status = "conflicted"]
      ELSE review

-----------------------------------------------------------------------------
(* What a command still has to write. *)

ToBeliefs(item) == [to |-> "beliefs", row |-> item]
ToItems(item) == [to |-> "items", row |-> item]
ToSkillFile(skill) == [to |-> "skillFile", row |-> skill]
ToSkills(skill) == [to |-> "skills", row |-> skill]
ToProposals(row) == [to |-> "proposals", row |-> row]
ToSkillProposals(row) == [to |-> "skillProposals", row |-> row]

\* The rest of a command: its writes in order, and what it reads after them.
Writing(writes, then) ==
  IF writes = <<>> THEN then ELSE [at |-> "write", writes |-> writes, then |-> then]

\* Mutant: the index comes first.
RememberedInIndexFirst(item) == <<ToItems(item), ToBeliefs(item)>>

\* The file comes before the index.
Remembered(item) == <<ToBeliefs(item), ToItems(item)>>

NewItem(id, content) == [id |-> id, content |-> content, status |-> "active", clashes |-> FALSE]

Goes(process, call) == calls' = [calls EXCEPT ![process] = call]

\* A command starts; a reindex makes up for the commands that died before it.
Starts(process, call) ==
  /\ calls[process] = NoCommand
  /\ past.commands < MaxCommands
  /\ past' = [past EXCEPT !.commands = @ + 1,
                                !.raced = @ \/ \E other \in Processes : calls[other] # NoCommand,
                                !.unsettled = @ /\ call # ReadsBeliefs]
  /\ Goes(process, call)

Fresh == past.commands + 1

-----------------------------------------------------------------------------
(* Memory proposals and the profile. *)

\* memory propose, or the extractor after a run.
Propose(process, content) ==
  /\ Starts(process, NoCommand)
  /\ index' = [index EXCEPT !.proposals =
                 Upsert(@, [id |-> Fresh, status |-> "pending", item |-> NewItem(Fresh, content)])]
  /\ UNCHANGED <<beliefs, skills, cut>>

\* memory accept and memory reject: whether it was decided before is not asked.
DecideProposal(process, id, decision) ==
  /\ id \in DOMAIN index.proposals
  /\ LET row == index.proposals[id]
     IN  Starts(process,
                IF decision = "accepted"
                THEN [at |-> "review", item |-> row.item, proposal |-> TRUE]
                ELSE Writing(<<ToProposals([row EXCEPT !.status = "rejected"])>>, NoCommand))
  /\ UNCHANGED <<beliefs, skills, cut, index>>

\* profile set: the row, then a memory that says the same.
SetProfile(process, value) ==
  /\ Starts(process, [at |-> "review", item |-> NewItem(Fresh, ProfileContent[value]),
                      proposal |-> FALSE])
  /\ index' = [index EXCEPT !.profile = value]
  /\ UNCHANGED <<beliefs, skills, cut>>

\* The review against the active memory of this moment, and what follows from it.
Reviews(process, noted) ==
  /\ calls[process].at = "review"
  /\ LET call == calls[process]
         written == WriteMemory(call.item, Active(index.items), noted)
         kept == IF written.action = "reject" THEN <<>> ELSE Remembered(written.item)
         closed == [id |-> call.item.id, item |-> written.item,
                    status |-> IF written.action = "reject" THEN "rejected" ELSE "accepted"]
     IN  Goes(process, Writing(kept \o IF call.proposal THEN <<ToProposals(closed)>> ELSE <<>>,
                               NoCommand))
  /\ UNCHANGED <<beliefs, skills, cut, index, past>>

-----------------------------------------------------------------------------
(* Skills. *)

Parses(lines) == \A i \in DOMAIN lines : lines[i] # TornRow

IdsOf(lines) == {lines[i].id : i \in DOMAIN lines} \ {TornRow.id}

\* The latest line of an id.
Latest(lines, id) ==
  lines[CHOOSE i \in DOMAIN lines :
          lines[i].id = id /\ \A j \in DOMAIN lines : lines[j].id = id => j <= i]

\* Ids come in the order of their first lines.
First(lines, id) ==
  CHOOSE i \in DOMAIN lines : lines[i].id = id /\ \A j \in 1..(i - 1) : lines[j].id # id

\* Mutant: a disabled skill is not found again.
MatchingActive(lines, name) ==
  LET found == {id \in IdsOf(lines) : /\ Latest(lines, id).name = name
                                      /\ Latest(lines, id).status = "active"}
  IN  {Latest(lines, id) : id \in {i \in found : \A j \in found : First(lines, i) <= First(lines, j)}}

\* The skill of that name and those tags, if there is one: disabled ones too.
Matching(lines, name) ==
  LET found == {id \in IdsOf(lines) : Latest(lines, id).name = name}
  IN  {Latest(lines, id) : id \in {i \in found : \A j \in found : First(lines, i) <= First(lines, j)}}

\* The kernel proposes a skill after a run that succeeded.
ProposeSkill(process, name) ==
  /\ Starts(process, NoCommand)
  /\ index' = [index EXCEPT !.skillProposals =
                 Upsert(@, [id |-> Fresh, name |-> name, status |-> "pending"])]
  /\ UNCHANGED <<beliefs, skills, cut>>

\* skills accept, which reads the skill file first whatever it is asked for.
AcceptSkill(process, id) ==
  /\ Parses(skills)
  /\ id \in DOMAIN index.skillProposals
  /\ Starts(process, [at |-> "reviewSkill", row |-> index.skillProposals[id],
                      item |-> NewItem(Fresh, SkillContent[index.skillProposals[id].name])])
  /\ UNCHANGED <<beliefs, skills, cut, index>>

ReviewsSkill(process, noted) ==
  /\ calls[process].at = "reviewSkill"
  /\ LET call == calls[process]
         review == Review(call.item, Active(index.items), noted)
     IN  Goes(process,
              IF ~call.item.content.permitted
              THEN Writing(<<ToSkillProposals([call.row EXCEPT !.status = "rejected"])>>, NoCommand)
              ELSE [at |-> "match", row |-> call.row, item |-> review.item,
                    rejected |-> review.action = "reject"])
  /\ UNCHANGED <<beliefs, skills, cut, index, past>>

\* A skill that is known already gets the counts added, its own among them when
\* its proposal is accepted again; any other is stored with a memory.
Commits(process) ==
  /\ calls[process].at = "match"
  /\ LET call == calls[process]
         known == Matching(skills, call.row.name)
         merged == [(CHOOSE skill \in known : TRUE) EXCEPT !.uses = @ + 1]
         skill == [id |-> call.row.id, name |-> call.row.name, uses |-> 1, status |-> "active"]
         Closed(status) == <<ToSkillProposals([call.row EXCEPT !.status = status])>>
     IN  Goes(process,
              IF ~Parses(skills) THEN NoCommand
              ELSE IF call.rejected THEN Writing(Closed("rejected"), NoCommand)
              ELSE IF known # {}
              THEN Writing(<<ToSkillFile(merged), ToSkills(merged)>> \o Closed("merged"), NoCommand)
              ELSE Writing(Remembered(call.item) \o <<ToSkillFile(skill), ToSkills(skill)>>
                             \o Closed("accepted"), NoCommand))
  /\ UNCHANGED <<beliefs, skills, cut, index, past>>

\* skills disable saves the skill as it was read.
Disable(process, id) ==
  /\ Parses(skills)
  /\ id \in IdsOf(skills)
  /\ LET skill == [Latest(skills, id) EXCEPT !.status = "disabled"]
     IN  Starts(process, Writing(<<ToSkillFile(skill), ToSkills(skill)>>, NoCommand))
  /\ UNCHANGED <<beliefs, skills, cut, index>>

-----------------------------------------------------------------------------
(* memory reindex. *)

\* All tables are emptied, those included that are rebuilt from nothing.
Reindex(process) ==
  /\ Starts(process, ReadsBeliefs)
  /\ index' = [items |-> Empty, skills |-> Empty, proposals |-> Empty,
               skillProposals |-> Empty, profile |-> NoValue]
  /\ UNCHANGED <<beliefs, skills, cut>>

\* What a file holds is written to the index; a line that cannot be read ends
\* the command there.
Restores(process, at, lines, writes, then) ==
  /\ calls[process].at = at
  /\ Goes(process, IF Parses(lines) THEN Writing(writes, then) ELSE NoCommand)
  /\ past' = [past EXCEPT !.unsettled = @ \/ ~Parses(lines)]
  /\ UNCHANGED <<beliefs, skills, cut, index>>

\* Every line of the beliefs.
ItemRows == [i \in DOMAIN beliefs |-> ToItems(beliefs[i])]

\* Mutant: the skills are forgotten.
RestoresItemsOnly(process) == Restores(process, "readBeliefs", beliefs, ItemRows, NoCommand)

RestoresItems(process) == Restores(process, "readBeliefs", beliefs, ItemRows, ReadsSkills)

FirstLines(lines) == {i \in DOMAIN lines : \A j \in 1..(i - 1) : lines[j].id # lines[i].id}

\* The indices in ascending order: there is just one such sequence.
Ascending(indices) ==
  {part \in [1..Cardinality(indices) -> indices] :
     \A m, n \in DOMAIN part : m < n => part[m] < part[n]}

\* Of each skill the latest line, in the order of the first ones.
RestoresSkills(process) == \E part \in Ascending(FirstLines(skills)) :
  Restores(process, "readSkills", skills,
           [n \in DOMAIN part |-> ToSkills(Latest(skills, skills[part[n]].id))], NoCommand)

-----------------------------------------------------------------------------
(* Writes and deaths. *)

\* A line that follows one without an end becomes part of it.
Added(lines, open, line) ==
  IF open THEN [lines EXCEPT ![Len(lines)] = TornRow] ELSE Append(lines, line)

\* The file a write appends a line to.
Files == {"beliefs", "skillFile"}

Writes(process) ==
  /\ calls[process].at = "write"
  /\ LET call == calls[process]
         write == Head(call.writes)
     IN  /\ Goes(process, Writing(Tail(call.writes), call.then))
         /\ beliefs' = IF write.to = "beliefs"
                       THEN Added(beliefs, "beliefs" \in cut, write.row) ELSE beliefs
         /\ skills' = IF write.to = "skillFile"
                      THEN Added(skills, "skillFile" \in cut, write.row) ELSE skills
         /\ cut' = cut \ {write.to}
         /\ index' = IF write.to \in Files THEN index
                     ELSE [index EXCEPT ![write.to] = Upsert(@, write.row)]
  /\ UNCHANGED past

\* A process dies; in the middle of an append it may leave part of a line.
Dies(process, part) ==
  /\ calls[process] # NoCommand
  /\ past.crashes < MaxMemoryDeaths
  /\ LET call == calls[process]
         to == IF call.at = "write" THEN Head(call.writes).to ELSE "nowhere"
     IN  /\ part => to \in Files
         /\ beliefs' = IF part /\ to = "beliefs"
                       THEN Added(beliefs, to \in cut, TornRow) ELSE beliefs
         /\ skills' = IF part /\ to = "skillFile"
                      THEN Added(skills, to \in cut, TornRow) ELSE skills
         /\ cut' = IF part THEN cut \union {to} ELSE cut
  /\ Goes(process, NoCommand)
  /\ past' = [past EXCEPT !.crashes = @ + 1, !.unsettled = TRUE]
  /\ UNCHANGED index

MemoryNext == \E process \in Processes :
  \/ \E content \in Contents : Propose(process, content)
  \/ \E id \in Ids, decision \in {"accepted", "rejected"} : DecideProposal(process, id, decision)
  \/ \E value \in Values : SetProfile(process, value)
  \/ \E noted \in BOOLEAN : Reviews(process, noted)
  \/ \E name \in SkillNames : ProposeSkill(process, name)
  \/ \E id \in Ids : AcceptSkill(process, id)
  \/ \E noted \in BOOLEAN : ReviewsSkill(process, noted)
  \/ Commits(process)
  \/ \E id \in Ids : Disable(process, id)
  \/ Reindex(process)
  \/ RestoresItems(process)
  \/ RestoresSkills(process)
  \/ Writes(process)
  \/ \E part \in BOOLEAN : Dies(process, part)

MemorySpec == MemoryInit /\ [][MemoryNext]_memoryVars

-----------------------------------------------------------------------------
(* Properties. *)

Items == [id : Ids, content : Contents \union {SkillContent[name] : name \in SkillNames}
                              \union {ProfileContent[value] : value \in Values},
          status : {"active", "conflicted"}, clashes : BOOLEAN]

Skills == [id : Ids, name : SkillNames, uses : Nat \ {0}, status : {"active", "disabled"}]

Closings == {"pending", "accepted", "rejected", "merged"}

\* Every line, row and process is of its kind.
MemoryTypeOK ==
  /\ beliefs \in Seq(Items \union {TornRow})
  /\ skills \in Seq(Skills \union {TornRow})
  /\ cut \subseteq Files
  /\ \A id \in DOMAIN index.items : id = index.items[id].id /\ index.items[id] \in Items
  /\ \A id \in DOMAIN index.skills : id = index.skills[id].id /\ index.skills[id] \in Skills
  /\ \A id \in DOMAIN index.proposals :
       index.proposals[id] \in [id : {id}, status : Closings \ {"merged"}, item : Items]
  /\ \A id \in DOMAIN index.skillProposals :
       index.skillProposals[id] \in [id : {id}, name : SkillNames, status : Closings]
  /\ index.profile \in Values \union {NoValue}
  /\ \A process \in Processes :
       calls[process].at \in {"idle", "review", "reviewSkill", "match", "readBeliefs",
                              "readSkills", "write"}
  /\ past \in [commands : 0..MaxCommands, crashes : 0..MaxMemoryDeaths,
                  raced : BOOLEAN, unsettled : BOOLEAN]

\* What the index answers from is in the files: the memory and the skills it
\* lists, and the memory of a proposal it calls accepted; whichever commands
\* overlap and wherever one dies, unless a torn line has made the file unreadable.
\* And when no command runs it lists all that the files hold, although commands
\* wrote while it was rebuilt; unless a command died, or a line could not be read,
\* since the latest reindex began.
IndexAgrees ==
  /\ Parses(beliefs) =>
       /\ DOMAIN index.items \subseteq IdsOf(beliefs)
       /\ \A id \in DOMAIN index.proposals :
            index.proposals[id].status = "accepted" => id \in IdsOf(beliefs)
  /\ Parses(skills) => DOMAIN index.skills \subseteq IdsOf(skills)
  /\ (\A process \in Processes : calls[process] = NoCommand) /\ ~past.unsettled =>
       /\ IdsOf(beliefs) = DOMAIN index.items
       /\ IdsOf(skills) = DOMAIN index.skills

Named(name, status) ==
  {id \in IdsOf(skills) : Latest(skills, id).name = name /\ Latest(skills, id).status = status}

\* A skill somebody disabled does not come back under its name, by a proposal
\* accepted later or again, as long as no two commands overlapped: a merge that
\* overlaps with the disabling saves the skill as it was before.
DisabledStaysDisabled ==
  [][\A name \in SkillNames :
       ~past'.raced /\ Named(name, "disabled") # {} /\ Named(name, "active") = {}
         => Named(name, "active")' = {}]_memoryVars
=============================================================================
