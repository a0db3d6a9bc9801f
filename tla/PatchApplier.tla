---------------------------- MODULE PatchApplier ----------------------------
(***************************************************************************)
(* Applying a unified diff to the files of a project.                      *)
(*                                                                         *)
(* git is asked first and, as long as it takes the patch, does all of the  *)
(* work; a patch it does not take, for its form or for its text, goes to a *)
(* fallback.  The fallback goes through the patch file by file: the old    *)
(* text of all hunks of a section is looked for in the file, wherever it   *)
(* is, and its first occurrence is replaced; the places the hunks name are *)
(* not read.  It stops at the first section it cannot apply, and keeps     *)
(* what it has written.  A file is truncated and then written.             *)
(*                                                                         *)
(* A text is a sequence of lines, none of which ends another; line ends,   *)
(* and lines that look like a header, are left out.                        *)
(***************************************************************************)
EXTENDS Integers, Sequences, FiniteSets

CONSTANTS
  Paths,      \* of the project's files
  PatchLines, \* what a line may be
  Trees,      \* what the files may hold at first
  Patches,    \* sequences of sections
  NoFile,     \* a file that is not there
  MaxPatches, \* bound on the patches tried
  MaxDeaths   \* bound on the times the process dies

Texts == Seq(PatchLines)

Hunks == [place : Nat, lines : Seq([mark : {"context", "removed", "added"}, text : PatchLines])]

Sections == [file : Paths, hunks : Seq(Hunks)]

ASSUME PatchAssumptions ==
  /\ Trees \subseteq [Paths -> {NoFile} \union Texts]
  /\ Patches \subseteq Seq(Sections)
  /\ MaxPatches \in Nat
  /\ MaxDeaths \in Nat

VARIABLES
  tree,    \* tree[f]: the lines of file f
  patching,\* what the process is doing
  attempts \* how many patches were tried and processes died

patchVars == <<tree, patching, attempts>>

\* before is the tree a patch was begun on, section the one it has come to and
\* text what is being written to its file.
Resting == [stage |-> "rest", patch |-> <<>>, section |-> 1, text |-> <<>>,
            before |-> <<>>, report |-> "none"]

PatchInit ==
  /\ tree \in Trees
  /\ patching = Resting
  /\ attempts = [patches |-> 0, deaths |-> 0]

-----------------------------------------------------------------------------
(* Texts. *)

Marked(hunk, marks) ==
  LET text[n \in 0..Len(hunk.lines)] ==
        IF n = 0 THEN <<>>
        ELSE IF hunk.lines[n].mark \in marks THEN Append(text[n - 1], hunk.lines[n].text)
        ELSE text[n - 1]
  IN  text[Len(hunk.lines)]

\* Those lines of a section: of its hunks, one after the other.
AllMarked(section, marks) ==
  LET text[n \in 0..Len(section.hunks)] ==
        IF n = 0 THEN <<>> ELSE text[n - 1] \o Marked(section.hunks[n], marks)
  IN  text[Len(section.hunks)]

OldText(section) == AllMarked(section, {"context", "removed"})

NewText(section) == AllMarked(section, {"context", "added"})

\* Where old is in text; the text of no lines is everywhere.
Places(text, old) ==
  {i \in 1..(Len(text) + 1) : /\ i + Len(old) <= Len(text) + 1
                              /\ SubSeq(text, i, i + Len(old) - 1) = old}

ReplacedAt(text, place, old, new) ==
  SubSeq(text, 1, place - 1) \o new \o SubSeq(text, place + Len(old), Len(text))

FirstPlace(text, old) ==
  CHOOSE i \in Places(text, old) : \A j \in Places(text, old) : i <= j

Section == patching.patch[patching.section]

\* A section of headers only changes nothing.
Blank(section) == OldText(section) = <<>> /\ NewText(section) = <<>>

\* Whether the fallback can apply a section.
Found(section) ==
  tree[section.file] # NoFile /\ Places(tree[section.file], OldText(section)) # {}

-----------------------------------------------------------------------------
(* git, which is external: it puts the one hunk of every section where it says. *)

InPlace(files, section) ==
  /\ files[section.file] # NoFile
  /\ Len(section.hunks) = 1
  /\ section.hunks[1].place \in Places(files[section.file], OldText(section))

\* Of a patch that names no file twice.
Patched(files, patch) ==
  [f \in DOMAIN files |->
     IF \E i \in DOMAIN patch : patch[i].file = f
     THEN LET section == patch[CHOOSE i \in DOMAIN patch : patch[i].file = f]
          IN  ReplacedAt(files[f], section.hunks[1].place, OldText(section), NewText(section))
     ELSE files[f]]

FilesOf(patch) == {patch[i].file : i \in DOMAIN patch}

\* Patches of one hunk for each of several files, all in place.
GitTakes(patch) ==
  /\ patch # <<>>
  /\ \A i \in DOMAIN patch : InPlace(tree, patch[i])
  /\ \A i, j \in DOMAIN patch : patch[i].file = patch[j].file => i = j

-----------------------------------------------------------------------------
(* PatchApplier.apply. *)

Report(report) == patching' = [patching EXCEPT !.stage = "rest", !.report = report]

\* A patch of files outside the sandbox fails; a dry run, or a mode in which
\* files may not be written, ends before git is asked.
BeginPatch(patch, inside, writes) ==
  /\ patching.stage = "rest"
  /\ attempts.patches < MaxPatches
  /\ attempts' = [attempts EXCEPT !.patches = @ + 1]
  /\ patching' = [stage |-> IF inside /\ writes THEN "check" ELSE "rest",
                  patch |-> patch, section |-> 1, text |-> <<>>, before |-> tree,
                  report |-> IF ~inside THEN "failed" ELSE IF writes THEN "none" ELSE "dry_run"]
  /\ UNCHANGED tree

\* The check passes; applying it may still fail, and then nothing is changed.
GitApply(works) ==
  /\ patching.stage = "check"
  /\ GitTakes(patching.patch)
  /\ tree' = IF works THEN Patched(tree, patching.patch) ELSE tree
  /\ Report(IF works THEN "applied" ELSE "failed")
  /\ UNCHANGED attempts

\* git may refuse the form of any patch, also of one that fits.
GitRefuses ==
  /\ patching.stage = "check"
  /\ patching' = [patching EXCEPT !.stage = "flush"]
  /\ UNCHANGED <<tree, attempts>>

NextSection == patching' = [patching EXCEPT !.stage = "flush", !.section = @ + 1]

\* The file is opened, which empties it.
Open ==
  LET text == tree[Section.file]
      old  == OldText(Section)
  IN  /\ patching' = [patching EXCEPT
           !.stage = "write",
           !.text = ReplacedAt(text, FirstPlace(text, old), old, NewText(Section))]
      /\ tree' = [tree EXCEPT ![Section.file] = <<>>]

More == patching.stage = "flush" /\ patching.section <= Len(patching.patch)

\* Mutant: a section that is not found is passed over.
FlushWhatFits ==
  /\ More
  /\ IF Blank(Section) \/ ~Found(Section) THEN NextSection /\ UNCHANGED tree ELSE Open
  /\ UNCHANGED attempts

Flush ==
  /\ More
  /\ IF Blank(Section) THEN NextSection /\ UNCHANGED tree
     ELSE IF Found(Section) THEN Open
     ELSE Report("failed") /\ UNCHANGED tree
  /\ UNCHANGED attempts

WriteText ==
  /\ patching.stage = "write"
  /\ tree' = [tree EXCEPT ![Section.file] = patching.text]
  /\ NextSection
  /\ UNCHANGED attempts

\* Whether anything was replaced is not asked.
EndPatch ==
  /\ patching.stage = "flush" /\ ~More
  /\ Report("applied")
  /\ UNCHANGED <<tree, attempts>>

\* The process dies, in the middle of a file perhaps.
PatchDeath(written) ==
  /\ patching.stage # "rest"
  /\ attempts.deaths < MaxDeaths
  /\ attempts' = [attempts EXCEPT !.deaths = @ + 1]
  /\ IF patching.stage = "write"
     THEN /\ written < Len(patching.text)
          /\ tree' = [tree EXCEPT ![Section.file] = SubSeq(patching.text, 1, written)]
     ELSE written = 0 /\ UNCHANGED tree
  /\ Report("died")

PatchNext ==
  \/ \E patch \in Patches, inside, writes \in BOOLEAN : BeginPatch(patch, inside, writes)
  \/ \E works \in BOOLEAN : GitApply(works)
  \/ GitRefuses
  \/ Flush
  \/ WriteText
  \/ EndPatch
  \/ \E written \in 0..Len(patching.text) : PatchDeath(written)

PatchSpec == PatchInit /\ [][PatchNext]_patchVars

-----------------------------------------------------------------------------
(* Properties. *)

PatchTypeOK ==
  /\ tree \in [Paths -> {NoFile} \union Texts]
  /\ patching \in [stage : {"rest", "check", "flush", "write"}, patch : Seq(Sections),
                   section : Nat \ {0}, text : Texts,
                   before : [Paths -> {NoFile} \union Texts] \union {<<>>},
                   report : {"none", "dry_run", "applied", "failed", "died"}]
  /\ patching.section <= Len(patching.patch) + 1
  /\ attempts \in [patches : 0..MaxPatches, deaths : 0..MaxDeaths]

\* Each file is patched by one hunk that is not empty, whose old text is where it
\* says or nowhere.
Plain(files, patch) ==
  /\ \A i, j \in DOMAIN patch : patch[i].file = patch[j].file => i = j
  /\ \A i \in DOMAIN patch :
       /\ Len(patch[i].hunks) = 1 /\ ~Blank(patch[i])
       /\ files[patch[i].file] # NoFile =>
            Places(files[patch[i].file], OldText(patch[i])) \subseteq {patch[i].hunks[1].place}

\* The files after the first sections of a patch, when they are all in place.
Leads(files, patch, sections, result) ==
  /\ \A i \in 1..sections : InPlace(files, patch[i])
  /\ result = Patched(files, SubSeq(patch, 1, sections))

\* Of a patch in which nothing is ambiguous: reported as applied, all of it is,
\* whether git or the fallback did it; reported as failed, the files hold some of
\* its sections from the first on, and not all of them; a dry run leaves them as
\* they were; and a process that died leaves one file at most that is neither.
PatchedAsReported ==
  LET patch  == patching.patch
      before == patching.before
      Holding(sections) == Leads(before, patch, sections, tree)
  IN  patching.stage = "rest" /\ patching.report # "none" /\ Plain(before, patch) =>
        CASE patching.report = "dry_run" -> tree = before
          [] patching.report = "applied" -> Holding(Len(patch))
          [] patching.report = "failed"  ->
               tree = before \/ \E sections \in 0..(Len(patch) - 1) : Holding(sections)
          [] patching.report = "died"    ->
               \/ tree = before
               \/ \E sections \in 0..Len(patch), f \in FilesOf(patch) :
                    \E text \in {before[f], tree[f]} :
                      Leads(before, patch, sections, [tree EXCEPT ![f] = text])

-----------------------------------------------------------------------------
(* What the documentation says. *)

\* _apply_simple_unified_diff: "refuses ambiguous patches by returning ``None``".
\* The first section is ambiguous when its old text is in several places.
AmbiguousIsRefused ==
  patching.stage = "write" /\ patching.section = 1 =>
    Cardinality(Places(patching.before[Section.file], OldText(Section))) <= 1
=============================================================================
