--------------------------- MODULE MCPatchApplier ---------------------------
(* Values for TLC of the patch applier: patches of two files, that fit or do not. *)
EXTENDS PatchApplier

Files2(lines1, lines2) == [f |-> lines1, g |-> lines2]

SomeTrees == {Files2(<<"a", "b">>, <<"c">>), Files2(<<"a", "b", "a">>, NoFile),
              Files2(<<"b", "a">>, <<"c", "c">>)}

Marks(mark, text) == [mark |-> mark, text |-> text]

Hunk(place, old, new) ==
  [place |-> place, lines |-> <<Marks("removed", old), Marks("added", new)>>]

HunkBefore(place, old, new, context) ==
  [place |-> place, lines |-> <<Marks("removed", old), Marks("added", new), Marks("context", context)>>]

Insertion(place, new) == [place |-> place, lines |-> <<Marks("added", new)>>]

On(file, hunks) == [file |-> file, hunks |-> hunks]

SomePatches ==
  {<<>>,                                                                 \* no patch at all
   <<On("f", <<HunkBefore(1, "a", "x", "b")>>), On("g", <<Hunk(1, "c", "y")>>)>>,
   <<On("g", <<Hunk(1, "c", "y")>>), On("f", <<Hunk(2, "a", "x")>>)>>,
   <<On("f", <<Hunk(1, "a", "x"), Hunk(3, "a", "z")>>)>>,                \* two hunks of a file
   <<On("g", <<>>), On("f", <<Insertion(3, "n")>>)>>,                    \* headers, an insertion
   <<On("f", <<Hunk(1, "x", "a")>>)>>}                                   \* takes the first back
=============================================================================
