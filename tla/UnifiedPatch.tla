---------------------------- MODULE UnifiedPatch ----------------------------
(***************************************************************************)
(* How DStudio patches an engine source (dstudio_unified_patch.c): hunks   *)
(* with complete context, applied without fuzz to the one place where the  *)
(* old lines stand, and a set of alternatives for different pins of the    *)
(* engine of which all that fit must give the same text.  Module Checkout  *)
(* builds from the sources patched here.                                   *)
(*                                                                         *)
(* A text is a sequence of lines.  A last line without a newline, which no *)
(* hunk can touch, and the size limits are left out.                       *)
(***************************************************************************)
EXTENDS Naturals, Sequences

CONSTANT Rejected      (* what is returned when no candidate is built       *)

(* A line of a hunk is [op |-> " ", "-" or "+", text |-> a line].          *)
Kept(op) == {l \in {" ", "-", "+"} : l # op}
LinesOf(body, op) ==
  LET keep(l) == l.op \in Kept(op)
      picked == SelectSeq(body, keep)
  IN [i \in 1 .. Len(picked) |-> picked[i].text]

OldLines(hunk) == LinesOf(hunk.body, "+")
NewLines(hunk) == LinesOf(hunk.body, "-")

(* unified_range and the loop that reads a hunk: the body ends when both   *)
(* counts are reached, so a line more or less than announced is refused,   *)
(* as is a hunk that adds to nothing or changes nothing.                   *)
HunkReads(hunk) ==
  /\ hunk.oldStart > 0 /\ hunk.oldCount > 0
  /\ Len(OldLines(hunk)) = hunk.oldCount
  /\ Len(NewLines(hunk)) = hunk.newCount
  /\ \E i \in 1 .. Len(hunk.body) : hunk.body[i].op # " "

(* The ranges of the hunks neither overlap nor go back; nothing compares   *)
(* them with where the hunk is found.                                      *)
InOrder(hunks) ==
  \A h \in 2 .. Len(hunks) :
    /\ hunks[h].oldStart >= hunks[h - 1].oldStart + hunks[h - 1].oldCount
    /\ hunks[h].newStart >= hunks[h - 1].newStart + hunks[h - 1].newCount

(* Where a block of lines stands in a text.                                *)
Stands(text, block, at) ==
  at + Len(block) - 1 <= Len(text) /\ SubSeq(text, at, at + Len(block) - 1) = block
PlacesOf(text, block) == {at \in 1 .. Len(text) : Stands(text, block, at)}

(* unified_candidate, one hunk: the old lines stand in exactly one place   *)
(* of the source, not before the end of the last hunk.                     *)
Hunked(source, state, hunk) ==
  LET old == OldLines(hunk)
      places == PlacesOf(source, old)
  IN IF state = Rejected \/ ~HunkReads(hunk) \/ (\A p \in places : \E q \in places : q # p)
     THEN Rejected
     ELSE LET at == CHOOSE p \in places : TRUE
          IN IF at < state.cursor THEN Rejected
             ELSE [cursor |-> at + Len(old),
                   out |-> state.out \o SubSeq(source, state.cursor, at - 1) \o NewLines(hunk)]

(* unified_candidate: a private copy of the patched source.                *)
Candidate(source, patch, name) ==
  LET after[h \in 0 .. Len(patch.hunks)] ==
        IF h = 0 THEN [cursor |-> 1, out |-> <<>>]
        ELSE Hunked(source, after[h - 1], patch.hunks[h])
      last == after[Len(patch.hunks)]
  IN IF patch.file # name \/ patch.hunks = <<>> \/ ~InOrder(patch.hunks) \/ last = Rejected
     THEN Rejected
     ELSE last.out \o SubSeq(source, last.cursor, Len(source))

(* patch_apply_unified: every alternative is tried; those that fit must    *)
(* agree, and one that cannot be read makes the whole set fail.            *)
Candidates(source, set, name) ==
  {Candidate(source, set[i], name) : i \in 1 .. Len(set)} \ {Rejected}
PatchedBy(set, source, name) ==
  LET fit == Candidates(source, set, name)
  IN IF (\E i \in 1 .. Len(set) : ~set[i].readable) \/ (\A c \in fit : \E d \in fit : d # c)
     THEN Rejected
     ELSE CHOOSE c \in fit : TRUE

(* patch_load_set: what a manifest may ask for.                            *)
ManifestLoads(manifest) ==
  /\ \A i \in 1 .. Len(manifest) : manifest[i].key \in {"name", "version", "patch", "makefile"}
  /\ \A i \in 1 .. Len(manifest) : manifest[i].valid
  /\ \E i \in 1 .. Len(manifest) : manifest[i].key = "patch"
-----------------------------------------------------------------------------
(* The patch that undoes another.                                          *)
Swapped(op) == CASE op = "-" -> "+" [] op = "+" -> "-" [] OTHER -> " "
Undone(hunk) ==
  [oldStart |-> hunk.newStart, oldCount |-> hunk.newCount,
   newStart |-> hunk.oldStart, newCount |-> hunk.oldCount,
   body |-> [i \in 1 .. Len(hunk.body) |->
               [op |-> Swapped(hunk.body[i].op), text |-> hunk.body[i].text]]]
Reversed(patch) ==
  [patch EXCEPT !.hunks = [h \in 1 .. Len(patch.hunks) |-> Undone(patch.hunks[h])]]

(* What a patched text is, whatever loop builds it: there is a place for   *)
(* each hunk, one after the other, and only the old lines there were       *)
(* replaced.                                                               *)
Placed(source, hunks, at) ==
  \A h \in 1 .. Len(hunks) :
    /\ PlacesOf(source, OldLines(hunks[h])) = {at[h]}
    /\ h > 1 => at[h] >= at[h - 1] + Len(OldLines(hunks[h - 1]))
Spliced(source, hunks, at) ==
  LET piece[h \in 0 .. Len(hunks)] ==
        IF h = 0 THEN SubSeq(source, 1, at[1] - 1)
        ELSE piece[h - 1] \o NewLines(hunks[h]) \o
             SubSeq(source, at[h] + Len(OldLines(hunks[h])),
                    IF h = Len(hunks) THEN Len(source) ELSE at[h + 1] - 1)
  IN piece[Len(hunks)]
=============================================================================
