----------------------------- MODULE DesignText -----------------------------
(***************************************************************************)
(* What the Design tools do to texts (ds4_design.c): the anchored edit,    *)
(* the windows that read and more show of a file, and the wording that a   *)
(* message requires of the artifacts.  Module DesignProject has the tools  *)
(* around them; it only keeps whether a file changed and whether some      *)
(* wording is required.                                                    *)
(*                                                                         *)
(* A text is a sequence of characters, a wording is a value.               *)
(***************************************************************************)
EXTENDS Integers, Sequences, FiniteSets

CONSTANTS
  NotFound,      (* what an edit that finds no unique place returns         *)
  IntMax,        (* the largest int                                         *)
  DefaultLines,  (* DESIGN_READ_DEFAULT_LINES                               *)
  MaxCopies      (* bound of the two lists of wordings                      *)
-----------------------------------------------------------------------------
(* The edit.                                                               *)

(* memmem_simple from a position on: every place, overlapping or not.      *)
Occurs(data, needle, from) ==
  {i \in from .. Len(data) - Len(needle) + 1 : SubSeq(data, i, i + Len(needle) - 1) = needle}

Blank(s) == \A i \in 1 .. Len(s) : s[i] = " "

(* edit_find_old_span: the old text is unique in the file, or its head is, *)
(* and its tail is unique behind the head.  The empty anchor is refused.   *)
OldSpan(data, old) ==
  LET heads == IF old.head = <<>> THEN {} ELSE Occurs(data, old.head, 1)
      h == CHOOSE i \in heads : TRUE
      tails == IF Blank(old.tail) THEN {} ELSE Occurs(data, old.tail, h + Len(old.head))
      t == CHOOSE i \in tails : TRUE
  IN IF Cardinality(heads) # 1 THEN NotFound
     ELSE IF ~old.upto THEN [from |-> h, to |-> h + Len(old.head) - 1]
     ELSE IF Cardinality(tails) # 1 THEN NotFound
     ELSE [from |-> h, to |-> t + Len(old.tail) - 1]

(* tool_edit                                                               *)
Edited(data, old, new) ==
  LET span == OldSpan(data, old)
  IN IF span = NotFound THEN NotFound
     ELSE SubSeq(data, 1, span.from - 1) \o new \o SubSeq(data, span.to + 1, Len(data))
-----------------------------------------------------------------------------
(* The windows.                                                            *)

(* int arithmetic; beyond the largest int the builds wrap around.          *)
Wrapped(x) == IF x > IntMax THEN x - 2 * (IntMax + 1) ELSE x

(* count_lines_before: a text that ends with a newline has an empty line   *)
(* behind it, which append_numbered_lines does not print.                  *)
LineCount(data) == 1 + Cardinality({i \in 1 .. Len(data) : data[i] = "nl"})
Printed(data, from, to) ==
  {l \in from .. to : l <= IF data # <<>> /\ data[Len(data)] # "nl" THEN LineCount(data)
                           ELSE LineCount(data) - 1}

(* tool_read, design_tool_more: the lines shown, and where more goes on,   *)
(* 0 when the file was shown to its end.                                   *)
Window(data, start, count) ==
  LET total == LineCount(data)
      reach == Wrapped(start + count - 1)
      end == IF reach > total THEN total ELSE reach
  IN [lines |-> Printed(data, start, end), next |-> IF end < total THEN end + 1 ELSE 0]

FirstWindow(data, start, count) ==
  Window(data, IF start < 1 THEN 1 ELSE start, IF count < 1 THEN DefaultLines ELSE count)
MoreWindow(data, next, count) ==
  Window(data, IF next < 1 THEN 1 ELSE next, IF count < 1 THEN 1 ELSE count)
-----------------------------------------------------------------------------
(* The wording.                                                            *)

(* The lists exact_copy and forbidden_copy.  A message may revise wordings *)
(* ("old to new") and require new ones.                                    *)
NoCopy == [exact |-> <<>>, forbidden |-> <<>>]
Elements(s) == {s[i] : i \in 1 .. Len(s)}

(* design_exact_copy_apply_replacements: item by item of the list, which   *)
(* may hold a new wording twice afterwards; the old one is forbidden.      *)
Revises(message, old) == {new : new \in {r.new : r \in {x \in message.revises : x.old = old}}}
Replaced(copy, message, i) ==
  LET old == copy.exact[i]
      new == CHOOSE w \in Revises(message, old) : TRUE
      full == Len(copy.forbidden) >= MaxCopies \/ old \in Elements(copy.forbidden)
  IN IF Revises(message, old) \subseteq {old} THEN copy
     ELSE [exact |-> [copy.exact EXCEPT ![i] = new],
           forbidden |-> IF full THEN copy.forbidden ELSE Append(copy.forbidden, old)]

Replacements(copy, message) ==
  LET after[i \in 0 .. Len(copy.exact)] ==
        IF i = 0 THEN copy ELSE Replaced(after[i - 1], message, i)
  IN after[Len(copy.exact)]

(* design_exact_copy_push_segment: once, and no more than the list takes.  *)
Required(list, wording) ==
  IF wording \in Elements(list) \/ Len(list) >= MaxCopies THEN list ELSE Append(list, wording)

(* design_exact_copy_extract                                               *)
Extracted(copy, message) ==
  LET replaced == Replacements(copy, message)
      after[i \in 0 .. Len(message.requires)] ==
        IF i = 0 THEN replaced.exact ELSE Required(after[i - 1], message.requires[i])
  IN [replaced EXCEPT !.exact = after[Len(message.requires)]]

(* design_artifact_check, design_verify_after: no artifact passes while    *)
(* one wording is required and forbidden.                                  *)
Satisfiable(copy) == Elements(copy.exact) \cap Elements(copy.forbidden) = {}
=============================================================================
