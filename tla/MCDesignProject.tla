-------------------------- MODULE MCDesignProject --------------------------
(* Two pages and two contents for TLC; texts of two letters and newlines,  *)
(* and messages about two wordings.                                        *)
EXTENDS DesignProject, DesignText, TLC
CONSTANTS p, q, a, b

(* No page is named by the specification.                                  *)
Symmetry == Permutations(Pages)
-----------------------------------------------------------------------------
Letters(S, n) == UNION {[1 .. k -> S] : k \in 0 .. n}
Anchors == Letters({"a", "b", " "}, 2)
Olds ==
  {[head |-> h, upto |-> FALSE, tail |-> <<>>] : h \in Anchors} \cup
  {[head |-> h, upto |-> TRUE, tail |-> t] : h \in Anchors, t \in Anchors}

(* The spans an old text can stand for.                                    *)
Spans(data, old) ==
  {s \in [from : 1 .. Len(data), to : 1 .. Len(data)] :
     LET text == SubSeq(data, s.from, s.to)
         h == Len(old.head)
         t == Len(old.tail)
     IN /\ s.from <= s.to
        /\ IF old.upto
           THEN /\ Len(text) >= h + t
                /\ SubSeq(text, 1, h) = old.head
                /\ SubSeq(text, Len(text) - t + 1, Len(text)) = old.tail
           ELSE text = old.head}

(* An edit is made only where the old text can stand for one span of the   *)
(* file, replaces that span, and is undone by the edit from the new text   *)
(* back to the old one wherever that one is accepted.                      *)
ASSUME EditsAreUnambiguous ==
  \A data \in Letters({"a", "b", " "}, 4), old \in Olds, new \in {<<>>, <<"b">>, <<"a", "a">>} :
    LET result == Edited(data, old, new)
        span == CHOOSE s \in Spans(data, old) : TRUE
        back == Edited(result, [head |-> new, upto |-> FALSE, tail |-> <<>>],
                       SubSeq(data, span.from, span.to))
    IN result # NotFound =>
         /\ Cardinality(Spans(data, old)) = 1
         /\ result = SubSeq(data, 1, span.from - 1) \o new \o SubSeq(data, span.to + 1, Len(data))
         /\ back \in {data, NotFound}

(* A file that does not change is shown once, line by line, by a read and  *)
(* the calls of more after it, unless a count is so large that the end of  *)
(* the window passes the largest int.                                      *)
Windows(data, start, count) ==
  LET w[k \in 0 .. Len(data) + 1] ==
        IF k = 0 THEN FirstWindow(data, start, count)
        ELSE LET last == w[k - 1]
             IN IF last.next = 0 THEN [lines |-> {}, next |-> 0]
                ELSE MoreWindow(data, last.next, count)
  IN [k \in 0 .. Len(data) + 1 |-> w[k]]

ASSUME WindowsCoverTheFile ==
  \A data \in Letters({"a", "nl"}, 5), start \in -1 .. 7, count \in 0 .. IntMax :
    LET w == Windows(data, start, count)
        from == IF start < 1 THEN 1 ELSE start
    IN from + count - 1 <= IntMax - Len(data) - 1 =>
         /\ UNION {w[k].lines : k \in DOMAIN w} = Printed(data, from, LineCount(data))
         /\ \A i, j \in DOMAIN w : i # j => w[i].lines \cap w[j].lines = {}
         /\ w[Len(data) + 1].next = 0

(* However messages revise and add to the wording, what was required stays *)
(* required or is forbidden, and nothing is both: unless a message goes    *)
(* back to a wording that an earlier one gave up.                          *)
Wordings == {"u", "v", "w"}
Messages ==
  [revises : {{}} \cup {{[old |-> o, new |-> n]} : o \in Wordings, n \in Wordings},
   requires : {<<>>} \cup {<<u>> : u \in Wordings} \cup {<<u, v>> : u \in Wordings, v \in Wordings}]

GoesBack(copy, m) ==
  (Elements(copy.forbidden) \cup {r.old : r \in m.revises}) \cap
    ({r.new : r \in {x \in m.revises : x.old # x.new}} \cup Elements(m.requires)) # {}

ASSUME WordingIsKept ==
  \A m1 \in Messages, m2 \in Messages, m3 \in {m \in Messages : Len(m.requires) < 2} :
    LET before == Extracted(Extracted(NoCopy, m1), m2)
        after == Extracted(before, m3)
    IN /\ Elements(before.exact) \ Elements(after.exact) \subseteq Elements(after.forbidden)
       /\ Satisfiable(before) /\ ~GoesBack(before, m3) => Satisfiable(after)
=============================================================================
