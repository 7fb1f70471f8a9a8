----------------------------- MODULE MCCheckout -----------------------------
(* Two processes, and two patches: one that every launch applies by itself, *)
(* and one that only setups and updates apply.                             *)
EXTENDS Checkout, UnifiedPatch
CONSTANTS host, worker, metrics, metal
TwoPatches == <<metrics, metal>>
MetalOnly == <<metal>>
Keep == [r \in Revs |-> {metrics, metal}]
Parts == [p \in Procs |-> IF p = host THEN {"setup", "latest", "verify"}
                            ELSE {"chat", "agent", "design"}]
Somewhere == {"agent", "core", metal}
-----------------------------------------------------------------------------
(* Short texts of two different lines, and every short patch of them.      *)
TextLines == {"a", "b"}
Texts(n) == UNION {[1 .. k -> TextLines] : k \in 1 .. n}
Bodies(n) == UNION {[1 .. k -> [op : {" ", "-", "+"}, text : TextLines]] : k \in 1 .. n}

HunkOf(body, start) ==
  LET h == [body |-> body]
  IN [oldStart |-> start, oldCount |-> Len(OldLines(h)),
      newStart |-> start, newCount |-> Len(NewLines(h)), body |-> body]
PatchOf(hunks) == [file |-> "f", readable |-> TRUE, hunks |-> hunks]

OneHunk == {PatchOf(<<HunkOf(b, 1)>>) : b \in Bodies(3)}
TwoHunks == {PatchOf(<<HunkOf(b, 1), HunkOf(c, s)>>) : b \in Bodies(2), c \in Bodies(2), s \in {2, 4}}
ShortPatches == {PatchOf(<<HunkOf(b, 1)>>) : b \in Bodies(2)}

(* An accepted patch replaced the old lines of its hunks where they stood, *)
(* nowhere else, and they stood nowhere else; what is refused could not be *)
(* placed so.                                                              *)
ASSUME OnlyHunksChange ==
  \A p \in OneHunk \cup TwoHunks, text \in Texts(4) :
    LET result == Candidate(text, p, "f")
        reads == InOrder(p.hunks) /\ \A h \in 1 .. Len(p.hunks) : HunkReads(p.hunks[h])
        placements ==
          {at \in [1 .. Len(p.hunks) -> 1 .. Len(text)] : Placed(text, p.hunks, at)}
    IN IF reads /\ placements # {}
       THEN \E at \in placements : result = Spliced(text, p.hunks, at)
       ELSE result = Rejected

(* A patch that applies and whose reversal applies to the result is undone *)
(* by it.                                                                  *)
ASSUME ReversalRestores ==
  \A p \in OneHunk \cup TwoHunks, text \in Texts(4) :
    LET result == Candidate(text, p, "f")
        back == Candidate(result, Reversed(p), "f")
    IN result # Rejected => back \in {text, Rejected}

(* Neither the order of the alternatives nor one that does not fit matters. *)
ASSUME AlternativesAgree ==
  \A p \in ShortPatches, q \in ShortPatches, text \in Texts(3) :
    LET result == PatchedBy(<<p, q>>, text, "f")
        fit == Candidates(text, <<p, q>>, "f")
    IN /\ result = PatchedBy(<<q, p>>, text, "f")
       /\ result # Rejected => fit = {result}
=============================================================================
