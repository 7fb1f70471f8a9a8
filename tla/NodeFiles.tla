------------------------------ MODULE NodeFiles ------------------------------
(***************************************************************************)
(* The exact writes of a graph and their undo (dstudio_task_executor.c):   *)
(* before a workspace.write the bytes of its target are saved with the     *)
(* attempt, and an undo puts them back if the target is still what the     *)
(* action wrote.  Files of an attempt are never replaced.                  *)
(*                                                                         *)
(* One target is modelled, which several nodes may name; its contents are  *)
(* a value, or Absent.  An operation begins and ends in one call of the    *)
(* host, so a history is a sequence of operations.                         *)
(***************************************************************************)
EXTENDS Naturals, Sequences

CONSTANTS
  Text,          (* what each node writes, as a sequence: Text[n]          *)
  Absent,        (* there is no such file                                  *)
  Unsaved        (* the attempt has no checkpoint                          *)

Writers == 1 .. Len(Text)
-----------------------------------------------------------------------------
(* file: the target.  saved[n]: for each attempt of the node, what its     *)
(* checkpoint holds.  receipt[n]: what its undo said, "none" before.       *)
NoHistory(content) ==
  [file |-> content, saved |-> [n \in Writers |-> <<>>], receipt |-> [n \in Writers |-> <<>>]]

(* dtg_write_checkpoint_receipt and dtg_native_write_text, in an attempt   *)
(* of a node.  The checkpoint may not be possible, and then nothing is     *)
(* written; the write may fail, or the host may end, before the file is    *)
(* replaced.                                                               *)
Attempted(s, n, outcome) ==
  [file |-> IF outcome = "written" THEN Text[n] ELSE s.file,
   saved |-> [s.saved EXCEPT ![n] = Append(@, IF outcome = "unsaved" THEN Unsaved ELSE s.file)],
   receipt |-> [s.receipt EXCEPT ![n] = Append(@, "none")]]

(* The last attempt of a node is the one that is undone.                   *)
LastAttempt(s, n) == Len(s.saved[n])
Checkpoint(s, n) == IF s.saved[n] = <<>> THEN Unsaved ELSE s.saved[n][LastAttempt(s, n)]

(* dtg_persist_undo_receipt: the receipt of an attempt is written once.    *)
Told(s, n, answer) ==
  [s.receipt EXCEPT ![n][LastAttempt(s, n)] = IF @ = "none" THEN answer ELSE @]

(* dtg_executor_undo; the bytes are compared, not their digests.           *)
Undone(s, n) ==
  IF Checkpoint(s, n) = Unsaved THEN s
  ELSE IF s.file # Text[n] THEN [s EXCEPT !.receipt = Told(s, n, "refused")]
  ELSE [s EXCEPT !.file = Checkpoint(s, n), !.receipt = Told(s, n, "applied")]

(* What the caller of an undo is told: it fails also when the file is      *)
(* restored and the receipt of an earlier undo is in the way.              *)
UndoAnswers(s, n) ==
  /\ Checkpoint(s, n) # Unsaved /\ s.file = Text[n]
  /\ s.receipt[n][LastAttempt(s, n)] = "none"

(* The user, or a turn of the Agent, changes the file.                     *)
Edited(s, content) == [s EXCEPT !.file = content]
-----------------------------------------------------------------------------
(* A history: operations applied one after the other.                      *)
Operated(s, op) ==
  CASE op.is = "attempt" -> Attempted(s, op.node, op.outcome)
    [] op.is = "undo" -> Undone(s, op.node)
    [] op.is = "edit" -> Edited(s, op.content)
Histories(first, ops) ==
  LET after[k \in 0 .. Len(ops)] == IF k = 0 THEN NoHistory(first) ELSE Operated(after[k - 1], ops[k])
  IN after
=============================================================================
