---------------------------- MODULE MCTaskStore ----------------------------
(***************************************************************************)
(* Instances of the event store for TLC.  The configurations give Nodes,   *)
(* Procs and the fillers model values: one node is enough to tell a graph  *)
(* record from a node record, two processes to contend for the lock.       *)
(* The definitions the store keeps are those of MCGraphPolicy, whose       *)
(* assumptions TLC evaluates here.                                         *)
(***************************************************************************)
EXTENDS TaskStore, MCGraphPolicy, NodeFiles
-----------------------------------------------------------------------------
(* Two nodes that write the same file, different texts.                    *)
CONSTANTS x, y, z
TwoTexts == <<x, y>>

FileContents == {x, y, z, Absent}
FileOps ==
  [is : {"attempt"}, node : Writers, outcome : {"written", "failed", "unsaved"}] \cup
  [is : {"undo"}, node : Writers] \cup [is : {"edit"}, content : {x, z, Absent}]
ShortHistories == [1 .. 4 -> FileOps]

(* An undo replaces only what the action itself wrote, and by what the     *)
(* file held when the last attempt of the node began; one that is told to  *)
(* be applied has done so.                                                 *)
ASSUME UndoReplacesTheWriteOnly ==
  \A first \in {z, Absent}, ops \in ShortHistories :
    LET h == Histories(first, ops)
    IN \A k \in 1 .. 4 : ops[k].is = "undo" =>
         LET n == ops[k].node
             was == h[k - 1]
             began == {j \in 1 .. k - 1 : ops[j].is = "attempt" /\ ops[j].node = n}
         IN /\ h[k].file # was.file =>
                 /\ was.file = Text[n]
                 /\ \E j \in began : (\A i \in began : i <= j) /\ h[k].file = h[j - 1].file
            /\ UndoAnswers(was, n) => h[k].receipt[n][LastAttempt(was, n)] = "applied"

(* Writes that are each made in one attempt are undone in the opposite     *)
(* order: the file is what it was, whichever of them took place, if nobody *)
(* else changed it meanwhile.                                              *)
ASSUME ReverseOrderRestores ==
  \A first \in FileContents, one, two \in {"written", "failed", "unsaved"} :
    LET h == Histories(first, <<[is |-> "attempt", node |-> 1, outcome |-> one],
                                [is |-> "attempt", node |-> 2, outcome |-> two],
                                [is |-> "undo", node |-> 2], [is |-> "undo", node |-> 1]>>)
    IN h[4].file = first
=============================================================================
