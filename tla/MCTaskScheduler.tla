-------------------------- MODULE MCTaskScheduler --------------------------
(***************************************************************************)
(* Instances of the scheduler for TLC: the definitions of small graphs,    *)
(* each one that dtg_policy_validate accepts (a writer has a gate behind   *)
(* it).                                                                    *)
(***************************************************************************)
EXTENDS TaskScheduler, AgentEvidence

Node(g, kind, action, deps) ==
  [graph |-> g, kind |-> kind, action |-> action, writes |-> FALSE,
   deps |-> deps, max |-> 1, autoRetry |-> FALSE, idempotent |-> TRUE,
   optional |-> FALSE, toolResult |-> FALSE, timeout |-> FALSE, priority |-> 0]

After(n) == {[node |-> n, on |-> "succeeded"]}
AtEnd(n) == {[node |-> n, on |-> "terminal"]}

(* An Agent turn that writes and may be retried once.                      *)
Turn(g, deps) ==
  [Node(g, "agent", "prompt", deps) EXCEPT
     !.writes = TRUE, !.idempotent = FALSE, !.max = 2, !.autoRetry = TRUE,
     !.toolResult = TRUE]

Timed(d) == [d EXCEPT !.timeout = TRUE]

Goal(g) ==
  [Node(g, "agent", "goal", {}) EXCEPT
     !.writes = TRUE, !.idempotent = FALSE, !.max = 2, !.toolResult = TRUE]

TestRun(g, deps) ==
  [Node(g, "host", "process", deps) EXCEPT !.writes = TRUE]

Gate(g, deps) == Node(g, "gate", "sync", deps)
Approval(g, deps) == Node(g, "approval", "approval", deps)
Optional(d) == [d EXCEPT !.optional = TRUE]
Retriable(d) == [d EXCEPT !.max = 2]

(* A turn behind an approval, a goal that follows however the turn ended,  *)
(* and the optional gate of both, which a pause of the goal blocks and the *)
(* user may retry or skip.                                                 *)
TurnThenGoal ==
  <<Approval(1, {}), Timed(Turn(1, After(1))), [Goal(1) EXCEPT !.deps = AtEnd(2)],
    Optional(Retriable(Gate(1, After(3))))>>

(* A goal and a test process that both write, with their gate.             *)
GoalBesideTest ==
  <<Goal(1), TestRun(1, {}), Gate(1, After(1) \cup After(2))>>

(* A turn with its gate, beside a gate that may fail while it runs.        *)
TurnBesideGate == <<Turn(1, {}), Gate(1, After(1)), Gate(1, {})>>

(* A turn beside an approval, with a gate behind the turn.                 *)
TurnBesideApproval ==
  <<Turn(1, {}), Approval(1, {}), Gate(1, After(1))>>
-----------------------------------------------------------------------------
(* What the host makes of the text of a turn.                              *)
Symbols == {"word", "nl", "RS", "result", "passed", "user", "[[", "complete]]"}
TurnTexts == UNION {[1 .. k -> Symbols] : k \in 0 .. 4}
GoalTexts ==
  {<<"RS", "result", p, "nl">> \o t : p \in {"passed", "word"}, t \in TurnTexts}
Judged ==
  {[toolResult |-> TRUE, expect |-> TRUE, goal |-> goal, calls |-> 1] : goal \in BOOLEAN}

(* A prompt, whatever it quotes, completes nothing.                        *)
ASSUME PromptCompletesNothing ==
  \A node \in Judged, text \in TurnTexts : ~Completes(node, Append(text, "user"))

(* A turn is complete when it shows the whole receipt outside any event,   *)
(* after the last result of a tool and after the last word of the user; of *)
(* a goal, that result is the event of a command that passed.              *)
ASSUME ReceiptFollowsWork ==
  \A node \in Judged, text \in TurnTexts \cup GoalTexts :
    Completes(node, text) =>
      \E i, j, k \in 1 .. Len(text) :
        /\ i < j /\ j < k
        /\ text[i] = "result" /\ text[j] = "[[" /\ text[k] = "complete]]"
        /\ ~Hidden(text, j) /\ ~Hidden(text, k) /\ \A x \in j + 1 .. k - 1 : Hidden(text, x)
        /\ \A x \in i + 1 .. Len(text) : text[x] \notin {"user", "result"}
        /\ node.goal => text[i - 1] = "RS" /\ text[i + 1] = "passed"

(* An event of the runtime that arrives between two chunks of an answer    *)
(* changes nothing, as long as the answer itself does not quote a result.  *)
Frame == <<"RS", "word", "nl">>
Quotes(text) == \E i \in 1 .. Len(text) : text[i] = "result" /\ (i = 1 \/ text[i - 1] # "RS")
ASSUME FramesDoNotMatter ==
  \A node \in Judged, text \in {t \in GoalTexts : ~Quotes(t)} :
    \A p \in 4 .. Len(text) :
      ~Hidden(text, p) \/ text[p] = "nl" =>
        (Completes(node, SubSeq(text, 1, p) \o Frame \o SubSeq(text, p + 1, Len(text))) <=>
         Completes(node, text))

(* A turn whose first bytes were dropped is not complete unless it was.    *)
ASSUME TruncationIsSafe ==
  \A node \in Judged, text \in TurnTexts \cup GoalTexts :
    \A cut \in 1 .. Len(text) :
      Completes(node, SubSeq(text, cut, Len(text))) => Completes(node, text)

(* The buffer holds the end of what was accepted, at its offsets; a reader *)
(* that goes on at the end is sent every byte that is held, once.          *)
Chunks == UNION {[1 .. k -> (1 .. BufferCap + 1) \X BOOLEAN] : k \in 0 .. 3}
Chunk(n, k) == [i \in 1 .. n |-> <<k, i>>]
ASSUME BufferKeepsTheEnd ==
  \A chunks \in Chunks :
    LET run[k \in 0 .. Len(chunks)] ==
          IF k = 0 THEN [buf |-> EmptyBuffer, said |-> <<>>]
          ELSE LET text == Chunk(chunks[k][1], k)
                   buf == Appended(run[k - 1].buf, text, chunks[k][2])
               IN [buf |-> buf,
                   said |-> IF End(buf) > End(run[k - 1].buf) THEN run[k - 1].said \o text
                            ELSE run[k - 1].said]
        buf == run[Len(chunks)].buf
        said == run[Len(chunks)].said
    IN /\ Len(buf.held) <= buf.cap /\ buf.cap <= BufferCap
       /\ End(buf) = Len(said)
       /\ buf.held = SubSeq(said, buf.base + 1, Len(said))
       /\ (\A k \in 1 .. Len(chunks) : chunks[k][2]) =>
            \A k \in 1 .. Len(chunks) :
              (End(run[k].buf) = End(run[k - 1].buf) + chunks[k][1]) <=> chunks[k][1] <= BufferCap
       /\ \A since \in 0 .. Len(said) :
            Sent(buf, since) = SubSeq(said, (IF since < buf.base THEN buf.base ELSE since) + 1, Len(said))
=============================================================================
