---------------------------- MODULE AgentEvidence ----------------------------
(***************************************************************************)
(* What the Agent printed, and what of it counts (agent_buf_append and the *)
(* stream of dstudio.c; the completion contract of                         *)
(* dstudio_task_executor.c).  The host keeps the last bytes of the pipe    *)
(* with absolute offsets; browsers read on from an offset, and a node of a *)
(* graph is judged by the bytes between two offsets.                       *)
(*                                                                         *)
(* A text is a sequence of symbols.  An event of the runtime is a line     *)
(* that begins with RS; "result" is the text that names a tool_result in   *)
(* it, "passed" the rest of one that tells of a bash command that ended    *)
(* with status zero in time.  "user" ends the echo of a prompt.  The       *)
(* receipt of a node, and the words that say a goal is blocked, are two    *)
(* symbols each, as they may reach the pipe in two chunks.                 *)
(***************************************************************************)
EXTENDS Naturals, Sequences

CONSTANTS
  BufferCap,     (* AGENT_BUF_CAP                                          *)
  BufferFirst    (* the first allocation                                   *)

ASSUME BufferAssumption == BufferCap \in Nat /\ BufferFirst \in Nat \ {0}

Receipt == <<"[[", "complete]]">>
Blocked == <<"[[", "blocked]]">>
-----------------------------------------------------------------------------
(* The buffer: base is the offset of the first byte that is held.          *)
EmptyBuffer == [base |-> 0, held |-> <<>>, cap |-> 0]
End(buf) == buf.base + Len(buf.held)

(* The allocation doubles until the text fits or the cap is reached; it    *)
(* may fail.                                                               *)
Grown(cap, need) ==
  LET first == IF cap = 0 THEN BufferFirst ELSE cap
      enough == {k \in 0 .. BufferCap : first * 2 ^ k >= need \/ first * 2 ^ k >= BufferCap}
      size == first * 2 ^ (CHOOSE k \in enough : \A j \in enough : k <= j)
  IN IF size > BufferCap THEN BufferCap ELSE size

(* agent_buf_append: when the text does not fit the oldest bytes go; a     *)
(* text longer than the buffer is itself dropped, and its bytes are not    *)
(* counted.                                                                *)
Appended(buf, text, allocates) ==
  LET need == Len(buf.held) + Len(text)
      cap == IF need > buf.cap /\ allocates THEN Grown(buf.cap, need) ELSE buf.cap
      keep == IF cap > Len(text) THEN cap - Len(text) ELSE 0
      drop == IF need > cap /\ Len(buf.held) > keep THEN Len(buf.held) - keep ELSE 0
      rest == SubSeq(buf.held, drop + 1, Len(buf.held))
  IN [base |-> buf.base + drop,
      held |-> IF Len(rest) + Len(text) <= cap THEN rest \o text ELSE rest,
      cap |-> cap]

(* Where a reader that asks for an offset is put (api_agent_poll).         *)
Realigned(buf, since) ==
  IF since < buf.base THEN buf.base ELSE IF since > End(buf) THEN End(buf) ELSE since

(* What it is sent; it goes on at the end (sse_send_chunk).                *)
Sent(buf, since) == SubSeq(buf.held, Realigned(buf, since) - buf.base + 1, Len(buf.held))

(* The bytes of a node that are still there: transcript_from to            *)
(* transcript_to.                                                          *)
Slice(buf, from, to) ==
  LET first == IF from < buf.base THEN buf.base ELSE from
      last == IF to > End(buf) THEN End(buf) ELSE to
  IN SubSeq(buf.held, first - buf.base + 1, last - buf.base)
-----------------------------------------------------------------------------
(* dtg_visible_transcript_contains: events are taken out line by line; one *)
(* that is not complete hides the rest.                                    *)
Hidden(text, i) ==
  \E s \in 1 .. i : text[s] = "RS" /\ \A k \in s .. i - 1 : text[k] # "nl"
Visible(text) ==
  LET shown == {i \in 1 .. Len(text) : ~Hidden(text, i)}
      place[i \in 0 .. Len(text)] ==
        IF i = 0 THEN <<>> ELSE IF i \in shown THEN Append(place[i - 1], text[i]) ELSE place[i - 1]
  IN place[Len(text)]
Shows(text, words) ==
  LET seen == Visible(text)
  IN \E i \in 1 .. Len(seen) - Len(words) + 1 :
        SubSeq(seen, i, i + Len(words) - 1) = words

Beyond(text, i) == SubSeq(text, i + 1, Len(text))
LastOf(text, symbol) ==
  LET at == {i \in 1 .. Len(text) : text[i] = symbol}
  IN IF at = {} THEN 0 ELSE CHOOSE i \in at : \A j \in at : j <= i
NextLine(text, i) ==
  LET at == {k \in i .. Len(text) : text[k] = "nl"}
  IN IF at = {} THEN 0 ELSE CHOOSE k \in at : \A j \in at : k <= j

(* The user's own words are no evidence.                                   *)
Evidence(text) == Beyond(text, LastOf(text, "user"))

(* dtg_goal_successful_check: the last result is an event, and tells of a  *)
(* command that was successful.                                            *)
GoalChecked(ev) ==
  LET result == LastOf(ev, "result")
      starts == {s \in 1 .. result : s = 1 \/ ev[s - 1] = "nl" \/ ev[s] = "RS"}
      line == CHOOSE s \in starts : \A t \in starts : t <= s
      end == NextLine(ev, line)
  IN /\ result # 0 /\ end # 0
     /\ SubSeq(ev, line, end) = <<"RS", "result", "passed", "nl">>

(* dtg_agent_completion_contract; node.calls is watchdog_tool_calls.       *)
ReceiptScope(node, ev) ==
  IF node.toolResult THEN Beyond(ev, NextLine(ev, LastOf(ev, "result"))) ELSE ev
Completes(node, text) ==
  LET ev == Evidence(text)
  IN \/ ~node.toolResult /\ ~node.expect
     \/ /\ text # <<>>
        /\ node.toolResult => node.calls > 0 /\ LastOf(ev, "result") # 0
        /\ node.goal => GoalChecked(ev)
        /\ node.expect =>
             /\ node.toolResult => NextLine(ev, LastOf(ev, "result")) # 0
             /\ Shows(ReceiptScope(node, ev), Receipt)
NeedsInput(node, text) == node.goal /\ text # <<>> /\ Shows(Evidence(text), Blocked)

(* dtg_native_verify_agent_receipt: a gate judges its source once more, by *)
(* what the buffer holds then.                                             *)
GatePasses(source, buf) ==
  source.state = "succeeded" /\ Completes(source, Slice(buf, source.from, source.to))
=============================================================================
