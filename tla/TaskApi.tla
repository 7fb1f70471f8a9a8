------------------------------- MODULE TaskApi -------------------------------
(***************************************************************************)
(* The requests that become Task Graphs (dstudio_task_api.c,               *)
(* dstudio_goal.c and api_agent_send of dstudio.c): a prompt is sent to    *)
(* the Agent as it is, or becomes the goal or the work of a graph that the *)
(* host writes itself and submits like any other (GraphPolicy).  Then the  *)
(* precondition of a change, and the feed of the events of a graph.        *)
(***************************************************************************)
EXTENDS GraphPolicy

CONSTANTS
  TextMax,       (* DTG_ACTION_TEXT_MAX                                    *)
  AutoSpare,     (* what api_agent_send leaves free of it: 1024            *)
  GoalSpare,     (* what api_goal_send leaves free of it: 1500             *)
  PageMax        (* the events of one reply                                *)
-----------------------------------------------------------------------------
(* dtg_agent_auto_route: what the words of a prompt say.  control: it is   *)
(* empty, begins with a slash or names a mode; keep: it says not to change *)
(* anything; strong, write, execute, read: verbs; workspace: it names      *)
(* files or code.                                                          *)
Route(p) ==
  CASE p.control -> "direct"
    [] ~p.control /\ p.keep /\ (p.read \/ p.workspace) -> "read_only"
    [] ~p.control /\ ~(p.keep /\ (p.read \/ p.workspace)) ->
         IF ~p.question /\ (p.strong \/ ((p.write \/ p.execute) /\ p.workspace)) THEN "workspace_write"
         ELSE IF p.read /\ p.workspace THEN "read_only" ELSE "direct"

(* api_agent_send: what is made of a prompt.  The reader of a plan, a      *)
(* caller that asks for it and any other mode talk to the Agent directly.  *)
Orchestrated(r) ==
  IF r.orchestration = "goal" THEN IF r.mode = "agent" THEN "goal" ELSE "refused"
  ELSE IF r.mode # "agent" \/ r.orchestration = "native" \/ r.plan THEN "direct"
  ELSE IF r.orchestration = "task-graph" /\ Route(r) = "direct" THEN "read_only"
  ELSE Route(r)
-----------------------------------------------------------------------------
(* dtg_build_automatic_agent_graph: work, a gate that looks for evidence   *)
(* of it, and a join behind the gate.                                      *)
ReceiptGate(id, source) ==
  [id |-> id, kind |-> "gate", mutation |-> "read_only", dependsOn |-> <<[node |-> source]>>,
   capabilities |-> {"filesystem.read"}, action |-> "agent.receipt.verify"]

WorkNode(route) ==
  LET writes == route = "workspace_write"
  IN [id |-> "work", kind |-> "agent_turn", mutation |-> route,
      capabilities |-> {"filesystem.read", "git.read"} \cup
                       (IF writes THEN {"filesystem.write", "terminal", "test.run"} ELSE {}),
      maxAttempts |-> 2, automatic |-> TRUE, idempotent |-> ~writes,
      action |-> "agent.prompt", text |-> TRUE, contains |-> TRUE, requireToolResult |-> TRUE]

AutomaticGraph(route) ==
  [policy |-> "agent.general.v1", mode |-> "agent", executorMode |-> "native",
   maxAttemptsPerNode |-> 2,
   nodes |-> <<WorkNode(route), ReceiptGate("verify", "work"),
               [id |-> "done", kind |-> "join", dependsOn |-> <<[node |-> "verify"]>>,
                action |-> "join.all"]>>]

(* goal_definition: the rounds of a goal are attempts of one node.         *)
GoalNode(rounds) ==
  [id |-> "goal", kind |-> "agent_turn", mutation |-> "workspace_write",
   capabilities |-> {"filesystem.read", "filesystem.write", "git.read", "terminal", "test.run"},
   idempotent |-> FALSE, maxAttempts |-> rounds, automatic |-> FALSE,
   action |-> "agent.goal", text |-> TRUE, contains |-> TRUE, requireToolResult |-> TRUE]
GoalGraph(rounds) ==
  [policy |-> "agent.general.v1", mode |-> "agent", executorMode |-> "native",
   maxAttemptsPerNode |-> rounds,
   nodes |-> <<GoalNode(rounds), ReceiptGate("evidence", "goal")>>]
-----------------------------------------------------------------------------
(* A text is its length and how many of its bytes are written with two;    *)
(* the parser bounds the text as it is written in the definition.  around  *)
(* is what the host says around the words of the user.                     *)
Fits(text, around) == around + text.len + text.escaped <= TextMax

(* api_agent_send and api_goal_send bound the words before they build the  *)
(* definition; dtg_api_agent_auto_send and api_goal_send refuse what the   *)
(* store then does not take.                                               *)
LetThrough(text, spare) == text.len <= TextMax - spare
Sent(text, spare, around) ==
  IF ~LetThrough(text, spare) THEN "413" ELSE IF Fits(text, around) THEN "200" ELSE "422"
-----------------------------------------------------------------------------
(* dtg_api_load_body: a change says which revision of the graph and which  *)
(* event it has seen, and is refused when the graph is past them.          *)
Precondition(body, graph) ==
  IF {"graphId"} \ DOMAIN body # {} THEN "400"
  ELSE IF graph = Refused THEN "404"
  ELSE IF {"expectedRevision", "expectedLastEventSeq"} \ DOMAIN body # {} THEN "400"
  ELSE IF body.expectedRevision # graph.revision \/ body.expectedLastEventSeq # graph.seq THEN "409"
  ELSE "200"

(* api_dtg_events: of the complete lines of the journal, the first PageMax *)
(* whose number is greater than the one asked for.                         *)
Page(journal, since) ==
  LET newer[k \in 0 .. Len(journal)] ==
        IF k = 0 THEN <<>>
        ELSE IF journal[k] > since /\ Len(newer[k - 1]) < PageMax
             THEN Append(newer[k - 1], journal[k]) ELSE newer[k - 1]
  IN newer[Len(journal)]

(* A reader that asks again from the last event it was sent.               *)
Followed(journal, rounds) ==
  LET read[k \in 0 .. rounds] ==
        IF k = 0 THEN <<>>
        ELSE LET seen == read[k - 1]
             IN seen \o Page(journal, IF seen = <<>> THEN 0 ELSE seen[Len(seen)])
  IN read[rounds]
=============================================================================
