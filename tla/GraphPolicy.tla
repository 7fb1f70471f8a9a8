----------------------------- MODULE GraphPolicy -----------------------------
(***************************************************************************)
(* What DStudio accepts as a Task Graph (dstudio_task_graph.c and          *)
(* dstudio_task_policy.c): a JSON proposal is parsed into a definition,    *)
(* the definition is validated, and each native action is held against the *)
(* kind, the mutation class and the capabilities of its node.  TaskStore   *)
(* keeps accepted definitions, TaskScheduler assumes what is proved of     *)
(* them in TaskStore_proofs.                                               *)
(*                                                                         *)
(* A JSON object is a function on the names of its fields; a refusal is    *)
(* the definition Refused.  Titles, goals and byte limits of strings are   *)
(* left out; of a path or a text only what the policy asks about is kept.  *)
(***************************************************************************)
EXTENDS Naturals, Sequences, FiniteSets

CONSTANT Refused       (* what the parser returns when it refuses           *)

Kinds == {"agent_turn", "host_tool", "gate", "approval", "join"}
Mutations == {"read_only", "artifact_only", "workspace_write", "external_side_effect"}
Conditions == {"succeeded", "terminal"}
Policies == {"agent.general.v1", "plan.v1", "test.synthetic.v1"}
AgentActions == {"agent.prompt", "agent.goal"}

(* dtg_json_object_string, _bool, _int: an absent field has its default.   *)
Field(object, name, default) ==
  IF name \in DOMAIN object THEN object[name] ELSE default

Indices(g) == 1 .. Len(g.nodes)
Ids(g) == {g.nodes[i].id : i \in Indices(g)}
DepIds(n) == {n.deps[d].node : d \in 1 .. Len(n.deps)}
-----------------------------------------------------------------------------
(* The parser.                                                             *)

(* dtg_parse_dependencies: a string is a dependency on success.            *)
ParsedDependency(d) ==
  [node |-> d.node, on |-> Field(d, "condition", "succeeded")]

(* dtg_add_dependency refuses the second one of a node.                    *)
Repeats(deps) == \E d, e \in 1 .. Len(deps) : d < e /\ deps[d].node = deps[e].node

(* dtg_parse_node, dtg_parse_action: approvals and joins have one action.  *)
DefaultAction(kind) ==
  CASE kind = "approval" -> "approval.wait"
    [] kind = "join" -> "join.all"
    [] OTHER -> "none"

ParsedNode(o) ==
  [id |-> o.id, kind |-> o.kind, state |-> "draft",
   mutation |-> Field(o, "mutation", "read_only"),
   deps |-> [d \in 1 .. Len(Field(o, "dependsOn", <<>>)) |-> ParsedDependency(o.dependsOn[d])],
   capabilities |-> Field(o, "capabilities", {}),
   outputs |-> Field(o, "outputs", {}),
   action |-> Field(o, "action", DefaultAction(o.kind)),
   path |-> Field(o, "path", "none"),
   text |-> Field(o, "text", FALSE),
   expect |-> Field(o, "contains", FALSE),
   toolResult |-> Field(o, "requireToolResult", FALSE),
   argv |-> Field(o, "argv", FALSE),
   max |-> Field(o, "maxAttempts", 1),
   automatic |-> Field(o, "automatic", FALSE),
   idempotent |-> Field(o, "idempotent", TRUE),
   optional |-> Field(o, "optional", FALSE)]

NodeParses(o) ==
  /\ o.kind \in Kinds
  /\ Field(o, "mutation", "read_only") \in Mutations
  /\ \A d \in 1 .. Len(Field(o, "dependsOn", <<>>)) :
       Field(o.dependsOn[d], "condition", "succeeded") \in Conditions
  /\ ~Repeats(ParsedNode(o).deps)

(* The first node of an id is the target of its edges (dtg_find_node).     *)
Target(nodes, id) ==
  CHOOSE i \in 1 .. Len(nodes) :
    nodes[i].id = id /\ \A j \in 1 .. i - 1 : nodes[j].id # id

(* dtg_parse_graph_json: an edge is another way to write a dependency; one *)
(* that is there already is dropped, one that says something else is       *)
(* refused.  Unlike in dependsOn, a condition nobody knows means success.  *)
EdgeDependency(edge) ==
  [node |-> edge.from,
   on |-> IF Field(edge, "condition", "succeeded") = "terminal" THEN "terminal" ELSE "succeeded"]

Merged(nodes, edge) ==
  LET n == nodes[Target(nodes, edge.to)]
      dep == EdgeDependency(edge)
  IN IF nodes = Refused \/ edge.to \notin {nodes[i].id : i \in 1 .. Len(nodes)} THEN Refused
     ELSE IF dep \in {n.deps[d] : d \in 1 .. Len(n.deps)} THEN nodes
     ELSE IF dep.node \in DepIds(n) THEN Refused
     ELSE [nodes EXCEPT ![Target(nodes, edge.to)].deps = Append(@, dep)]

MergedEdges(nodes, edges) ==
  LET after[k \in 0 .. Len(edges)] ==
        IF k = 0 THEN nodes ELSE Merged(after[k - 1], edges[k])
  IN after[Len(edges)]

Parsed(o) ==
  LET nodes == [i \in 1 .. Len(o.nodes) |-> ParsedNode(o.nodes[i])]
      merged == MergedEdges(nodes, Field(o, "edges", <<>>))
  IN IF Len(o.nodes) = 0 \/ (\E i \in 1 .. Len(o.nodes) : ~NodeParses(o.nodes[i])) \/ merged = Refused
     THEN Refused
     ELSE [policy |-> Field(o, "policy", "agent.general.v1"),
           mode |-> Field(o, "mode", "agent"),
           executor |-> Field(o, "executorMode", "none"),
           approval |-> Field(o, "approval", FALSE),
           maxAttempts |-> Field(o, "maxAttemptsPerNode", 3),
           nodes |-> merged]

(* dtg_graph_definition_json: what graph.json holds, and what the digest   *)
(* of an approval is taken of.  The state of a node is not in it, the      *)
(* fields of an action are only there with its name, and the edges are in  *)
(* dependsOn.                                                              *)
WrittenNode(n) ==
  LET always ==
        [id |-> n.id, kind |-> n.kind, mutation |-> n.mutation,
         dependsOn |-> [d \in 1 .. Len(n.deps) |-> [node |-> n.deps[d].node, condition |-> n.deps[d].on]],
         capabilities |-> n.capabilities, outputs |-> n.outputs, maxAttempts |-> n.max,
         automatic |-> n.automatic, idempotent |-> n.idempotent, optional |-> n.optional]
      acted ==
        [action |-> n.action, path |-> n.path, text |-> n.text, contains |-> n.expect,
         requireToolResult |-> n.toolResult, argv |-> n.argv]
      fields == DOMAIN always \cup (IF n.action = "none" THEN {} ELSE DOMAIN acted)
  IN [f \in fields |-> IF f \in DOMAIN always THEN always[f] ELSE acted[f]]

Definition(g) ==
  [policy |-> g.policy, mode |-> g.mode, executorMode |-> g.executor, approval |-> g.approval,
   maxAttemptsPerNode |-> g.maxAttempts, edges |-> <<>>,
   nodes |-> [i \in Indices(g) |-> WrittenNode(g.nodes[i])]]
-----------------------------------------------------------------------------
(* The shape of a graph.                                                   *)

(* dtg_topological_order: the nodes whose dependencies were all emitted    *)
(* are emitted next; with distinct ids and dependencies a node is emitted  *)
(* when its count reaches zero.                                            *)
Emitted(g) ==
  LET round[k \in 0 .. Len(g.nodes)] ==
        IF k = 0 THEN {}
        ELSE {i \in Indices(g) : DepIds(g.nodes[i]) \subseteq {g.nodes[j].id : j \in round[k - 1]}}
  IN round[Len(g.nodes)]
Sortable(g) == Emitted(g) = Indices(g)

(* dtg_node_has_downstream_gate: a gate on a path of dependencies, of      *)
(* either condition, that starts at the node.                              *)
Downstream(g, start) ==
  LET round[k \in 0 .. Len(g.nodes)] ==
        IF k = 0 THEN {start}
        ELSE round[k - 1] \cup
             {i \in Indices(g) : \E j \in round[k - 1] : g.nodes[j].id \in DepIds(g.nodes[i])}
  IN round[Len(g.nodes)]
HasDownstreamGate(g, i) ==
  \E j \in Downstream(g, i) \ {i} : g.nodes[j].kind = "gate"

(* dtg_capability_allowed                                                  *)
SyntheticCapability(c) == c = "synthetic.any"
CapabilityAllowed(policy, c) ==
  IF policy = "test.synthetic.v1" THEN SyntheticCapability(c) \/ c = "filesystem.read"
  ELSE c \in {"filesystem.read", "filesystem.write", "git.read", "terminal", "network",
              "browser", "artifact.register", "test.run"}

(* dtg_relative_path_valid: of a path, whether it leaves the workspace.    *)
Inside(path) == path # "outside"

ExecutorFits(g) ==
  /\ g.policy \in Policies
  /\ g.executor \in {"none", "synthetic", "native"}
  /\ g.executor = "synthetic" => g.policy = "test.synthetic.v1"
  /\ g.executor = "native" => g.policy = "agent.general.v1"

(* dtg_validate_graph, one node.                                           *)
NodeIsValid(g, strict, i) ==
  LET n == g.nodes[i]
  IN /\ \A j \in Indices(g) : j # i => g.nodes[j].id # n.id
     /\ n.automatic /\ ~n.idempotent => n.action = "agent.prompt" /\ n.toolResult
     /\ n.max <= g.maxAttempts
     /\ \A c \in n.capabilities : CapabilityAllowed(g.policy, c)
     /\ \A path \in n.outputs : Inside(path)
     /\ n.id \notin DepIds(n)
     /\ DepIds(n) \subseteq Ids(g)
     /\ strict /\ n.mutation = "workspace_write" => HasDownstreamGate(g, i)

Valid(g, strict) ==
  /\ ExecutorFits(g)
  /\ \A i \in Indices(g) : NodeIsValid(g, strict, i)
  /\ (\E i \in Indices(g) : g.nodes[i].mutation = "external_side_effect") =>
       g.approval /\ \E i \in Indices(g) : g.nodes[i].kind = "approval"
  /\ Sortable(g)
-----------------------------------------------------------------------------
(* dtg_native_action_policy, one operator per registered action.           *)

PromptFits(g, n) ==
  /\ n.action = "agent.goal" => n.toolResult /\ ~n.automatic
  /\ n.kind = "agent_turn" /\ n.text
  /\ n.toolResult => n.expect
  /\ n.mutation = "workspace_write" => "filesystem.write" \in n.capabilities
  /\ n.mutation = "read_only" =>
       n.capabilities \subseteq {"filesystem.read", "git.read", "artifact.register"}
  /\ n.mutation # "external_side_effect" => {"network", "browser"} \cap n.capabilities = {}
  /\ n.mutation = "external_side_effect" =>
       g.approval /\ {"network", "browser"} \cap n.capabilities # {}

ReadOnlyGate(n) ==
  n.kind = "gate" /\ n.mutation = "read_only" /\ n.capabilities = {"filesystem.read"}

ReceiptFits(g, n) ==
  /\ ReadOnlyGate(n) /\ Len(n.deps) = 1
  /\ \E i \in Indices(g) :
       /\ g.nodes[i].id = n.deps[1].node
       /\ g.nodes[i].action \in AgentActions /\ g.nodes[i].expect

ReadFits(n) ==
  /\ n.kind = "host_tool" /\ n.mutation = "read_only" /\ n.capabilities = {"filesystem.read"}
  /\ n.path \notin {"none", "outside"}

WriteFits(n) ==
  /\ n.kind = "host_tool" /\ n.mutation = "workspace_write"
  /\ n.capabilities = {"filesystem.write"}
  /\ n.path = "inside" /\ n.text      (* nor in .dstudio                   *)

TestFits(n) ==
  /\ n.kind = "host_tool" /\ n.mutation = "workspace_write"
  /\ n.capabilities = {"test.run"} /\ n.argv

AssertFits(n) == ReadOnlyGate(n) /\ n.path \notin {"none", "outside"}

WaitsOnly(n, kind) == n.kind = kind /\ n.mutation = "read_only" /\ n.capabilities = {}

ActionFits(g, n) ==
  \/ n.action \in AgentActions /\ PromptFits(g, n)
  \/ n.action = "agent.receipt.verify" /\ ReceiptFits(g, n)
  \/ n.action = "workspace.read" /\ ReadFits(n)
  \/ n.action = "workspace.write" /\ WriteFits(n)
  \/ n.action = "test.run" /\ TestFits(n)
  \/ n.action = "workspace.assert" /\ AssertFits(n)
  \/ n.action = "outputs.verify" /\ ReadOnlyGate(n)
  \/ n.action = "approval.wait" /\ WaitsOnly(n, "approval")
  \/ n.action = "join.all" /\ WaitsOnly(n, "join")

(* DTG_POLICIES                                                            *)
StrictByDefault(policy) == policy # "test.synthetic.v1"
AllowsExternal(policy) == policy = "agent.general.v1"

(* dtg_policy_validate                                                     *)
Accepted(g, strict) ==
  /\ g.policy \in Policies
  /\ Valid(g, strict \/ StrictByDefault(g.policy))
  /\ \A i \in Indices(g) :
       LET n == g.nodes[i]
       IN /\ n.kind \in Kinds
          /\ n.mutation = "external_side_effect" => AllowsExternal(g.policy)
          /\ g.policy = "plan.v1" => n.state = "draft"
          /\ g.executor = "native" => ActionFits(g, n)

(* dtg_executor_graph_is_available: what may be started.                   *)
Executable(g) ==
  \/ g.executor = "synthetic" /\ g.policy = "test.synthetic.v1"
  \/ /\ g.executor = "native" /\ g.policy = "agent.general.v1" /\ g.mode = "agent"
     /\ \A i \in Indices(g) : ActionFits(g, g.nodes[i])
-----------------------------------------------------------------------------
(* What the rest of the system relies on.                                  *)

(* The order of execution exists: no path of dependencies comes back to    *)
(* its start, and every dependency is a node of the graph.                 *)
Reaches(g, i, j) ==
  \E path \in UNION {[1 .. k -> Indices(g)] : k \in 2 .. Len(g.nodes) + 1} :
    /\ path[1] = i /\ path[Len(path)] = j
    /\ \A s \in 1 .. Len(path) - 1 : g.nodes[path[s]].id \in DepIds(g.nodes[path[s + 1]])
Ordered(g) ==
  \A i \in Indices(g) : DepIds(g.nodes[i]) \subseteq Ids(g) /\ ~Reaches(g, i, i)

(* A writer of the workspace has a gate behind it.                         *)
WritersAreGated(g) ==
  \A i \in Indices(g) : g.nodes[i].mutation = "workspace_write" =>
    \E j \in Indices(g) : g.nodes[j].kind = "gate" /\ Reaches(g, i, j)

(* What TaskScheduler assumes of every node of a native graph.             *)
Writes(n) == n.mutation \in {"workspace_write", "external_side_effect"}
SafeToSchedule(n) ==
  /\ n.automatic /\ ~n.idempotent => n.action = "agent.prompt" /\ n.toolResult
  /\ n.action = "agent.goal" => n.toolResult /\ ~n.automatic
  /\ n.action = "test.run" => n.kind = "host_tool" /\ Writes(n)
  /\ n.kind = "agent_turn" <=> n.action \in AgentActions
  /\ n.kind = "approval" <=> n.action = "approval.wait"
  /\ Writes(n) => n.kind \in {"agent_turn", "host_tool"}
=============================================================================
