---------------------------- MODULE MCGraphPolicy ----------------------------
(***************************************************************************)
(* Bounded proposals for GraphPolicy and bounded requests for TaskApi, and *)
(* what TLC evaluates of them.                                             *)
(***************************************************************************)
EXTENDS TaskApi

Over(object, base) ==
  [f \in DOMAIN object \cup DOMAIN base |-> IF f \in DOMAIN object THEN object[f] ELSE base[f]]

DependsOn(ids) == [dependsOn |-> [d \in 1 .. Len(ids) |-> [node |-> ids[d]]]]

Bare(id, kind) == [id |-> id, kind |-> kind]
WriterNode(id) ==
  Over([mutation |-> "workspace_write", capabilities |-> {"filesystem.write"},
        action |-> "workspace.write", path |-> "inside", text |-> TRUE], Bare(id, "host_tool"))
GateNode(id) ==
  Over([capabilities |-> {"filesystem.read"}, action |-> "outputs.verify"], Bare(id, "gate"))

Native(nodes) == [nodes |-> nodes, executorMode |-> "native"]

(* Three nodes, writers and gates, with every short list of dependencies,  *)
(* on each other, on themselves and on a node that is missing; the ids may *)
(* collide.                                                                *)
DependencyLists == {<<>>} \cup {<<d>> : d \in 1 .. 4} \cup {<<1, 2>>, <<1, 3>>, <<2, 3>>, <<2, 2>>}
ShapeNodes(id) ==
  {Over(DependsOn(l), n) : l \in DependencyLists, n \in {WriterNode(id), GateNode(id)}}
Shapes ==
  {Native(<<a, b, c>>) : a \in ShapeNodes(1), b \in ShapeNodes(2),
                         c \in ShapeNodes(3) \cup {GateNode(1)}}

(* One node with every choice of what the action policy looks at, before a *)
(* gate and behind an approval.                                            *)
Actions ==
  {"none", "agent.prompt", "agent.goal", "agent.receipt.verify", "workspace.read",
   "workspace.write", "test.run", "workspace.assert", "outputs.verify", "approval.wait",
   "join.all", "unknown"}
CapabilitySets ==
  {{}, {"filesystem.read"}, {"filesystem.write"}, {"test.run"}, {"filesystem.write", "network"}, {"root"}}
ActingNodes ==
  {Over([idempotent |-> idempotent, automatic |-> automatic, action |-> action,
         capabilities |-> capabilities, path |-> "inside", text |-> TRUE, argv |-> TRUE,
         contains |-> expect, requireToolResult |-> toolResult, mutation |-> mutation],
        Over(DependsOn(<<1>>), Bare(2, kind))) :
     kind \in Kinds, action \in Actions, capabilities \in CapabilitySets, mutation \in Mutations,
     idempotent \in BOOLEAN, automatic \in BOOLEAN, expect \in BOOLEAN, toolResult \in BOOLEAN}
Before(n) ==
  Over([approval |-> TRUE],
       Native(<<Bare(1, "approval"), n, Over(DependsOn(<<2>>), GateNode(3))>>))

(* Edges beside the dependencies of the second node.                       *)
EdgeObjects ==
  {Over(c, [from |-> from, to |-> to]) : from \in 1 .. 2, to \in 2 .. 4,
     c \in {<<>>, [condition |-> "terminal"], [condition |-> "unknown"]}}
WithEdges ==
  {Over([edges |-> edges],
        Native(<<GateNode(1), Over(DependsOn(l), GateNode(2)), GateNode(3)>>)) :
     l \in {<<>>, <<1>>, <<3>>}, edges \in UNION {[1 .. k -> EdgeObjects] : k \in 0 .. 2}}

AcceptedProposal(o) == Parsed(o) # Refused /\ Accepted(Parsed(o), FALSE)

(* Exactly the graphs that can be executed in some order, whose ids are    *)
(* distinct and whose writers are gated pass; the two loops over the edges *)
(* of dtg_topological_order and dtg_node_has_downstream_gate decide it.    *)
ASSUME ShapesAreJudged ==
  \A o \in Shapes :
    LET g == Parsed(o)
    IN g # Refused =>
         (Accepted(g, FALSE) <=>
            Cardinality(Ids(g)) = Len(g.nodes) /\ Ordered(g) /\ WritersAreGated(g))

(* A node that passes is what the scheduler assumes; some node of each     *)
(* action passes.                                                          *)
ASSUME ActionsAreSafe ==
  LET passed == {n \in ActingNodes : AcceptedProposal(Before(n))}
  IN /\ \A n \in passed : SafeToSchedule(ParsedNode(n))
     /\ {n.action : n \in passed} = Actions \ {"none", "agent.receipt.verify", "unknown"}

(* However a dependency was written, the definition has it once.           *)
ASSUME EdgesAreDependencies ==
  \A o \in WithEdges :
    LET g == Parsed(o)
    IN g # Refused =>
         \A i \in Indices(g) :
           /\ ~Repeats(g.nodes[i].deps)
           /\ DepIds(g.nodes[i]) =
                DepIds(ParsedNode(o.nodes[i])) \cup
                {o.edges[e].from : e \in {x \in 1 .. Len(o.edges) : o.edges[x].to = g.nodes[i].id}}

(* The definition that is stored, hashed for the approval and parsed again *)
(* by a cold load is the graph that was accepted.  The text of an action   *)
(* without a name, which nothing executes, is not stored.                  *)
ASSUME DefinitionsAreFaithful ==
  \A o \in WithEdges \cup {Before(n) : n \in {m \in ActingNodes : m.action # "none"}} :
    Parsed(o) # Refused => Parsed(Definition(Parsed(o))) = Parsed(o)
-----------------------------------------------------------------------------
Prompts ==
  [mode : {"agent", "design"}, orchestration : {"goal", "native", "task-graph", "auto"},
   plan : BOOLEAN, control : BOOLEAN, keep : BOOLEAN, question : BOOLEAN, strong : BOOLEAN,
   write : BOOLEAN, execute : BOOLEAN, read : BOOLEAN, workspace : BOOLEAN]
BuiltGraphs ==
  {Parsed(AutomaticGraph(r)) : r \in {"read_only", "workspace_write"}} \cup
  {Parsed(GoalGraph(rounds)) : rounds \in 1 .. 32}

(* Whatever is made of a prompt can run: each graph the host writes is     *)
(* accepted and executable as it stands, and no turn of it is believed     *)
(* without a gate that looks for the evidence, through which all that      *)
(* follows it goes.                                                        *)
ASSUME BuiltGraphsRun ==
  /\ {Orchestrated(p) : p \in Prompts} =
       {"refused", "direct", "goal", "read_only", "workspace_write"}
  /\ \A g \in BuiltGraphs :
       /\ g # Refused /\ Accepted(g, TRUE) /\ Executable(g)
       /\ \A i \in Indices(g) :
            /\ SafeToSchedule(g.nodes[i])
            /\ g.nodes[i].kind = "agent_turn" =>
                 \A j \in Indices(g) : g.nodes[i].id \in DepIds(g.nodes[j]) =>
                   g.nodes[j].action = "agent.receipt.verify"
       /\ (\E i \in Indices(g) : g.nodes[i].action = "agent.receipt.verify")

(* Who asks a question about the workspace, or to change nothing in it,    *)
(* and does not set a goal, never gets a graph that writes.                *)
ASSUME ReadersGetNoWriter ==
  \A p \in Prompts :
    p.orchestration # "goal" /\ (p.question \/ (p.keep /\ (p.read \/ p.workspace))) =>
      Orchestrated(p) # "workspace_write"

(* Words that are let through and need no escapes fit the action with what *)
(* the host says around them (989, 744 and 879 bytes).                     *)
ASSUME PlainWordsFit ==
  \A len \in 1 .. TextMax, c \in {<<AutoSpare, 989>>, <<AutoSpare, 744>>, <<GoalSpare, 879>>} :
    LET text == [len |-> len, escaped |-> 0]
    IN Sent(text, c[1], c[2]) \in {"200", "413"}

(* A reader that goes on from the last event it was sent reads each one    *)
(* once, in order, however many replies it takes.                          *)
ASSUME FeedIsComplete ==
  \A n \in 0 .. 3 * PageMax :
    LET journal == [k \in 1 .. n |-> k]
    IN \A rounds \in 0 .. 4 :
         LET read == Followed(journal, rounds)
         IN /\ read = SubSeq(journal, 1, Len(read))
            /\ Len(read) = IF n < rounds * PageMax THEN n ELSE rounds * PageMax
=============================================================================
