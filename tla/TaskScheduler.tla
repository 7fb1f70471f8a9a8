--------------------------- MODULE TaskScheduler ----------------------------
(***************************************************************************)
(* The Task Graph scheduler with its native executors and the one Agent    *)
(* process (dstudio_task_scheduler.c, dstudio_task_executor.c, the node    *)
(* cancel of dstudio_task_api.c, the turn bookkeeping of dstudio.c).       *)
(*                                                                         *)
(* DStudio is one thread: a tick or a user request runs from its first to  *)
(* its last durable write without another one in between, and pc says      *)
(* which write comes next.  The host can die between any two of them       *)
(* (MaxCrashes), and any of them can fail (MaxFaults).  A durable write is *)
(* one step: TaskStore shows what it promises.                             *)
(***************************************************************************)
EXTENDS TaskGraphStates, Integers, FiniteSets

CONSTANTS
  Graphs,           (* a set of numbers: the order of the registry          *)
  Nodes,            (* a set of numbers: the order of graph->nodes          *)
  Def,              (* Def[n]: the immutable definition of node n           *)
  ApprovalRequired, (* the graphs a user must approve before they start     *)
  MaxParallelHost,  (* maxParallelHostNodes                                 *)
  MaxCrashes,       (* bound on the host crashes of a behaviour             *)
  MaxFaults         (* bound on the failed writes of a behaviour            *)

Definitions ==
  [graph : Graphs,
   kind : {"agent", "host", "gate", "approval", "join"},
   action : {"prompt", "goal", "process", "sync", "approval"},
   writes : BOOLEAN,           (* workspace_write or external_side_effect   *)
   deps : SUBSET [node : Nodes, on : {"succeeded", "terminal"}],
   max : Nat \ {0},            (* maxAttempts                               *)
   autoRetry : BOOLEAN, idempotent : BOOLEAN, optional : BOOLEAN,
   toolResult : BOOLEAN,       (* requireToolResult                         *)
   timeout : BOOLEAN,          (* timeoutMs > 0                             *)
   priority : Int]

(* dtg_policy_validate and dtg_validate_graph refuse every other table.    *)
ASSUME NumbersAssumption == Graphs \subseteq Nat \ {0} /\ Nodes \subseteq Nat \ {0}
ASSUME ApprovalAssumption == ApprovalRequired \subseteq Graphs
ASSUME BoundsAssumption == MaxCrashes \in Nat /\ MaxFaults \in Nat
ASSUME DefAssumption ==
  /\ Def \in [Nodes -> Definitions]
  /\ \A n \in Nodes, d \in Nodes :
       (\E dep \in Def[n].deps : dep.node = d) => d # n /\ Def[d].graph = Def[n].graph
  /\ \A n \in Nodes :
       /\ Def[n].autoRetry /\ ~Def[n].idempotent =>
            Def[n].action = "prompt" /\ Def[n].toolResult
       /\ Def[n].action = "goal" => Def[n].toolResult /\ ~Def[n].autoRetry
       /\ Def[n].action = "process" => Def[n].kind = "host" /\ Def[n].writes
       /\ Def[n].kind = "agent" <=> Def[n].action \in {"prompt", "goal"}
       /\ Def[n].kind = "approval" <=> Def[n].action = "approval"
       /\ Def[n].writes => Def[n].kind \in {"agent", "host"}

VARIABLES
  (* durable: the journals and the immutable files                          *)
  gst,        (* gst[g]: graph->state                                       *)
  approved,   (* approved[g]: graph->approved                               *)
  nst,        (* nst[n]: node->state                                        *)
  attempts,   (* attempts[n]: node->attempts_started                        *)
  files,      (* attempt files: <<node, attempt, kind>>                     *)
  approvals,  (* the graphs that have an approval.json                      *)
  (* volatile: gone when the host dies                                      *)
  loaded,     (* the graphs in g_dtg_registry                               *)
  exec,       (* exec[n]: native_pid, native_done, native_success, message  *)
  cancelReq,  (* cancelReq[n]: native_cancel_requested                      *)
  tripped,    (* tripped[n]: watchdog_tripped                               *)
  calls,      (* calls[n]: watchdog_tool_calls > 0                          *)
  owner,      (* g_dtg_agent_owner_node, or 0                               *)
  agent,      (* the Agent process as the host sees it                      *)
  (* what goes on without a host                                            *)
  left,       (* test processes and turns of dead hosts: <<what, node,      *)
              (* attempt>>, what being "process" or "turn"                  *)
  pc,         (* the next step of the tick or request being served          *)
  (* bounds and history                                                     *)
  crashes, faults,
  ran         (* ran[n]: the attempts of a OnceOnly node n that had effects  *)

durable  == <<gst, approved, nst, attempts, files, approvals>>
flags    == <<cancelReq, tripped, calls>>
volatile == <<loaded, exec, flags, owner, agent>>
rest     == <<left, crashes, faults, ran>>
vars     == <<durable, volatile, pc, rest>>
-----------------------------------------------------------------------------
NodesOf(g) == {n \in Nodes : Def[n].graph = g}
G(n) == Def[n].graph
IsAgent(n) == Def[n].kind = "agent"

(* Nodes whose effects must not be repeated by a further attempt.          *)
OnceOnly(n) == Def[n].writes /\ ~Def[n].idempotent /\ Def[n].action # "goal"

First(S) == CHOOSE x \in S : \A y \in S : x <= y

(* dtg_graph_running_nodes counts these.                                   *)
Busy(n) == nst[n] \in {"RUNNING", "LEASED", "CANCELLING"}

(* The nodes of the registry, which the global leases look at.             *)
Known == {n \in Nodes : G(n) \in loaded}

Satisfied(dep) ==
  \/ dep.on = "terminal" /\ NodeTerminal(nst[dep.node])
  \/ dep.on = "succeeded" /\ nst[dep.node] \in {"SUCCEEDED", "SKIPPED"}

NeverSatisfied(dep) ==
  dep.on = "succeeded" /\ nst[dep.node] \in {"FAILED", "CANCELLED"}

HasResult(n) == \E kind \in {"ok", "bad"} : <<n, attempts[n], kind>> \in files

(* The durable writes; an illegal transition is refused by the store.      *)
SetNode(n, state) ==
  /\ NodeMayGo(nst[n], state)
  /\ nst' = [nst EXCEPT ![n] = state]

SetGraph(g, state) ==
  /\ GraphMayGo(gst[g], state)
  /\ gst' = [gst EXCEPT ![g] = state]

onlyNode  == <<gst, approved, attempts, files, approvals, volatile, rest>>
onlyGraph == <<approved, nst, attempts, files, approvals, volatile, rest>>
-----------------------------------------------------------------------------
(* Control: tick says whether dtg_scheduler_tick or a request is running.  *)
Idle == [at |-> "idle", g |-> 0, n |-> 0, tick |-> FALSE]

At(label) == pc.at = label
Go(label) == pc' = [pc EXCEPT !.at = label]
GoTo(label, n) == pc' = [pc EXCEPT !.at = label, !.n = n]
Serve(label, g, n) == pc' = [at |-> label, g |-> g, n |-> n, tick |-> FALSE]
Return == pc' = Idle

(* Faulty variant: the tick forgets the graphs that pause.                 *)
ActiveNotPausing(g) == g \in loaded /\ gst[g] \in {"CANCELLING", "RUNNING"}

Active(g) == g \in loaded /\ gst[g] \in {"CANCELLING", "PAUSING", "RUNNING"}

(* The tick goes on with the next graph of the registry that it serves.    *)
Visit(S) ==
  pc' = IF S = {} THEN Idle
        ELSE LET h == First(S)
             IN  [at |-> CASE gst[h] = "CANCELLING" -> "cancel"
                           [] gst[h] = "PAUSING" -> "poll"
                           [] OTHER -> "init",
                  g |-> h, n |-> 0, tick |-> TRUE]

(* Done with a graph: the tick takes the next one, a request returns.      *)
Leave == Visit(IF pc.tick THEN {h \in Graphs : h > pc.g /\ Active(h)} ELSE {})

Tick ==
  /\ At("idle")
  /\ \E g \in Graphs : Active(g)
  /\ Visit({g \in Graphs : Active(g)})
  /\ UNCHANGED <<durable, volatile, rest>>
-----------------------------------------------------------------------------
(* A running graph: drafts enter the scheduler.  dtg_scheduler_start does  *)
(* the same and then ticks; a crash in between leaves the rest to a tick.  *)
Drafts(g) == {n \in NodesOf(g) : nst[n] = "DRAFT"}

InitNode ==
  /\ At("init")
  /\ Drafts(pc.g) # {}
  /\ SetNode(First(Drafts(pc.g)), "PENDING")
  /\ UNCHANGED <<pc, onlyNode>>

InitDone ==
  /\ At("init")
  /\ Drafts(pc.g) = {}
  /\ IF pc.tick THEN GoTo("poll", 0) ELSE Visit({g \in Graphs : Active(g)})
  /\ UNCHANGED <<durable, volatile, rest>>

(* dtg_executor_cancel: a process is killed and reaped on the spot, an     *)
(* Agent turn is interrupted and goes on until it says WAITING.            *)
Killed(n) == IF exec[n] \in {"process", "exit0", "exit1"} THEN "bad" ELSE exec[n]
Interrupted(n) ==
  [agent EXCEPT !.interrupt = @ \/ (owner = n /\ agent.up /\ agent.working)]

ExecutorCancel(n) ==
  /\ exec' = [exec EXCEPT ![n] = Killed(n)]
  /\ cancelReq' = [cancelReq EXCEPT ![n] = TRUE]
  /\ agent' = Interrupted(n)
  /\ UNCHANGED <<loaded, tripped, calls, owner>>

(* The verdict on a turn that has reached WAITING or whose process is      *)
(* gone: healthy, not stopped, and within its completion contract.         *)
Verdicts(n, stopped) ==
  LET unmet == IF Def[n].action = "goal" THEN {"more", "input"} ELSE {"bad"}
  IN  IF tripped[n] \/ stopped \/ ~agent.up \/ agent.turn # "completed" THEN {"bad"}
      ELSE IF Def[n].toolResult /\ ~calls[n] THEN unmet
      ELSE {"ok"} \cup unmet

(* dtg_executor_poll of node n: what exec[n] becomes; {} if it goes on.    *)
Outcomes(n, state, stopped) ==
  IF Def[n].kind = "approval" THEN {}
  ELSE IF owner = n THEN IF agent.working THEN {} ELSE Verdicts(n, stopped)
  ELSE CASE state = "exit0" -> IF stopped THEN {"bad"} ELSE {"ok"}
         [] state = "exit1" -> {"bad"}
         [] state \in {"ok", "bad", "more", "input"} -> {state}
         [] OTHER -> {}

(* The lease of the Agent is given back; its receipt has been read.        *)
Release == owner' = 0 /\ agent' = [agent EXCEPT !.turn = "none"]

NextRunning(g, from) == {n \in NodesOf(g) : n > from /\ nst[n] = "RUNNING"}

(* One node of a running or pausing graph: only a running graph marks an   *)
(* attempt without a live executor as interrupted, and enforces timeouts.  *)
Poll ==
  /\ At("poll")
  /\ NextRunning(pc.g, pc.n) # {}
  /\ LET n == First(NextRunning(pc.g, pc.n))
         running == gst[pc.g] # "PAUSING"
         orphan == running /\ exec[n] = "none" /\ owner # n /\ Def[n].kind # "approval"
     IN  \E late \in {FALSE, running /\ Def[n].timeout} :
           LET state == IF orphan THEN "bad" ELSE IF late THEN Killed(n) ELSE exec[n]
               stopped == cancelReq[n] \/ late
               outcomes == Outcomes(n, state, stopped)
           IN  /\ cancelReq' = [cancelReq EXCEPT ![n] = stopped]
               /\ \/ /\ outcomes = {}
                     /\ exec' = [exec EXCEPT ![n] = state]
                     /\ agent' = IF late THEN Interrupted(n) ELSE agent
                     /\ GoTo("poll", n)
                     /\ UNCHANGED owner
                  \/ \E outcome \in outcomes :
                       /\ exec' = [exec EXCEPT ![n] = outcome]
                       /\ IF owner = n THEN Release ELSE UNCHANGED <<owner, agent>>
                       /\ GoTo("result", n)
  /\ UNCHANGED <<durable, loaded, tripped, calls, rest>>

(* An error in a tick ends the work on this graph; a pausing graph still   *)
(* looks whether it has settled.  In a request it ends the request.        *)
Abort == IF pc.tick /\ gst[pc.g] = "PAUSING" THEN Go("settle") ELSE Leave

(* Faulty variant: a result that is there already counts as written.       *)
WriteResultAgain ==
  /\ At("result")
  /\ files' = files \cup
       {<<pc.n, attempts[pc.n], IF exec[pc.n] = "ok" THEN "ok" ELSE "bad">>}
  /\ Go("ended")
  /\ UNCHANGED <<gst, approved, nst, attempts, approvals, volatile, rest>>

(* dtg_executor_finish: the result file is immutable.                      *)
WriteResult ==
  /\ At("result")
  /\ IF HasResult(pc.n)
     THEN Abort /\ UNCHANGED files
     ELSE /\ files' = files \cup
               {<<pc.n, attempts[pc.n], IF exec[pc.n] = "ok" THEN "ok" ELSE "bad">>}
          /\ Go("ended")
  /\ UNCHANGED <<gst, approved, nst, attempts, approvals, volatile, rest>>

EndAttempt ==
  /\ At("ended")
  /\ \/ exec[pc.n] = "ok" /\ SetNode(pc.n, "SUCCEEDED") /\ Go("poll")
     \/ exec[pc.n] # "ok" /\ SetNode(pc.n, "FAILED") /\ Go("followup")
  /\ UNCHANGED onlyNode

(* Faulty variant: the tool calls of the turn are not looked at.           *)
ProvenNoEffectByContract(n) == Def[n].action = "prompt" /\ Def[n].toolResult

(* After attempt.failed: continue the goal, ask for input, retry, or none. *)
ProvenNoEffect(n) ==
  Def[n].action = "prompt" /\ Def[n].toolResult /\ ~calls[n]

GoalGoesOn(n) ==
  /\ Def[n].action = "goal" /\ exec[n] = "more"
  /\ ~cancelReq[n] /\ ~tripped[n] /\ agent.up
  /\ attempts[n] < Def[n].max

MayRetry(n) ==
  /\ Def[n].autoRetry
  /\ Def[n].idempotent \/ ProvenNoEffect(n)
  /\ attempts[n] < Def[n].max

AsksForInput(n) ==
  ~GoalGoesOn(n) /\ Def[n].action = "goal" /\ gst[G(n)] = "RUNNING"

FollowUpNode ==
  /\ At("followup")
  /\ GoalGoesOn(pc.n) \/ (~AsksForInput(pc.n) /\ MayRetry(pc.n))
  /\ SetNode(pc.n, "PENDING")
  /\ Go("poll")
  /\ UNCHANGED onlyNode

FollowUpGraph ==
  /\ At("followup")
  /\ AsksForInput(pc.n)
  /\ SetGraph(pc.g, "NEEDS_INPUT")
  /\ Go("poll")
  /\ UNCHANGED onlyGraph

FollowUpNone ==
  /\ At("followup")
  /\ ~GoalGoesOn(pc.n) /\ ~AsksForInput(pc.n) /\ ~MayRetry(pc.n)
  /\ Go("poll")
  /\ UNCHANGED <<durable, volatile, rest>>

PollDone ==
  /\ At("poll")
  /\ NextRunning(pc.g, pc.n) = {}
  /\ IF gst[pc.g] = "PAUSING" THEN Go("settle") ELSE Go("ready")
  /\ UNCHANGED <<durable, volatile, rest>>
-----------------------------------------------------------------------------
(* dtg_scheduler_recompute_ready: the next state of a node, if it changes. *)
Blocks(n) == nst[n] = "PENDING" /\ \E dep \in Def[n].deps : NeverSatisfied(dep)

(* Faulty variant: the first dependency that is satisfied will do.         *)
UnblocksAtFirst(n) ==
  /\ nst[n] \in {"PENDING", "BLOCKED"}
  /\ Def[n].deps = {} \/ \E dep \in Def[n].deps : Satisfied(dep)

Unblocks(n) ==
  /\ nst[n] \in {"PENDING", "BLOCKED"}
  /\ \A dep \in Def[n].deps : Satisfied(dep)

Changing(g) == {n \in NodesOf(g) : Blocks(n) \/ Unblocks(n)}

Recompute ==
  /\ At("ready")
  /\ Changing(pc.g) # {}
  /\ LET n == First(Changing(pc.g))
     IN  SetNode(n, IF Blocks(n) THEN "BLOCKED"
                    ELSE IF nst[n] = "BLOCKED" THEN "PENDING" ELSE "READY")
  /\ UNCHANGED <<pc, onlyNode>>

RecomputeDone ==
  /\ At("ready")
  /\ Changing(pc.g) = {}
  /\ Go("dispatch")
  /\ UNCHANGED <<durable, volatile, rest>>

(* dtg_scheduler_next_ready.  ready_ms is not kept: any of the best nodes  *)
(* of equal class and priority may be the older one.                       *)
LlmBusy == \E m \in Known : Busy(m) /\ IsAgent(m)
(* Faulty variant: a writer counts once its start is recorded.             *)
WriterBusyStarted == \E m \in Known : nst[m] = "RUNNING" /\ Def[m].writes
WriterBusy == \E m \in Known : Busy(m) /\ Def[m].writes
HostRunning(g) == {m \in NodesOf(g) : Busy(m) /\ Def[m].kind = "host"}

Dispatchable(n) ==
  /\ nst[n] = "READY"
  /\ IsAgent(n) => ~agent.working /\ owner = 0 /\ ~LlmBusy
  /\ Def[n].writes => ~WriterBusy
  /\ Def[n].kind = "host" => Cardinality(HostRunning(G(n))) < MaxParallelHost

Class(n) ==
  CASE Def[n].kind \in {"gate", "approval"} -> 2
    [] Def[n].kind = "join" -> 1
    [] OTHER -> 0

Outranks(m, n) ==
  \/ Class(m) > Class(n)
  \/ Class(m) = Class(n) /\ Def[m].priority > Def[n].priority

Candidates(g) == {n \in NodesOf(g) : Dispatchable(n)}

Lease ==
  /\ At("dispatch")
  /\ \E n \in Candidates(pc.g) :
       /\ \A m \in Candidates(pc.g) : ~Outranks(m, n)
       /\ SetNode(n, "LEASED")
       /\ GoTo("begin", n)
  /\ UNCHANGED onlyNode

NothingToLease ==
  /\ At("dispatch")
  /\ Candidates(pc.g) = {}
  /\ Go("finalize")
  /\ UNCHANGED <<durable, volatile, rest>>

(* dtg_executor_begin_native, first half: the immutable policy receipt of  *)
(* the attempt; when it is there already the attempt cannot begin.         *)
Attempt(n) == attempts[n] + 1

WritePolicy ==
  /\ At("begin")
  /\ IF <<pc.n, Attempt(pc.n), "policy">> \in files
     THEN Go("defer") /\ UNCHANGED files
     ELSE files' = files \cup {<<pc.n, Attempt(pc.n), "policy">>} /\ Go("request")
  /\ UNCHANGED <<gst, approved, nst, attempts, approvals, volatile, rest>>

(* Second half, after the request file: reset the node's runtime fields    *)
(* and hand it to its executor, which may refuse.  The attempt is spent    *)
(* either way.                                                             *)
Submit(n) ==
  /\ agent.up /\ ~agent.working /\ ~agent.interrupt
  /\ agent' = [agent EXCEPT !.working = TRUE, !.turn = "open"]
  /\ owner' = n
  /\ exec' = [exec EXCEPT ![n] = "turn"]
  /\ UNCHANGED ran

Refuse(n) ==
  /\ exec' = [exec EXCEPT ![n] = "bad"]
  /\ UNCHANGED <<agent, owner, ran>>

RunHere(n, state) ==
  /\ exec' = [exec EXCEPT ![n] = state]
  /\ ran' = IF OnceOnly(n) THEN [ran EXCEPT ![n] = @ \cup {Attempt(n)}] ELSE ran
  /\ UNCHANGED <<agent, owner>>

Launch ==
  /\ At("request")
  /\ LET n == pc.n
     IN  /\ cancelReq' = [cancelReq EXCEPT ![n] = FALSE]
         /\ tripped' = [tripped EXCEPT ![n] = FALSE]
         /\ calls' = [calls EXCEPT ![n] = FALSE]
         /\ CASE IsAgent(n) -> Submit(n) \/ Refuse(n)
              [] Def[n].action = "process" -> RunHere(n, "process") \/ Refuse(n)
              [] Def[n].action = "approval" -> RunHere(n, "waiting")
              [] Def[n].kind = "join" -> RunHere(n, "ok")
              [] OTHER -> RunHere(n, "ok") \/ Refuse(n)
  /\ Go("started")
  /\ UNCHANGED <<durable, loaded, left, crashes, faults>>

StartAttempt ==
  /\ At("started")
  /\ SetNode(pc.n, "RUNNING")
  /\ attempts' = [attempts EXCEPT ![pc.n] = @ + 1]
  /\ Go(IF Def[pc.n].kind = "approval" THEN "waiting" ELSE "dispatched")
  /\ UNCHANGED <<gst, approved, files, approvals, volatile, rest>>

WaitForApproval ==
  /\ At("waiting")
  /\ SetNode(pc.n, "WAITING_APPROVAL")
  /\ Go("graph_waits")
  /\ UNCHANGED onlyNode

GraphWaits ==
  /\ At("graph_waits")
  /\ \/ SetGraph(pc.g, "WAITING_APPROVAL") /\ Go("dispatched")
     \/ ~GraphMayGo(gst[pc.g], "WAITING_APPROVAL") /\ Leave /\ UNCHANGED gst
  /\ UNCHANGED onlyGraph

(* Faulty variant: goes on with a graph that has come to wait.             *)
DispatchedOn ==
  /\ At("dispatched")
  /\ Go("dispatch")
  /\ UNCHANGED <<durable, volatile, rest>>

(* The loop looks at the graph only after it has dispatched a node.        *)
Dispatched ==
  /\ At("dispatched")
  /\ Go(IF gst[pc.g] = "RUNNING" THEN "dispatch" ELSE "finalize")
  /\ UNCHANGED <<durable, volatile, rest>>

Defer ==
  /\ At("defer")
  /\ SetNode(pc.n, "READY")
  /\ Leave
  /\ UNCHANGED onlyNode

(* dtg_scheduler_finalize_graph.                                           *)
(* Faulty variant: only a node that failed itself fails the graph.         *)
RequiredFailureItself(g) ==
  \E n \in NodesOf(g) : ~Def[n].optional /\ nst[n] = "FAILED"

RequiredFailure(g) ==
  \E n \in NodesOf(g) :
    ~Def[n].optional /\ nst[n] \in {"FAILED", "CANCELLED", "BLOCKED"}

Unfinished(g) == \E n \in NodesOf(g) : ~NodeTerminal(nst[n])

Finalize ==
  /\ At("finalize")
  /\ IF gst[pc.g] = "RUNNING" /\ (RequiredFailure(pc.g) \/ ~Unfinished(pc.g))
     THEN SetGraph(pc.g, IF RequiredFailure(pc.g) THEN "FAILED" ELSE "SUCCEEDED")
     ELSE UNCHANGED gst
  /\ Leave
  /\ UNCHANGED onlyGraph

(* A pausing graph with nothing running freezes its ready nodes.           *)
ReadyIn(g) == {n \in NodesOf(g) : nst[n] = "READY"}
Settled(g) == \A n \in NodesOf(g) : ~Busy(n)

PauseNode ==
  /\ At("settle")
  /\ Settled(pc.g) /\ ReadyIn(pc.g) # {}
  /\ SetNode(First(ReadyIn(pc.g)), "PAUSED")
  /\ UNCHANGED <<pc, onlyNode>>

PauseGraph ==
  /\ \/ At("settle") /\ Settled(pc.g) /\ ReadyIn(pc.g) = {}
     \/ At("pause_graph")
  /\ SetGraph(pc.g, "PAUSED")
  /\ Leave
  /\ UNCHANGED onlyGraph

NotSettled ==
  /\ At("settle") /\ ~Settled(pc.g)
  /\ Leave
  /\ UNCHANGED <<durable, volatile, rest>>

(* dtg_scheduler_process_cancelling, one write at a time.                  *)
Living(g) == {n \in NodesOf(g) : ~NodeTerminal(nst[n])}

CancelMark ==
  /\ At("cancel")
  /\ Living(pc.g) # {}
  /\ LET n == First(Living(pc.g))
     IN  nst[n] \in {"RUNNING", "LEASED"} /\ SetNode(n, "CANCELLING")
  /\ UNCHANGED <<pc, onlyNode>>

CancelEnd ==
  /\ At("cancel")
  /\ Living(pc.g) # {}
  /\ LET n == First(Living(pc.g))
     IN  /\ nst[n] \notin {"RUNNING", "LEASED"}
         /\ SetNode(n, "CANCELLED")
         /\ IF nst[n] = "CANCELLING"
            THEN ExecutorCancel(n)
            ELSE UNCHANGED volatile
  /\ UNCHANGED <<pc, gst, approved, attempts, files, approvals, rest>>

(* Faulty variant: expects every node to end as cancelled.                 *)
CancelGraphIfAll ==
  /\ At("cancel")
  /\ Living(pc.g) = {}
  /\ IF \A n \in NodesOf(pc.g) : nst[n] = "CANCELLED"
     THEN SetGraph(pc.g, "CANCELLED")
     ELSE UNCHANGED gst
  /\ Leave
  /\ UNCHANGED onlyGraph

CancelGraph ==
  /\ At("cancel")
  /\ Living(pc.g) = {}
  /\ SetGraph(pc.g, "CANCELLED")
  /\ Leave
  /\ UNCHANGED onlyGraph
-----------------------------------------------------------------------------
(* Requests of the user; each needs its graph in the registry.             *)
Start(g) ==
  /\ At("idle") /\ g \in loaded
  /\ g \in ApprovalRequired => approved[g]
  /\ gst[g] = "READY"
  /\ SetGraph(g, "RUNNING")
  /\ Serve("init", g, 0)
  /\ UNCHANGED onlyGraph

Pause(g) ==
  /\ At("idle") /\ g \in loaded
  /\ gst[g] = "RUNNING"
  /\ SetGraph(g, "PAUSING")
  /\ UNCHANGED <<pc, onlyGraph>>

(* dtg_scheduler_resume: a failed goal is given another attempt, the gates *)
(* that only wait for it are unblocked, the graph runs, nodes are thawed.  *)
Goals(g) == {n \in NodesOf(g) : Def[n].action = "goal"}

(* Faulty variant: gives a goal a turn beyond its budget.                  *)
ResumeBeyond(g) ==
  /\ At("idle") /\ g \in loaded
  /\ gst[g] = "PAUSED" \/ (gst[g] = "NEEDS_INPUT" /\ Goals(g) # {})
  /\ IF \E n \in Goals(g) : nst[n] = "FAILED"
     THEN SetNode(First({n \in Goals(g) : nst[n] = "FAILED"}), "PENDING")
     ELSE UNCHANGED nst
  /\ Serve("resume", g, 0)
  /\ UNCHANGED onlyNode

Resume(g) ==
  /\ At("idle") /\ g \in loaded
  /\ gst[g] = "PAUSED" \/ (gst[g] = "NEEDS_INPUT" /\ Goals(g) # {})
  /\ \A n \in Goals(g) : nst[n] = "FAILED" => attempts[n] < Def[n].max
  /\ IF \E n \in Goals(g) : nst[n] = "FAILED"
     THEN SetNode(First({n \in Goals(g) : nst[n] = "FAILED"}), "PENDING")
     ELSE UNCHANGED nst
  /\ Serve("resume", g, 0)
  /\ UNCHANGED onlyNode

WaitingGates(g) ==
  {n \in NodesOf(g) :
     /\ nst[n] = "BLOCKED"
     /\ \E d \in Goals(g) : nst[d] = "PENDING" /\ {dep.node : dep \in Def[n].deps} = {d}}

ResumeGate ==
  /\ At("resume")
  /\ WaitingGates(pc.g) # {}
  /\ SetNode(First(WaitingGates(pc.g)), "PENDING")
  /\ UNCHANGED <<pc, onlyNode>>

ResumeGraph ==
  /\ At("resume")
  /\ WaitingGates(pc.g) = {}
  /\ SetGraph(pc.g, "RUNNING")
  /\ Go("thaw")
  /\ UNCHANGED onlyGraph

PausedIn(g) == {n \in NodesOf(g) : nst[n] = "PAUSED"}

Thaw ==
  /\ At("thaw")
  /\ PausedIn(pc.g) # {}
  /\ SetNode(First(PausedIn(pc.g)), "READY")
  /\ UNCHANGED <<pc, onlyNode>>

Thawed ==
  /\ At("thaw")
  /\ PausedIn(pc.g) = {}
  /\ Return
  /\ UNCHANGED <<durable, volatile, rest>>

(* dtg_scheduler_cancel: before the start the nodes go first and the graph *)
(* with them, afterwards the graph is CANCELLING while they settle.        *)
Cancel(g) ==
  /\ At("idle") /\ g \in loaded
  /\ ~GraphTerminal(gst[g])
  /\ IF gst[g] \in {"DRAFT", "VALIDATED", "READY"}
     THEN UNCHANGED gst
     ELSE SetGraph(g, "CANCELLING")
  /\ Serve("cancel", g, 0)
  /\ UNCHANGED onlyGraph

ApproveGraph(g) ==
  /\ At("idle") /\ g \in loaded
  /\ g \in ApprovalRequired /\ ~approved[g] /\ gst[g] = "VALIDATED"
  /\ g \notin approvals
  /\ approvals' = approvals \cup {g}
  /\ Serve("approve_graph", g, 0)
  /\ UNCHANGED <<gst, approved, nst, attempts, files, volatile, rest>>

GraphApproved ==
  /\ At("approve_graph")
  /\ SetGraph(pc.g, "READY")
  /\ approved' = [approved EXCEPT ![pc.g] = TRUE]
  /\ Return
  /\ UNCHANGED <<nst, attempts, files, approvals, volatile, rest>>

(* Faulty variant: no receipt.                                             *)
ApproveNodeUnrecorded(n) ==
  /\ At("idle") /\ G(n) \in loaded
  /\ Def[n].kind = "approval" /\ nst[n] = "WAITING_APPROVAL"
  /\ Serve("approve_result", G(n), n)
  /\ UNCHANGED <<durable, volatile, rest>>

(* dtg_scheduler_approve_node: receipt, result, node, graph.               *)
ApproveNode(n) ==
  /\ At("idle") /\ G(n) \in loaded
  /\ Def[n].kind = "approval" /\ nst[n] = "WAITING_APPROVAL"
  /\ <<n, attempts[n], "approval">> \notin files
  /\ files' = files \cup {<<n, attempts[n], "approval">>}
  /\ Serve("approve_result", G(n), n)
  /\ UNCHANGED <<gst, approved, nst, attempts, approvals, volatile, rest>>

ApprovalResult ==
  /\ At("approve_result")
  /\ IF HasResult(pc.n)
     THEN Return /\ UNCHANGED files
     ELSE files' = files \cup {<<pc.n, attempts[pc.n], "ok">>} /\ Go("approve_node")
  /\ UNCHANGED <<gst, approved, nst, attempts, approvals, volatile, rest>>

NodeApproved ==
  /\ At("approve_node")
  /\ SetNode(pc.n, "SUCCEEDED")
  /\ IF gst[pc.g] = "WAITING_APPROVAL" THEN Go("approve_resume") ELSE Return
  /\ UNCHANGED onlyNode

ApprovalResumes ==
  /\ At("approve_resume")
  /\ SetGraph(pc.g, "RUNNING")
  /\ Return
  /\ UNCHANGED onlyGraph

Retry(n) ==
  /\ At("idle") /\ G(n) \in loaded
  /\ nst[n] = "FAILED" /\ attempts[n] < Def[n].max
  /\ Def[n].idempotent \/ ~Def[n].writes
  /\ SetNode(n, "PENDING")
  /\ UNCHANGED <<pc, onlyNode>>

Skip(n) ==
  /\ At("idle") /\ G(n) \in loaded
  /\ Def[n].optional /\ nst[n] \in {"PENDING", "READY", "BLOCKED"}
  /\ SetNode(n, "SKIPPED")
  /\ UNCHANGED <<pc, onlyNode>>

(* dtg_node_cancel: stop the executor, then two writes.                    *)
CancelNode(n) ==
  /\ At("idle") /\ G(n) \in loaded
  /\ ~NodeTerminal(nst[n])
  /\ IF nst[n] \in {"RUNNING", "LEASED"}
     THEN ExecutorCancel(n) /\ Serve("cancelling_node", G(n), n)
     ELSE UNCHANGED volatile /\ Serve("cancel_node", G(n), n)
  /\ UNCHANGED <<durable, rest>>

NodeCancelling ==
  /\ At("cancelling_node")
  /\ SetNode(pc.n, "CANCELLING")
  /\ Go("cancel_node")
  /\ UNCHANGED onlyNode

NodeCancelled ==
  /\ At("cancel_node")
  /\ SetNode(pc.n, "CANCELLED")
  /\ Return
  /\ UNCHANGED onlyNode
-----------------------------------------------------------------------------
(* The Agent process and the test processes, seen by the main loop.        *)
Turning(n) == owner = n /\ agent.working

(* A tool call of a turn; the watchdog counts those of the owner.  The     *)
(* turn is that of the last attempt with a policy receipt: attempts[n] is  *)
(* behind when attempt.started could not be written.                       *)
LastAttempt(n) == Cardinality({f \in files : f[1] = n /\ f[3] = "policy"})

ToolCall(n) ==
  /\ At("idle") /\ Turning(n)
  /\ calls' = [calls EXCEPT ![n] = TRUE]
  /\ ran' = IF OnceOnly(n) THEN [ran EXCEPT ![n] = @ \cup {LastAttempt(n)}] ELSE ran
  /\ UNCHANGED <<durable, loaded, exec, cancelReq, tripped, owner, agent, pc,
                 left, crashes, faults>>

WatchdogTrips(n) ==
  /\ At("idle") /\ Turning(n)
  /\ calls[n] /\ ~tripped[n]
  /\ tripped' = [tripped EXCEPT ![n] = TRUE]
  /\ agent' = Interrupted(n)
  /\ UNCHANGED <<durable, loaded, exec, cancelReq, calls, owner, pc, rest>>

(* +DSTUDIO_TURN_ERROR.                                                    *)
TurnError ==
  /\ At("idle") /\ agent.working /\ agent.turn = "open"
  /\ agent' = [agent EXCEPT !.turn = "failed"]
  /\ UNCHANGED <<durable, loaded, exec, flags, owner, pc, rest>>

(* Faulty variant: whoever owns the lease loses it.                        *)
AbandonedAlways == owner # 0

(* dtg_executor_owner_release.                                             *)
Abandoned == owner # 0 /\ NodeTerminal(nst[owner])

(* +DWARFSTAR_WAITING, at the end of a turn or of the load of the process. *)
(* The lease of a node that is over is released only here.                 *)
Waiting ==
  /\ At("idle") /\ agent.working
  /\ agent' = [agent EXCEPT !.working = FALSE, !.interrupt = FALSE,
                            !.turn = IF Abandoned THEN "none"
                                     ELSE IF @ = "open" THEN "completed" ELSE @]
  /\ owner' = IF Abandoned THEN 0 ELSE owner
  /\ UNCHANGED <<durable, loaded, exec, flags, pc, rest>>

AgentReady ==
  /\ At("idle") /\ ~agent.up
  /\ agent' = [agent EXCEPT !.up = TRUE, !.turn = IF Abandoned THEN "none" ELSE @]
  /\ owner' = IF Abandoned THEN 0 ELSE owner
  /\ UNCHANGED <<durable, loaded, exec, flags, pc, rest>>

(* reap_child, or request_child_stop: the turn is over without a receipt.  *)
AgentDies ==
  /\ At("idle") /\ agent.up
  /\ agent' = [up |-> FALSE, working |-> FALSE, interrupt |-> FALSE,
               turn |-> IF agent.turn = "open" THEN "failed" ELSE agent.turn]
  /\ UNCHANGED <<durable, loaded, exec, flags, owner, pc, rest>>

(* api_agent_send: an ordinary turn, refused while a graph owns the lease. *)
UserTurn ==
  /\ At("idle")
  /\ agent.up /\ ~agent.working /\ ~agent.interrupt /\ owner = 0
  /\ agent' = [agent EXCEPT !.working = TRUE]
  /\ UNCHANGED <<durable, loaded, exec, flags, owner, pc, rest>>

ProcessExits(n) ==
  /\ At("idle") /\ exec[n] = "process"
  /\ \E status \in {"exit0", "exit1"} : exec' = [exec EXCEPT ![n] = status]
  /\ UNCHANGED <<durable, loaded, flags, owner, agent, pc, rest>>
-----------------------------------------------------------------------------
(* A durable write fails: the caller gives up.                             *)
Writes ==
  {"init", "result", "ended", "followup", "ready", "begin", "request",
   "started", "waiting", "graph_waits", "defer", "finalize", "settle",
   "pause_graph", "cancel", "resume", "thaw", "approve_graph",
   "approve_result", "approve_node", "approve_resume", "cancelling_node",
   "cancel_node"}

WriteFails ==
  /\ faults < MaxFaults
  /\ pc.at \in Writes
  /\ CASE pc.at \in {"begin", "request"} -> Go("defer")
       [] At("settle") /\ Settled(pc.g) /\ ReadyIn(pc.g) # {} -> Go("pause_graph")
       [] pc.at \in {"result", "ended", "followup"} -> Abort
       [] OTHER -> Leave
  /\ faults' = faults + 1
  /\ UNCHANGED <<durable, volatile, left, crashes, ran>>

(* A cold load of a graph the host does not hold.                          *)
Load(g) ==
  /\ At("idle") /\ g \notin loaded
  /\ loaded' = loaded \cup {g}
  /\ UNCHANGED <<durable, exec, flags, owner, agent, pc, rest>>

AgentDown == [up |-> FALSE, working |-> FALSE, interrupt |-> FALSE, turn |-> "none"]

(* A test process is in a group of its own, and nobody signals it; an      *)
(* Agent whose stdin has ended reads that after its turn at the latest.    *)
Survivors ==
  {<<"process", n, LastAttempt(n)>> : n \in {m \in Nodes : exec[m] = "process"}} \cup
  {<<"turn", n, LastAttempt(n)>> : n \in {m \in Nodes : Turning(m)}}

LeftCalls(x) ==
  /\ x[1] = "turn"
  /\ ran' = IF OnceOnly(x[2]) THEN [ran EXCEPT ![x[2]] = @ \cup {x[3]}] ELSE ran
  /\ UNCHANGED <<durable, volatile, pc, left, crashes, faults>>

LeftEnds(x) ==
  /\ left' = left \ {x}
  /\ UNCHANGED <<durable, volatile, pc, crashes, faults, ran>>

(* The host dies; its memory goes, what it had started may not.            *)
Crash ==
  /\ crashes < MaxCrashes
  /\ crashes' = crashes + 1
  /\ left' = left \cup Survivors
  /\ loaded' = {}
  /\ exec' = [n \in Nodes |-> "none"]
  /\ cancelReq' = [n \in Nodes |-> FALSE]
  /\ tripped' = [n \in Nodes |-> FALSE]
  /\ calls' = [n \in Nodes |-> FALSE]
  /\ owner' = 0
  /\ agent' = AgentDown
  /\ pc' = Idle
  /\ UNCHANGED <<durable, faults, ran>>
-----------------------------------------------------------------------------
(* dtg_store_create leaves a graph READY, or VALIDATED if it wants the     *)
(* user's approval.                                                        *)
Init ==
  /\ gst = [g \in Graphs |-> IF g \in ApprovalRequired THEN "VALIDATED" ELSE "READY"]
  /\ approved = [g \in Graphs |-> FALSE]
  /\ nst = [n \in Nodes |-> "DRAFT"]
  /\ attempts = [n \in Nodes |-> 0]
  /\ files = {}
  /\ approvals = {}
  /\ loaded = Graphs
  /\ exec = [n \in Nodes |-> "none"]
  /\ cancelReq = [n \in Nodes |-> FALSE]
  /\ tripped = [n \in Nodes |-> FALSE]
  /\ calls = [n \in Nodes |-> FALSE]
  /\ owner = 0
  /\ agent = [AgentDown EXCEPT !.up = TRUE]
  /\ pc = Idle
  /\ left = {}
  /\ crashes = 0
  /\ faults = 0
  /\ ran = [n \in Nodes |-> {}]

TickStep ==
  \/ Tick \/ InitNode \/ InitDone \/ Poll \/ PollDone
  \/ WriteResult \/ EndAttempt \/ FollowUpNode \/ FollowUpGraph \/ FollowUpNone
  \/ Recompute \/ RecomputeDone \/ Lease \/ NothingToLease
  \/ WritePolicy \/ Launch \/ StartAttempt \/ WaitForApproval \/ GraphWaits
  \/ Dispatched \/ Defer \/ Finalize
  \/ PauseNode \/ PauseGraph \/ NotSettled
  \/ CancelMark \/ CancelEnd \/ CancelGraph

RequestStep ==
  \/ ResumeGate \/ ResumeGraph \/ Thaw \/ Thawed
  \/ GraphApproved \/ ApprovalResult \/ NodeApproved \/ ApprovalResumes
  \/ NodeCancelling \/ NodeCancelled

Request ==
  \/ \E g \in Graphs :
       Start(g) \/ Pause(g) \/ Resume(g) \/ Cancel(g) \/ ApproveGraph(g)
  \/ \E n \in Nodes : ApproveNode(n) \/ Retry(n) \/ Skip(n) \/ CancelNode(n)

Environment ==
  \/ \E n \in Nodes : ToolCall(n) \/ WatchdogTrips(n) \/ ProcessExits(n)
  \/ TurnError \/ Waiting \/ AgentReady \/ AgentDies \/ UserTurn
  \/ \E x \in left : LeftCalls(x) \/ LeftEnds(x)

Next ==
  \/ TickStep \/ RequestStep \/ Request \/ Environment
  \/ WriteFails \/ Crash
  \/ \E g \in Graphs : Load(g)

Spec == Init /\ [][Next]_vars

(* Fairness.  The main loop comes back to the tick and finishes what it    *)
(* began; a turn ends, a test process exits, an Agent that is loading gets *)
(* ready.  These three are looked at between ticks, so they are enabled    *)
(* again and again and not for ever: hence SF.  AgentIdleTick: the user    *)
(* does not send a turn of his own in the very loop of every WAITING.      *)
AgentIdleTick == Tick /\ ~agent.working

Fairness ==
  /\ WF_vars(TickStep \/ RequestStep)
  /\ SF_vars(AgentIdleTick)
  /\ SF_vars(Waiting \/ AgentReady)
  /\ SF_vars((\E n \in Nodes : ProcessExits(n)) \/ (\E g \in Graphs : Load(g)))

FairSpec == Spec /\ Fairness
-----------------------------------------------------------------------------
(* The type invariant.                                                     *)
Labels == Writes \cup {"idle", "poll", "dispatch", "dispatched"}

TypeOK ==
  /\ gst \in [Graphs -> GraphStates]
  /\ approved \in [Graphs -> BOOLEAN]
  /\ nst \in [Nodes -> NodeStates]
  /\ attempts \in [Nodes -> Nat]
  /\ \A f \in files :
       /\ f[1] \in Nodes /\ f[2] \in 1 .. Def[f[1]].max
       /\ f[3] \in {"policy", "approval", "ok", "bad"}
  /\ approvals \subseteq Graphs
  /\ loaded \subseteq Graphs
  /\ exec \in [Nodes -> {"none", "turn", "process", "exit0", "exit1", "waiting",
                        "ok", "bad", "more", "input"}]
  /\ cancelReq \in [Nodes -> BOOLEAN]
  /\ tripped \in [Nodes -> BOOLEAN]
  /\ calls \in [Nodes -> BOOLEAN]
  /\ owner \in Nodes \cup {0}
  /\ agent \in [up : BOOLEAN, working : BOOLEAN, interrupt : BOOLEAN,
               turn : {"none", "open", "completed", "failed"}]
  /\ pc \in [at : Labels, g : Graphs \cup {0}, n : Nodes \cup {0}, tick : BOOLEAN]
  /\ \A x \in left :
       x[1] \in {"turn", "process"} /\ x[2] \in Nodes /\ x[3] \in 1 .. Def[x[2]].max
  /\ crashes \in 0 .. MaxCrashes
  /\ faults \in 0 .. MaxFaults
  /\ \A n \in Nodes : ran[n] \subseteq 1 .. Def[n].max

(* One LLM node and one workspace writer run at a time, over all graphs,   *)
(* of what this host has started.  A cancel gives the workspace away       *)
(* before the executor is gone: a turn that was cancelled winds down to    *)
(* its WAITING beside the next writer, and a process whose node was        *)
(* cancelled after a failed write goes on.  What a dead host has left runs *)
(* beside all of it; that is one turn at most for each death.              *)
Turns(n) == exec[n] = "turn" /\ (Busy(n) \/ owner = n)
Writing(n) == Def[n].writes /\ (Turns(n) \/ exec[n] = "process")
LeftTurns == {x \in left : x[1] = "turn"}

OneLlmOneWriter ==
  /\ \A m, n \in Nodes : m # n =>
       /\ ~(Turns(m) /\ Turns(n))
       /\ Writing(m) /\ Writing(n) => nst[m] = "CANCELLED" \/ nst[n] = "CANCELLED"
  /\ Cardinality(LeftTurns) <= crashes

(* extension/task-graph/README.md:91 says it without these exceptions.     *)
OneWriterAtAll ==
  /\ \A m, n \in Nodes : m # n => ~(Writing(m) /\ Writing(n))
  /\ \A n \in Nodes, x \in left : ~(Writing(n) /\ Def[x[2]].writes)

(* A node gets past PENDING only when every node it needs has succeeded or *)
(* was skipped, whatever was retried, skipped, cancelled or resumed since. *)
Admitted(n) ==
  nst[n] \in {"READY", "LEASED", "RUNNING", "WAITING_APPROVAL", "PAUSED",
             "CANCELLING", "SUCCEEDED", "FAILED"}

DependenciesFirst ==
  \A n \in Nodes : Admitted(n) =>
    \A dep \in Def[n].deps :
      dep.on = "succeeded" => nst[dep.node] \in {"SUCCEEDED", "SKIPPED"}

(* No attempt beyond maxAttempts, by any mixture of automatic retries,     *)
(* goal continuations, explicit retries, resumes and crashes: a node that  *)
(* may still be leased has an attempt left.                                *)
MayBeLeased(n) ==
  nst[n] \in {"DRAFT", "PENDING", "BLOCKED", "READY", "PAUSED", "LEASED"}

AttemptBudget ==
  \A n \in Nodes :
    /\ attempts[n] <= Def[n].max
    /\ MayBeLeased(n) => attempts[n] < Def[n].max

(* The verdict of an attempt is on disk before the state that follows from *)
(* it, and agrees with it, also after crashes and failed writes.           *)
ResultBeforeState ==
  \A n \in Nodes :
    /\ nst[n] = "SUCCEEDED" => <<n, attempts[n], "ok">> \in files
    /\ nst[n] = "FAILED" => <<n, attempts[n], "bad">> \in files
    /\ ~(<<n, attempts[n], "ok">> \in files /\ <<n, attempts[n], "bad">> \in files)

(* Nothing that needs the user's word goes on without a receipt of it.     *)
ApprovedByUser ==
  /\ \A g \in ApprovalRequired :
       gst[g] \notin {"VALIDATED", "CANCELLED"} => approved[g] /\ g \in approvals
  /\ \A n \in Nodes :
       Def[n].kind = "approval" /\ nst[n] = "SUCCEEDED" =>
         <<n, attempts[n], "approval">> \in files

(* A graph that succeeded has all its required nodes behind it.            *)
SucceededMeansAll ==
  \A g \in Graphs : gst[g] = "SUCCEEDED" =>
    \A n \in NodesOf(g) : ~Def[n].optional => nst[n] = "SUCCEEDED"

(* A graph that is pausing, paused, waits for an approval, is being        *)
(* cancelled or is over leases no further node.                            *)
Leases(n) == nst[n] # "LEASED" /\ nst'[n] = "LEASED"

HeldGraphLeasesNothing ==
  [][\A n \in Nodes : Leases(n) => gst[G(n)] \in {"RUNNING", "NEEDS_INPUT"}]_vars

(* An action that is not idempotent has effects in one attempt at most; a  *)
(* goal turn is a fresh plan and no replay.                                *)
NoReplay ==
  \A n \in Nodes : OnceOnly(n) => Cardinality(ran[n]) <= 1

(* While a graph is paused nothing of it runs or is ready to run.          *)
PausedIsFrozen ==
  \A n \in Nodes : gst[G(n)] = "PAUSED" => nst[n] # "READY" /\ ~Busy(n)

(* The Agent's turn is never handed away under a node that still runs:     *)
(* what the next WAITING says is said of the owner.                        *)
TurnIsOwned ==
  \A n \in Nodes : nst[n] = "RUNNING" /\ exec[n] = "turn" => owner = n

(* A cancelled graph settles (dtg_scheduler_process_cancelling goes on     *)
(* where a failed write left it).                                          *)
CancelSettles == \A g \in Graphs : gst[g] = "CANCELLING" ~> gst[g] = "CANCELLED"

(* A pause takes effect, or is overtaken by a cancel, also while a turn    *)
(* that was started before it is still running.                            *)
PauseSettles == \A g \in Graphs : gst[g] = "PAUSING" ~> gst[g] # "PAUSING"

(* A graph does not run for ever: it ends, or waits for the user.  One     *)
(* node can hold it: dtg_scheduler_finalize_graph neither fails a graph    *)
(* for an optional node that is blocked nor counts that node as finished,  *)
(* so such a graph shows RUNNING until the user skips the node.            *)
HeldByOptional(g) ==
  \E n \in NodesOf(g) : Def[n].optional /\ nst[n] = "BLOCKED"

RunSettles ==
  \A g \in Graphs :
    gst[g] = "RUNNING" ~> gst[g] # "RUNNING" \/ HeldByOptional(g)

(* An attempt that was running when the host died is recorded as ended,    *)
(* if its graph goes on running.                                           *)
Orphan(n) ==
  nst[n] = "RUNNING" /\ exec[n] = "none" /\ Def[n].kind # "approval"

OrphansEnd ==
  \A n \in Nodes :
    Orphan(n) /\ gst[G(n)] = "RUNNING"
      ~> nst[n] # "RUNNING" \/ gst[G(n)] # "RUNNING"

(* The attempt of an Agent node ends when its turn reaches WAITING.        *)
AttemptEnds ==
  \A n \in Nodes :
    nst[n] = "RUNNING" /\ owner = n /\ ~agent.working ~> nst[n] # "RUNNING"
=============================================================================
